# A verification of Formance Wallets

TLA+ modules of the wallets service (`src/pkg`), the TLC configurations that
check them on small instances, and TLAPS proofs of the properties that matter
most, for every value of the constants.

## The system

The service is a stateless layer of HTTP handlers over the Formance Ledger.
Everything it knows is in the ledger: a wallet is the metadata of its main
balance account, a balance is an account, a hold is an account that a pending
debit pays into. A handler serves a request by a few calls to the ledger
(`GetAccount`, `ListAccounts`, `ListTransactions`, `CreateTransaction`,
`AddMetadataToAccount`); nothing is locked between them, and any number of
handlers, in any number of replicas, run at a time. So the hard behaviours are:

- **stale reads**: a transaction is built from what an earlier call returned;
- **races** of requests for one hold, one wallet or one balance name;
- **retries**: a call fails, or is executed and its answer lost, or the replica
  stops, and the client sends the request again under its Idempotency-Key, to
  which the ledger holds one body: the same body is answered without being
  executed, another body is refused. A retry must therefore post the very body
  of the first attempt although the clock and the accounts have moved;
- **conversions**: amounts are unbounded integers in the ledger, and some are
  cut to 64 bits on the way (`big.Int.Uint64`);
- **pages**: lists and the summary are read page by page while accounts appear,
  change and move funds between the pages;
- **starting together**: every replica looks for the ledger and creates it when
  there is none;
- **the client**: its goroutines share an access token without a lock, and its
  retries race with answers and requests that are merely late.

### Inventory

| part | code (under `src/pkg`) | state | operations | correct when |
|---|---|---|---|---|
| funds | `manager.go` Credit, Debit; `debit.go`, `credit.go`, `subject.go` | balances of accounts, Idempotency-Keys (ledger) | credit, debit at once, pending debit | a keyed debit takes effect once and its retry replays; a wildcard debit drains in order; no account is overdrawn |
| holds | `manager.go` ConfirmHold, VoidHold, GetHold; `hold.go` | balance, input volume, metadata and funding transaction of hold accounts (ledger) | confirm (in part, all, final), void | nothing leaves a hold twice, it ends once, an acknowledged end is the real one |
| scripts | `numscript/*.num`, `scripts.go` | none | send from ordered sources, refund in order | a refund gives no source more than it paid |
| order of balances | `balance.go` Less | none | sort, filter expired | a strict weak order, main last |
| wallet registry | `manager.go` CreateWallet, UpdateWallet; `wallet.go`, `metadata.go` | metadata of main accounts (ledger) | create, patch | one create per key takes effect; replies follow from it; identity never changes |
| balance registry | `manager.go` CreateBalance; `balance.go` | metadata of balance accounts (ledger) | create | each key keeps its own response; live attributes are of one request |
| chart | `chart.go` | none | names to addresses | dashes are stripped: names may share an address |
| metadata | `metadata.go` | metadata of accounts and transactions (ledger) | write, filter | users' keys are never taken for the service's |
| summary | `manager.go` GetWalletSummary | the handler's totals | read balances, look at the clock, read holds | exact when nothing moves; off by no more than what moved; each total of the right balances |
| lists | `manager.go` List..., fetchAndMapAllAccounts; `api/utils.go` | the client's token | first page, next page | everything once, nothing that was not asked for, pages of bounded size |
| HTTP handlers | `api/*.go` | none | decode, call the manager, encode | each outcome has a status and body that the client knows |
| start-up | `module.go`, `ledger_interface.go` EnsureLedgerExists | whether the ledger exists; where each replica is | get, create, listen | who serves has a ledger; the race costs little; all come to serve |
| client: methods | `client/v1.go`, `client/internal/utils/retries.go` | the attempts of a call | 16 methods | one effect per key; no success that is none; every call returns |
| client: sessions | `client/internal/hooks/clientcredentials.go` | the shared map of tokens | take, fetch, store, drop a token | a token covers its request and outlives it |
| client: conversions | `client/internal/utils/json.go` and others, `client/models` | none | values to JSON and parameters | not modelled |
| wiring, harness | `cmd/`, `testserver/` | none | | not modelled |

## Modules

| module | what it is |
|---|---|
| `Escrow` | abstract: what a hold promises |
| `Scripts` | what the Numscript programs do to amounts |
| `WalletFunds`, `MCWalletFunds` | credits, debits, holds: the state machine of the service and the ledger, with its properties; instances for TLC |
| `WalletFundsInvariant` | the inductive invariants of `WalletFunds` |
| `WalletFundsProofs` | proofs: scripts, the order of balances, types, debits under a key, draining in order, the invariant of holds, safety, refinement of `Escrow` |
| `IdempotentCreate` | abstract: what an Idempotency-Key promises of a create |
| `WalletRegistry`, `MCWalletRegistry` | CreateWallet and UpdateWallet, and instances |
| `WalletRegistryProofs` | proofs: the invariant of creates and patches, their properties, refinement of `IdempotentCreate` |
| `BalanceRegistry`, `MCBalanceRegistry` | CreateBalance, and instances |
| `BalanceRegistryProofs` | proofs: the invariant of creates, their properties, refinement of `IdempotentCreate` |
| `Accounts` | the metadata of accounts and transactions, the filters, and a page of a list of the ledger |
| `AccountsProofs` | proofs: the order of a list, what a page leaves for the next, which metadata tell what |
| `Lists`, `MCLists` | the four lists of the API read by a client, and an instance; uses `Accounts` |
| `ListsProofs` | proofs: the invariant of a reader, lists are complete and exact |
| `WalletSummary`, `MCWalletSummary` | GetWalletSummary, and an instance; uses `Accounts` |
| `WalletSummaryProofs` | proofs: sums over accounts, the invariant of a summary, its error, what it is when nothing moves, its totals |
| `StartUp`, `MCStartUp`, `StartUpProofs` | the replicas' start, an instance, and proofs |
| `ClientSession` | the token hook of the Go client |
| `WalletAPI` | what each route of the service answers |
| `ClientCalls`, `MCClientCalls` | the Go client against the service: composes `ClientSession`, which it implements, and `WalletAPI`; instances |
| `ClientCallsProofs` | proofs: the sessions, the invariant of calls, their properties, that they implement `ClientSession` |

In every module an operator whose name has a suffix (`Less_...`,
`IsClosed_Touched`, ...) and whose comment begins with "Defect" is a faulty
variant of the definition that follows it. It takes no part in the
specification; put in place of the definition, it must break the property
that `PROJECT.json` pairs it with. That is how each property is known to say
something about the code.

### WalletFunds

One wallet, one asset; `World` is every account outside the wallet.

| model | code |
|---|---|
| `balance`, `original`, `destination` | balance, input volume and metadata of accounts (`ledger_interface.go`, `hold.go`) |
| `funding` | what `ListTransactions` returns for a hold account: the postings to refund |
| `journal` | the Idempotency-Keys of the ledger, with their bodies |
| `handler` | the goroutine of a request: where it is, the body it will post, what it answered |
| `Credit`, `Debit`, `ConfirmHold`, `VoidHold` (and `...Refused`) | the functions of `manager.go` up to the call that follows the first reads |
| `ReadHold` | the second read of VoidHold (`manager.go:308`) |
| `CommitSend`, `CommitConfirm`, `CommitCancel`, `Replay`, `Conflict`, `Refuse` | the answers of the ledger to `CreateTransaction` |
| `Done` | the answer arrives, or is lost after the commit |
| `Fail` | a call fails without effect, or the replica stops |

`status`, `paid`, `released`, `refunded` are history: no action reads them to
decide anything.

A request arrives and makes its first reads in one step: arriving changes
nothing that anyone else sees, so no behaviour is lost. The reads of VoidHold
are two steps, since the hold may change between them; the reads of a
debit are one step, as balances are only read there for their expiry, which is
constant in this module. So the looks at the clock of one debit (`manager.go:198`,
one for each balance) are one instant. The ledger commits one transaction at a
time, which is what it promises.

A hold is an account like others, and `subject.go:41` takes any account of the
ledger for the source of a credit or the destination of a debit. So requests may
name the accounts of holds here (`Subjects`): a plain debit may pay into a hold
before it is opened, while it is open, or after it is over; a credit may drain
it; the destination of a hold may be another hold, which its confirmation pays
into. What then remains true of *every* hold is that it is opened once (`OpenedOnce`)
and that no funds are lost or made (`Conserved`, in `FundsConserved`). The rest
of what the service promises of a hold can only be kept for the holds whose accounts
no credit or debit names, `ApartHolds`, which is a set defined from the requests. They share
the ledger, the keys and the handlers with the others. The properties
of settling are about them: one funding transaction, the bound on refunds, true answers, the
refinement of `Escrow`. For the other holds the code does not keep them, as
`VoidFindsOneTransaction` shows below.

What the model assumes: amounts of credits and debits are at least 1 (Validate
refuses negative ones; zero posts nothing); a list of balances or
sources names each once, since what a Numscript program does with a source that it names
twice is up to the ledger; the names stored with balances are valid, so that the
check of `manager.go:209` never fails; a key that was refused, for
lack of funds for example, is not recorded by the ledger; a cancellation of an
empty hold has no postings and is refused. `Word` stands for 2^64; a
confirmation takes any integer amount, as the code does not validate it.

### WalletRegistry and BalanceRegistry

An account's metadata is a function from attributes to values; the ledger
merges what it is given into it (`Merge`), and keeps one call per key
(`journal`). A handler is at "look" (its GetAccount), "write" (its
AddMetadataToAccount) or, for a keyed create whose write failed, "recheck"; each
is a step. `WriteFails` covers a refusal, a failure without effect and an
answer lost after the effect: the code does not tell them apart. `Abandon` drops
a request anywhere. Hashes and JSON snapshots are modelled by what they
distinguish: the fingerprint of a create is the pair of its name and its
normalized metadata, an injective encoding; a snapshot is the response itself.

`Occupy` (external) lets an account appear at the address of a wallet that
does not exist: a credit does not check that the wallet does. UpdateWallet
answers "not found" to any failed read, as the code does. In `BalanceRegistry`
`AccountOf` maps the valid names to addresses, several to one.

The history `told` holds what clients were told under keys. Through it each
registry implements `IdempotentCreate`: the outcome of a key is the response
stored in the ledger for it, and nothing else is ever told under that key.

### Accounts, Lists and WalletSummary

`Accounts` holds what the two have in common. An account or transaction is a
record of what it stands for; `LedgerMetadata` gives the metadata the service
writes on it, a set of <<prefix, key, value>>, and a query matches an item that
has all of its metadata. A list of the ledger goes through places in order;
whether its later pages are of the time of the first page or of the time they
are read the code does not say, and both are allowed (`Views`).

| model | code |
|---|---|
| `parsePageSize`, `Answers` | `api/utils.go` and the four list handlers |
| `ListWallets`, `ListHolds`, `ListBalances`, `ListTransactions` | the queries of `manager.go:387-476` |
| `First`, `Page` | one request each; a token carries the query and the page size of the first page |
| `CreateAccount`, `PatchWallet`, `PostTransaction` | the rest of the service, between two pages |
| `FetchBalances`, `FetchHolds` | a turn of fetchAndMapAllAccounts in GetWalletSummary |
| the two steps of counting | the two looks at the clock (`manager.go:671`, `673`), with time passing in between |

In `Lists` the history `steady` holds what was in question from the first page
on; what comes or goes meanwhile may be in the list or not. In `WalletSummary`
`moved` adds up the funds moved since the call began.

### StartUp

`Start`, `GetLedger`, `CreateLedger`, `Listen` are the hooks of the
application in the order of `module.go`. The creation is a message to the
ledger: it may take effect while its replica waits, after it has given up, or
during its next start. Init's error ends the process and the platform, which is
not part of the repository, starts it again: `Start` of a replica that is down.

### ClientSession, WalletAPI and ClientCalls

`ClientSession` is the hook that gives a request its token. One goroutine's step
is one access to the shared map or one exchange; Go leaves the outcome of a
concurrent write and read of a map open, so `MapRace` may stop the process or
not. Time is in instants of any length; local steps take none, and an exchange
takes at most the timeout of the http client.

`WalletAPI` is a table: for each route the answers by which its handler says
that it did the operation, and those by which it refuses. `ClientCalls` puts the
methods of `v1.go` (which the generator has written out sixteen times; here they
are one action with a record of their differences) in front of it:

| model | code |
|---|---|
| `Request` | options, timeout of the operation, body and headers of a method |
| `Do`, `Answered`, `Lost` | the exchange, inside or outside of `utils.Retry` |
| `BackOff`, `Resume` | the loop of `retries.go` |
| `Decode` | the switch on status and content type that ends a method |
| `Refuse`, `Execute` (external) | the service and the ledger behind it: executed or not, answered in time, late, or not at all |

`wire` holds requests the service has not answered: a request that the client
has given up stays there and may be executed later. `effects` and `executed`
count what the service did.

## What the runs check

| run | question |
|---|---|
| `settle` | one hold over two balances, confirmed in part, in full, finally, and voided by two interleaving handlers: is it an escrow, are funds conserved, are the answers true? Meanwhile a second hold is also paid by a plain debit and drained by a credit: does that lose funds, or touch the first? |
| `retry` | keyed debits retried while a source expires, while others spend, and while a key serves two requests; wildcard debits: is a hold opened once, also when a debit pays into its account, and funded once when none does; does a committed debit replay, are balances drained in order? |
| `wallets` | keyed creates of one wallet, equal, equal but for null metadata, and different, racing with patches, one under the create's own key, with failures and an occupied address: replies, identity, one effect per key, the refinement of `IdempotentCreate` |
| `balances` | creates with and without keys racing for one address, through aliased names |
| `operating` | one goroutine calls each of the 16 methods with each retry configuration, with and without a time limit: does it understand the service, is it sent once when not retried, does it return in time? |
| `calling` | two goroutines retry a read and a keyed write, share tokens that expire soon, and requests arrive late: tokens, acknowledgements, one effect per key |
| `listing` | every list with every page size and a bad token, over three changes |
| `summary` | the summary of a wallet while funds move, in transactions with several accounts, balances expire and holds open |
| `starting` | three replicas start together, with three faults |
| `large_hold_closed`, `balance_key_reuse`, `refused_token` | violations, below |

**Bounds.** Two handlers are enough for the races here: each involves a read
and a write of one request, and the write of another. Two keys give a reused key
and a foreign one. Three balances give an order among two besides main, and an
expiring one; a fourth (`spare`) is named but does not exist. `MaxReceived` (4 to 6) allows what each hazard needs: to fund, to
debit, to confirm in part, and two requests that race to settle; or to
create, to patch, to retry. `MaxTime` gives an instant before and after an
expiry (or two creation dates). `Word` is 16, with confirmations of
17 and of -1, and 2 where a hold must be larger. `Changes` (lists) is three: one before, one inside and one behind the
place that has been read; with `defaultLimit` 1 and `maxPageSize` 2 the six items
take several pages, and 5 is over the limit. `Moves` (summary) is two transactions, each
of which takes up to one unit (`Largest`) from any of the accounts at once, a hold of two being given back to
two balances; a page has one account, so that a transaction may come between any two pages: one that
takes from what is still to be read, and one that gives back to what was. `MaxFaults` is three, one for each
replica. The margin of tokens and the timeout of the http client are both one
instant, as both are a minute by default; lifetimes of 2 and 3 are the least that let a
token be reused, once and for some time. `MaxElapsed` (1 or 2; the code's 0, without a
limit, is in the proofs only, as its retries have no end to wait for) and `Intervals` let
a call be tried two or three times; a call that begins at 0 (`LastStart`) with these
is over before `MaxTime` = 8, so that the bound on time never stops one: `CallDuration`
says so itself.

Deadlock is not checked: when the requests, moves or changes allowed are used up the
system rightly stops, and a client or a start ends. `Receive` stops at
`MaxReceived`, `Tick` at `MaxTime`, and the bounds above stop the changes of the
environment; nothing else is bounded.

**Symmetry.** Handlers are interchangeable in `settle`, `retry`, `wallets` and
`large_hold_closed`, goroutines in `calling`: no expression
names one. Runs with a liveness property use no symmetry.

**Fairness.** Each assumption is about something that goes on by itself:

- `StartUp!FairSpec` (`starting`): the platform restarts what is down and a call
  that does not fail is answered. Faults end by their bound;
- `ClientCalls!FairSpec` (`operating`): a goroutine goes on, and the clock advances.
  Nothing is assumed of the service: its silence is ended by the timeout.

Nothing is assumed about the arrival of requests or about failures.

**What the violations show.** Where documents and code disagree, a run ends
with a counterexample:

- a hold whose remaining amount is a multiple of 2^64 is answered "closed", and
  can be neither confirmed nor voided, with all of it locked (`hold.go:79`
  against the API's "either confirmed or voided");
- CreateBalance replays the response of a key to a *different* request as a
  success (`manager.go:757`), where `error.go:28` says that a key reused with a
  different request is a conflict; CreateWallet does compare;
- the client keeps a token that the service has refused: AfterError would drop
  it, but it is called for statuses that match `"default"` (`v1.go:1068`), which none does.
  `hooks.go:60` says it is called after a non-successful response.

Nine more statements, of documents or of the code itself, are in the modules, each as a property that no
run lists because TLC refutes it; put it in the cfg of the run named to see how:

| property | the statement | what the code does | cfg |
|---|---|---|---|
| `ConfirmReplyMeansPaid` | `openapi.yaml:564`, amount of a confirmation | a hold above 2^64 is acknowledged as confirmed having moved the low 64 bits (`hold.go:99`) | `LargeHoldClosed.cfg` |
| `VoidFindsOneTransaction` | `manager.go:305`, "expected 1 transaction" into a hold; `openapi.yaml:710`, "later either confirmed or voided" | a debit whose subject is the account of a hold (`subject.go:41`) is a second one, and the hold can no longer be voided | `Settle.cfg` |
| `ErrorsAreTyped` | README of the client, 181-184: an error is an ErrorResponse or an SDKError | codes it does not know (`errorresponse.go:37`), such as CONFLICT and REQUEST_TOO_LARGE, end as errors of decoding | `Operating.cfg` |
| `LimitBoundsTheCall` | `formance.go:133`: the timeout is applied to each operation | the token request is outside of it (`v1.go:944`) | `Operating.cfg` |
| `PageFitsPageSize` | `openapi.yaml:885`, items requested per page | the answer echoes the size of this request, the page has that of the token (`utils.go:91`) | `Listing.cfg` |
| `WalletTransactionsListed` | `openapi.yaml:48`, a wallet ID to filter on | transactions of the main balance only (`manager.go:455`) | `Listing.cfg` |
| `EveryBalanceCounted` | `openapi.yaml:1181`, available or expired | a balance that expires between the two looks at the clock is neither (`manager.go:676`) | `Summary.cfg` |
| `AvailableIsSpendable` | `openapi.yaml:1181`, available to debit | a zero expiry is none for Debit (`manager.go:197`) and long past for the summary (`manager.go:671`) | `Summary.cfg` |
| `SummaryOfAWallet` | `openapi.yaml:266`, 404 for no wallet | a wallet that does not exist has a summary of zeroes (`handler_wallets_summary.go:10`) | `Summary.cfg`, with `Wallet = "w2"`, which has no main account |

## What is proved

For any numbers of balances, holds, wallets, keys, handlers, requests, replicas,
faults, goroutines, accounts, pages and instants, any `Word`, expiry, priority,
metadata, page sizes, scopes, lifetimes and retry configurations:

| module | theorem | statement |
|---|---|---|
| `WalletFundsProofs` | `LessIsStrictWeakOrder` | `Balances.Less` is what `sort.Stable` requires |
| | `TypeCorrect` | `Spec => []TypeOK`: among others, no account is overdrawn |
| | `KeyedDebitsReplay` | `DebitRetryReplays` |
| | `DebitsDrainInOrder` | `DrainsInOrder` |
| | `Safety` | `Spec => []Inv` |
| | `HoldsAreFundedOnce` | `SingleFunding`: for a hold that no other request names, one transaction into it when it is open, none before |
| | `HoldsAreOpenedOnce` | `OpenedOnce`, for every hold |
| | `HoldsConserve` | `FundsConserved` |
| | `AnswersAreTrue` | `AnswersTruthful` |
| | `ClosedHoldsStayClosed` | `ClosedForever` |
| | `HoldsImplementEscrow` | `Spec => ImplementsEscrow` |
| `WalletRegistryProofs` | `TypeCorrect`, `SuccessesMatch` | `TypeOK`, `RepliesMatchRequests` |
| | `ConflictsAreOfOthers`, `KeysExecuteOnce` | `ConflictsAreReal`, `EffectOncePerKey` |
| | `IdentityNeverChanges`, `PatchesTakeEffect` | `IdentityImmutable`, `PatchInForce` |
| | `WalletsImplementIdempotentCreate` | `Spec => ImplementsIdempotentCreate` |
| `BalanceRegistryProofs` | `TypeCorrect`, `BalancesAreOfOneRequest` | `TypeOK`, `OneRequestsBalance` |
| | `RetriesReplay` | `RetryReplays` |
| | `BalancesImplementIdempotentCreate` | `Spec => ImplementsIdempotentCreate` |
| `StartUpProofs` | `Starting`, `ServingHasLedger`, `RaceCostsOneStart` | `Inv`, `ServingMeansLedger`, `StartsBounded` |
| `AccountsProofs` | `AscendingOrder`, `LedgerPages` | a list is in order, without repetition; a page and its cursor leave out nothing |
| `ListsProofs` | `ListsAreComplete`, `PagesStayBounded`, `ListsAreExact` | `ListedOnce`, `PagesBounded`, `OnlyWhatWasAsked` |
| `WalletSummaryProofs` | `SummaryErrs`, `QuietSummary`, `SummaryTotals` | `ErrorWithinMoves`, `QuietSummaryExact`, `TotalsByExpiry` |
| `ClientCallsProofs` | `Sessions`, `TokensOutliveRequests`, `TokensCoverRequests` | of `ClientSession`: `SessionInv`, `ReusedTokenOutlivesRequest`, `TokenCoversRequest` |
| | `ClientUsesSession`, `ClientTokens` | `Spec => SessionSpec`, and with it the two properties of tokens |
| | `CallsTypeCorrect`, `DoneMeansExecuted` | `TypeOK`, `AckMeansDone` |
| | `KeysHaveOneEffect`, `NotRetriedNotRepeated` | `OneEffectPerKey`, `UnretriedOnce` |
| | `SuccessesAreUnderstood` | `SuccessIsUnderstood` |
| | `CallsEndInTime` | `CallDuration` |

The proofs assume only the named ASSUMEs of the modules. `WalletFunds`: the kinds of
accounts are disjoint, distinct keys derive distinct hold identifiers (a hash
without collisions), the main balance does not expire, requests are well formed.
`BalanceRegistry`: valid names are names and have addresses, and no value is the
absent one. `WalletRegistry`: the absent value is no response and no call of the
ledger, and distinct keys derive distinct wallet identifiers. `Lists`: the accounts there are at first are finitely many; accounts
and transactions have the fields of their kinds and metadata that are pairs;
places are integers above `Start`, and `Start + Changes < 0`, since a new transaction
comes before the earlier ones and `Start` before all of them. `WalletSummary`: the accounts
there are at first are finitely many, at integer places above `Start`, and none is overdrawn (what `TypeCorrect`
says of `WalletFunds`); an account is created without funds; the zero time is in the past and
no expiry is no instant. `ClientCalls`: options
and configurations are what the methods take; any intervals and any elapsed time, of which 0
is no limit. `ClientSession`: the timeout of the http client is at most the margin;
with a longer one a reused token may expire on its way.

**Funds.** None of the safety properties is inductive: an acknowledged
void is true because of what the body in flight carried, and that because of
what the handler read. `Inv` says of every point of a request's life what makes
the next one right:

- `FundingOK`: the account of an apart hold is untouched or was funded by one transaction,
  which brought all that ever came in;
- `HoldIdsOK`: a hold identifier in flight is the one of its key, and a
  hold with that identifier exists only if the key is recorded, or it is random
  and nobody else's. So to open a hold again would need a key that is
  recorded, and the ledger then executes nothing: `OpenedOnce` for every hold, since this part
  does not depend on what else pays into it, and `SingleFunding` for those apart;
- `SettlementsOK`: a body on its way to an apart hold names that hold's own funding
  postings, and the amount of a full confirmation is at least what remains *now*:
  those holds only shrink, so a stale read errs on the side that the ledger
  refuses;
- `JournalOK`: what a key records did happen, so that a replay tells the truth;
- `AcksOK`: the answers given are true, and remain so since an ended hold stays
  so (`OutcomesLast`).

The step lemmas follow the actions: `ReceiveInv`, `ReadHoldInv`, `CommitSendInv`,
`CommitConfirmInv`, `CommitCancelInv` and the steps that leave the ledger alone.
`StepInv` combines them, with `Advance`, what a step may do to a hold, from
which `ClosedForever` follows. The arithmetic of scripts is in lemmas on cuts
(`CutsFund`, `RefundOfSource`, ...); cuts are partial sums, so that no sum has to
be taken by recursion. `HoldsImplementEscrow` maps each commit to a step of
`Escrow` and the other steps to stutters.

`TypeOK` says of an apart hold what `RequestsLeaveApart` says of the requests: no body on its way takes from its
account or pays into it but its own debit and its settlements. Every commit has then two cases, the hold
it settles and the holds it leaves alone.

**Debits under a key.** That a retry replays says that two bodies, made at
different times, are equal. `DebitsOK` (in `WalletFundsInvariant`) says of a body on
its way, and of a recorded one, that the request would make the same body now
(`Repeats`): a debit with a key is refused when it asks for `*` or names a balance that
has yet to expire, and what has expired stays so. That its balances
then come in one order (`OneOrdering`) is shown at the first place where two such orders
differ. `SourcesOK` says that a body on its way takes from
balances in the order of its request; a balance is only drawn on when the
earlier cuts have taken all of what comes before it (`CutsDrain`): `DrainsInOrder`.

**Creation and patching of wallets.** The accounts are overwritten whole, by patches that have
read them earlier. `Inv` of `WalletRegistryProofs` says that a wallet under a key was created
by the call that the ledger knows under it, that all calls known for a wallet
agree with it in its identity (`LedgerInv`), and that a task about to write
carries the identity of the wallet as it is *now* (`UpdateTask`) or, of a keyed
create, the response and the fingerprint of its own request (`CreateTask`). So a
late write of an old account changes fields but not the identity, and a
repeated call finds its key known. A create without a key needs `UniqueIds`: no two have the same
random identifier.

**Creation of balances.** What clients were told is in the past, while the
accounts are overwritten. `Inv` of `BalanceRegistryProofs` ties the two by the
markers: a key that the ledger knows has left the response of its request at
the address of that request (`JournalOK`), no marker is anywhere else
(`MarkersOK`), and what was told under a key is the marker at the address that the
client asked for (`ToldOK`). `Execute` writes the marker of a key that had none,
and merging never removes one. So a key has one outcome at the most, a retry that
finds the balance finds its marker, and each step is one of `IdempotentCreate`: an
executed call is its `Create`, an answer from a marker or of a repeated call its
`Replay`, and the rest stutters.

**Start-up.** `ServingMeansLedger` is inductive but `StartsBounded` is not: `StartsLeft`
adds that a replica has a start to spare as long as the ledger does not exist, or
when it has found none; it loses that start only when its creation is refused, and
then the ledger exists and every later start without a fault succeeds.

**Sessions.** `Covers` says from which step on what a goroutine has in hand covers
its scopes, whatever the map holds by then; `Outlasts` that a token taken from the map
has the margin left when its request leaves, and that the request is due before
the expiry, which no step of another goroutine can change.

**Calls of the client.** The steps of a call are shown to be steps of `ClientSession` or stutters
(`ClientUsesSession`), so that what is proved of the sessions holds of them. `Inv` of
`ClientCallsProofs` adds: what a call has in hand agrees with where its hook is (`StepOK`);
by when its last attempt begins, and its token request and exchange end
(`TimeOK`); that the request of an only attempt has no effect before it is sent and one at most
(`EffectOK`), that a late one carries the key of its call and is of an
attempt that was made (`WireOK`); that a success of a write stands for an effect,
its own or one that the ledger remembers under its key (`AckOK`); and that
the calls of a key have one effect between them, which the ledger remembers (`KeyInv`). That each of the
16 methods takes its route's acknowledgements, and no refusal, for a success (`Understood`) is
a lemma on the table of `WalletAPI`.

**Lists.** `LedgerPages` says of one page that it has the first of what comes after the
cursor, and that its own cursor leaves no gap. `Reads`, of the reader, is what
pages add up to: up to the place of its cursor everything steady is
listed, nothing beyond is, and the list is in strict order, hence without repetition.
New accounts may come at any place and new transactions come before all others,
so that a change never brings something steady behind the cursor or takes it away; a cursor
that shows the time of the first page finds what was in question then
(`ViewOK`). `ReservedTell` and `CustomTell` say that the metadata by which a
query looks tell exactly the kind, the wallet and the users' own data of an item: nobody's own
metadata is taken for the service's. They are about every account that
`IsAccount` allows, those of other applications included.

**Summary.** What is listed and what has moved say nothing about each other until one
counts what is still to come. `FundsIn` is what the summary has listed and what its
cursor has ahead: of the ledger as it is, or of the time of the first page if that is
what the cursor shows. A page lists what it takes from what is ahead (`PageRows`), so that
reading leaves `FundsIn` as it is; a transaction changes what is ahead by no more than
its amount (`AheadMoves`, `MoveKeeps`), wherever the cursor is and whichever accounts it
takes from and gives to, since of its amount at the most all is taken ahead of the cursor and
given behind it, or the other way round (`TransactionKeeps`). That is `ErrorOK`. `QuietOK` says of a summary during which nothing has changed that each
balance is listed or ahead, not both, and the funds of the holds likewise. `TotalsOK`
divides the rows counted so far in three (`CountedAs`): available, which had not expired when the
call began; expired, which have by now; and those that expired between the two looks
at the clock and are in no total. In `WalletSummary` sums are folds (`FoldSet`), defined by recursion,
and the theorems of induction that take an operator cannot be used. So the proofs show
with a least counterexample (`SmallestSet`) that for each finite set there is a function from its subsets to
their sums that adds the amount of each new member (`AdditiveExists`), that the fold
follows it whatever the order is in which it takes the members (`AmountsAre`), and then what the
rest needs: sums of unions, of parts, of lists and of the ledgers before and after a transaction
(`SumUnion`, `SumPart`, `SumOfLists`, `TotalPosted`, `TotalAdded`).

**Only model-checked**: the two liveness properties (`AllServe`,
`EveryCallReturns`), which the provers do not reach: a proof of progress needs ENABLED. Every
other property of a passing run is a theorem above. The three violations are
counterexamples, for which TLC is enough.

The provers do not look into the operators of TLC's own modules; so `Accounts` defines
the order of a list (`Ascending`) and the ledger with one more item (`Added`) itself.

## Not modelled

- The **conversions of the client** (`json.go`, `requestbody.go`, `queryparams.go`,
  `security.go`, the models): reflection over struct tags within one goroutine,
  with no state; a unit test reaches what a model would.
- **Command line, telemetry, audit, authentication**: library wiring. The order of
  the hooks is in `StartUp` and a refusal of authentication in `WalletAPI`.
- **Rendering of Numscript**, URLs, JSON, timestamps, logging: wording and layout. What
  the scripts do is in `Scripts`.
- **Links to the previous page** of a list: the tokens are the ledger's.
- The **test server** and the end-to-end tests.
- The prefix of the addresses in `chart.go`, a constant string.

Five hazards have no property that a run passes. Two of them the code does not avoid, and what
a document says of them is refuted above: the amount of a confirmation cut to 64 bits
(`hold.go:99`, `ConfirmReplyMeansPaid`) and the error codes that the client does not know
(`errorresponse.go:37`, `ErrorsAreTyped`). Of three, nothing in the repository says what
should hold: the lost update of two patches to different fields
(`manager.go:608`), the window between the existence check and the write of a
create (`manager.go:511`), and a balance that expires between the check and the
commit of a debit (`manager.go:195`). The models contain these three, and the
properties around them (`PatchInForce`, `IdentityImmutable`, `FundsConserved`) say
what remains true.

## What is planned

The composition of `WalletFunds` with `BalanceRegistry`: debits while balances
are created and given other expiries and priorities.
