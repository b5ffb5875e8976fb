------------------------------- MODULE Lists -------------------------------
(***************************************************************************)
(* The lists of the API: wallets, balances, holds and transactions         *)
(* (src/pkg/api/handler_*_list.go, src/pkg/manager.go), read page by page  *)
(* by a client that follows the cursors, while accounts are created,       *)
(* wallets patched and transactions posted.  One page is one call to the   *)
(* ledger, so a page is one step.                                          *)
(***************************************************************************)
EXTENDS Accounts

CONSTANTS
    Requests,       \* lists a client may ask for: [op, wallet, name, custom]
    PageSizes,      \* values of the parameter pageSize
    NoPageSize,     \* it is absent
    NotANumber,     \* it is not an integer
    Garbled,        \* a pagination token that the ledger did not issue
    defaultLimit, maxPageSize,
    FirstAccounts,  \* the accounts there are at first, by their place
    NewAccounts,    \* accounts that may be created
    Spots,          \* places of new accounts
    Patches,        \* custom metadata of patches of a wallet
    NewTransactions,
    Changes         \* bound: changes to the ledger while the client reads

ASSUME LimitsAssumption ==
    /\ {defaultLimit, maxPageSize} \subseteq Nat \ {0}
    /\ defaultLimit <= maxPageSize
    /\ PageSizes \subseteq Int \union {NoPageSize, NotANumber}

\* What the service and its users write: metadata are pairs of a key and a
\* value, and a balance has none of its users.
IsCustom(custom) == \A q \in custom : q = <<q[1], q[2]>>

IsAccount(a) ==
    /\ a = [kind |-> a.kind, wallet |-> a.wallet, name |-> a.name, custom |-> a.custom]
    /\ a.kind \in {"wallet", "balance", "hold", "foreign"}
    /\ IsCustom(a.custom)
    /\ a.kind = "balance" => a.custom = {}

IsTransaction(t) ==
    /\ t = [kind |-> t.kind, touches |-> t.touches, custom |-> t.custom]
    /\ t.kind \in {"transaction", "foreign"}
    /\ IsCustom(t.custom)

ASSUME LedgerAssumption ==
    /\ IsFiniteSet(DOMAIN FirstAccounts)
    /\ FirstAccounts = [i \in DOMAIN FirstAccounts |-> FirstAccounts[i]]
    /\ \A i \in DOMAIN FirstAccounts \union Spots : i \in Int /\ i > Start
    /\ Changes \in Nat /\ Start + Changes < 0
    /\ \A i \in DOMAIN FirstAccounts : IsAccount(FirstAccounts[i])
    /\ \A a \in NewAccounts : IsAccount(a)
    /\ \A p \in Patches : IsCustom(p)
    /\ \A t \in NewTransactions : IsTransaction(t)

\* The list of transactions has no metadata among its parameters.
ASSUME RequestsAssumption ==
    \A r \in Requests :
        /\ r.op \in {"ListWallets", "ListHolds", "ListBalances", "ListTransactions"}
        /\ IsCustom(r.custom)
        /\ r.op = "ListTransactions" => r.custom = {} /\ AnyValue # <<r.wallet, MainBalance>>

VARIABLES
    accounts,       \* accounts of the ledger, by place
    transactions,   \* its transactions, by place
    reader,         \* the client that reads a list
    steady,         \* places that were in question from the first page on
    changes         \* changes so far

vars == <<accounts, transactions, reader, steady, changes>>

Idle == [step |-> "idle", request |-> AnyValue, asked |-> NoPageSize, status |-> 0,
         cursor |-> NoCursor, listed |-> <<>>, pageSize |-> 0, count |-> 0, first |-> {}, there |-> {}]

Init ==
    /\ accounts = FirstAccounts
    /\ transactions = <<>>
    /\ reader = Idle
    /\ steady = {}
    /\ changes = 0

----------------------------------------------------------------------------
\* Defect: any positive limit is passed on.
parsePageSize_Unclamped(asked) ==
    IF asked = NoPageSize THEN defaultLimit
    ELSE IF asked = NotANumber \/ asked < 1 THEN 0 ELSE asked

\* api/utils.go: a limit, or 0 for an error.
parsePageSize(asked) ==
    IF asked = NoPageSize THEN defaultLimit
    ELSE IF asked = NotANumber \/ asked < 1 THEN 0
    ELSE IF asked > maxPageSize THEN maxPageSize ELSE asked

\* The queries of the four lists.
ListWallets(r) ==
    Query({Reserved("spec/type", "wallets.primary")} \union EncodeCustomMetadata(r.custom)
          \union (IF r.name = AnyValue THEN {} ELSE {Reserved("name", r.name)}))

ListHolds(r) ==
    Query({Reserved("spec/type", "wallets.hold")} \union EncodeCustomMetadata(r.custom)
          \union (IF r.wallet = AnyValue THEN {} ELSE {Reserved("holds/wallet_id", r.wallet)}))

ListBalances(r) == Query(BalancesMetadataFilter(r.wallet) \union EncodeCustomMetadata(r.custom))

\* Transactions are those of the account of the main balance.
ListTransactions(r) ==
    [metadata |-> {Reserved("transaction", "true")},
     account |-> IF r.wallet = AnyValue THEN AnyValue ELSE <<r.wallet, MainBalance>>]

QueryOf(r) ==
    CASE r.op = "ListWallets" -> ListWallets(r)
      [] r.op = "ListHolds" -> ListHolds(r)
      [] r.op = "ListBalances" -> ListBalances(r)
      [] r.op = "ListTransactions" -> ListTransactions(r)

Items(op) == IF op = "ListTransactions" THEN transactions ELSE accounts

----------------------------------------------------------------------------
\* What the list is about, in the words of the API.
Asked(r, item) ==
    /\ r.op = "ListWallets" => item.kind = "wallet" /\ r.name \in {AnyValue, item.name}
    /\ r.op = "ListHolds" => item.kind = "hold" /\ r.wallet \in {AnyValue, item.wallet}
    /\ r.op = "ListBalances" => item.kind \in {"wallet", "balance"} /\ item.wallet = r.wallet
    /\ r.op = "ListTransactions" =>
          /\ item.kind = "transaction"
          /\ r.wallet # AnyValue => \E b \in item.touches : b = <<r.wallet, MainBalance>>
    /\ r.custom \subseteq item.custom

InQuestion(r) == {i \in DOMAIN Items(r.op) : Asked(r, Items(r.op)[i])}

\* mapListError: the ledger's refusal of a token is the client's error.
mapListError(token) == IF token = Garbled THEN 400 ELSE 500

\* The handler of a list: readPaginatedRequest, the manager, which may get an
\* error of the ledger, and cursorFromListResponse.
Answers(r, asked, token) ==
    LET limit == parsePageSize(asked)
        refusal(status) == [status |-> status, data |-> <<>>, next |-> NoCursor, pageSize |-> 0]
        page(view) == mapAccountList(Items(r.op), view, QueryOf(r), limit, token)
    IN  IF limit = 0 THEN {refusal(400)}
        ELSE {refusal(mapListError(token))}
             \union (IF token = Garbled THEN {}
                     ELSE {[status |-> 200, data |-> page(view).data, next |-> page(view).next,
                            pageSize |-> limit] : view \in Views(Items(r.op))})

\* The client puts the pages one after the other.
Read(before, answer) ==
    [before EXCEPT
        !.step = IF answer.status # 200 THEN "refused"
                 ELSE IF answer.next = NoCursor THEN "done" ELSE "reading",
        !.status = answer.status, !.cursor = answer.next, !.pageSize = answer.pageSize,
        !.listed = @ \o answer.data, !.count = Len(answer.data)]

\* The first page, or a page by a token that is none.
First ==
    /\ reader.step = "idle"
    /\ \E r \in Requests, asked \in PageSizes, token \in {NoCursor, Garbled} :
          /\ \E answer \in Answers(r, asked, token) :
                reader' = Read([Idle EXCEPT
                    !.request = r, !.asked = asked, !.first = InQuestion(r),
                    !.there = DOMAIN Items(r.op)], answer)
          /\ steady' = InQuestion(r)
    /\ UNCHANGED <<accounts, transactions, changes>>

\* Any further page; the client repeats its page size or leaves it out.
Page ==
    /\ reader.step = "reading"
    /\ \E asked \in {reader.asked, NoPageSize} :
          \E answer \in Answers(reader.request, asked, reader.cursor) : reader' = Read(reader, answer)
    /\ UNCHANGED <<accounts, transactions, steady, changes>>
----------------------------------------------------------------------------
Changed ==
    /\ changes < Changes
    /\ changes' = changes + 1

StillSteady ==
    steady' = IF reader.step = "reading" THEN steady \intersect InQuestion(reader.request)' ELSE steady

\* A wallet, a balance or a hold is created, somewhere in the order.
CreateAccount ==
    /\ Changed
    /\ \E i \in Spots \ DOMAIN accounts, a \in NewAccounts : accounts' = Added(accounts, i, a)
    /\ UNCHANGED <<transactions, reader>>
    /\ StillSteady

\* A wallet is patched: its custom metadata take those of the patch.
PatchWallet ==
    /\ Changed
    /\ \E i \in DOMAIN accounts, p \in Patches :
          /\ accounts[i].kind = "wallet"
          /\ accounts' = [accounts EXCEPT ![i].custom =
                {q \in @ : \A x \in p : x[1] # q[1]} \union p]
    /\ UNCHANGED <<transactions, reader>>
    /\ StillSteady

\* A transaction is posted: the newest, so the first.
PostTransaction ==
    /\ Changed
    /\ \E t \in NewTransactions :
          transactions' = Added(transactions, -1 - Cardinality(DOMAIN transactions), t)
    /\ UNCHANGED <<accounts, reader>>
    /\ StillSteady

Next == First \/ Page \/ CreateAccount \/ PatchWallet \/ PostTransaction

Spec == Init /\ [][Next]_vars
----------------------------------------------------------------------------
Listed == {reader.listed[n] : n \in 1 .. Len(reader.listed)}

(***************************************************************************)
(* What a client has read to the end has everything that was in question   *)
(* from its first page on, although things were created and patched        *)
(* between its pages, and nothing twice.                                   *)
(***************************************************************************)
ListedOnce ==
    /\ Cardinality(Listed) = Len(reader.listed)
    /\ reader.step = "done" => steady \subseteq Listed

(***************************************************************************)
(* A page has what was asked for and nothing else: no wallet in a list of  *)
(* holds, nothing of another wallet, and nobody's own metadata is taken    *)
(* for the service's.                                                      *)
(***************************************************************************)
OnlyWhatWasAsked ==
    [][\A n \in Len(reader.listed) + 1 .. Len(reader'.listed) :
          LET i == reader'.listed[n] IN
          \/ i \in InQuestion(reader'.request)
          \/ reader.step = "reading" /\ reader.cursor.view # Live /\ i \in reader.first]_vars

(***************************************************************************)
(* No page is longer than the service allows, whatever is asked for.       *)
(***************************************************************************)
PagesBounded == reader.count <= maxPageSize

(***************************************************************************)
(* openapi.yaml:885, Cursor.pageSize: "Number of items requested per       *)
(* page".  Here: no page has more items than it says were requested.       *)
(***************************************************************************)
PageFitsPageSize == reader.count <= reader.pageSize

(***************************************************************************)
(* openapi.yaml:48: walletID of the list of transactions is "A wallet ID   *)
(* to filter on".  Here: the transactions of a wallet that were there from *)
(* the first page on are all listed, whichever of its balances they touch. *)
(***************************************************************************)
WalletTransactionsListed ==
    reader.step = "done" /\ reader.request.op = "ListTransactions" /\ reader.request.wallet # AnyValue =>
        \A i \in reader.there :
            /\ transactions[i].kind = "transaction"
            /\ \E b \in transactions[i].touches : b[1] = reader.request.wallet
            => i \in Listed
=============================================================================
