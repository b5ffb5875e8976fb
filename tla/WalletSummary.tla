--------------------------- MODULE WalletSummary ---------------------------
(***************************************************************************)
(* GetWalletSummary (src/pkg/manager.go): the balances of a wallet, page   *)
(* by page, added up by expiry against the clock; then its holds, page by  *)
(* page.  Meanwhile the wallet is credited, debited, its funds are moved   *)
(* between its balances, locked, paid from holds and given back, and the   *)
(* clock goes on.  One asset.                                              *)
(***************************************************************************)
EXTENDS Accounts

CONSTANTS
    Wallet,         \* the wallet of the summary
    FirstAccounts,  \* its accounts and others, by place:
                    \* [kind, wallet, name, custom, expiresAt, amount]
    NewAccounts,    \* holds and balances that may be created, by place
    Never,          \* expiresAt of a balance without expiry
    Zero,           \* the zero time, an instant long past
    Largest,        \* bound: funds moved from or to one account at once
    Moves,          \* bound: moves while the summary is made
    MaxTime,        \* bound: instants
    maxPageSize     \* accounts per page

ASSUME SummaryAssumption ==
    /\ maxPageSize \in Nat \ {0}
    /\ Never \notin Int
    /\ Zero \in Int /\ Zero < 0
    /\ Largest \in Nat

\* A balance is created without funds, and a hold with those of its debit.
IsAccount(a) ==
    /\ a = [kind |-> a.kind, wallet |-> a.wallet, name |-> a.name, custom |-> a.custom,
            expiresAt |-> a.expiresAt, amount |-> a.amount]
    /\ a.kind \in {"wallet", "balance", "hold", "foreign"}
    /\ a.expiresAt \in Int \union {Never}
    /\ a.amount \in Nat

ASSUME LedgerAssumption ==
    /\ IsFiniteSet(DOMAIN FirstAccounts)
    /\ \A i \in DOMAIN FirstAccounts \union DOMAIN NewAccounts : i \in Int /\ i > Start
    /\ \A i \in DOMAIN FirstAccounts : IsAccount(FirstAccounts[i])
    /\ \A i \in DOMAIN NewAccounts : IsAccount(NewAccounts[i]) /\ NewAccounts[i].amount = 0

VARIABLES
    now,            \* the clock
    accounts,       \* the accounts of the ledger, by place, with what they hold
    call,           \* the handler
    before,         \* the wallet when the call began: total of its funds, the clock
    moved,          \* funds moved since
    moves           \* moves so far

vars == <<now, accounts, call, before, moved, moves>>

Amounts(rows, s) == FoldSet(LAMBDA i, sum : sum + rows[i].amount, 0, s)

Of(kinds) == {i \in DOMAIN accounts : accounts[i].wallet = Wallet /\ accounts[i].kind \in kinds}
BalanceKinds == {"wallet", "balance"}

Idle == [step |-> "idle", cursor |-> NoCursor, balances |-> <<>>, counted |-> 0, availableFunds |-> 0,
         expiredFunds |-> 0, expirableFunds |-> 0, holds |-> <<>>, holdFunds |-> 0]

Init ==
    /\ now = 0
    /\ accounts = FirstAccounts
    /\ call = Idle
    /\ before = [funds |-> 0, now |-> 0, changed |-> FALSE]
    /\ moved = 0
    /\ moves = 0

----------------------------------------------------------------------------
\* The two lists of the summary.
BalancesQuery == Query({Reserved("id", Wallet)})

\* Defect: the list is not restricted to the wallet.
HoldsQuery_Every == Query({Reserved("spec/type", "wallets.hold")})

HoldsQuery == Query({Reserved("holds/wallet_id", Wallet)})

\* ExpandedBalanceFromAccount, ExpandedDebitHoldFromLedgerAccount.
Rows(page) ==
    [n \in DOMAIN page.data |->
        [place |-> page.data[n], amount |-> page.rows[n].amount, expiresAt |-> page.rows[n].expiresAt]]

\* Defect: the second page is the last.
fetchAndMapAllAccounts_Two(query, view) ==
    LET page == mapAccountList(accounts, view, query, maxPageSize, call.cursor) IN
    IF call.cursor = NoCursor THEN page ELSE [page EXCEPT !.next = NoCursor]

\* A step of fetchAndMapAllAccounts: a page, and the cursor of the next one.
fetchAndMapAllAccounts(query, view) ==
    mapAccountList(accounts, view, query, maxPageSize, call.cursor)

\* GetWalletSummary begins with the first page of the balances.
Begin ==
    /\ call.step = "idle"
    /\ call' = [Idle EXCEPT !.step = "balances"]
    /\ before' = [funds |-> Amounts(accounts, Of(BalanceKinds \union {"hold"})), now |-> now, changed |-> FALSE]
    /\ moved' = 0
    /\ UNCHANGED <<now, accounts, moves>>

FetchBalances ==
    /\ call.step = "balances"
    /\ \E view \in Views(accounts) :
          LET page == fetchAndMapAllAccounts(BalancesQuery, view) IN
          call' = [call EXCEPT !.balances = @ \o Rows(page), !.cursor = page.next,
                               !.step = IF page.next = NoCursor THEN "count" ELSE "balances"]
    /\ UNCHANGED <<now, accounts, before, moved, moves>>

\* The list fails, and the summary with it.
FetchFails ==
    /\ call.step \in {"balances", "holds"}
    /\ call' = [call EXCEPT !.step = "failed"]
    /\ UNCHANGED <<now, accounts, before, moved, moves>>

Counting == call.balances[call.counted + 1]
Expiry == Counting.expiresAt

\* Defect: an expired balance is counted as expirable besides.
CountExpired_FallsThrough ==
    /\ call.step = "count"
    /\ call.counted < Len(call.balances)
    /\ call' =
         IF Expiry = Never
         THEN [call EXCEPT !.counted = @ + 1, !.availableFunds = @ + Counting.amount]
         ELSE [call EXCEPT !.step = "again",
                           !.expiredFunds = IF Expiry < now THEN @ + Counting.amount ELSE @,
                           !.availableFunds = IF Expiry < now THEN @ + Counting.amount ELSE @]
    /\ UNCHANGED <<now, accounts, before, moved, moves>>

\* The first case: ExpiresAt.Before(time.Now()); and without an expiry, the
\* last one, for which the clock is not read.
CountExpired ==
    /\ call.step = "count"
    /\ call.counted < Len(call.balances)
    /\ call' =
         IF Expiry = Never
         THEN [call EXCEPT !.counted = @ + 1, !.availableFunds = @ + Counting.amount]
         ELSE IF Expiry < now
         THEN [call EXCEPT !.counted = @ + 1, !.expiredFunds = @ + Counting.amount]
         ELSE [call EXCEPT !.step = "again"]
    /\ UNCHANGED <<now, accounts, before, moved, moves>>

\* The second case, with the clock read again.
CountExpirable ==
    /\ call.step = "again"
    /\ call' =
         IF Expiry < now
         THEN [call EXCEPT !.step = "count", !.counted = @ + 1]
         ELSE [call EXCEPT !.step = "count", !.counted = @ + 1,
                           !.expirableFunds = @ + Counting.amount,
                           !.availableFunds = @ + Counting.amount]
    /\ UNCHANGED <<now, accounts, before, moved, moves>>

\* All balances are counted.
Counted ==
    /\ call.step = "count"
    /\ call.counted = Len(call.balances)
    /\ call' = [call EXCEPT !.step = "holds"]
    /\ UNCHANGED <<now, accounts, before, moved, moves>>

FetchHolds ==
    /\ call.step = "holds"
    /\ \E view \in Views(accounts) :
          LET page == fetchAndMapAllAccounts(HoldsQuery, view)
              rows == call.holds \o Rows(page)
          IN  call' = [call EXCEPT
                  !.holds = rows, !.cursor = page.next,
                  !.step = IF page.next = NoCursor THEN "done" ELSE "holds",
                  !.holdFunds = Amounts(rows, DOMAIN rows)]
    /\ UNCHANGED <<now, accounts, before, moved, moves>>

GetWalletSummary ==
    \/ Begin \/ FetchBalances \/ FetchFails \/ CountExpired \/ CountExpirable \/ Counted
    \/ FetchHolds
----------------------------------------------------------------------------
\* The rest of the service, while the summary is made: one transaction of the
\* ledger each, of n.
MayMove == call.step \in {"balances", "count", "again", "holds"} /\ moves < Moves

Move(after, n) ==
    /\ MayMove
    /\ moves' = moves + 1
    /\ accounts' = after
    /\ moved' = moved + n
    /\ before' = [before EXCEPT !.changed = TRUE]
    /\ UNCHANGED <<now, call>>

\* What Debit takes for not expired: no expiry, the zero time, or not yet.
Spendable(expiresAt) == IF expiresAt \in {Never, Zero} THEN TRUE ELSE expiresAt >= now

\* What a transaction takes from, or gives to, each of some accounts.
Postings(places) == [places -> [amount : 0 .. Largest]]
At(i, n) == [place \in {i} |-> [amount |-> n]]
Elsewhere == [place \in {} |-> [amount |-> 0]]
Whole(p) == Amounts(p, DOMAIN p)
Share(p, i) == IF i \in DOMAIN p THEN p[i].amount ELSE 0

Covered(take) == \A i \in DOMAIN take : take[i].amount <= accounts[i].amount

Posted(take, give) ==
    [i \in DOMAIN accounts |->
        [accounts[i] EXCEPT !.amount = @ - Share(take, i) + Share(give, i)]]

\* A transaction of n that takes from accounts of the wallet, and gives to them.
Transaction(take, give, n) == n > 0 /\ Covered(take) /\ Move(Posted(take, give), n)

\* The sources may be accounts of the wallet, its holds among them, and others.
Credit ==
    /\ MayMove
    /\ \E take \in Postings(Of(BalanceKinds \union {"hold"})), b \in Of(BalanceKinds), others \in 0 .. Largest :
          LET n == Whole(take) + others IN Transaction(take, At(b, n), n)

\* The destination is another account, or one of the wallet.
Debit ==
    /\ MayMove
    /\ \E take \in Postings({b \in Of(BalanceKinds) : Spendable(accounts[b].expiresAt)}) :
          LET n == Whole(take) IN
          \E give \in {Elsewhere} \union {At(b, n) : b \in Of(BalanceKinds \union {"hold"})} :
              Transaction(take, give, n)

\* A pending debit: a new account with the metadata of a hold.
Hold ==
    /\ MayMove
    /\ \E h \in DOMAIN NewAccounts \ DOMAIN accounts,
          take \in Postings({b \in Of(BalanceKinds) : Spendable(accounts[b].expiresAt)}) :
          LET n == Whole(take) IN
          /\ NewAccounts[h].kind = "hold"
          /\ n > 0
          /\ Covered(take)
          /\ Move(Added(Posted(take, Elsewhere), h, [NewAccounts[h] EXCEPT !.amount = n]), n)

\* A balance is created, with nothing in it.
CreateBalance ==
    \E b \in DOMAIN NewAccounts \ DOMAIN accounts :
        NewAccounts[b].kind = "balance" /\ Move(Added(accounts, b, NewAccounts[b]), 0)

\* A hold is paid out, to another account or to one of the wallet.
ConfirmHold ==
    /\ MayMove
    /\ \E h \in Of({"hold"}) : \E n \in 1 .. accounts[h].amount :
          \E give \in {Elsewhere} \union {At(b, n) : b \in Of(BalanceKinds \union {"hold"})} :
              Transaction(At(h, n), give, n)

\* A hold is given back to the balances that it came from.
VoidHold ==
    /\ MayMove
    /\ \E h \in Of({"hold"}), give \in Postings(Of(BalanceKinds)) :
          LET n == accounts[h].amount IN
          Whole(give) = n /\ Transaction(At(h, n), give, n)

Tick ==
    /\ now < MaxTime
    /\ now' = now + 1
    /\ UNCHANGED <<accounts, call, before, moved, moves>>

Next == GetWalletSummary \/ Credit \/ Debit \/ Hold \/ CreateBalance \/ ConfirmHold \/ VoidHold \/ Tick

Spec == Init /\ [][Next]_vars
----------------------------------------------------------------------------
Done == call.step = "done"
PlacesOf(rows) == {rows[n].place : n \in DOMAIN rows}
Abs(n) == IF n < 0 THEN -n ELSE n

\* The amounts of the listed balances with such an expiry.
ListedWith(Test(_)) ==
    Amounts(call.balances, {n \in DOMAIN call.balances : Test(call.balances[n].expiresAt)})
Listed == Amounts(call.balances, DOMAIN call.balances)

(***************************************************************************)
(* However the funds of the wallet move while the summary is made - into   *)
(* holds that come up behind or before the page that is read, back into    *)
(* balances already read - the balances and holds it lists are off the     *)
(* wealth of the wallet by no more than what moved.                        *)
(***************************************************************************)
ErrorWithinMoves ==
    Done => Abs(Listed + call.holdFunds - before.funds) <= moved

(***************************************************************************)
(* When nothing moves meanwhile the summary is exact: each balance of the  *)
(* wallet is listed once with what it holds, and the holds are those of    *)
(* the wallet and of no other one, on however many pages they are.         *)
(***************************************************************************)
QuietSummaryExact ==
    Done /\ ~before.changed =>
        /\ PlacesOf(call.balances) = Of(BalanceKinds)
        /\ Len(call.balances) = Cardinality(Of(BalanceKinds))
        /\ \A n \in DOMAIN call.balances : call.balances[n].amount = accounts[call.balances[n].place].amount
        /\ call.holdFunds = Amounts(accounts, Of({"hold"}))

(***************************************************************************)
(* The three totals mean what they say, up to the time the call took:      *)
(* nothing is counted twice, or left out unless it expired within the      *)
(* call; nothing that had expired when it began is available, nothing that *)
(* has not when it ends is expired, and what is available is expirable     *)
(* unless its balance never expires.                                       *)
(***************************************************************************)
TotalsByExpiry ==
    Done =>
        LET uncounted == Listed - (call.availableFunds + call.expiredFunds) IN
        /\ uncounted >= 0
        /\ uncounted <= ListedWith(LAMBDA e : e # Never /\ before.now <= e /\ e < now)
        /\ call.availableFunds <= ListedWith(LAMBDA e : e = Never \/ e >= before.now)
        /\ call.expiredFunds <= ListedWith(LAMBDA e : e # Never /\ e < now)
        /\ call.availableFunds - call.expirableFunds = ListedWith(LAMBDA e : e = Never)

(***************************************************************************)
(* openapi.yaml:1181: availableFunds covers the balances not yet expired,  *)
(* expiredFunds those whose expiry has passed.  Here: what a balance holds *)
(* is in one or the other.                                                 *)
(***************************************************************************)
EveryBalanceCounted == Done => call.availableFunds + call.expiredFunds = Listed

(***************************************************************************)
(* openapi.yaml:1181: availableFunds are the "Funds available to debit".   *)
(* Here: when nothing moves or expires meanwhile, they are those of the    *)
(* balances that Debit does not take for expired.                          *)
(***************************************************************************)
AvailableIsSpendable ==
    Done /\ ~before.changed /\ now = before.now => call.availableFunds = ListedWith(Spendable)

(***************************************************************************)
(* openapi.yaml:267: the summary of a wallet is answered 404, "Wallet not  *)
(* found".  Here: a summary is of a wallet that exists.                    *)
(***************************************************************************)
SummaryOfAWallet == Done => Of({"wallet"}) # {}
=============================================================================
