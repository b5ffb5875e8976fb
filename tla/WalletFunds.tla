---------------------------- MODULE WalletFunds ----------------------------
(***************************************************************************)
(* The funds of a wallet: credits, debits (at once or as a pending hold),  *)
(* and the confirmation or the voiding of holds (src/pkg/manager.go).      *)
(*                                                                         *)
(* The service keeps no state.  A handler serves one HTTP request by a     *)
(* sequence of calls to the ledger; each call is a step, so the handlers   *)
(* of all replicas interleave between them and what a handler has read may *)
(* be stale when it posts.  The ledger is external: it commits one         *)
(* transaction at a time, refuses one its accounts cannot fund, and keeps  *)
(* for every Idempotency-Key the body of the transaction posted under it.  *)
(* One wallet and one asset; the other accounts of the ledger are World.   *)
(*                                                                         *)
(* A hold is an account of the ledger, and any account may be the subject  *)
(* of a credit or of a debit: a client may send funds to a hold or take    *)
(* them from it.  What the service promises of a hold it can promise only  *)
(* of those that the requests leave alone, the ApartHolds.                 *)
(***************************************************************************)
EXTENDS Scripts, Integers

CONSTANTS
    Balances,       \* the names of balances of the wallet (their ledger accounts)
    Created,        \* those that exist
    Main,           \* the main balance
    World,          \* every account outside the wallet
    HoldIds,        \* the hold identifiers, derived from a key or random
    Keys, NoKey,    \* Idempotency-Keys, and a request without one
    HoldIdOf,       \* deterministicID("hold", key)
    Expiry,         \* expiresAt of each balance: an instant, ZeroTime or Never
    Never,
    Priority,       \* priority of each balance
    None,           \* no value
    Handlers,       \* concurrent requests
    Requests,       \* the requests that clients send
    Word,           \* 2^64: big.Int.Uint64 keeps the low word
    MaxReceived,    \* bound: requests received
    MaxTime         \* bound: instants

ZeroTime == 0

ASSUME AccountsAssumption ==
    /\ Created \subseteq Balances
    /\ Main \in Created
    /\ IsFiniteSet(Balances)
    /\ World \notin Balances
    /\ World \notin HoldIds
    /\ Balances \intersect HoldIds = {}
    /\ None \notin Balances \union HoldIds \union {World}

ASSUME KeysAssumption ==
    /\ NoKey \notin Keys
    /\ HoldIdOf \in [Keys -> HoldIds]
    /\ \A k, l \in Keys : HoldIdOf[k] = HoldIdOf[l] => k = l

ASSUME NumbersAssumption ==
    /\ Word \in Nat \ {0}
    /\ MaxReceived \in Nat
    /\ MaxTime \in Nat
    /\ Expiry \in [Balances -> Nat \union {Never}]
    /\ Never \notin Nat
    /\ Expiry[Main] = Never
    /\ Priority \in [Balances -> Int]

-----------------------------------------------------------------------------
(* Requests, as the API hands them to the manager.  Amounts of credits and  *)
(* debits are positive: Validate refuses the negative ones, and nothing is  *)
(* posted for zero.                                                         *)

\* A subject names a balance of a wallet, or any account of the ledger.
Subjects == Balances \union HoldIds \union {World}

CreditRequests ==
    [op : {"credit"}, key : Keys \union {NoKey}, amount : Nat \ {0},
     from : Seq(Subjects), to : Balances]

\* all: "*" is among the sources, alone if from is empty; else from is the list
\* of balances, empty by default.  timed: with a timestamp.
DebitRequests ==
    [op : {"debit"}, key : Keys \union {NoKey}, amount : Nat \ {0}, pending : BOOLEAN,
     timed : BOOLEAN, all : BOOLEAN, from : Seq(Balances), to : Subjects]

ConfirmRequests ==
    [op : {"confirm"}, key : Keys \union {NoKey}, hold : HoldIds, amount : Int, final : BOOLEAN]

VoidRequests == [op : {"void"}, key : Keys \union {NoKey}, hold : HoldIds]

Distinct(s) == \A i, j \in DOMAIN s : s[i] = s[j] => i = j

ASSUME RequestsAssumption ==
    /\ Requests \subseteq CreditRequests \union DebitRequests \union ConfirmRequests \union VoidRequests
    /\ \A req \in Requests : req.op \in {"credit", "debit"} => Distinct(req.from)

\* The identifiers that a pending debit may give to its hold.
MayOpen(req, h) ==
    req.pending /\ IF req.key = NoKey THEN \A k \in Keys : h # HoldIdOf[k] ELSE h = HoldIdOf[req.key]

\* The holds whose account no credit takes from and no debit pays to, and whose
\* own debit does not pay to a hold account.
ApartHolds ==
    {h \in HoldIds : \A req \in Requests :
        /\ req.op = "credit" => \A i \in DOMAIN req.from : req.from[i] # h
        /\ req.op = "debit" => req.to # h /\ (req.to \in HoldIds => ~MayOpen(req, h))}

\* The accounts that a request may take from or pay to.
Places == Subjects \ ApartHolds

\* PostTransaction bodies: what the ledger executes and what it hashes.
Send(from, amount, to, hold) ==
    [script |-> "send", from |-> from, amount |-> amount, to |-> to, hold |-> hold]

\* Defect: the template drops the final transfer.
ConfirmHoldScript_NotFinal(hold, amount, final, to) ==
    [script |-> "confirm", hold |-> hold, amount |-> amount, final |-> FALSE, to |-> to]

ConfirmHoldScript(hold, amount, final, to) ==
    [script |-> "confirm", hold |-> hold, amount |-> amount, final |-> final, to |-> to]

\* Defect: the template misses the last posting.
CancelHoldScript_DropsLast(hold, postings) ==
    LET n == Len(postings.from) - 1
    IN [script |-> "cancel", hold |-> hold,
        postings |-> [from |-> SubSeq(postings.from, 1, n),
                      cut |-> [i \in 0 .. n |-> postings.cut[i]]]]

CancelHoldScript(hold, postings) ==
    [script |-> "cancel", hold |-> hold, postings |-> postings]
-----------------------------------------------------------------------------
(* The sources of a debit.                                                  *)

Expires(b) == Expiry[b] # Never /\ Expiry[b] # ZeroTime

Expired(b, t) == Expires(b) /\ Expiry[b] < t

\* Balances.Less: the main balance last, those with an expiry first, the
\* sooner before the later, and the others by priority.
Less(b, c) ==
    /\ b # Main
    /\ \/ c = Main
       \/ Expiry[b] # Never /\ Expiry[c] = Never
       \/ Expiry[b] # Never /\ Expiry[c] # Never /\ Expiry[b] < Expiry[c]
       \/ Expiry[b] = Never /\ Expiry[c] = Never /\ Priority[b] < Priority[c]

\* The balances the request names.
Listed(req) ==
    CASE req.all -> Created
      [] ~req.all /\ req.from = <<>> -> {Main}
      [] OTHER -> {req.from[i] : i \in DOMAIN req.from}

\* Defect: "*" is not sorted.
MayPrecede_Unsorted(req, b, c) ==
    \/ req.all
    \/ \E i, j \in DOMAIN req.from : req.from[i] = b /\ req.from[j] = c /\ i < j

\* The order in which they are taken: that of sort.Stable for "*", where the
\* order of equal balances is the ledger's, else that of the request.
MayPrecede(req, b, c) ==
    IF req.all THEN ~Less(c, b)
    ELSE \E i, j \in DOMAIN req.from : req.from[i] = b /\ req.from[j] = c /\ i < j

Sources(req, t) ==
    {s \in Orderings({b \in Listed(req) : ~Expired(b, t)}) :
        \A i, j \in DOMAIN s : i < j => MayPrecede(req, s[i], s[j])}

\* Defect: a live balance that will expire is accepted with a key.
NonIdempotent_WildcardOnly(req, t) == req.key # NoKey /\ req.all

\* With a key the sources must be the same at every attempt.
NonIdempotent(req, t) ==
    /\ req.key # NoKey
    /\ req.all \/ \E b \in Listed(req) : Expires(b) /\ ~Expired(b, t)

AllExpired(req, t) == \A b \in Listed(req) : Expired(b, t)

\* A pending debit with a timestamp, "*" beside names, or a name that GetAccount
\* does not find.
Malformed(req) ==
    \/ req.pending /\ req.timed
    \/ req.all /\ req.from # <<>>
    \/ ~req.all /\ \E i \in DOMAIN req.from : req.from[i] \notin Created

-----------------------------------------------------------------------------
VARIABLES
    \* the ledger
    balance,      \* balance of each account (input less output volume)
    original,     \* input volume of each hold account
    destination,  \* metadata of each hold account: its destination, None before
    funding,      \* the transactions that have the hold account as destination
    journal,      \* the Idempotency-Keys used, each with the body and its request
    \* the service and its clients
    handler,      \* the request a handler serves, where it is, what it answered
    now,
    received,
    \* history of the holds
    status,       \* "none", "open", "confirmed" or "voided"
    paid,         \* what went to the destination
    released,     \* what went elsewhere: back to the wallet
    refunded      \* what each balance got back when the hold was voided

ledger == <<balance, original, destination, funding, journal>>
history == <<status, paid, released, refunded>>
vars == <<ledger, handler, now, received, history>>

Accounts == Balances \union HoldIds

Init ==
    /\ balance = [a \in Accounts |-> 0]
    /\ original = [h \in HoldIds |-> 0]
    /\ destination = [h \in HoldIds |-> None]
    /\ funding = [h \in HoldIds |-> <<>>]
    /\ journal = <<>>
    /\ handler = [p \in Handlers |-> [pc |-> "idle", req |-> None, body |-> None, reply |-> "none"]]
    /\ now = 1
    /\ received = 0
    /\ status = [h \in HoldIds |-> "none"]
    /\ paid = [h \in HoldIds |-> 0]
    /\ released = [h \in HoldIds |-> 0]
    /\ refunded = [h \in HoldIds |-> [b \in Balances |-> 0]]

-----------------------------------------------------------------------------
(* Handlers.  A request arrives and makes its first call to the ledger in    *)
(* one step: nothing can be told apart between the two.                      *)

Serve(p, req, pc, body, reply) ==
    /\ handler[p].pc = "idle"
    /\ req \in Requests
    /\ received < MaxReceived
    /\ received' = received + 1
    /\ handler' = [handler EXCEPT ![p] = [pc |-> pc, req |-> req, body |-> body, reply |-> reply]]
    /\ UNCHANGED <<ledger, now, history>>

\* The error or the answer that ends a request.
Answer(p, reply) ==
    handler' = [handler EXCEPT ![p] = [pc |-> "idle", req |-> @.req, body |-> None, reply |-> reply]]

CreditRefused(p, req) ==
    /\ req.op = "credit"
    /\ req.to \notin Created
    /\ Serve(p, req, "idle", None, "BalanceNotExists")

Credit(p, req) ==
    /\ req.op = "credit"
    /\ req.to \in Created
    /\ LET from == IF req.from = <<>> THEN <<World>> ELSE req.from
       IN Serve(p, req, "post", Send(from, req.amount, req.to, None), "none")

\* uuid.NewString never returns an identifier twice.
RandomHoldId(h) ==
    /\ \A k \in Keys : h # HoldIdOf[k]
    /\ destination[h] = None
    /\ \A p \in Handlers :
          handler[p].pc = "post" /\ handler[p].body.script = "send" => handler[p].body.hold # h

NewHolds(req) ==
    CASE ~req.pending -> {None}
      [] req.pending /\ req.key # NoKey -> {HoldIdOf[req.key]}
      [] OTHER -> {h \in HoldIds : RandomHoldId(h)}

DebitRefused(p, req) ==
    /\ req.op = "debit"
    /\ \/ Malformed(req) /\ Serve(p, req, "idle", None, "Refused")
       \/ ~Malformed(req) /\ NonIdempotent(req, now) /\ Serve(p, req, "idle", None, "NonIdempotentDebit")
       \/ /\ ~Malformed(req)
          /\ ~NonIdempotent(req, now)
          /\ AllExpired(req, now)
          /\ Serve(p, req, "idle", None, "InsufficientFund")

Debit(p, req) ==
    /\ req.op = "debit"
    /\ ~Malformed(req)
    /\ ~NonIdempotent(req, now)
    /\ ~AllExpired(req, now)
    /\ \E from \in Sources(req, now), hold \in NewHolds(req) :
          Serve(p, req, "post", Send(from, req.amount, req.to, hold), "none")

-----------------------------------------------------------------------------
(* ConfirmHold and VoidHold: GetAccount, then a body built from what it       *)
(* returned.                                                                  *)

Abs(n) == IF n < 0 THEN -n ELSE n

Uint64(n) == Abs(n) % Word

IsHold(h) == destination[h] # None

Remaining(h) == balance[h]

IsClosed(h) == Uint64(Remaining(h)) = 0

\* resolveAmount: the amount of the request, or all that remains.
ResolvedAmount(req) ==
    IF Uint64(req.amount) # 0 THEN Uint64(req.amount) ELSE Uint64(Remaining(req.hold))

ConfirmHoldRefused(p, req) ==
    /\ req.op = "confirm"
    /\ \/ ~IsHold(req.hold) /\ Serve(p, req, "idle", None, "HoldNotFound")
       \/ /\ IsHold(req.hold)
          /\ IsClosed(req.hold)
          /\ Serve(p, req, "idle", None, "ClosedHold")
       \/ /\ IsHold(req.hold)
          /\ ~IsClosed(req.hold)
          /\ Uint64(req.amount) > Uint64(Remaining(req.hold))
          /\ Serve(p, req, "idle", None, "InsufficientFund")

ConfirmHold(p, req) ==
    /\ req.op = "confirm"
    /\ IsHold(req.hold)
    /\ ~IsClosed(req.hold)
    /\ Uint64(req.amount) <= Uint64(Remaining(req.hold))
    /\ Serve(p, req, "post",
             ConfirmHoldScript(req.hold, ResolvedAmount(req), req.final, destination[req.hold]), "none")

\* VoidHold lists the transactions into the hold first, and reads it next.
VoidHoldRefused(p, req) ==
    /\ req.op = "void"
    /\ \/ Len(funding[req.hold]) = 0 /\ Serve(p, req, "idle", None, "HoldNotFound")
       \/ Len(funding[req.hold]) > 1 /\ Serve(p, req, "idle", None, "Internal")

VoidHold(p, req) ==
    /\ req.op = "void"
    /\ Len(funding[req.hold]) = 1
    /\ Serve(p, req, "read", CancelHoldScript(req.hold, funding[req.hold][1]), "none")

ReadHold(p) ==
    /\ handler[p].pc = "read"
    /\ LET hold == handler[p].req.hold IN
       \/ ~IsHold(hold) /\ Answer(p, "HoldNotFound")
       \/ IsHold(hold) /\ IsClosed(hold) /\ Answer(p, "ClosedHold")
       \/ IsHold(hold) /\ ~IsClosed(hold) /\ handler' = [handler EXCEPT ![p].pc = "post"]
    /\ UNCHANGED <<ledger, now, received, history>>

-----------------------------------------------------------------------------
(* CreateTransaction: the ledger's answer to the body a handler posts.       *)

Posting(p) == handler[p].pc = "post"

Body(p) == handler[p].body

Key(p) == handler[p].req.key

\* Defect: the key is not forwarded to the ledger.
Journaled_NotForwarded(p) == FALSE

\* A body posted under this key was committed before.
Journaled(p) == Key(p) # NoKey /\ Key(p) \in DOMAIN journal

\* The transaction is committed or replayed; the answer may be lost.
Done(p) == \E reply \in {"ok", "Unavailable"} : Answer(p, reply)

Record(p) ==
    IF Key(p) = NoKey THEN journal' = journal
    ELSE journal' = [k \in DOMAIN journal \union {Key(p)} |->
                        IF k = Key(p) THEN [body |-> Body(p), req |-> handler[p].req]
                        ELSE journal[k]]

\* The same key and the same body: nothing is executed.
Replay(p) ==
    /\ Posting(p)
    /\ Journaled(p)
    /\ journal[Key(p)].body = Body(p)
    /\ Done(p)
    /\ UNCHANGED <<ledger, now, received, history>>

\* The same key and another body.
Conflict(p) ==
    /\ Posting(p)
    /\ Journaled(p)
    /\ journal[Key(p)].body # Body(p)
    /\ Answer(p, "Internal")
    /\ UNCHANGED <<ledger, now, received, history>>

\* What the i-th source can give; World is never short.
Available(from, amount) ==
    [i \in DOMAIN from |-> IF from[i] = World THEN amount ELSE balance[from[i]]]

\* Where the funds of a debit go: to the hold account when it is pending.
Into(b) == IF b.hold = None THEN b.to ELSE b.hold

\* The transaction has the account of hold h as destination: it is one of those
\* that VoidHold lists.
Funds(h, n, from, cut) ==
    IF n = 0 THEN funding[h] ELSE Append(funding[h], [from |-> from, cut |-> cut])

CommitSend(p) ==
    /\ Posting(p)
    /\ ~Journaled(p)
    /\ Body(p).script = "send"
    /\ LET from == Body(p).from
           n == Body(p).amount
           hold == Body(p).hold
           In(a) == IF a = Into(Body(p)) THEN n ELSE 0
       IN \E cut \in Cuts(Available(from, n), n) :
            /\ Yield(cut, from) = n
            /\ balance' = [a \in Accounts |-> balance[a] - Paid(from, cut, a) + In(a)]
            /\ original' = [h \in HoldIds |-> original[h] + In(h)]
            /\ funding' = [h \in HoldIds |-> Funds(h, In(h), from, cut)]
            /\ released' = [h \in HoldIds |-> released[h] + Paid(from, cut, h)]
            /\ IF hold = None
               THEN UNCHANGED <<destination, status>>
               ELSE /\ destination' = [destination EXCEPT ![hold] = Body(p).to]
                    /\ status' = [status EXCEPT ![hold] = "open"]
    /\ Record(p)
    /\ Done(p)
    /\ UNCHANGED <<now, received, paid, refunded>>

\* The cuts of a transaction with one source, which pays n.
Whole(n) == [i \in 0 .. 1 |-> IF i = 0 THEN 0 ELSE n]

\* The amount goes to the destination, and with final all the rest to main.
CommitConfirm(p) ==
    /\ Posting(p)
    /\ ~Journaled(p)
    /\ Body(p).script = "confirm"
    /\ LET hold == Body(p).hold
           n == Body(p).amount
           In(a) == IF a = Body(p).to THEN n ELSE 0
           rest == IF Body(p).final THEN balance[hold] - n + In(hold) ELSE 0
       IN /\ n <= balance[hold]
          /\ balance' = [a \in Accounts |->
                  balance[a] - (IF a = hold THEN n + rest ELSE 0) + In(a)
                             + (IF a = Main THEN rest ELSE 0)]
          /\ original' = [h \in HoldIds |-> original[h] + In(h)]
          /\ funding' = [h \in HoldIds |-> Funds(h, In(h), <<hold>>, Whole(n + rest))]
          /\ paid' = [paid EXCEPT ![hold] = @ + n]
          /\ released' = [released EXCEPT ![hold] = @ + rest]
          /\ status' = [status EXCEPT ![hold] = IF balance'[hold] = 0 THEN "confirmed" ELSE @]
    /\ Record(p)
    /\ Done(p)
    /\ UNCHANGED <<destination, now, received, refunded>>

\* All that remains goes back along the postings that funded the hold.
CommitCancel(p) ==
    /\ Posting(p)
    /\ ~Journaled(p)
    /\ Body(p).script = "cancel"
    /\ LET hold == Body(p).hold
           from == Body(p).postings.from
           cut == Body(p).postings.cut
           r == balance[hold]
           back == Refunded(from, cut, r)
           In(a) == Refund(from, cut, r, a)
       IN /\ r > 0
          /\ balance' = [a \in Accounts |-> balance[a] - (IF a = hold THEN back ELSE 0) + In(a)]
          /\ original' = [h \in HoldIds |-> original[h] + In(h)]
          /\ funding' = [h \in HoldIds |-> Funds(h, In(h), <<hold>>, Whole(back))]
          /\ refunded' = [refunded EXCEPT ![hold] = [b \in Balances |-> @[b] + In(b)]]
          /\ released' = [released EXCEPT ![hold] = @ + back]
          /\ status' = [status EXCEPT ![hold] = IF r = back THEN "voided" ELSE @]
    /\ Record(p)
    /\ Done(p)
    /\ UNCHANGED <<destination, now, received, paid>>

\* The sources are short; a cancel that would move nothing has no postings.
Refuse(p) ==
    /\ Posting(p)
    /\ ~Journaled(p)
    /\ \/ /\ Body(p).script = "send"
          /\ \E cut \in Cuts(Available(Body(p).from, Body(p).amount), Body(p).amount) :
                Yield(cut, Body(p).from) < Body(p).amount
          /\ Answer(p, "InsufficientFund")
       \/ /\ Body(p).script = "confirm"
          /\ balance[Body(p).hold] < Body(p).amount
          /\ Answer(p, "InsufficientFund")
       \/ /\ Body(p).script = "cancel"
          /\ balance[Body(p).hold] = 0
          /\ Answer(p, "Internal")
    /\ UNCHANGED <<ledger, now, received, history>>

\* A call fails before the ledger acts on it, or the replica stops.
Fail(p) ==
    /\ handler[p].pc # "idle"
    /\ Answer(p, "Unavailable")
    /\ UNCHANGED <<ledger, now, received, history>>

Tick ==
    /\ now < MaxTime
    /\ now' = now + 1
    /\ UNCHANGED <<ledger, handler, received, history>>

-----------------------------------------------------------------------------
Receive(p) ==
    \E req \in Requests :
        \/ CreditRefused(p, req) \/ Credit(p, req)
        \/ DebitRefused(p, req) \/ Debit(p, req)
        \/ ConfirmHoldRefused(p, req) \/ ConfirmHold(p, req)
        \/ VoidHoldRefused(p, req) \/ VoidHold(p, req)

CreateTransaction(p) ==
    \/ Replay(p) \/ Conflict(p) \/ Refuse(p)
    \/ CommitSend(p) \/ CommitConfirm(p) \/ CommitCancel(p)

Next ==
    \/ Tick
    \/ \E p \in Handlers : Receive(p) \/ ReadHold(p) \/ CreateTransaction(p) \/ Fail(p)

Spec == Init /\ [][Next]_vars

-----------------------------------------------------------------------------
(* Types.                                                                    *)

Replies ==
    {"ok", "BalanceNotExists", "Refused", "NonIdempotentDebit", "InsufficientFund",
     "HoldNotFound", "ClosedHold", "Internal", "Unavailable"}

\* The postings of one transaction: distinct sources, and growing cuts.
IsPostings(t) ==
    /\ t = [from |-> t.from, cut |-> t.cut]
    /\ t.from \in Seq(Places \ {World})
    /\ Distinct(t.from)
    /\ t.cut \in [0 .. Len(t.from) -> Nat]
    /\ t.cut[0] = 0
    /\ \A i \in DOMAIN t.from : t.cut[i - 1] <= t.cut[i]

\* The transactions into the account of a hold.
IsFunding(h, f) ==
    /\ Len(f) \in Nat
    /\ f = [i \in 1 .. Len(f) |-> f[i]]
    /\ \A i \in DOMAIN f :
          /\ IsPostings(f[i])
          /\ h \in ApartHolds => f[i].from \in Seq(Balances)

IsSend(b) ==
    /\ b = Send(b.from, b.amount, b.to, b.hold)
    /\ b.from \in Seq(Places)
    /\ Distinct(b.from)
    /\ b.amount \in Nat \ {0}
    /\ b.to \in Places
    /\ b.hold \in HoldIds \union {None}
    /\ Into(b) \in HoldIds => b.from \in Seq(Balances)
    /\ b.hold \in ApartHolds => b.to \notin HoldIds

IsConfirm(b) ==
    /\ b = ConfirmHoldScript(b.hold, b.amount, b.final, b.to)
    /\ b.hold \in HoldIds
    /\ b.amount \in Nat \ {0}
    /\ b.final \in BOOLEAN
    /\ b.to \in Places
    /\ b.hold \in ApartHolds => b.to \notin HoldIds

IsCancel(b) ==
    /\ b = CancelHoldScript(b.hold, b.postings)
    /\ b.hold \in HoldIds
    /\ IsPostings(b.postings)
    /\ b.hold \in ApartHolds => b.postings.from \in Seq(Balances)

\* The body that the operation of a request posts.
BodyOf(req, b) ==
    CASE req.op \in {"credit", "debit"} -> IsSend(b)
      [] req.op = "confirm" -> IsConfirm(b) /\ b.hold = req.hold
      [] OTHER -> IsCancel(b) /\ b.hold = req.hold

HandlerTypeOK(s) ==
    /\ s = [pc |-> s.pc, req |-> s.req, body |-> s.body, reply |-> s.reply]
    /\ s.pc \in {"idle", "read", "post"}
    /\ s.req \in Requests \union {None}
    /\ s.reply \in Replies \union {"none"}
    /\ IF s.pc = "idle" THEN s.body = None
       ELSE /\ s.req \in Requests
            /\ BodyOf(s.req, s.body)
    /\ s.pc = "read" => s.req.op = "void"

\* Types; no account is overdrawn, and no hold is taken below zero.  Of an apart
\* hold it says that nothing but the settling of it, or the one debit, moves it.
TypeOK ==
    /\ balance \in [Accounts -> Nat]
    /\ original \in [HoldIds -> Nat]
    /\ destination \in [HoldIds -> Places \union {None}]
    /\ \A h \in ApartHolds : destination[h] \notin HoldIds
    /\ DOMAIN funding = HoldIds
    /\ \A h \in HoldIds : IsFunding(h, funding[h])
    /\ DOMAIN journal \subseteq Keys
    /\ journal = [k \in DOMAIN journal |-> journal[k]]
    /\ \A k \in DOMAIN journal :
          /\ journal[k] = [body |-> journal[k].body, req |-> journal[k].req]
          /\ journal[k].req \in Requests
          /\ BodyOf(journal[k].req, journal[k].body)
    /\ DOMAIN handler = Handlers
    /\ \A p \in Handlers : HandlerTypeOK(handler[p])
    /\ now \in Nat
    /\ received \in Nat
    /\ status \in [HoldIds -> {"none", "open", "confirmed", "voided"}]
    /\ paid \in [HoldIds -> Nat]
    /\ released \in [HoldIds -> Nat]
    /\ refunded \in [HoldIds -> [Balances -> Nat]]

-----------------------------------------------------------------------------
(* Safety.                                                                   *)

Ended(h) == status[h] \in {"confirmed", "voided"}

\* The transactions into the account of a hold are the one of its debit, however
\* often the debit is retried: VoidHold, which gives up when it finds several,
\* finds one (for a hold that the requests leave alone).
SingleFunding ==
    \A h \in ApartHolds : Len(funding[h]) = IF IsHold(h) THEN 1 ELSE 0

\* What came into a hold account is still there, or was paid to its destination,
\* or went to the wallet.
Conserved == \A h \in HoldIds : original[h] = balance[h] + paid[h] + released[h]

\* A hold is over exactly when it is empty.
OverWhenEmpty ==
    \A h \in ApartHolds :
        /\ status[h] = "open" <=> balance[h] > 0
        /\ status[h] = "none" <=> original[h] = 0

HoldConservation == Conserved /\ OverWhenEmpty

\* Voiding gives no balance more than it contributed to the hold, whatever
\* was confirmed before or in between.
RefundBounded ==
    \A h \in ApartHolds, b \in Balances :
        refunded[h][b] <= IF funding[h] = <<>> THEN 0
                          ELSE Paid(funding[h][1].from, funding[h][1].cut, b)

\* Nothing that comes into a hold account is lost or made, whoever sends it; and
\* the funds of a hold that the requests leave alone go back to the balances they
\* came from, to each no more than it gave.
FundsConserved == HoldConservation /\ RefundBounded

Answered(p, op) == handler[p].pc = "idle" /\ handler[p].req # None /\ handler[p].req.op = op

\* The key, if any, was not used for another request.
OwnKey(p) == Key(p) # NoKey => Key(p) \in DOMAIN journal /\ journal[Key(p)].req = handler[p].req

\* A void that is acknowledged did void the hold: it never covers a hold that
\* a confirmation closed between the reads of VoidHold and its transaction.
VoidAckTruthful ==
    \A p \in Handlers :
        Answered(p, "void") /\ handler[p].reply = "ok" /\ handler[p].req.hold \in ApartHolds
        => status[handler[p].req.hold] = "voided"

\* The request asks for all of the hold: final, or without an amount.
AsksAll(req) == req.final \/ Uint64(req.amount) = 0

\* A confirmation of all the hold that is acknowledged left nothing in it and
\* closed it as confirmed, though the amount comes from a read that may be
\* stale when the transaction is posted (amounts below 2^64).
ConfirmAckTruthful ==
    \A p \in Handlers :
        /\ Answered(p, "confirm")
        /\ handler[p].reply = "ok"
        /\ AsksAll(handler[p].req)
        /\ OwnKey(p)
        /\ handler[p].req.hold \in ApartHolds
        /\ original[handler[p].req.hold] < Word
        => status[handler[p].req.hold] = "confirmed"

\* The answer "closed hold" is given only for holds that are over (amounts
\* below 2^64).
ClosedReplyTruthful ==
    \A p \in Handlers :
        /\ handler[p].pc = "idle"
        /\ handler[p].reply = "ClosedHold"
        /\ handler[p].req.hold \in ApartHolds
        /\ original[handler[p].req.hold] < Word
        => Ended(handler[p].req.hold)

\* What the service answers about an apart hold is true of it, though the handler has
\* read the hold before its transaction and the answer may be a replay.
AnswersTruthful == VoidAckTruthful /\ ConfirmAckTruthful /\ ClosedReplyTruthful

\* As the API describes a hold, "funds locked by a pending debit, later either
\* confirmed or voided": when a hold is answered to be closed nothing is locked
\* in it any more.
ClosedReplyMeansEmpty ==
    \A p \in Handlers :
        handler[p].pc = "idle" /\ handler[p].reply = "ClosedHold" => balance[handler[p].req.hold] = 0

\* As the API describes a confirmation, "hold successfully confirmed, funds
\* moved": one without an amount, acknowledged, leaves nothing locked.
ConfirmReplyMeansPaid ==
    \A p \in Handlers :
        /\ Answered(p, "confirm")
        /\ handler[p].reply = "ok"
        /\ handler[p].req.amount = 0
        /\ OwnKey(p)
        => balance[handler[p].req.hold] = 0

\* As VoidHold's error has it, "expected 1 transaction": an account that is a hold
\* is the destination of one, so that the hold can be voided.
VoidFindsOneTransaction == \A h \in HoldIds : IsHold(h) => Len(funding[h]) = 1

\* A hold that is over stays over, empty and with the outcome it had, as long as
\* no request names its account.
ClosedForever ==
    [][\A h \in ApartHolds : Ended(h) =>
          status'[h] = status[h] /\ balance'[h] = 0 /\ original'[h] = original[h]]_vars

\* Every hold is opened once, whatever its account is used for besides: no pending
\* debit is committed into an account that another, or an attempt of its own, has
\* made a hold before.
OpenedOnce ==
    [][\A p \in Handlers : CommitSend(p) /\ Body(p).hold # None => ~IsHold(Body(p).hold)]_vars

\* A keyed debit that was committed is answered by its replay: its retries get
\* no other error than the loss of the answer, at whatever time they come and
\* whatever the balances hold by then.
DebitRetryReplays ==
    [][\A p \in Handlers :
          /\ handler'[p] # handler[p]
          /\ Answered(p, "debit")'
          /\ Key(p)' \in DOMAIN journal
          /\ journal[Key(p)'].req = handler[p].req'
          => handler[p].reply' \in {"ok", "Unavailable"}]_vars

\* A debit from all the balances spends them in their order: one that comes
\* after another in Balances.Less pays only once that other is empty.
DrainsInOrder ==
    [][\A p \in Handlers :
          CommitSend(p) /\ handler[p].req.op = "debit" /\ handler[p].req.all =>
              \A b, c \in Balances \ {handler[p].req.to} :
                  /\ \E i \in DOMAIN Body(p).from : Body(p).from[i] = b
                  /\ Less(b, c)
                  /\ balance'[c] < balance[c]
                  => balance'[b] = 0]_vars

-----------------------------------------------------------------------------
\* An apart hold behaves as Escrow promises.
Apart(f) == [h \in ApartHolds |-> f[h]]

HoldEscrow == INSTANCE Escrow WITH
    HoldIds <- ApartHolds, status <- Apart(status), original <- Apart(original),
    remaining <- Apart(balance), paid <- Apart(paid), released <- Apart(released)

ImplementsEscrow == HoldEscrow!Spec
=============================================================================
