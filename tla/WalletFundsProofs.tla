------------------------- MODULE WalletFundsProofs -------------------------
(***************************************************************************)
(* Proofs about WalletFunds, for all balances, holds, keys, handlers and   *)
(* requests: the order in which balances are spent and the arithmetic of   *)
(* the scripts; the variables keep their types, so that no account is ever *)
(* overdrawn; the invariant of WalletFundsInvariant is inductive, so every *)
(* hold is opened once and conserves what comes into its account, and the  *)
(* holds that the requests leave alone are funded once, refund no balance  *)
(* too much, are answered truthfully and implement Escrow.                 *)
(***************************************************************************)
EXTENDS WalletFundsInvariant, FiniteSetTheorems, WellFoundedInduction, TLAPS

-----------------------------------------------------------------------------
(* The order of balances and the arithmetic of scripts.                      *)

\* sort.Stable needs a strict weak order: Balances.Less is one, whatever the
\* expiries and the priorities of the balances.
THEOREM LessIsStrictWeakOrder ==
    ASSUME NEW b \in Balances, NEW c \in Balances, NEW d \in Balances
    PROVE  /\ ~Less(b, b)
           /\ Less(b, c) /\ Less(c, d) => Less(b, d)
           /\ ~Less(b, c) /\ ~Less(c, b) /\ ~Less(c, d) /\ ~Less(d, c) => ~Less(b, d)
<1>1. /\ Expiry[b] \in Nat \union {Never} /\ Expiry[c] \in Nat \union {Never}
      /\ Expiry[d] \in Nat \union {Never} /\ Never \notin Nat
      /\ Priority[b] \in Int /\ Priority[c] \in Int /\ Priority[d] \in Int
  BY NumbersAssumption
<1> QED
  BY <1>1 DEF Less

\* In a list of distinct sources, source i pays the difference of its cuts.
LEMMA PaidBySource ==
    ASSUME NEW from, NEW cut, Distinct(from), NEW i \in DOMAIN from
    PROVE  Paid(from, cut, from[i]) = cut[i] - cut[i - 1]
<1>1. \A j \in DOMAIN from : from[j] = from[i] => j = i
  BY DEF Distinct
<1> QED
  BY <1>1 DEF Paid

LEMMA RefundOfSource ==
    ASSUME NEW from, NEW cut, NEW r, Distinct(from), NEW i \in DOMAIN from
    PROVE  Refund(from, cut, r, from[i]) = Least(r, cut[i]) - Least(r, cut[i - 1])
<1>1. \A j \in DOMAIN from : from[j] = from[i] => j = i
  BY DEF Distinct
<1> QED
  BY <1>1 DEF Refund

\* The accounts that requests may use, and those they leave alone.
LEMMA PlacesFacts ==
    /\ ApartHolds \subseteq HoldIds
    /\ Balances \subseteq Places \ {World}
    /\ World \in Places /\ World \notin Accounts
    /\ Places \subseteq Subjects
    /\ \A a \in Places : a \notin ApartHolds
    /\ \A h \in HoldIds : h \notin ApartHolds => h \in Places \ {World}
    /\ \A a \in Places \ {World} : a \in Accounts
    /\ \A a \in Balances : a \notin HoldIds
BY AccountsAssumption DEF ApartHolds, Places, Subjects, Accounts

\* What is sent from an ordered list of sources never takes more from one than
\* it has, and comes in postings.
LEMMA CutsFund ==
    ASSUME NEW from \in Seq(Places), Distinct(from), NEW n \in Nat,
           balance \in [Accounts -> Nat],
           NEW cut \in Cuts(Available(from, n), n)
    PROVE  /\ cut \in [0 .. Len(from) -> Nat]
           /\ cut[0] = 0
           /\ \A i \in DOMAIN from : cut[i - 1] <= cut[i]
           /\ \A a \in Accounts : /\ Paid(from, cut, a) \in Nat
                                  /\ Paid(from, cut, a) <= balance[a]
<1>1. /\ DOMAIN from = 1 .. Len(from) /\ Len(from) \in Nat
      /\ \A i \in DOMAIN from : from[i] \in Places
  OBVIOUS
<1>2. /\ DOMAIN Available(from, n) = 1 .. Len(from)
      /\ Len(Available(from, n)) = Len(from)
      /\ \A i \in DOMAIN from : Available(from, n)[i] = IF from[i] = World THEN n ELSE balance[from[i]]
      /\ \A i \in DOMAIN from : Available(from, n)[i] \in Nat
  <2>1. \A i \in DOMAIN from : (IF from[i] = World THEN n ELSE balance[from[i]]) \in Nat
    BY <1>1, PlacesFacts
  <2>2. Available(from, n) \in Seq(Nat)
    BY <1>1, <2>1 DEF Available
  <2> QED
    BY <1>1, <2>1, <2>2 DEF Available
<1>3. /\ cut \in [0 .. Len(from) -> 0 .. n]
      /\ cut[0] = 0
      /\ \A i \in DOMAIN from : cut[i] = Least(n, cut[i - 1] + Available(from, n)[i])
  BY <1>1, <1>2 DEF Cuts
<1>4. cut \in [0 .. Len(from) -> Nat]
  BY <1>3
<1>5. \A i \in DOMAIN from : /\ cut[i - 1] \in 0 .. n /\ cut[i] \in 0 .. n
                             /\ cut[i - 1] <= cut[i]
                             /\ cut[i] - cut[i - 1] <= Available(from, n)[i]
  <2> SUFFICES ASSUME NEW i \in DOMAIN from
               PROVE  /\ cut[i - 1] \in 0 .. n /\ cut[i] \in 0 .. n
                      /\ cut[i - 1] <= cut[i]
                      /\ cut[i] - cut[i - 1] <= Available(from, n)[i]
    OBVIOUS
  <2>1. i \in 0 .. Len(from) /\ i - 1 \in 0 .. Len(from)
    BY <1>1
  <2>2. cut[i - 1] \in 0 .. n /\ cut[i] \in 0 .. n
    BY <2>1, <1>3
  <2> QED
    BY <2>2, <1>2, <1>3 DEF Least
<1>6. ASSUME NEW a \in Accounts
      PROVE  Paid(from, cut, a) \in Nat /\ Paid(from, cut, a) <= balance[a]
  <2>1. CASE \E i \in DOMAIN from : from[i] = a
    <3>1. PICK i \in DOMAIN from : from[i] = a
      BY <2>1
    <3>2. Paid(from, cut, a) = cut[i] - cut[i - 1]
      BY <3>1, PaidBySource
    <3>3. Available(from, n)[i] = balance[a]
      BY <3>1, <1>2, PlacesFacts
    <3> QED
      BY <3>2, <3>3, <1>5
  <2>2. CASE ~ \E i \in DOMAIN from : from[i] = a
    <3>1. balance[a] \in Nat
      OBVIOUS
    <3> QED
      BY <2>2, <3>1 DEF Paid
  <2> QED
    BY <2>1, <2>2
<1> QED
  BY <1>3, <1>4, <1>5, <1>6

\* A list that names every member of a set of balances once.
LEMMA OrderingsAreLists ==
    ASSUME NEW S \in SUBSET Balances, NEW s \in Orderings(S)
    PROVE  s \in Seq(Balances) /\ Distinct(s)
<1>1. Cardinality(S) \in Nat
  BY FS_Subset, FS_CardinalityType, AccountsAssumption
<1> QED
  BY <1>1 DEF Orderings, Distinct

\* Refunds along postings are amounts, none more than its posting.
LEMMA RefundType ==
    ASSUME NEW t, IsPostings(t), NEW r \in Nat, NEW a
    PROVE  /\ Refund(t.from, t.cut, r, a) \in Nat
           /\ Paid(t.from, t.cut, a) \in Nat
           /\ Refund(t.from, t.cut, r, a) <= Paid(t.from, t.cut, a)
           /\ Refunded(t.from, t.cut, r) \in 0 .. r
<1>1. /\ Len(t.from) \in Nat
      /\ DOMAIN t.from = 1 .. Len(t.from)
      /\ \A i \in DOMAIN t.from : i \in 0 .. Len(t.from) /\ i - 1 \in 0 .. Len(t.from)
      /\ \A i \in 0 .. Len(t.from) : t.cut[i] \in Nat
  BY DEF IsPostings
<1>2. Refunded(t.from, t.cut, r) \in 0 .. r
  BY <1>1 DEF Refunded, Yield, Least
<1>3. CASE \E i \in DOMAIN t.from : t.from[i] = a
  <2>1. PICK i \in DOMAIN t.from : t.from[i] = a
    BY <1>3
  <2>2. /\ Refund(t.from, t.cut, r, a) = Least(r, t.cut[i]) - Least(r, t.cut[i - 1])
        /\ Paid(t.from, t.cut, a) = t.cut[i] - t.cut[i - 1]
    BY <2>1, RefundOfSource, PaidBySource DEF IsPostings
  <2>3. t.cut[i] \in Nat /\ t.cut[i - 1] \in Nat /\ t.cut[i - 1] <= t.cut[i]
    BY <1>1, <2>1 DEF IsPostings
  <2> QED
    BY <1>2, <2>2, <2>3 DEF Least
<1>4. CASE ~ \E i \in DOMAIN t.from : t.from[i] = a
  BY <1>2, <1>4 DEF Refund, Paid
<1> QED
  BY <1>3, <1>4

\* A request is of the kind its operation names.
LEMMA RequestKinds ==
    ASSUME NEW req \in Requests
    PROVE  /\ req.op \in {"credit", "debit", "confirm", "void"}
           /\ req.key \in Keys \union {NoKey}
           /\ req.op = "credit" => req \in CreditRequests /\ Distinct(req.from)
           /\ req.op = "debit" => req \in DebitRequests /\ Distinct(req.from)
           /\ req.op = "confirm" => req \in ConfirmRequests
           /\ req.op = "void" => req \in VoidRequests
<1>1. req \in CreditRequests \/ req \in DebitRequests \/ req \in ConfirmRequests \/ req \in VoidRequests
  BY RequestsAssumption
<1>2. req.op \in {"credit", "debit"} => Distinct(req.from)
  BY RequestsAssumption
<1>3. CASE req \in CreditRequests
  BY <1>2, <1>3 DEF CreditRequests
<1>4. CASE req \in DebitRequests
  BY <1>2, <1>4 DEF DebitRequests
<1>5. CASE req \in ConfirmRequests
  BY <1>5 DEF ConfirmRequests
<1>6. CASE req \in VoidRequests
  BY <1>6 DEF VoidRequests
<1> QED
  BY <1>1, <1>3, <1>4, <1>5, <1>6

\* A credit takes from, and a debit pays to, places only; one that pays to a
\* hold account opens no hold that is apart.
LEMMA RequestsLeaveApart ==
    ASSUME NEW req \in Requests
    PROVE  /\ req.op = "credit" => req.from \in Seq(Places) /\ req.to \in Balances
           /\ req.op = "debit" => req.to \in Places
           /\ req.op = "debit" /\ req.to \in HoldIds => \A h \in NewHolds(req) : h \notin ApartHolds
<1>1. CASE req.op = "credit"
  <2>1. req \in CreditRequests
    BY <1>1, RequestKinds
  <2>2. /\ req.from \in Seq(Subjects) /\ req.to \in Balances
        /\ DOMAIN req.from = 1 .. Len(req.from) /\ Len(req.from) \in Nat
        /\ req.from = [i \in 1 .. Len(req.from) |-> req.from[i]]
        /\ \A i \in DOMAIN req.from : req.from[i] \in Subjects
    BY <2>1 DEF CreditRequests
  <2>3. \A i \in DOMAIN req.from : req.from[i] \notin ApartHolds
    BY <1>1 DEF ApartHolds
  <2>4. \A i \in 1 .. Len(req.from) : req.from[i] \in Places
    BY <2>2, <2>3 DEF Places
  <2>5. req.from \in Seq(Places)
    BY <2>2, <2>4
  <2> QED
    BY <1>1, <2>2, <2>5
<1>2. CASE req.op = "debit"
  <2>1. req \in DebitRequests
    BY <1>2, RequestKinds
  <2>2. req.to \in Subjects /\ req.pending \in BOOLEAN /\ req.key \in Keys \union {NoKey}
    BY <2>1 DEF DebitRequests
  <2>3. req.to \notin ApartHolds
    BY <1>2 DEF ApartHolds
  <2>4. ASSUME req.to \in HoldIds, NEW h \in NewHolds(req) PROVE h \notin ApartHolds
    <3>1. CASE ~req.pending
      BY <2>4, <3>1, AccountsAssumption DEF NewHolds, ApartHolds
    <3>2. CASE req.pending
      <4>1. MayOpen(req, h)
        BY <2>2, <2>4, <3>2 DEF NewHolds, MayOpen, RandomHoldId
      <4> QED
        BY <1>2, <2>4, <4>1 DEF ApartHolds
    <3> QED
      BY <3>1, <3>2
  <2> QED
    BY <1>2, <2>2, <2>3, <2>4 DEF Places
<1> QED
  BY <1>1, <1>2

LEMMA Uint64Type ==
    ASSUME NEW n \in Int
    PROVE  Uint64(n) \in Nat
BY NumbersAssumption DEF Uint64, Abs

-----------------------------------------------------------------------------
(* Types.                                                                    *)

\* One more transaction into a hold account.
LEMMA FundsType ==
    ASSUME NEW h, IsFunding(h, funding[h]), NEW n, NEW from, NEW cut,
           n # 0 => /\ IsPostings([from |-> from, cut |-> cut])
                    /\ h \in ApartHolds => from \in Seq(Balances)
    PROVE  IsFunding(h, Funds(h, n, from, cut))
<1> DEFINE t == [from |-> from, cut |-> cut]
           old == funding[h]
<1>1. CASE n = 0
  BY <1>1 DEF Funds
<1>2. CASE n # 0
  <2>1. /\ Len(old) \in Nat /\ old = [i \in 1 .. Len(old) |-> old[i]]
        /\ \A i \in DOMAIN old : /\ IsPostings(old[i])
                                 /\ h \in ApartHolds => old[i].from \in Seq(Balances)
    BY DEF IsFunding
  <2>2. old \in Seq({old[i] : i \in DOMAIN old} \union {t})
    BY <2>1
  <2>3. /\ Len(Append(old, t)) = Len(old) + 1
        /\ DOMAIN Append(old, t) = 1 .. Len(old) + 1
        /\ \A i \in 1 .. Len(old) : Append(old, t)[i] = old[i]
        /\ Append(old, t)[Len(old) + 1] = t
    BY <2>2
  <2>4. IsPostings(t) /\ (h \in ApartHolds => t.from \in Seq(Balances))
    BY <1>2
  <2>5. \A i \in DOMAIN Append(old, t) :
            /\ IsPostings(Append(old, t)[i])
            /\ h \in ApartHolds => Append(old, t)[i].from \in Seq(Balances)
    <3> SUFFICES ASSUME NEW i \in DOMAIN Append(old, t)
                 PROVE  /\ IsPostings(Append(old, t)[i])
                        /\ h \in ApartHolds => Append(old, t)[i].from \in Seq(Balances)
      OBVIOUS
    <3>1. CASE i \in 1 .. Len(old)
      <4>1. i \in DOMAIN old /\ Append(old, t)[i] = old[i]
        BY <2>1, <2>3, <3>1
      <4> QED
        BY <2>1, <4>1
    <3>2. CASE i = Len(old) + 1
      BY <2>3, <2>4, <3>2
    <3> QED
      BY <2>1, <2>3, <3>1, <3>2
  <2>6. /\ Len(Append(old, t)) \in Nat
        /\ Append(old, t) = [i \in 1 .. Len(Append(old, t)) |-> Append(old, t)[i]]
    BY <2>1, <2>2, <2>3
  <2> QED
    BY <1>2, <2>5, <2>6 DEF IsFunding, Funds
<1> QED
  BY <1>1, <1>2

\* A transaction with one source.
LEMMA SinglePostings ==
    ASSUME NEW a \in Places \ {World}, NEW n \in Nat
    PROVE  IsPostings([from |-> <<a>>, cut |-> Whole(n)])
<1>1. <<a>> \in Seq(Places \ {World}) /\ Len(<<a>>) = 1 /\ DOMAIN <<a>> = {1}
  OBVIOUS
<1>2. Whole(n) \in [0 .. 1 -> Nat] /\ Whole(n)[0] = 0 /\ Whole(n)[1] = n
  BY DEF Whole
<1>3. Distinct(<<a>>)
  BY <1>1 DEF Distinct
<1> QED
  BY <1>1, <1>2, <1>3 DEF IsPostings

LEMMA InitType == Init => TypeOK
<1> SUFFICES ASSUME Init PROVE TypeOK
  OBVIOUS
<1>1. \A h \in HoldIds : IsFunding(h, funding[h])
  BY DEF Init, IsFunding
<1>2. \A h \in ApartHolds : destination[h] \notin HoldIds
  BY PlacesFacts, AccountsAssumption DEF Init
<1> QED
  BY <1>1, <1>2 DEF Init, TypeOK, HandlerTypeOK, Accounts

\* A handler takes a request, with a body of the kind it posts.
LEMMA ServeType ==
    ASSUME TypeOK, NEW p \in Handlers, NEW req \in Requests, NEW pc, NEW body, NEW reply,
           Serve(p, req, pc, body, reply),
           pc \in {"idle", "read", "post"},
           reply \in Replies \union {"none"},
           IF pc = "idle" THEN body = None ELSE BodyOf(req, body),
           pc = "read" => req.op = "void"
    PROVE  TypeOK'
<1>1. HandlerTypeOK([pc |-> pc, req |-> req, body |-> body, reply |-> reply])
  BY DEF HandlerTypeOK
<1>2. /\ DOMAIN handler' = Handlers
      /\ \A q \in Handlers : HandlerTypeOK(handler'[q])
  BY <1>1 DEF TypeOK, Serve
<1>3. received' \in Nat
  BY DEF TypeOK, Serve
<1> QED
  BY <1>2, <1>3 DEF TypeOK, Serve, ledger, history

\* The end of a request.
LEMMA AnswerType ==
    ASSUME TypeOK, NEW p \in Handlers, NEW reply \in Replies, Answer(p, reply)
    PROVE  /\ DOMAIN handler' = Handlers
           /\ \A q \in Handlers : HandlerTypeOK(handler'[q])
<1>1. HandlerTypeOK([pc |-> "idle", req |-> handler[p].req, body |-> None, reply |-> reply])
  BY DEF HandlerTypeOK, TypeOK
<1> QED
  BY <1>1 DEF TypeOK, Answer

LEMMA ReceiveType ==
    ASSUME TypeOK, NEW p \in Handlers, Receive(p)
    PROVE  TypeOK'
<1> PICK req \in Requests :
        \/ CreditRefused(p, req) \/ Credit(p, req)
        \/ DebitRefused(p, req) \/ Debit(p, req)
        \/ ConfirmHoldRefused(p, req) \/ ConfirmHold(p, req)
        \/ VoidHoldRefused(p, req) \/ VoidHold(p, req)
  BY DEF Receive
<1>0. CASE CreditRefused(p, req)
  BY <1>0, ServeType DEF CreditRefused, Replies
<1>1. CASE Credit(p, req)
  <2> DEFINE from == IF req.from = <<>> THEN <<World>> ELSE req.from
             body == Send(from, req.amount, req.to, None)
  <2>1. req \in CreditRequests /\ Distinct(req.from) /\ req.op = "credit"
    BY <1>1, RequestKinds DEF Credit
  <2>2. from \in Seq(Places) /\ Distinct(from)
    <3>1. CASE req.from = <<>>
      BY <3>1, PlacesFacts DEF Distinct
    <3>2. CASE req.from # <<>>
      BY <2>1, <3>2, RequestsLeaveApart
    <3> QED
      BY <3>1, <3>2
  <2>3. /\ req.to \in Balances /\ req.to \in Places /\ req.to \notin HoldIds
        /\ req.amount \in Nat \ {0} /\ None \notin ApartHolds
    BY <2>1, PlacesFacts, RequestsLeaveApart, AccountsAssumption DEF CreditRequests
  <2>4. IsSend(body)
    BY <2>2, <2>3 DEF IsSend, Send, Into
  <2>5. BodyOf(req, body)
    BY <2>1, <2>4 DEF BodyOf
  <2>6. Serve(p, req, "post", body, "none")
    BY <1>1 DEF Credit
  <2> HIDE DEF body
  <2> QED
    BY <2>5, <2>6, ServeType
<1>2. CASE DebitRefused(p, req)
  BY <1>2, ServeType DEF DebitRefused, Replies
<1>3. CASE Debit(p, req)
  <2>1. req \in DebitRequests /\ Distinct(req.from) /\ req.op = "debit"
    BY <1>3, RequestKinds DEF Debit
  <2>2. PICK from \in Sources(req, now), hold \in NewHolds(req) :
            Serve(p, req, "post", Send(from, req.amount, req.to, hold), "none")
    BY <1>3 DEF Debit
  <2>3. {b \in Listed(req) : ~Expired(b, now)} \in SUBSET Balances
    <3>1. Listed(req) \subseteq Balances
      BY <2>1, AccountsAssumption DEF Listed, DebitRequests
    <3> QED
      BY <3>1
  <2>4. from \in Seq(Balances) /\ Distinct(from)
    BY <2>2, <2>3, OrderingsAreLists DEF Sources
  <2>5. hold \in HoldIds \union {None}
    BY <2>1, <2>2, KeysAssumption DEF NewHolds, DebitRequests
  <2>6. from \in Seq(Places)
    BY <2>4, PlacesFacts
  <2>7. /\ req.amount \in Nat \ {0} /\ req.to \in Places
        /\ hold \in ApartHolds => req.to \notin HoldIds
    BY <2>1, <2>2, RequestsLeaveApart DEF DebitRequests
  <2>8. IsSend(Send(from, req.amount, req.to, hold))
    BY <2>4, <2>5, <2>6, <2>7 DEF IsSend, Send
  <2>9. BodyOf(req, Send(from, req.amount, req.to, hold))
    BY <2>1, <2>8 DEF BodyOf
  <2> QED
    BY <2>2, <2>9, ServeType
<1>4. CASE ConfirmHoldRefused(p, req)
  BY <1>4, ServeType DEF ConfirmHoldRefused, Replies
<1>5. CASE ConfirmHold(p, req)
  <2> DEFINE body == ConfirmHoldScript(req.hold, ResolvedAmount(req), req.final, destination[req.hold])
  <2>1. req \in ConfirmRequests /\ req.op = "confirm"
    BY <1>5, RequestKinds DEF ConfirmHold
  <2>2. req.hold \in HoldIds /\ req.final \in BOOLEAN /\ req.amount \in Int
    BY <2>1 DEF ConfirmRequests
  <2>3. /\ balance[req.hold] \in Nat /\ destination[req.hold] \in Places
        /\ req.hold \in ApartHolds => destination[req.hold] \notin HoldIds
    BY <2>2, <1>5 DEF TypeOK, Accounts, ConfirmHold, IsHold
  <2>4. ResolvedAmount(req) \in Nat \ {0}
    BY <1>5, <2>2, <2>3, Uint64Type DEF ResolvedAmount, ConfirmHold, IsClosed, Remaining
  <2>5. IsConfirm(body)
    BY <2>2, <2>3, <2>4 DEF IsConfirm, ConfirmHoldScript
  <2>6. BodyOf(req, body)
    BY <2>1, <2>5 DEF BodyOf, ConfirmHoldScript
  <2>7. Serve(p, req, "post", body, "none")
    BY <1>5 DEF ConfirmHold
  <2> HIDE DEF body
  <2> QED
    BY <2>6, <2>7, ServeType
<1>6. CASE VoidHoldRefused(p, req)
  BY <1>6, ServeType DEF VoidHoldRefused, Replies
<1>7. CASE VoidHold(p, req)
  <2>1. req \in VoidRequests /\ req.op = "void"
    BY <1>7, RequestKinds DEF VoidHold
  <2>2. req.hold \in HoldIds /\ 1 \in DOMAIN funding[req.hold]
    BY <2>1, <1>7 DEF VoidRequests, VoidHold, TypeOK, IsFunding
  <2>3. /\ IsPostings(funding[req.hold][1])
        /\ req.hold \in ApartHolds => funding[req.hold][1].from \in Seq(Balances)
    BY <2>2 DEF TypeOK, IsFunding
  <2>4. BodyOf(req, CancelHoldScript(req.hold, funding[req.hold][1]))
    BY <2>1, <2>2, <2>3 DEF BodyOf, IsCancel, CancelHoldScript
  <2>5. Serve(p, req, "read", CancelHoldScript(req.hold, funding[req.hold][1]), "none")
    BY <1>7 DEF VoidHold
  <2> QED
    BY <2>1, <2>4, <2>5, ServeType
<1> QED
  BY <1>0, <1>1, <1>2, <1>3, <1>4, <1>5, <1>6, <1>7

\* The body that a handler posts is of the kind of its request.
LEMMA PostedBody ==
    ASSUME TypeOK, NEW p \in Handlers, handler[p].pc # "idle"
    PROVE  /\ handler[p].req \in Requests
           /\ BodyOf(handler[p].req, Body(p))
           /\ Key(p) \in Keys \union {NoKey}
           /\ Body(p).script = "send" => IsSend(Body(p)) /\ handler[p].req.op \in {"credit", "debit"}
           /\ Body(p).script = "confirm" =>
                 /\ IsConfirm(Body(p)) /\ handler[p].req.op = "confirm"
                 /\ Body(p).hold = handler[p].req.hold
           /\ Body(p).script = "cancel" =>
                 /\ IsCancel(Body(p)) /\ handler[p].req.op = "void"
                 /\ Body(p).hold = handler[p].req.hold
<1>1. handler[p].req \in Requests /\ BodyOf(handler[p].req, Body(p))
  BY DEF TypeOK, HandlerTypeOK, Body
<1>2. IsSend(Body(p)) => Body(p).script = "send"
  BY DEF IsSend, Send
<1>3. IsConfirm(Body(p)) => Body(p).script = "confirm"
  BY DEF IsConfirm, ConfirmHoldScript
<1>4. IsCancel(Body(p)) => Body(p).script = "cancel"
  BY DEF IsCancel, CancelHoldScript
<1>5. handler[p].req.op \in {"credit", "debit", "confirm", "void"} /\ Key(p) \in Keys \union {NoKey}
  BY <1>1, RequestKinds DEF Key
<1> QED
  BY <1>1, <1>2, <1>3, <1>4, <1>5 DEF BodyOf

\* What the ledger records keeps the type of the journal.
LEMMA RecordType ==
    ASSUME TypeOK, NEW p \in Handlers, handler[p].pc # "idle", Record(p)
    PROVE  /\ DOMAIN journal' \subseteq Keys
           /\ journal' = [k \in DOMAIN journal' |-> journal'[k]]
           /\ \A k \in DOMAIN journal' :
                 /\ journal'[k] = [body |-> journal'[k].body, req |-> journal'[k].req]
                 /\ journal'[k].req \in Requests
                 /\ BodyOf(journal'[k].req, journal'[k].body)
BY PostedBody DEF TypeOK, Record

LEMMA CommitSendType ==
    ASSUME TypeOK, NEW p \in Handlers, CommitSend(p)
    PROVE  TypeOK'
<1> DEFINE b == Body(p)
           In(a) == IF a = Into(b) THEN b.amount ELSE 0
<1>1. IsSend(b)
  BY PostedBody DEF CommitSend, Posting
<1>2. PICK cut \in Cuts(Available(b.from, b.amount), b.amount) :
        /\ balance' = [a \in Accounts |-> balance[a] - Paid(b.from, cut, a) + In(a)]
        /\ original' = [h \in HoldIds |-> original[h] + In(h)]
        /\ funding' = [h \in HoldIds |-> Funds(h, In(h), b.from, cut)]
        /\ released' = [h \in HoldIds |-> released[h] + Paid(b.from, cut, h)]
        /\ IF b.hold = None
           THEN UNCHANGED <<destination, status>>
           ELSE /\ destination' = [destination EXCEPT ![b.hold] = b.to]
                /\ status' = [status EXCEPT ![b.hold] = "open"]
  BY DEF CommitSend
<1>3. /\ b.from \in Seq(Places) /\ Distinct(b.from) /\ b.amount \in Nat \ {0}
      /\ b.to \in Places /\ b.hold \in HoldIds \union {None}
      /\ Into(b) \in HoldIds => b.from \in Seq(Balances)
      /\ b.hold \in ApartHolds => b.to \notin HoldIds
  BY <1>1 DEF IsSend
<1>4. /\ cut \in [0 .. Len(b.from) -> Nat] /\ cut[0] = 0
      /\ \A i \in DOMAIN b.from : cut[i - 1] <= cut[i]
      /\ \A a \in Accounts : Paid(b.from, cut, a) \in Nat /\ Paid(b.from, cut, a) <= balance[a]
  <2>1. balance \in [Accounts -> Nat] /\ b.amount \in Nat
    BY <1>3 DEF TypeOK
  <2> HIDE DEF b
  <2> QED
    BY <1>3, <2>1, CutsFund
<1>5. \A a : In(a) \in Nat
  BY <1>3
<1>6. balance' \in [Accounts -> Nat]
  <2>1. \A a \in Accounts : balance[a] \in Nat
    BY DEF TypeOK
  <2> HIDE DEF In
  <2> QED
    BY <1>2, <1>4, <1>5, <2>1
<1>7. original' \in [HoldIds -> Nat] /\ released' \in [HoldIds -> Nat]
  <2>1. \A h \in HoldIds : original[h] \in Nat /\ released[h] \in Nat /\ h \in Accounts
    BY DEF TypeOK, Accounts
  <2> HIDE DEF In
  <2> QED
    BY <1>2, <1>4, <1>5, <2>1
<1>8. /\ destination' \in [HoldIds -> Places \union {None}]
      /\ \A h \in ApartHolds : destination'[h] \notin HoldIds
      /\ status' \in [HoldIds -> {"none", "open", "confirmed", "voided"}]
  <2>1. /\ destination \in [HoldIds -> Places \union {None}]
        /\ \A h \in ApartHolds : destination[h] \notin HoldIds /\ h \in HoldIds
        /\ status \in [HoldIds -> {"none", "open", "confirmed", "voided"}]
    BY PlacesFacts DEF TypeOK
  <2>2. CASE b.hold = None
    BY <1>2, <2>1, <2>2
  <2>3. CASE b.hold # None
    <3>1. /\ destination' = [destination EXCEPT ![b.hold] = b.to]
          /\ status' = [status EXCEPT ![b.hold] = "open"]
      BY <1>2, <2>3
    <3> HIDE DEF b
    <3> QED
      BY <1>3, <2>1, <2>3, <3>1
  <2> QED
    BY <2>2, <2>3
<1>9. \A h \in HoldIds : IsFunding(h, Funds(h, In(h), b.from, cut))
  <2> SUFFICES ASSUME NEW h \in HoldIds PROVE IsFunding(h, Funds(h, In(h), b.from, cut))
    OBVIOUS
  <2>1. IsFunding(h, funding[h])
    BY DEF TypeOK
  <2>2. ASSUME In(h) # 0
        PROVE  IsPostings([from |-> b.from, cut |-> cut]) /\ b.from \in Seq(Balances)
    <3>1. b.from \in Seq(Balances)
      BY <1>3, <2>2
    <3>2. b.from \in Seq(Places \ {World})
      BY <3>1, PlacesFacts
    <3> QED
      BY <1>3, <1>4, <3>1, <3>2 DEF IsPostings
  <2> HIDE DEF In, b
  <2> QED
    BY <2>1, <2>2, FundsType
<1>10. DOMAIN funding' = HoldIds /\ \A h \in HoldIds : IsFunding(h, funding'[h])
  BY <1>2, <1>9
<1>11. /\ DOMAIN journal' \subseteq Keys
      /\ journal' = [k \in DOMAIN journal' |-> journal'[k]]
      /\ \A k \in DOMAIN journal' :
            /\ journal'[k] = [body |-> journal'[k].body, req |-> journal'[k].req]
            /\ journal'[k].req \in Requests
            /\ BodyOf(journal'[k].req, journal'[k].body)
  BY RecordType DEF CommitSend, Posting
<1>12. /\ DOMAIN handler' = Handlers
       /\ \A q \in Handlers : HandlerTypeOK(handler'[q])
  BY AnswerType DEF CommitSend, Done, Replies
<1> QED
  BY <1>6, <1>7, <1>8, <1>10, <1>11, <1>12 DEF TypeOK, CommitSend

LEMMA CommitConfirmType ==
    ASSUME TypeOK, NEW p \in Handlers, CommitConfirm(p)
    PROVE  TypeOK'
<1> DEFINE b == Body(p)
           In(a) == IF a = b.to THEN b.amount ELSE 0
           rest == IF b.final THEN balance[b.hold] - b.amount + In(b.hold) ELSE 0
<1>1. /\ b.hold \in HoldIds /\ b.amount \in Nat \ {0} /\ b.to \in Places
      /\ b.hold \in ApartHolds => b.to \notin HoldIds
  BY PostedBody DEF CommitConfirm, Posting, IsConfirm
<1>2. /\ b.amount <= balance[b.hold]
      /\ balance' = [a \in Accounts |->
              balance[a] - (IF a = b.hold THEN b.amount + rest ELSE 0) + In(a)
                         + (IF a = Main THEN rest ELSE 0)]
      /\ original' = [h \in HoldIds |-> original[h] + In(h)]
      /\ funding' = [h \in HoldIds |-> Funds(h, In(h), <<b.hold>>, Whole(b.amount + rest))]
      /\ paid' = [paid EXCEPT ![b.hold] = @ + b.amount]
      /\ released' = [released EXCEPT ![b.hold] = @ + rest]
      /\ status' = [status EXCEPT ![b.hold] = IF balance'[b.hold] = 0 THEN "confirmed" ELSE @]
  BY DEF CommitConfirm
<1>3. /\ balance[b.hold] \in Nat /\ \A a \in Accounts : balance[a] \in Nat
      /\ \A a : In(a) \in Nat
  BY <1>1 DEF TypeOK, Accounts
<1>4. rest \in Nat /\ b.amount + rest <= balance[b.hold] + In(b.hold)
  BY <1>1, <1>2, <1>3
<1> HIDE DEF b, rest
<1>5. balance' \in [Accounts -> Nat]
  <2>1. ASSUME NEW a \in Accounts
        PROVE  balance[a] - (IF a = b.hold THEN b.amount + rest ELSE 0) + In(a)
                          + (IF a = Main THEN rest ELSE 0) \in Nat
    <3>1. balance[a] \in Nat /\ In(a) \in Nat /\ rest \in Nat /\ b.amount \in Nat
      BY <1>1, <1>3, <1>4
    <3> HIDE DEF In
    <3>2. CASE a = b.hold
      BY <1>4, <3>1, <3>2
    <3>3. CASE a # b.hold
      BY <3>1, <3>3
    <3> QED
      BY <3>2, <3>3
  <2> HIDE DEF In
  <2> QED
    BY <1>2, <2>1
<1>6. original' \in [HoldIds -> Nat]
  <2>1. \A h \in HoldIds : original[h] \in Nat
    BY DEF TypeOK
  <2> HIDE DEF In
  <2> QED
    BY <1>2, <1>3, <2>1
<1>7. /\ paid' \in [HoldIds -> Nat] /\ released' \in [HoldIds -> Nat]
      /\ status' \in [HoldIds -> {"none", "open", "confirmed", "voided"}]
  <2>1. /\ paid \in [HoldIds -> Nat] /\ released \in [HoldIds -> Nat]
        /\ status \in [HoldIds -> {"none", "open", "confirmed", "voided"}]
    BY DEF TypeOK
  <2>2. paid' \in [HoldIds -> Nat] /\ released' \in [HoldIds -> Nat]
    BY <1>1, <1>2, <1>4, <2>1
  <2>3. status' \in [HoldIds -> {"none", "open", "confirmed", "voided"}]
    BY <1>1, <1>2, <2>1
  <2> QED
    BY <2>2, <2>3
<1>8. \A h \in HoldIds : IsFunding(h, Funds(h, In(h), <<b.hold>>, Whole(b.amount + rest)))
  <2> SUFFICES ASSUME NEW h \in HoldIds
               PROVE  IsFunding(h, Funds(h, In(h), <<b.hold>>, Whole(b.amount + rest)))
    OBVIOUS
  <2>1. IsFunding(h, funding[h])
    BY DEF TypeOK
  <2>2. ASSUME In(h) # 0
        PROVE  h \notin ApartHolds /\ b.hold \in Places \ {World}
    BY <1>1, <2>2, PlacesFacts
  <2>3. b.amount + rest \in Nat
    BY <1>1, <1>4
  <2>4. In(h) # 0 => IsPostings([from |-> <<b.hold>>, cut |-> Whole(b.amount + rest)])
    BY <2>2, <2>3, SinglePostings
  <2> HIDE DEF In
  <2> QED
    BY <2>1, <2>2, <2>4, FundsType
<1>9. DOMAIN funding' = HoldIds /\ \A h \in HoldIds : IsFunding(h, funding'[h])
  BY <1>2, <1>8
<1>10. /\ DOMAIN journal' \subseteq Keys
      /\ journal' = [k \in DOMAIN journal' |-> journal'[k]]
      /\ \A k \in DOMAIN journal' :
            /\ journal'[k] = [body |-> journal'[k].body, req |-> journal'[k].req]
            /\ journal'[k].req \in Requests
            /\ BodyOf(journal'[k].req, journal'[k].body)
  BY RecordType DEF CommitConfirm, Posting
<1>11. /\ DOMAIN handler' = Handlers
       /\ \A q \in Handlers : HandlerTypeOK(handler'[q])
  BY AnswerType DEF CommitConfirm, Done, Replies
<1> QED
  BY <1>5, <1>6, <1>7, <1>9, <1>10, <1>11 DEF TypeOK, CommitConfirm

LEMMA CommitCancelType ==
    ASSUME TypeOK, NEW p \in Handlers, CommitCancel(p)
    PROVE  TypeOK'
<1> DEFINE b == Body(p)
           t == b.postings
           r == balance[b.hold]
           back == Refunded(t.from, t.cut, r)
           In(a) == Refund(t.from, t.cut, r, a)
<1>1. /\ b.hold \in HoldIds /\ IsPostings(t)
      /\ b.hold \in ApartHolds => t.from \in Seq(Balances)
  BY PostedBody DEF CommitCancel, Posting, IsCancel
<1>2. /\ balance' = [a \in Accounts |-> balance[a] - (IF a = b.hold THEN back ELSE 0) + In(a)]
      /\ original' = [h \in HoldIds |-> original[h] + In(h)]
      /\ funding' = [h \in HoldIds |-> Funds(h, In(h), <<b.hold>>, Whole(back))]
      /\ refunded' = [refunded EXCEPT ![b.hold] = [a \in Balances |-> @[a] + In(a)]]
      /\ released' = [released EXCEPT ![b.hold] = @ + back]
      /\ status' = [status EXCEPT ![b.hold] = IF r = back THEN "voided" ELSE @]
  BY DEF CommitCancel
<1>3. r \in Nat /\ \A a \in Accounts : balance[a] \in Nat
  BY <1>1 DEF TypeOK, Accounts
<1>4. (\A a : In(a) \in Nat) /\ back \in 0 .. r /\ back \in Nat
  <2>1. \A a : In(a) \in Nat
    BY <1>1, <1>3, RefundType
  <2>2. back \in 0 .. r
    BY <1>1, <1>3, RefundType
  <2> QED
    BY <1>3, <2>1, <2>2
<1>5. \A h \in HoldIds : In(h) # 0 => h \notin ApartHolds /\ b.hold \in Places \ {World}
  <2> SUFFICES ASSUME NEW h \in HoldIds, In(h) # 0
               PROVE  h \notin ApartHolds /\ b.hold \in Places \ {World}
    OBVIOUS
  <2>1. PICK i \in DOMAIN t.from : t.from[i] = h
    BY DEF Refund
  <2>2. h \in Places
    BY <1>1, <2>1 DEF IsPostings
  <2>3. t.from \notin Seq(Balances)
    BY <2>1, PlacesFacts
  <2> QED
    BY <1>1, <2>2, <2>3, PlacesFacts
<1> HIDE DEF b, t, back, In
<1>6. balance' \in [Accounts -> Nat]
  <2>1. ASSUME NEW a \in Accounts
        PROVE  balance[a] - (IF a = b.hold THEN back ELSE 0) + In(a) \in Nat
    <3>1. balance[a] \in Nat /\ In(a) \in Nat /\ (a = b.hold => back <= balance[a])
      BY <1>3, <1>4
    <3> QED
      BY <1>4, <3>1
  <2> QED
    BY <1>2, <2>1
<1>7. original' \in [HoldIds -> Nat]
  <2>1. \A h \in HoldIds : original[h] \in Nat
    BY DEF TypeOK
  <2> QED
    BY <1>2, <1>4, <2>1
<1>8. refunded' \in [HoldIds -> [Balances -> Nat]]
  <2>1. refunded[b.hold] \in [Balances -> Nat]
    BY <1>1 DEF TypeOK
  <2>2. [a \in Balances |-> refunded[b.hold][a] + In(a)] \in [Balances -> Nat]
    BY <1>4, <2>1
  <2> QED
    BY <1>2, <2>2 DEF TypeOK
<1>9. /\ released' \in [HoldIds -> Nat]
      /\ status' \in [HoldIds -> {"none", "open", "confirmed", "voided"}]
  BY <1>1, <1>2, <1>4 DEF TypeOK
<1>10. \A h \in HoldIds : IsFunding(h, Funds(h, In(h), <<b.hold>>, Whole(back)))
  <2> SUFFICES ASSUME NEW h \in HoldIds
               PROVE  IsFunding(h, Funds(h, In(h), <<b.hold>>, Whole(back)))
    OBVIOUS
  <2>1. IsFunding(h, funding[h])
    BY DEF TypeOK
  <2>2. In(h) # 0 => IsPostings([from |-> <<b.hold>>, cut |-> Whole(back)])
    BY <1>4, <1>5, SinglePostings
  <2> QED
    BY <1>5, <2>1, <2>2, FundsType
<1>11. DOMAIN funding' = HoldIds /\ \A h \in HoldIds : IsFunding(h, funding'[h])
  BY <1>2, <1>10
<1>12. /\ DOMAIN journal' \subseteq Keys
      /\ journal' = [k \in DOMAIN journal' |-> journal'[k]]
      /\ \A k \in DOMAIN journal' :
            /\ journal'[k] = [body |-> journal'[k].body, req |-> journal'[k].req]
            /\ journal'[k].req \in Requests
            /\ BodyOf(journal'[k].req, journal'[k].body)
  BY RecordType DEF CommitCancel, Posting
<1>13. /\ DOMAIN handler' = Handlers
       /\ \A q \in Handlers : HandlerTypeOK(handler'[q])
  BY AnswerType DEF CommitCancel, Done, Replies
<1> QED
  BY <1>6, <1>7, <1>8, <1>9, <1>11, <1>12, <1>13 DEF TypeOK, CommitCancel

LEMMA QuietType ==
    ASSUME TypeOK, NEW p \in Handlers,
           ReadHold(p) \/ Replay(p) \/ Conflict(p) \/ Refuse(p) \/ Fail(p)
    PROVE  TypeOK'
<1>1. CASE \E reply \in Replies : Answer(p, reply) /\ UNCHANGED <<ledger, now, received, history>>
  BY <1>1, AnswerType DEF TypeOK, ledger, history
<1>2. CASE ReadHold(p)
  <2>1. CASE \E reply \in Replies : Answer(p, reply)
    BY <1>1, <1>2, <2>1 DEF ReadHold
  <2>2. CASE handler' = [handler EXCEPT ![p].pc = "post"]
    <3>1. handler[p].pc = "read" /\ HandlerTypeOK(handler[p])
      BY <1>2 DEF ReadHold, TypeOK
    <3>2. HandlerTypeOK(handler'[p])
      BY <2>2, <3>1 DEF HandlerTypeOK, TypeOK
    <3> QED
      BY <1>2, <2>2, <3>2 DEF ReadHold, TypeOK, ledger, history
  <2> QED
    BY <1>2, <2>1, <2>2 DEF ReadHold, Replies
<1>3. CASE Replay(p)
  BY <1>1, <1>3 DEF Replay, Done, Replies
<1>4. CASE Conflict(p)
  BY <1>1, <1>4 DEF Conflict, Replies
<1>5. CASE Refuse(p)
  BY <1>1, <1>5 DEF Refuse, Replies
<1>6. CASE Fail(p)
  BY <1>1, <1>6 DEF Fail, Replies
<1> QED
  BY <1>2, <1>3, <1>4, <1>5, <1>6

LEMMA StepType == TypeOK /\ [Next]_vars => TypeOK'
<1> SUFFICES ASSUME TypeOK, [Next]_vars PROVE TypeOK'
  OBVIOUS
<1>1. CASE Tick
  BY <1>1 DEF Tick, TypeOK, ledger, history
<1>2. ASSUME NEW p \in Handlers, Receive(p) PROVE TypeOK'
  BY <1>2, ReceiveType
<1>3. ASSUME NEW p \in Handlers, ReadHold(p) \/ Fail(p) PROVE TypeOK'
  BY <1>3, QuietType
<1>4. ASSUME NEW p \in Handlers, CreateTransaction(p) PROVE TypeOK'
  BY <1>4, QuietType, CommitSendType, CommitConfirmType, CommitCancelType DEF CreateTransaction
<1>5. CASE UNCHANGED vars
  BY <1>5 DEF vars, ledger, history, TypeOK
<1> QED
  BY <1>1, <1>2, <1>3, <1>4, <1>5 DEF Next

\* In every reachable state the variables have their types; in particular no
\* account of the wallet and no hold is ever overdrawn.
THEOREM TypeCorrect == Spec => []TypeOK
BY InitType, StepType, PTL DEF Spec
-----------------------------------------------------------------------------
(* Lists that are in order.                                                  *)

\* Every set of numbers that is not empty has a least one: the induction of
\* the proofs below, which look at the first place where something fails.
LEMMA LeastNumber ==
    ASSUME NEW T, T \subseteq Nat, T # {}
    PROVE  \E i \in T : \A j \in T : i <= j
<1> DEFINE R == {p \in Nat \X Nat : p[1] < p[2]}
<1>1. IsWellFoundedOn(R, Nat)
  BY NatLessThanWellFounded, Zenon DEF OpToRel
<1>2. \A i, j \in Nat : <<i, j>> \in R <=> i < j
  OBVIOUS
<1> HIDE DEF R
<1>3. PICK i \in T : \A j \in T : ~(<<j, i>> \in R)
  BY <1>1, WFMin
<1>4. \A j \in T : i \in Nat /\ j \in Nat /\ ~(j < i)
  BY <1>2, <1>3
<1> QED
  BY <1>4

\* An ordering of a set lists each of its members.
LEMMA OrderingsAreComplete ==
    ASSUME NEW S, IsFiniteSet(S), NEW s \in Orderings(S)
    PROVE  \A b \in S : \E i \in 1 .. Cardinality(S) : s[i] = b
<1>1. Cardinality(S) \in Nat
  BY FS_CardinalityType
<1>2. IsFiniteSet(1 .. Cardinality(S)) /\ Cardinality(1 .. Cardinality(S)) = Cardinality(S)
  BY <1>1, FS_Interval
<1>3. s \in Injection(1 .. Cardinality(S), S)
  BY DEF Orderings, Injection, IsInjective
<1>4. s \in Surjection(1 .. Cardinality(S), S)
  BY <1>2, <1>3, FS_Injection
<1> QED
  BY <1>4 DEF Surjection

\* Two orderings of a set by the same relation, which is strict, are the same.
LEMMA OneOrdering ==
    ASSUME NEW S, IsFiniteSet(S), NEW s \in Orderings(S), NEW t \in Orderings(S),
           NEW R, \A b, c \in S : ~(<<b, c>> \in R /\ <<c, b>> \in R),
           \A i, j \in 1 .. Cardinality(S) : i < j => <<s[i], s[j]>> \in R /\ <<t[i], t[j]>> \in R
    PROVE  s = t
<1> DEFINE n == Cardinality(S)
<1>1. n \in Nat
  BY FS_CardinalityType
<1>2. /\ s \in [1 .. n -> S] /\ \A i, j \in 1 .. n : s[i] = s[j] => i = j
      /\ t \in [1 .. n -> S] /\ \A i, j \in 1 .. n : t[i] = t[j] => i = j
  BY DEF Orderings
<1>3. /\ \A b \in S : \E i \in 1 .. n : s[i] = b
      /\ \A b \in S : \E i \in 1 .. n : t[i] = b
  BY OrderingsAreComplete
<1>4. \A i, j \in 1 .. n : i < j => <<s[i], s[j]>> \in R /\ <<t[i], t[j]>> \in R
  OBVIOUS
<1> HIDE DEF n
<1> DEFINE T == {i \in 1 .. n : s[i] # t[i]}
<1>5. ASSUME T # {} PROVE FALSE
  <2>1. T \subseteq Nat
    BY <1>1
  <2>2. PICK i \in T : \A j \in T : i <= j
    BY <1>5, <2>1, LeastNumber
  <2>3. i \in 1 .. n /\ s[i] # t[i] /\ s[i] \in S /\ t[i] \in S
    BY <1>2
  <2>4. \A j \in 1 .. n : j < i => s[j] = t[j]
    BY <1>1, <2>2, <2>3
  <2>5. PICK j \in 1 .. n : t[j] = s[i]
    BY <1>3, <2>3
  <2>6. PICK k \in 1 .. n : s[k] = t[i]
    BY <1>3, <2>3
  <2>7. i < j
    BY <1>1, <1>2, <2>3, <2>4, <2>5
  <2>8. i < k
    BY <1>1, <1>2, <2>3, <2>4, <2>6
  <2>9. <<s[i], t[i]>> \in R /\ <<t[i], s[i]>> \in R
    BY <1>4, <2>3, <2>5, <2>6, <2>7, <2>8
  <2> QED
    BY <2>3, <2>9
<1>6. \A i \in 1 .. n : s[i] = t[i]
  BY <1>5
<1>7. s = [i \in 1 .. n |-> s[i]] /\ t = [i \in 1 .. n |-> t[i]]
  BY <1>2
<1>8. [i \in 1 .. n |-> s[i]] = [i \in 1 .. n |-> t[i]]
  BY <1>6
<1> QED
  BY <1>7, <1>8, Zenon

-----------------------------------------------------------------------------
(* Debits under a key.                                                       *)

\* What is named is listed.
LEMMA ListedBalances ==
    ASSUME NEW req \in Requests, req.op = "debit"
    PROVE  /\ req \in DebitRequests /\ Distinct(req.from)
           /\ Listed(req) \subseteq Balances
<1>1. req \in DebitRequests /\ Distinct(req.from)
  BY RequestsAssumption DEF CreditRequests, DebitRequests, ConfirmRequests, VoidRequests
<1>2. req.from \in Seq(Balances)
  BY <1>1 DEF DebitRequests
<1>3. \A i \in DOMAIN req.from : req.from[i] \in Balances
  BY <1>2
<1> QED
  BY <1>1, <1>3, AccountsAssumption DEF Listed

\* The sources of a debit that names its balances come in one order.
LEMMA OneSourceList ==
    ASSUME NEW req \in Requests, req.op = "debit", ~req.all, NEW t,
           NEW s \in Sources(req, t), NEW u \in Sources(req, t)
    PROVE  s = u
<1> DEFINE S == {b \in Listed(req) : ~Expired(b, t)}
           R == {p \in Balances \X Balances : MayPrecede(req, p[1], p[2])}
<1>1. /\ S \subseteq Balances /\ IsFiniteSet(S) /\ Cardinality(S) \in Nat
  BY ListedBalances, AccountsAssumption, FS_Subset, FS_CardinalityType
<1>2. /\ s \in Orderings(S) /\ u \in Orderings(S)
      /\ \A i, j \in DOMAIN s : i < j => MayPrecede(req, s[i], s[j])
      /\ \A i, j \in DOMAIN u : i < j => MayPrecede(req, u[i], u[j])
  BY DEF Sources
<1>3. ASSUME NEW b, NEW c, MayPrecede(req, b, c), MayPrecede(req, c, b) PROVE FALSE
  <2>1. PICK i, j \in DOMAIN req.from : req.from[i] = b /\ req.from[j] = c /\ i < j
    BY <1>3 DEF MayPrecede
  <2>2. PICK k, l \in DOMAIN req.from : req.from[k] = c /\ req.from[l] = b /\ k < l
    BY <1>3 DEF MayPrecede
  <2>3. i = l /\ j = k
    BY <2>1, <2>2, ListedBalances DEF Distinct
  <2>4. DOMAIN req.from \subseteq Int
    <3>1. req.from \in Seq(Balances)
      BY ListedBalances DEF DebitRequests
    <3> QED
      BY <3>1
  <2> QED
    BY <2>1, <2>2, <2>3, <2>4
<1>4. \A b, c \in S : <<b, c>> \in R <=> MayPrecede(req, b, c)
  BY <1>1
<1> HIDE DEF S, R
<1>5. /\ s \in [1 .. Cardinality(S) -> S] /\ u \in [1 .. Cardinality(S) -> S]
  BY <1>2 DEF Orderings
<1>6. \A b, c \in S : ~(<<b, c>> \in R /\ <<c, b>> \in R)
  BY <1>3, <1>4
<1>7. \A i, j \in 1 .. Cardinality(S) : i < j => <<s[i], s[j]>> \in R /\ <<u[i], u[j]>> \in R
  BY <1>2, <1>4, <1>5
<1> QED
  BY <1>1, <1>2, <1>6, <1>7, OneOrdering

\* A retry of a debit under a key builds the body that it built before.
LEMMA OneBody ==
    ASSUME NEW req \in Requests, req.op = "debit", NEW t, NEW a, NEW b,
           Repeats(req, a, t), Repeats(req, b, t)
    PROVE  a = b
<1>1. ~req.all
  BY KeysAssumption DEF Repeats, NonIdempotent
<1>2. PICK s \in Sources(req, t) : a = Send(s, req.amount, req.to, KeyedHold(req))
  BY DEF Repeats
<1>3. PICK u \in Sources(req, t) : b = Send(u, req.amount, req.to, KeyedHold(req))
  BY DEF Repeats
<1> QED
  BY <1>1, <1>2, <1>3, OneSourceList

\* Time takes nothing from it: the balances that expire had expired before.
LEMMA RepeatsLater ==
    ASSUME NEW req \in Requests, req.op = "debit", NEW b, NEW t \in Nat, Repeats(req, b, t)
    PROVE  Repeats(req, b, t + 1)
<1> DEFINE u == t + 1
<1>1. \A c \in Listed(req) : Expired(c, t) <=> Expires(c)
  BY KeysAssumption DEF Repeats, NonIdempotent, Expired
<1>2. \A c \in Listed(req) : Expired(c, u) <=> Expires(c)
  <2> SUFFICES ASSUME NEW c \in Listed(req), Expires(c) PROVE Expired(c, u)
    BY DEF Expired
  <2>1. Expiry[c] \in Nat /\ Expired(c, t)
    BY <1>1, ListedBalances, NumbersAssumption DEF Expires
  <2> QED
    BY <2>1 DEF Expired
<1> HIDE DEF u
<1>3. \A c \in Listed(req) : Expired(c, u) <=> Expired(c, t)
  BY <1>1, <1>2
<1>4. Sources(req, u) = Sources(req, t)
  <2>1. {c \in Listed(req) : ~Expired(c, u)} = {c \in Listed(req) : ~Expired(c, t)}
    BY <1>3
  <2> QED
    BY <2>1 DEF Sources
<1>5. NonIdempotent(req, u) <=> NonIdempotent(req, t)
  BY <1>3 DEF NonIdempotent
<1>6. AllExpired(req, u) <=> AllExpired(req, t)
  BY <1>3 DEF AllExpired
<1>7. Repeats(req, b, u)
  BY <1>4, <1>5, <1>6 DEF Repeats
<1> QED
  BY <1>7 DEF u

\* Handlers that stop posting, or post what they posted or a new debit, and a
\* journal that records what was posted, keep the invariant.
LEMMA DebitsKept ==
    ASSUME TypeOK, DebitsOK, now' = now \/ now' = now + 1,
           \A p \in Handlers :
             \/ handler'[p] = handler[p]
             \/ handler'[p].pc # "post"
             \/ handler'[p].req.op # "debit"
             \/ handler'[p].req.key # NoKey /\ now' = now =>
                  Repeats(handler'[p].req, handler'[p].body, now),
           now' = now \/ handler' = handler,
           \/ journal' = journal
           \/ \E p \in Handlers : Posting(p) /\ Record(p)
    PROVE  DebitsOK'
<1>1. now \in Nat /\ \A p \in Handlers : Posting(p) => handler[p].req \in Requests
  BY PostedBody DEF TypeOK, Posting
<1>2. ASSUME NEW req \in Requests, NEW b, req.op = "debit", Repeats(req, b, now)
      PROVE  Repeats(req, b, now')
  BY <1>1, <1>2, RepeatsLater
<1>3. ASSUME NEW p \in Handlers, handler'[p].pc = "post", handler'[p].req.op = "debit",
             handler'[p].req.key # NoKey
      PROVE  Repeats(handler'[p].req, handler'[p].body, now')
  <2>1. CASE handler'[p] = handler[p]
    <3>1. /\ handler[p].req \in Requests /\ handler[p].req.op = "debit"
          /\ Repeats(handler[p].req, handler[p].body, now)
      BY <1>1, <1>3, <2>1 DEF DebitsOK, Posting, Body, Key
    <3> QED
      BY <1>2, <2>1, <3>1
  <2>2. CASE handler'[p] # handler[p]
    BY <1>3, <2>2
  <2> QED
    BY <2>1, <2>2
<1>4. ASSUME NEW k \in DOMAIN journal', journal'[k].req.op = "debit"
      PROVE  Repeats(journal'[k].req, journal'[k].body, now')
  <2>1. CASE k \in DOMAIN journal /\ journal'[k] = journal[k]
    <3>1. journal[k].req \in Requests /\ Repeats(journal[k].req, journal[k].body, now)
      BY <1>4, <2>1 DEF TypeOK, DebitsOK
    <3> QED
      BY <1>2, <1>4, <2>1, <3>1
  <2>2. CASE ~(k \in DOMAIN journal /\ journal'[k] = journal[k])
    <3>1. PICK p \in Handlers : Posting(p) /\ Record(p)
      BY <2>2
    <3>2. k = Key(p) /\ Key(p) # NoKey /\ journal'[k] = [body |-> Body(p), req |-> handler[p].req]
      BY <2>2, <3>1 DEF Record
    <3>3. handler[p].req \in Requests /\ Repeats(handler[p].req, Body(p), now)
      BY <1>1, <1>4, <3>1, <3>2 DEF DebitsOK
    <3> QED
      BY <1>2, <1>4, <3>2, <3>3
  <2> QED
    BY <2>1, <2>2
<1> QED
  BY <1>3, <1>4 DEF DebitsOK, Posting, Body, Key

\* A debit that is accepted under a key is one that repeats.
LEMMA ReceiveDebits ==
    ASSUME TypeOK, DebitsOK, NEW p \in Handlers, Receive(p)
    PROVE  DebitsOK'
<1>1. DOMAIN handler = Handlers
  BY DEF TypeOK
<1>2. PICK req \in Requests :
        \/ CreditRefused(p, req) \/ Credit(p, req)
        \/ DebitRefused(p, req) \/ Debit(p, req)
        \/ ConfirmHoldRefused(p, req) \/ ConfirmHold(p, req)
        \/ VoidHoldRefused(p, req) \/ VoidHold(p, req)
  BY DEF Receive
<1>3. CASE Debit(p, req)
  <2>1. PICK from \in Sources(req, now), hold \in NewHolds(req) :
          Serve(p, req, "post", Send(from, req.amount, req.to, hold), "none")
    BY <1>3 DEF Debit
  <2>2. req.key # NoKey => hold = KeyedHold(req)
    BY DEF NewHolds, KeyedHold
  <2>3. req.key # NoKey => Repeats(req, Send(from, req.amount, req.to, hold), now)
    <3>1. req.key \in Keys \union {NoKey}
      BY <1>3, ListedBalances DEF Debit, DebitRequests
    <3> QED
      BY <1>3, <2>2, <3>1 DEF Debit, Repeats
  <2>4. /\ handler'[p].req = req /\ handler'[p].body = Send(from, req.amount, req.to, hold)
        /\ \A q \in Handlers \ {p} : handler'[q] = handler[q]
        /\ now' = now /\ journal' = journal
    BY <1>1, <2>1 DEF Serve, ledger
  <2> QED
    BY <2>3, <2>4, DebitsKept
<1>4. CASE ~Debit(p, req)
  <2>1. PICK pc, body, reply : Serve(p, req, pc, body, reply) /\ (pc # "post" \/ req.op # "debit")
    BY <1>2, <1>4 DEF CreditRefused, Credit, DebitRefused, ConfirmHoldRefused, ConfirmHold, VoidHoldRefused, VoidHold
  <2>2. /\ handler'[p].req = req /\ handler'[p].pc = pc
        /\ \A q \in Handlers \ {p} : handler'[q] = handler[q]
        /\ now' = now /\ journal' = journal
    BY <1>1, <2>1 DEF Serve, ledger
  <2> QED
    BY <2>1, <2>2, DebitsKept
<1> QED
  BY <1>3, <1>4

LEMMA DebitsStep == TypeOK /\ DebitsOK /\ [Next]_vars => DebitsOK'
<1> SUFFICES ASSUME TypeOK, DebitsOK, [Next]_vars PROVE DebitsOK'
  OBVIOUS
<1>1. DOMAIN handler = Handlers /\ \A p \in Handlers : HandlerTypeOK(handler[p])
  BY DEF TypeOK
<1>2. CASE Tick \/ UNCHANGED vars
  BY <1>2, DebitsKept DEF Tick, vars, ledger
<1>3. ASSUME NEW p \in Handlers, \E reply : Answer(p, reply)
      PROVE  handler'[p].pc = "idle" /\ \A q \in Handlers \ {p} : handler'[q] = handler[q]
  BY <1>1, <1>3 DEF Answer
<1>4. ASSUME NEW p \in Handlers, ReadHold(p) PROVE DebitsOK'
  <2>1. now' = now /\ journal' = journal
    BY <1>4 DEF ReadHold, ledger
  <2>2. CASE handler' = [handler EXCEPT ![p].pc = "post"]
    <3>1. handler[p].req.op = "void"
      BY <1>1, <1>4 DEF ReadHold, HandlerTypeOK
    <3>2. handler'[p].req.op # "debit" /\ \A q \in Handlers \ {p} : handler'[q] = handler[q]
      BY <1>1, <2>2, <3>1 DEF HandlerTypeOK
    <3> QED
      BY <2>1, <3>2, DebitsKept
  <2>3. CASE \E reply : Answer(p, reply)
    BY <1>3, <2>1, <2>3, DebitsKept
  <2> QED
    BY <1>4, <2>2, <2>3 DEF ReadHold
<1>5. ASSUME NEW p \in Handlers, Replay(p) \/ Conflict(p) \/ Refuse(p) \/ Fail(p) PROVE DebitsOK'
  <2>1. (\E reply : Answer(p, reply)) /\ now' = now /\ journal' = journal
    BY <1>5 DEF Replay, Done, Conflict, Refuse, Fail, ledger
  <2> QED
    BY <1>3, <2>1, DebitsKept
<1>6. ASSUME NEW p \in Handlers, CommitSend(p) \/ CommitConfirm(p) \/ CommitCancel(p) PROVE DebitsOK'
  <2>1. (\E reply : Answer(p, reply)) /\ now' = now /\ Posting(p) /\ Record(p)
    BY <1>6 DEF CommitSend, CommitConfirm, CommitCancel, Done
  <2> QED
    BY <1>3, <2>1, DebitsKept
<1> QED
  BY <1>2, <1>4, <1>5, <1>6, ReceiveDebits DEF Next, CreateTransaction

LEMMA DebitsInvariant == Spec => []DebitsOK
<1>1. Init => DebitsOK
  BY DEF Init, DebitsOK, Posting
<1> QED
  BY <1>1, DebitsStep, TypeCorrect, PTL DEF Spec

\* A debit that was committed under a key is answered by its replay, whatever
\* has expired and however the balances stand by the time of the retry.
THEOREM KeyedDebitsReplay == Spec => DebitRetryReplays
<1>1. ASSUME TypeOK, DebitsOK, [Next]_vars, NEW p \in Handlers, handler'[p] # handler[p],
             Answered(p, "debit")', Key(p)' \in DOMAIN journal,
             journal[Key(p)'].req = handler[p].req'
      PROVE  handler[p].reply' \in {"ok", "Unavailable"}
  <2>1. /\ DOMAIN handler = Handlers /\ HandlerTypeOK(handler[p])
        /\ Key(p)' \in Keys /\ Key(p)' # NoKey
        /\ handler'[p].pc = "idle" /\ handler'[p].req.op = "debit"
        /\ Repeats(handler'[p].req, journal[Key(p)'].body, now)
    BY <1>1, KeysAssumption DEF TypeOK, DebitsOK, Answered
  <2>2. CASE Receive(p)
    <3>1. PICK req \in Requests :
            \/ CreditRefused(p, req) \/ Credit(p, req)
            \/ DebitRefused(p, req) \/ Debit(p, req)
            \/ ConfirmHoldRefused(p, req) \/ ConfirmHold(p, req)
            \/ VoidHoldRefused(p, req) \/ VoidHold(p, req)
      BY <2>2 DEF Receive
    <3>2. PICK pc, body, reply : Serve(p, req, pc, body, reply) /\ (pc = "idle" /\ req.op = "debit" => DebitRefused(p, req))
      BY <3>1 DEF CreditRefused, Credit, DebitRefused, Debit, ConfirmHoldRefused, ConfirmHold, VoidHoldRefused, VoidHold
    <3>3. handler'[p].req = req /\ handler'[p].pc = pc
      BY <2>1, <3>2 DEF Serve
    <3>4. DebitRefused(p, req)
      BY <2>1, <3>2, <3>3
    <3> QED
      BY <2>1, <3>3, <3>4 DEF DebitRefused, Repeats
  <2>3. CASE ReadHold(p)
    <3>1. handler[p].req.op = "void" /\ handler'[p].req = handler[p].req
      BY <2>1, <2>3 DEF ReadHold, Answer, HandlerTypeOK
    <3> QED
      BY <2>1, <3>1
  <2>4. CASE Fail(p) \/ Replay(p) \/ CommitSend(p) \/ CommitConfirm(p) \/ CommitCancel(p)
    <3>1. PICK reply \in {"ok", "Unavailable"} : Answer(p, reply)
      BY <2>4 DEF Fail, Replay, CommitSend, CommitConfirm, CommitCancel, Done
    <3> QED
      BY <2>1, <3>1 DEF Answer
  <2>5. CASE Conflict(p) \/ Refuse(p)
    <3>1. /\ handler'[p].req = handler[p].req /\ Key(p)' = Key(p)
          /\ Posting(p)
      BY <2>1, <2>5 DEF Conflict, Refuse, Answer, Key
    <3>2. Journaled(p)
      BY <1>1, <2>1, <3>1 DEF Journaled
    <3>3. Conflict(p) /\ journal[Key(p)].body # Body(p)
      BY <2>5, <3>2 DEF Conflict, Refuse
    <3>4. handler[p].req \in Requests /\ Repeats(handler[p].req, Body(p), now)
      BY <1>1, <2>1, <3>1, PostedBody DEF DebitsOK, Posting
    <3>5. Repeats(handler[p].req, journal[Key(p)].body, now)
      BY <2>1, <3>1
    <3> QED
      BY <2>1, <3>1, <3>3, <3>4, <3>5, OneBody
  <2>6. ASSUME NEW q \in Handlers, q # p,
               Receive(q) \/ ReadHold(q) \/ CreateTransaction(q) \/ Fail(q)
        PROVE  FALSE
    <3>1. \A reply : Answer(q, reply) => handler'[p] = handler[p]
      BY <2>6 DEF Answer
    <3>2. CASE Receive(q)
      BY <1>1, <2>1, <2>6, <3>2 DEF Receive, CreditRefused, Credit, DebitRefused, Debit, ConfirmHoldRefused, ConfirmHold,
                              VoidHoldRefused, VoidHold, Serve
    <3>3. CASE ReadHold(q)
      <4>1. handler' = [handler EXCEPT ![q].pc = "post"] => handler'[p] = handler[p]
        BY <2>1, <2>6
      <4> QED
        BY <1>1, <3>1, <3>3, <4>1 DEF ReadHold
    <3>4. CASE CreateTransaction(q) \/ Fail(q)
      BY <1>1, <3>1, <3>4 DEF CreateTransaction, Fail, Replay, Conflict, Refuse, CommitSend,
                              CommitConfirm, CommitCancel, Done
    <3> QED
      BY <2>6, <3>2, <3>3, <3>4
  <2>7. CASE Tick \/ UNCHANGED vars
    BY <1>1, <2>7 DEF Tick, vars
  <2> QED
    BY <1>1, <2>2, <2>3, <2>4, <2>5, <2>6, <2>7 DEF Next, CreateTransaction
<1>2. TypeOK /\ DebitsOK /\ [Next]_vars =>
        [\A p \in Handlers :
          /\ handler'[p] # handler[p]
          /\ Answered(p, "debit")'
          /\ Key(p)' \in DOMAIN journal
          /\ journal[Key(p)'].req = handler[p].req'
          => handler[p].reply' \in {"ok", "Unavailable"}]_vars
  BY <1>1
<1> QED
  BY <1>2, TypeCorrect, DebitsInvariant, PTL DEF Spec, DebitRetryReplays

-----------------------------------------------------------------------------
(* Debits from all the balances.                                             *)

\* A handler comes to post a debit by Debit.
LEMMA NewDebits ==
    ASSUME TypeOK, [Next]_vars, NEW p \in Handlers, handler'[p] # handler[p],
           handler'[p].pc = "post", handler'[p].req.op = "debit"
    PROVE  \E req \in Requests : \E from \in Sources(req, now), hold \in NewHolds(req) :
             handler'[p] = [pc |-> "post", req |-> req,
                            body |-> Send(from, req.amount, req.to, hold), reply |-> "none"]
<1>1. DOMAIN handler = Handlers /\ HandlerTypeOK(handler[p])
  BY DEF TypeOK
<1>2. ASSUME NEW q \in Handlers, \E reply : Answer(q, reply) PROVE FALSE
  <2>1. q # p => handler'[p] = handler[p]
    BY <1>2 DEF Answer
  <2>2. q = p => handler'[p].pc = "idle"
    BY <1>1, <1>2 DEF Answer
  <2> QED
    BY <2>1, <2>2
<1>3. ASSUME NEW q \in Handlers, Receive(q)
      PROVE  \E req \in Requests : \E from \in Sources(req, now), hold \in NewHolds(req) :
               handler'[p] = [pc |-> "post", req |-> req,
                              body |-> Send(from, req.amount, req.to, hold), reply |-> "none"]
  <2>1. PICK req \in Requests :
          \/ CreditRefused(q, req) \/ Credit(q, req)
          \/ DebitRefused(q, req) \/ Debit(q, req)
          \/ ConfirmHoldRefused(q, req) \/ ConfirmHold(q, req)
          \/ VoidHoldRefused(q, req) \/ VoidHold(q, req)
    BY <1>3 DEF Receive
  <2>2. CASE Debit(q, req)
    <3>1. PICK from \in Sources(req, now), hold \in NewHolds(req) :
            Serve(q, req, "post", Send(from, req.amount, req.to, hold), "none")
      BY <2>2 DEF Debit
    <3> DEFINE body == Send(from, req.amount, req.to, hold)
    <3> HIDE DEF body
    <3>2. handler' = [handler EXCEPT ![q] = [pc |-> "post", req |-> req, body |-> body, reply |-> "none"]]
      BY <3>1 DEF Serve, body
    <3>3. p = q
      BY <3>2
    <3>4. handler'[p] = [pc |-> "post", req |-> req, body |-> body, reply |-> "none"]
      BY <1>1, <3>2, <3>3
    <3> QED
      BY <3>4 DEF body
  <2>3. CASE ~Debit(q, req)
    <3>1. PICK pc, body, reply : Serve(q, req, pc, body, reply) /\ (pc # "post" \/ req.op # "debit")
      BY <2>1, <2>3 DEF CreditRefused, Credit, DebitRefused, ConfirmHoldRefused, ConfirmHold, VoidHoldRefused, VoidHold
    <3> QED
      BY <1>1, <3>1 DEF Serve
  <2> QED
    BY <2>2, <2>3
<1>4. ASSUME NEW q \in Handlers, ReadHold(q) PROVE FALSE
  <2>1. CASE handler' = [handler EXCEPT ![q].pc = "post"]
    <3>1. handler[q].pc = "read" /\ HandlerTypeOK(handler[q])
      BY <1>4 DEF ReadHold, TypeOK
    <3> QED
      BY <1>1, <2>1, <3>1 DEF HandlerTypeOK
  <2> QED
    BY <1>2, <1>4, <2>1 DEF ReadHold
<1>5. ASSUME NEW q \in Handlers, CreateTransaction(q) \/ Fail(q) PROVE FALSE
  <2>1. \E reply : Answer(q, reply)
    BY <1>5 DEF CreateTransaction, Fail, Replay, Conflict, Refuse, CommitSend, CommitConfirm,
                CommitCancel, Done
  <2> QED
    BY <1>2, <2>1
<1>6. CASE Tick \/ UNCHANGED vars
  BY <1>6 DEF Tick, vars
<1> QED
  BY <1>3, <1>4, <1>5, <1>6 DEF Next

LEMMA SourcesStep == TypeOK /\ SourcesOK /\ [Next]_vars => SourcesOK'
<1> SUFFICES ASSUME TypeOK, SourcesOK, [Next]_vars, NEW p \in Handlers,
                    handler'[p].pc = "post", handler'[p].req.op = "debit"
             PROVE  /\ InOrder(handler'[p].req, handler'[p].body.from)
                    /\ handler'[p].body.to = handler'[p].req.to
  BY DEF SourcesOK, Posting, Body
<1>1. CASE handler'[p] = handler[p]
  BY <1>1 DEF SourcesOK, Posting, Body
<1>2. CASE handler'[p] # handler[p]
  <2>1. PICK req \in Requests : \E from \in Sources(req, now), hold \in NewHolds(req) :
             handler'[p] = [pc |-> "post", req |-> req,
                            body |-> Send(from, req.amount, req.to, hold), reply |-> "none"]
    BY <1>2, NewDebits
  <2>2. PICK from \in Sources(req, now), hold \in NewHolds(req) :
             handler'[p] = [pc |-> "post", req |-> req,
                            body |-> Send(from, req.amount, req.to, hold), reply |-> "none"]
    BY <2>1
  <2>3. /\ handler'[p].req = req /\ handler'[p].body.from = from
        /\ handler'[p].body.to = req.to
    BY <2>2 DEF Send
  <2>4. InOrder(req, from)
    BY DEF Sources, InOrder
  <2> QED
    BY <2>3, <2>4
<1> QED
  BY <1>1, <1>2

\* A source is drained before the next one pays.
LEMMA CutsDrain ==
    ASSUME NEW from \in Seq(Places), NEW n \in Nat,
           balance \in [Accounts -> Nat],
           NEW cut \in Cuts(Available(from, n), n),
           NEW i \in DOMAIN from, NEW j \in DOMAIN from, i < j, cut[j - 1] < cut[j], from[i] \in Balances
    PROVE  cut[i] - cut[i - 1] = balance[from[i]]
<1>1. /\ DOMAIN from = 1 .. Len(from) /\ Len(from) \in Nat
      /\ \A k \in DOMAIN from : from[k] \in Places
  OBVIOUS
<1>2. /\ Len(Available(from, n)) = Len(from)
      /\ \A k \in DOMAIN from : Available(from, n)[k] = IF from[k] = World THEN n ELSE balance[from[k]]
      /\ \A k \in DOMAIN from : Available(from, n)[k] \in Nat
  <2>1. \A k \in DOMAIN from : (IF from[k] = World THEN n ELSE balance[from[k]]) \in Nat
    BY <1>1, PlacesFacts
  <2>2. Available(from, n) \in Seq(Nat)
    BY <1>1, <2>1 DEF Available
  <2> QED
    BY <1>1, <2>1, <2>2 DEF Available
<1>3. /\ cut \in [0 .. Len(from) -> 0 .. n]
      /\ \A k \in 1 .. Len(from) : cut[k] = Least(n, cut[k - 1] + Available(from, n)[k])
  BY <1>1, <1>2 DEF Cuts
<1>4. \A k \in 1 .. Len(from) : cut[k - 1] \in 0 .. n /\ cut[k] \in 0 .. n /\ cut[k - 1] <= cut[k]
  <2> SUFFICES ASSUME NEW k \in 1 .. Len(from)
               PROVE  cut[k - 1] \in 0 .. n /\ cut[k] \in 0 .. n /\ cut[k - 1] <= cut[k]
    OBVIOUS
  <2>1. k \in 0 .. Len(from) /\ k - 1 \in 0 .. Len(from)
    BY <1>1
  <2>2. cut[k - 1] \in 0 .. n /\ cut[k] \in 0 .. n
    BY <1>3, <2>1
  <2>3. cut[k] = Least(n, cut[k - 1] + Available(from, n)[k]) /\ Available(from, n)[k] \in Nat
    BY <1>1, <1>2, <1>3
  <2> QED
    BY <2>2, <2>3 DEF Least
<1> DEFINE T == {k \in i .. j - 1 : ~(cut[i] <= cut[k])}
<1>5. ASSUME T # {} PROVE FALSE
  <2>1. T \subseteq Nat
    BY <1>1
  <2>2. PICK k \in T : \A l \in T : k <= l
    BY <1>5, <2>1, LeastNumber
  <2>3. k \in 1 .. Len(from) /\ i \in 1 .. Len(from) /\ k # i /\ k - 1 \in i .. j - 1
    BY <1>1, <1>4
  <2>4. k - 1 \notin T
    BY <2>2, <2>3
  <2>5. cut[i] <= cut[k - 1]
    BY <2>3, <2>4
  <2>6. cut[i] <= cut[k]
    BY <1>4, <2>3, <2>5
  <2> QED
    BY <2>6
<1>6. cut[i] <= cut[j - 1]
  BY <1>1, <1>5
<1>7. cut[i] < n
  BY <1>1, <1>4, <1>6
<1>8. cut[i] = cut[i - 1] + Available(from, n)[i]
  BY <1>1, <1>3, <1>7 DEF Least
<1>9. Available(from, n)[i] = balance[from[i]] /\ balance[from[i]] \in Nat
  BY <1>2, AccountsAssumption DEF Accounts
<1> QED
  BY <1>1, <1>4, <1>8, <1>9

\* A debit from all the balances empties those that Balances.Less puts first
\* before it takes from the others.
THEOREM DebitsDrainInOrder == Spec => DrainsInOrder
<1>1. ASSUME TypeOK, SourcesOK, NEW p \in Handlers, CommitSend(p), handler[p].req.op = "debit",
             handler[p].req.all, NEW b \in Balances \ {handler[p].req.to},
             NEW c \in Balances \ {handler[p].req.to},
             \E i \in DOMAIN Body(p).from : Body(p).from[i] = b, Less(b, c), balance'[c] < balance[c]
      PROVE  balance'[b] = 0
  <2> DEFINE from == Body(p).from
             n == Body(p).amount
  <2>1. /\ from \in Seq(Places) /\ Distinct(from) /\ n \in Nat
        /\ Body(p).hold \in HoldIds \union {None} /\ Body(p).to = handler[p].req.to
        /\ balance \in [Accounts -> Nat]
        /\ InOrder(handler[p].req, from)
    <3>1. Posting(p) /\ Body(p).script = "send" /\ IsSend(Body(p))
      BY <1>1, PostedBody DEF CommitSend, Posting
    <3>2. InOrder(handler[p].req, from) /\ Body(p).to = handler[p].req.to
      BY <1>1, <3>1 DEF SourcesOK
    <3> QED
      BY <1>1, <3>1, <3>2 DEF IsSend, TypeOK
  <2>2. PICK cut \in Cuts(Available(from, n), n) :
          balance' = [a \in Accounts |->
                    balance[a] - Paid(from, cut, a) + (IF a = Into(Body(p)) THEN n ELSE 0)]
    BY <1>1 DEF CommitSend
  <2>3. Into(Body(p)) \notin {b, c}
    BY <2>1, AccountsAssumption DEF Into
  <2> HIDE DEF from, n
  <2>4. /\ balance'[b] = balance[b] - Paid(from, cut, b)
        /\ balance'[c] = balance[c] - Paid(from, cut, c)
        /\ balance[b] \in Nat /\ balance[c] \in Nat
        /\ Paid(from, cut, c) \in Nat
        /\ cut \in [0 .. Len(from) -> Nat]
    BY <2>1, <2>2, <2>3, CutsFund DEF Accounts
  <2>5. PICK i \in DOMAIN from : from[i] = b
    BY <1>1 DEF from
  <2>6. PICK j \in DOMAIN from : from[j] = c
    BY <1>1, <2>4 DEF Paid
  <2>7. /\ Paid(from, cut, b) = cut[i] - cut[i - 1]
        /\ Paid(from, cut, c) = cut[j] - cut[j - 1]
    BY <2>1, <2>5, <2>6, PaidBySource
  <2>8. DOMAIN from = 1 .. Len(from) /\ Len(from) \in Nat
    BY <2>1
  <2>9. i < j
    <3>1. b # c
      BY <1>1, LessIsStrictWeakOrder
    <3>2. ~(j < i)
      BY <1>1, <2>1, <2>5, <2>6 DEF InOrder, MayPrecede
    <3> QED
      BY <2>5, <2>6, <2>8, <3>1, <3>2
  <2>10. cut[j - 1] < cut[j]
    BY <1>1, <2>4, <2>7, <2>8
  <2>11. from[i] \in Balances
    BY <2>5
  <2>12. cut[i] - cut[i - 1] = balance[b]
    BY <2>1, <2>5, <2>6, <2>9, <2>10, <2>11, CutsDrain
  <2> QED
    BY <2>4, <2>7, <2>12
<1>2. TypeOK /\ SourcesOK =>
        [\A p \in Handlers :
          CommitSend(p) /\ handler[p].req.op = "debit" /\ handler[p].req.all =>
              \A b, c \in Balances \ {handler[p].req.to} :
                  /\ \E i \in DOMAIN Body(p).from : Body(p).from[i] = b
                  /\ Less(b, c)
                  /\ balance'[c] < balance[c]
                  => balance'[b] = 0]_vars
  BY <1>1
<1>3. Init => SourcesOK
  BY DEF Init, SourcesOK, Posting
<1> QED
  BY <1>2, <1>3, SourcesStep, TypeCorrect, PTL DEF Spec, DrainsInOrder


-----------------------------------------------------------------------------
(* The inductive invariant.                                                  *)

\* Nothing changes in the ledger, nor in the history of the holds.
LEMMA LedgerUnchanged ==
    ASSUME FundingOK, HoldConservation, RefundsOK, JournalOK, UNCHANGED <<ledger, history>>
    PROVE  FundingOK' /\ HoldConservation' /\ RefundsOK' /\ JournalOK'
<1>1. /\ balance' = balance /\ original' = original /\ destination' = destination
      /\ funding' = funding /\ journal' = journal
      /\ status' = status /\ paid' = paid /\ released' = released /\ refunded' = refunded
  BY DEF ledger, history
<1>2. FundingOK'
  BY <1>1 DEF FundingOK, Funded, Postings
<1>3. HoldConservation'
  BY <1>1 DEF HoldConservation, Conserved, OverWhenEmpty
<1>4. RefundsOK'
  BY <1>1 DEF RefundsOK, RefundBounded
<1>5. JournalOK'
  BY <1>1 DEF JournalOK, EntryOK, Settles
<1> QED
  BY <1>2, <1>3, <1>4, <1>5

LEMMA InitInv == Init => Inv
<1> SUFFICES ASSUME Init PROVE Inv
  OBVIOUS
<1>1. TypeOK
  BY InitType
<1>2. \A h \in ApartHolds : h \in HoldIds
  BY PlacesFacts
<1>3. FundingOK /\ HoldConservation /\ RefundsOK
  BY <1>2 DEF Init, FundingOK, Funded, HoldConservation, Conserved, OverWhenEmpty, RefundsOK,
              RefundBounded, Accounts
<1>4. HoldIdsOK
  BY KeysAssumption DEF Init, HoldIdsOK, IsHold, Posting
<1>5. SettlementsOK
  BY DEF Init, SettlementsOK
<1>6. JournalOK
  BY DEF Init, JournalOK
<1>7. AcksOK
  BY DEF Init, AcksOK, VoidAckTruthful, ConfirmAckTruthful, ClosedReplyTruthful, Answered
<1> QED
  BY <1>1, <1>3, <1>4, <1>5, <1>6, <1>7 DEF Inv

\* The account of an apart hold that nothing was sent to is empty.
LEMMA UnfundedHold ==
    ASSUME Inv, NEW h \in ApartHolds
    PROVE  /\ h \in HoldIds
           /\ original[h] \in Nat /\ balance[h] \in Nat /\ paid[h] \in Nat /\ released[h] \in Nat
           /\ original[h] = balance[h] + paid[h] + released[h]
           /\ balance[h] <= original[h]
           /\ Funded(h) <=> original[h] > 0
           /\ Funded(h) <=> status[h] # "none"
           /\ Funded(h) <=> IsHold(h)
           /\ status[h] = "open" <=> balance[h] > 0
           /\ status[h] \in {"none", "open", "confirmed", "voided"}
<1>1. /\ h \in HoldIds
      /\ original[h] \in Nat /\ balance[h] \in Nat /\ paid[h] \in Nat /\ released[h] \in Nat
      /\ status[h] \in {"none", "open", "confirmed", "voided"}
  BY PlacesFacts DEF Inv, TypeOK, Accounts
<1>2. /\ original[h] = balance[h] + paid[h] + released[h]
      /\ status[h] = "open" <=> balance[h] > 0
      /\ status[h] = "none" <=> original[h] = 0
  BY <1>1 DEF Inv, HoldConservation, Conserved, OverWhenEmpty
<1>3. /\ Funded(h) <=> original[h] > 0
      /\ Funded(h) <=> IsHold(h)
  BY <1>1 DEF Inv, FundingOK, IsHold
<1>4. balance[h] <= original[h]
  BY <1>1, <1>2
<1>5. original[h] > 0 <=> status[h] # "none"
  BY <1>1, <1>2
<1> QED
  BY <1>1, <1>2, <1>3, <1>4, <1>5, Zenon

\* The answer "closed hold" is given for holds that are over.
LEMMA ClosedIsEnded ==
    ASSUME Inv, NEW h \in ApartHolds, IsHold(h), IsClosed(h), original[h] < Word
    PROVE  Ended(h)
<1>1. /\ balance[h] \in Nat /\ original[h] \in Nat /\ balance[h] <= original[h]
      /\ status[h] # "none"
      /\ status[h] = "open" <=> balance[h] > 0
      /\ status[h] \in {"none", "open", "confirmed", "voided"}
  BY UnfundedHold
<1>2. balance[h] % Word = balance[h]
  BY <1>1, NumbersAssumption
<1>3. balance[h] = 0
  BY <1>1, <1>2 DEF IsClosed, Uint64, Remaining, Abs
<1> QED
  BY <1>1, <1>3 DEF Ended

-----------------------------------------------------------------------------
(* Requests arrive.                                                          *)

LEMMA ServeHandlers ==
    ASSUME TypeOK, NEW p \in Handlers, NEW req, NEW pc, NEW body, NEW reply,
           Serve(p, req, pc, body, reply)
    PROVE  /\ handler'[p] = [pc |-> pc, req |-> req, body |-> body, reply |-> reply]
           /\ \A q \in Handlers \ {p} : handler'[q] = handler[q]
           /\ UNCHANGED <<ledger, now, history>>
           /\ UNCHANGED <<balance, original, destination, funding, journal, status, paid, released, refunded>>
BY DEF Serve, TypeOK, ledger, history

\* A request that is taken keeps the invariant if its body does.
LEMMA ServeInv ==
    ASSUME Inv, NEW p \in Handlers, NEW req \in Requests, NEW pc, NEW body, NEW reply,
           Serve(p, req, pc, body, reply),
           TypeOK',
           reply # "ok",
           reply = "ClosedHold" => req \in ConfirmRequests \union VoidRequests,
           pc = "idle" /\ reply = "ClosedHold" => IsHold(req.hold) /\ IsClosed(req.hold),
           pc = "post" /\ body.script = "send" /\ body.hold # None => OwnHold(p)',
           (pc = "post" /\ body.script = "send" /\ body.hold # None) =>
               \A q \in Handlers : Posting(q) /\ Body(q).script = "send" => Body(q).hold # body.hold
                                       \/ \E k \in Keys : body.hold = HoldIdOf[k],
           pc # "idle" /\ Settles(req) => SettlementOK(p)'
    PROVE  Inv'
<1>1. /\ handler'[p] = [pc |-> pc, req |-> req, body |-> body, reply |-> reply]
      /\ \A q \in Handlers \ {p} : handler'[q] = handler[q]
      /\ UNCHANGED <<ledger, history>>
      /\ UNCHANGED <<balance, original, destination, funding, journal, status, paid, released, refunded>>
  BY ServeHandlers DEF Inv
<1>2. FundingOK' /\ HoldConservation' /\ RefundsOK' /\ JournalOK'
  BY <1>1, LedgerUnchanged DEF Inv
<1>3. HoldIdsOK'
  <2>1. \A k \in Keys : IsHold(HoldIdOf[k])' => k \in DOMAIN journal'
    BY <1>1 DEF Inv, HoldIdsOK, IsHold
  <2>2. ASSUME NEW q \in Handlers, (Posting(q) /\ Body(q).script = "send" /\ Body(q).hold # None)'
        PROVE  OwnHold(q)'
    <3>1. CASE q = p
      BY <1>1, <2>2, <3>1 DEF Posting, Body
    <3>2. CASE q # p
      <4>1. handler'[q] = handler[q] /\ OwnHold(q)
        BY <1>1, <2>2, <3>2 DEF Inv, HoldIdsOK, Posting, Body
      <4>2. CASE Key(q) # NoKey
        BY <4>1, <4>2 DEF OwnHold, Key, Body
      <4>3. CASE Key(q) = NoKey
        <5>1. /\ \A k \in Keys : Body(q).hold # HoldIdOf[k]
              /\ ~IsHold(Body(q).hold)
              /\ \A r \in Handlers :
                    Posting(r) /\ Body(r).script = "send" /\ Body(r).hold = Body(q).hold => r = q
          BY <4>1, <4>3 DEF OwnHold
        <5>2. Posting(q) /\ Body(q).script = "send"
          BY <2>2, <4>1 DEF Posting, Body
        <5>3. ASSUME NEW r \in Handlers,
                     (Posting(r) /\ Body(r).script = "send" /\ Body(r).hold = Body(q).hold)'
              PROVE  r = q
          <6>1. CASE r = p
            <7>1. pc = "post" /\ body.script = "send" /\ body.hold = Body(q).hold
              BY <1>1, <4>1, <5>3, <6>1 DEF Posting, Body
            <7>2. body.hold # None
              BY <2>2, <4>1, <7>1 DEF Body
            <7> QED
              BY <5>1, <5>2, <7>1, <7>2
          <6>2. CASE r # p
            BY <1>1, <4>1, <5>1, <5>3, <6>2 DEF Posting, Body
          <6> QED
            BY <6>1, <6>2
        <5> QED
          BY <1>1, <4>1, <4>3, <5>1, <5>3 DEF OwnHold, Key, Body, IsHold
      <4> QED
        BY <4>2, <4>3
    <3> QED
      BY <3>1, <3>2
  <2> QED
    BY <2>1, <2>2 DEF HoldIdsOK
<1>4. SettlementsOK'
  <2>1. ASSUME NEW q \in Handlers \ {p}, handler'[q].pc # "idle", Settles(handler'[q].req)
        PROVE  SettlementOK(q)'
    BY <1>1, <2>1 DEF Inv, SettlementsOK, SettlementOK, Funded, CoversAll, Body, Postings
  <2> QED
    BY <1>1, <2>1 DEF SettlementsOK
<1>5. AcksOK'
  <2>1. VoidAckTruthful'
    BY <1>1 DEF Inv, AcksOK, VoidAckTruthful, Answered
  <2>2. ConfirmAckTruthful'
    BY <1>1 DEF Inv, AcksOK, ConfirmAckTruthful, Answered, AsksAll, OwnKey, Key
  <2>3. ClosedReplyTruthful'
    <3>1. pc = "idle" /\ reply = "ClosedHold" /\ req.hold \in ApartHolds /\ original[req.hold] < Word
              => Ended(req.hold)
      BY ClosedIsEnded
    <3> QED
      BY <1>1, <3>1 DEF Inv, AcksOK, ClosedReplyTruthful, Ended
  <2>4. \A q \in Handlers :
           (handler[q].pc = "idle" /\ handler[q].reply = "ok" /\ Key(q) # NoKey => Key(q) \in DOMAIN journal)'
    BY <1>1 DEF Inv, AcksOK, Key
  <2>5. \A q \in Handlers : (handler[q].reply = "ClosedHold" => handler[q].req \in ConfirmRequests \union VoidRequests)'
    BY <1>1 DEF Inv, AcksOK
  <2> QED
    BY <2>1, <2>2, <2>3, <2>4, <2>5 DEF AcksOK
<1> QED
  BY <1>2, <1>3, <1>4, <1>5 DEF Inv

-----------------------------------------------------------------------------
LEMMA CreditRefusedInv ==
    ASSUME Inv, TypeOK', NEW p \in Handlers, NEW req \in Requests, CreditRefused(p, req)
    PROVE  Inv'
BY ServeInv DEF CreditRefused

LEMMA CreditInv ==
    ASSUME Inv, TypeOK', NEW p \in Handlers, NEW req \in Requests, Credit(p, req)
    PROVE  Inv'
<1>1. PICK body : /\ body = Send(IF req.from = <<>> THEN <<World>> ELSE req.from, req.amount, req.to, None)
                  /\ Serve(p, req, "post", body, "none")
  BY DEF Credit
<1>2. body.hold = None
  BY <1>1 DEF Send
<1>3. ~Settles(req)
  BY DEF Credit, Settles
<1> QED
  BY <1>1, <1>2, <1>3, ServeInv

LEMMA DebitRefusedInv ==
    ASSUME Inv, TypeOK', NEW p \in Handlers, NEW req \in Requests, DebitRefused(p, req)
    PROVE  Inv'
<1>1. PICK reply \in {"Refused", "NonIdempotentDebit", "InsufficientFund"} : Serve(p, req, "idle", None, reply)
  BY DEF DebitRefused
<1> QED
  BY <1>1, ServeInv

LEMMA DebitInv ==
    ASSUME Inv, TypeOK', NEW p \in Handlers, NEW req \in Requests, Debit(p, req)
    PROVE  Inv'
<1>1. PICK from \in Sources(req, now), hold \in NewHolds(req) :
          Serve(p, req, "post", Send(from, req.amount, req.to, hold), "none")
  BY DEF Debit
<1>2. PICK body : body = Send(from, req.amount, req.to, hold)
  OBVIOUS
<1>3. Serve(p, req, "post", body, "none") /\ body.hold = hold /\ body.script = "send"
  BY <1>1, <1>2 DEF Send
<1>4. /\ handler'[p] = [pc |-> "post", req |-> req, body |-> body, reply |-> "none"]
      /\ \A q \in Handlers \ {p} : handler'[q] = handler[q]
      /\ destination' = destination
  BY <1>3, ServeHandlers DEF Inv
<1>5. req.op = "debit" /\ req.pending \in BOOLEAN
  BY RequestKinds DEF Debit, DebitRequests
<1>6. ~Settles(req)
  BY <1>5 DEF Settles
<1>7. hold # None => \/ req.key # NoKey /\ hold = HoldIdOf[req.key]
                     \/ req.key = NoKey /\ hold \in HoldIds /\ RandomHoldId(hold)
  BY <1>5 DEF NewHolds
<1>8. hold # None => OwnHold(p)'
  BY <1>3, <1>4, <1>5, <1>7 DEF OwnHold, RandomHoldId, Key, Body, Posting, IsHold
<1>9. hold # None =>
          \A q \in Handlers : Posting(q) /\ Body(q).script = "send" =>
              Body(q).hold # hold \/ \E k \in Keys : hold = HoldIdOf[k]
  BY <1>7, RequestKinds DEF RandomHoldId, Posting, Body
<1> QED
  BY <1>3, <1>6, <1>8, <1>9, ServeInv

LEMMA ConfirmHoldRefusedInv ==
    ASSUME Inv, TypeOK', NEW p \in Handlers, NEW req \in Requests, ConfirmHoldRefused(p, req)
    PROVE  Inv'
<1>1. req \in ConfirmRequests
  BY RequestKinds DEF ConfirmHoldRefused
<1>2. PICK reply \in {"HoldNotFound", "ClosedHold", "InsufficientFund"} :
          /\ Serve(p, req, "idle", None, reply)
          /\ reply = "ClosedHold" => IsHold(req.hold) /\ IsClosed(req.hold)
  BY DEF ConfirmHoldRefused
<1> QED
  BY <1>1, <1>2, ServeInv

LEMMA ConfirmHoldInv ==
    ASSUME Inv, TypeOK', NEW p \in Handlers, NEW req \in Requests, ConfirmHold(p, req)
    PROVE  Inv'
<1>1. req.op = "confirm" /\ req.hold \in HoldIds /\ IsHold(req.hold)
  BY RequestKinds DEF ConfirmHold, ConfirmRequests
<1>2. PICK body :
        /\ body = ConfirmHoldScript(req.hold, ResolvedAmount(req), req.final, destination[req.hold])
        /\ Serve(p, req, "post", body, "none")
  BY DEF ConfirmHold
<1>3. /\ body.script = "confirm" /\ body.hold = req.hold
      /\ body.amount = ResolvedAmount(req) /\ body.final = req.final
  BY <1>2 DEF ConfirmHoldScript
<1>4. /\ handler'[p] = [pc |-> "post", req |-> req, body |-> body, reply |-> "none"]
      /\ UNCHANGED <<balance, original, funding>>
  BY <1>2, ServeHandlers DEF Inv
<1>5. req.hold \in ApartHolds => Funded(req.hold)
  BY <1>1, UnfundedHold
<1>6. ASSUME req.hold \in ApartHolds PROVE CoversAll(req, body.amount)
  <2> SUFFICES ASSUME Uint64(req.amount) = 0, original[req.hold] < Word
               PROVE  body.amount >= balance[req.hold]
    BY DEF CoversAll
  <2>1. balance[req.hold] \in Nat /\ original[req.hold] \in Nat /\ balance[req.hold] <= original[req.hold]
    BY <1>6, UnfundedHold
  <2>2. balance[req.hold] % Word = balance[req.hold]
    BY <2>1, NumbersAssumption
  <2> QED
    BY <1>3, <2>1, <2>2 DEF ResolvedAmount, Uint64, Remaining, Abs
<1>7. Settles(req) => SettlementOK(p)'
  BY <1>1, <1>3, <1>4, <1>5, <1>6 DEF Settles, SettlementOK, CoversAll, Body, Funded
<1> QED
  BY <1>2, <1>3, <1>7, ServeInv

LEMMA VoidHoldInv ==
    ASSUME Inv, TypeOK', NEW p \in Handlers, NEW req \in Requests,
           VoidHoldRefused(p, req) \/ VoidHold(p, req)
    PROVE  Inv'
<1>1. CASE VoidHoldRefused(p, req)
  <2>1. PICK reply \in {"HoldNotFound", "Internal"} : Serve(p, req, "idle", None, reply)
    BY <1>1 DEF VoidHoldRefused
  <2> QED
    BY <2>1, ServeInv
<1>2. CASE VoidHold(p, req)
  <2>1. req.op = "void" /\ req.hold \in HoldIds
    BY <1>2, RequestKinds DEF VoidHold, VoidRequests
  <2>2. PICK body : /\ body = CancelHoldScript(req.hold, Postings(req.hold))
                    /\ Serve(p, req, "read", body, "none")
    BY <1>2 DEF VoidHold, Postings
  <2>3. /\ handler'[p] = [pc |-> "read", req |-> req, body |-> body, reply |-> "none"]
        /\ funding' = funding
    BY <2>2, ServeHandlers DEF Inv
  <2>4. Funded(req.hold)
    BY <1>2 DEF VoidHold, Funded
  <2>5. SettlementOK(p)'
    BY <2>1, <2>2, <2>3, <2>4 DEF SettlementOK, CancelHoldScript, Body, Funded, Postings
  <2> QED
    BY <2>2, <2>5, ServeInv
<1> QED
  BY <1>1, <1>2

LEMMA ReceiveInv ==
    ASSUME Inv, NEW p \in Handlers, Receive(p)
    PROVE  Inv'
<1>1. TypeOK'
  BY ReceiveType DEF Inv
<1> QED
  BY <1>1, CreditRefusedInv, CreditInv, DebitRefusedInv, DebitInv, ConfirmHoldRefusedInv, ConfirmHoldInv, VoidHoldInv
     DEF Receive

-----------------------------------------------------------------------------
(* Requests are answered.                                                    *)

\* What any step may do to the apart holds that are funded.
Advance ==
    \A h \in ApartHolds : Funded(h) =>
        /\ funding'[h] = funding[h]
        /\ original'[h] = original[h]
        /\ balance'[h] <= balance[h]
        /\ Ended(h) => status'[h] = status[h]

\* What it means that p's request is acknowledged.
Truthful(p) ==
    /\ handler[p].req.op = "void" /\ handler[p].req.hold \in ApartHolds =>
          status[handler[p].req.hold] = "voided"
    /\ /\ handler[p].req.op = "confirm"
       /\ handler[p].req.hold \in ApartHolds
       /\ AsksAll(handler[p].req)
       /\ OwnKey(p)
       /\ original[handler[p].req.hold] < Word
       => status[handler[p].req.hold] = "confirmed"
    /\ Key(p) # NoKey => Key(p) \in DOMAIN journal

\* Outcomes last, also those of holds whose funding is not looked at.
LEMMA OutcomesLast ==
    ASSUME Inv, Advance, NEW h \in ApartHolds
    PROVE  /\ status[h] = "voided" => status'[h] = "voided"
           /\ status[h] = "confirmed" => status'[h] = "confirmed"
           /\ (original[h] < Word => status[h] = "confirmed")
                 => (original'[h] < Word => status'[h] = "confirmed")
           /\ (original[h] < Word => Ended(h)) => (original'[h] < Word => Ended(h)')
<1>1. status[h] # "none" => Funded(h)
  BY UnfundedHold
<1>2. Funded(h) => original'[h] = original[h] /\ (Ended(h) => status'[h] = status[h])
  BY DEF Advance
<1>3. ~Funded(h) => original[h] < Word
  <2>1. original[h] \in Nat /\ (~Funded(h) => ~(original[h] > 0))
    BY UnfundedHold
  <2> QED
    BY <2>1, NumbersAssumption
<1> QED
  BY <1>1, <1>2, <1>3 DEF Ended

LEMMA AnswerInv ==
    ASSUME Inv, TypeOK', NEW p \in Handlers, NEW reply, handler[p].pc # "idle", Answer(p, reply),
           FundingOK', HoldConservation', RefundsOK', Advance,
           \A k \in DOMAIN journal : k \in DOMAIN journal' /\ journal'[k] = journal[k],
           \A k \in DOMAIN journal' \ DOMAIN journal : Settles(journal'[k].req) => EntryOK(journal[k])',
           \A k \in Keys : IsHold(HoldIdOf[k])' => k \in DOMAIN journal',
           \A q \in Handlers \ {p} :
              Posting(q) /\ Body(q).script = "send" /\ Body(q).hold # None /\ Key(q) = NoKey =>
                  ~IsHold(Body(q).hold)',
           reply = "ok" => Truthful(p)',
           reply = "ClosedHold" => /\ handler[p].req \in ConfirmRequests \union VoidRequests
                                   /\ IsHold(handler[p].req.hold)
                                   /\ IsClosed(handler[p].req.hold)
    PROVE  Inv'
<1>1. /\ handler'[p] = [pc |-> "idle", req |-> handler[p].req, body |-> None, reply |-> reply]
      /\ \A q \in Handlers \ {p} : handler'[q] = handler[q]
  BY DEF Inv, TypeOK, Answer
<1>2. HoldIdsOK'
  <2>1. ASSUME NEW q \in Handlers, (Posting(q) /\ Body(q).script = "send" /\ Body(q).hold # None)'
        PROVE  OwnHold(q)'
    <3>1. q # p /\ handler'[q] = handler[q] /\ OwnHold(q)
      BY <1>1, <2>1 DEF Inv, HoldIdsOK, Posting, Body
    <3>2. CASE Key(q) # NoKey
      BY <3>1, <3>2 DEF OwnHold, Key, Body
    <3>3. CASE Key(q) = NoKey
      <4>1. ~IsHold(Body(q).hold)'
        BY <2>1, <3>1, <3>3 DEF Posting, Body
      <4>2. /\ handler[q].req.op = "debit"
            /\ \A k \in Keys : Body(q).hold # HoldIdOf[k]
            /\ \A r \in Handlers :
                  Posting(r) /\ Body(r).script = "send" /\ Body(r).hold = Body(q).hold => r = q
        BY <3>1, <3>3 DEF OwnHold
      <4>3. ASSUME NEW r \in Handlers,
                   (Posting(r) /\ Body(r).script = "send" /\ Body(r).hold = Body(q).hold)'
            PROVE  r = q
        BY <1>1, <3>1, <4>2, <4>3 DEF Posting, Body
      <4> QED
        BY <3>1, <3>3, <4>1, <4>2, <4>3 DEF OwnHold, Key, Body
    <3> QED
      BY <3>2, <3>3
  <2> QED
    BY <2>1 DEF HoldIdsOK
<1>3. SettlementsOK'
  <2> SUFFICES ASSUME NEW q \in Handlers, handler'[q].pc # "idle", Settles(handler'[q].req)
               PROVE  SettlementOK(q)'
    BY DEF SettlementsOK
  <2>1. q # p /\ handler'[q] = handler[q] /\ SettlementOK(q)
    BY <1>1 DEF Inv, SettlementsOK
  <2>2. handler[q].req.hold \in ApartHolds /\ handler[q].req.op \in {"confirm", "void"}
    BY <2>1 DEF Settles
  <2>3. CASE handler[q].req.op = "confirm"
    <3>1. IsConfirm(Body(q)) /\ Body(q).hold = handler[q].req.hold
      BY <2>1, <2>3, PostedBody DEF Inv, BodyOf
    <3>2. /\ Body(q).hold \in ApartHolds
          /\ Funded(Body(q).hold)
          /\ Body(q).final = handler[q].req.final
          /\ CoversAll(handler[q].req, Body(q).amount)
      BY <2>1, <2>2, <2>3, <3>1 DEF SettlementOK
    <3>3. /\ funding'[Body(q).hold] = funding[Body(q).hold]
          /\ original'[Body(q).hold] = original[Body(q).hold]
          /\ balance'[Body(q).hold] <= balance[Body(q).hold]
      BY <3>2 DEF Advance
    <3>4. balance'[Body(q).hold] \in Nat /\ balance[Body(q).hold] \in Nat /\ Body(q).amount \in Nat
      BY <3>1 DEF Inv, TypeOK, Accounts, IsConfirm
    <3>5. CoversAll(handler[q].req, Body(q).amount)'
      BY <2>1, <3>1, <3>2, <3>3, <3>4 DEF CoversAll, Body
    <3> QED
      BY <2>1, <2>3, <3>2, <3>3, <3>5 DEF SettlementOK, Body, Funded
  <2>4. CASE handler[q].req.op = "void"
    <3>1. Body(q).hold = handler[q].req.hold
      BY <2>1, <2>4, PostedBody DEF Inv, BodyOf
    <3> QED
      BY <2>1, <2>2, <2>4, <3>1 DEF SettlementOK, Body, Funded, Postings, Advance
  <2> QED
    BY <2>2, <2>3, <2>4
<1>4. JournalOK'
  <2> SUFFICES ASSUME NEW k \in DOMAIN journal', Settles(journal'[k].req) PROVE EntryOK(journal[k])'
    BY DEF JournalOK
  <2>1. CASE k \in DOMAIN journal
    <3>1. journal'[k] = journal[k] /\ EntryOK(journal[k])
      BY <2>1 DEF Inv, JournalOK
    <3>2. journal[k].req.hold \in ApartHolds
      BY <3>1 DEF Settles
    <3> QED
      BY <3>1, <3>2, OutcomesLast DEF EntryOK
  <2> QED
    BY <2>1
<1>5. AcksOK'
  <2>1. ASSUME NEW q \in Handlers, (Answered(q, "void") /\ handler[q].reply = "ok"
                                          /\ handler[q].req.hold \in ApartHolds)'
        PROVE  status'[handler'[q].req.hold] = "voided"
    <3>1. CASE q = p
      BY <1>1, <2>1, <3>1 DEF Truthful, Answered
    <3>2. CASE q # p
      <4>1. handler'[q] = handler[q] /\ handler[q].req \in Requests
        BY <1>1, <2>1, <3>2 DEF Answered, Inv, TypeOK, HandlerTypeOK
      <4>2. handler[q].req.hold \in ApartHolds
        BY <2>1, <4>1
      <4>3. status[handler[q].req.hold] = "voided"
        BY <2>1, <4>1 DEF Inv, AcksOK, VoidAckTruthful, Answered
      <4> QED
        BY <4>1, <4>2, <4>3, OutcomesLast
    <3> QED
      BY <3>1, <3>2
  <2>2. ASSUME NEW q \in Handlers,
               (Answered(q, "confirm") /\ handler[q].reply = "ok" /\ AsksAll(handler[q].req)
                   /\ OwnKey(q) /\ handler[q].req.hold \in ApartHolds
                   /\ original[handler[q].req.hold] < Word)'
        PROVE  status'[handler'[q].req.hold] = "confirmed"
    <3>1. CASE q = p
      BY <1>1, <2>2, <3>1 DEF Truthful, Answered
    <3>2. CASE q # p
      <4>1. handler'[q] = handler[q] /\ handler[q].req \in Requests
        BY <1>1, <2>2, <3>2 DEF Answered, Inv, TypeOK, HandlerTypeOK
      <4>2. handler[q].req.hold \in ApartHolds
        BY <2>2, <4>1
      <4>3. OwnKey(q)
        <5>1. Key(q) # NoKey => Key(q) \in DOMAIN journal
          BY <2>2, <4>1 DEF Inv, AcksOK, Answered
        <5> QED
          BY <2>2, <4>1, <5>1 DEF OwnKey, Key
      <4>4. original[handler[q].req.hold] < Word => status[handler[q].req.hold] = "confirmed"
        BY <2>2, <4>1, <4>3 DEF Inv, AcksOK, ConfirmAckTruthful, Answered, AsksAll
      <4> QED
        BY <2>2, <4>1, <4>2, <4>4, OutcomesLast
    <3> QED
      BY <3>1, <3>2
  <2>3. ASSUME NEW q \in Handlers,
               (handler[q].pc = "idle" /\ handler[q].reply = "ClosedHold"
                   /\ handler[q].req.hold \in ApartHolds /\ original[handler[q].req.hold] < Word)'
        PROVE  Ended(handler[q].req.hold)'
    <3>1. handler'[q].req = handler[q].req
      BY <1>1
    <3>2. handler[q].req.hold \in ApartHolds
      BY <2>3, <3>1
    <3>3. original[handler[q].req.hold] < Word => Ended(handler[q].req.hold)
      <4>1. CASE q = p
        BY <1>1, <2>3, <3>2, <4>1, ClosedIsEnded
      <4>2. CASE q # p
        BY <1>1, <2>3, <4>2 DEF Inv, AcksOK, ClosedReplyTruthful
      <4> QED
        BY <4>1, <4>2
    <3>4. PICK h \in ApartHolds : h = handler[q].req.hold
      BY <3>2
    <3> QED
      BY <2>3, <3>1, <3>3, <3>4, OutcomesLast DEF Ended
  <2>4. \A q \in Handlers :
           (handler[q].pc = "idle" /\ handler[q].reply = "ok" /\ Key(q) # NoKey => Key(q) \in DOMAIN journal)'
    BY <1>1 DEF Inv, AcksOK, Key, Truthful
  <2>5. \A q \in Handlers : (handler[q].reply = "ClosedHold" => handler[q].req \in ConfirmRequests \union VoidRequests)'
    BY <1>1 DEF Inv, AcksOK
  <2> QED
    BY <2>1, <2>2, <2>3, <2>4, <2>5
       DEF AcksOK, VoidAckTruthful, ConfirmAckTruthful, ClosedReplyTruthful
<1> QED
  BY <1>2, <1>3, <1>4, <1>5 DEF Inv

\* Nothing changes but the handler that answers.
LEMMA QuietAnswerInv ==
    ASSUME Inv, TypeOK', NEW p \in Handlers, NEW reply, handler[p].pc # "idle", Answer(p, reply),
           UNCHANGED <<ledger, history>>,
           reply = "ok" => Truthful(p),
           reply = "ClosedHold" => /\ handler[p].req \in ConfirmRequests \union VoidRequests
                                   /\ IsHold(handler[p].req.hold)
                                   /\ IsClosed(handler[p].req.hold)
    PROVE  Inv'
<1>1. UNCHANGED <<balance, original, destination, funding, journal, status, paid, released, refunded>>
  BY DEF ledger, history
<1>2. FundingOK' /\ HoldConservation' /\ RefundsOK'
  BY LedgerUnchanged DEF Inv
<1>3. Advance
  BY <1>1, UnfundedHold DEF Advance
<1>4. /\ \A k \in DOMAIN journal : k \in DOMAIN journal' /\ journal'[k] = journal[k]
      /\ \A k \in DOMAIN journal' \ DOMAIN journal : Settles(journal'[k].req) => EntryOK(journal[k])'
      /\ \A k \in Keys : IsHold(HoldIdOf[k])' => k \in DOMAIN journal'
  BY <1>1 DEF Inv, HoldIdsOK, IsHold
<1>5. \A q \in Handlers \ {p} :
          Posting(q) /\ Body(q).script = "send" /\ Body(q).hold # None /\ Key(q) = NoKey =>
              ~IsHold(Body(q).hold)'
  <2>1. ASSUME NEW q \in Handlers \ {p}, Posting(q), Body(q).script = "send", Body(q).hold # None,
               Key(q) = NoKey
        PROVE  destination'[Body(q).hold] = None
    BY <1>1, <2>1 DEF Inv, HoldIdsOK, OwnHold, IsHold
  <2>2. \A q \in Handlers \ {p} : Body(q)' = Body(q)
    BY DEF Body, Answer, Inv, TypeOK
  <2> QED
    BY <2>1, <2>2 DEF IsHold
<1>6. handler'[p].req = handler[p].req
  BY DEF Answer, Inv, TypeOK
<1>7. reply = "ok" => Truthful(p)'
  BY <1>1, <1>6 DEF Truthful, OwnKey, Key
<1> QED
  BY <1>2, <1>3, <1>4, <1>5, <1>7, AnswerInv

LEMMA ReplayInv ==
    ASSUME Inv, TypeOK', NEW p \in Handlers, Replay(p)
    PROVE  Inv'
<1>1. PICK reply \in {"ok", "Unavailable"} : Answer(p, reply)
  BY DEF Replay, Done
<1>2. /\ handler[p].pc # "idle" /\ Key(p) \in DOMAIN journal /\ journal[Key(p)].body = Body(p)
      /\ UNCHANGED <<ledger, history>>
  BY DEF Replay, Posting, Journaled
<1>3. Settles(journal[Key(p)].req) => EntryOK(journal[Key(p)])
  BY <1>2 DEF Inv, JournalOK
<1>4. /\ journal[Key(p)].req \in Requests
      /\ BodyOf(journal[Key(p)].req, Body(p)) /\ BodyOf(handler[p].req, Body(p))
      /\ handler[p].req \in Requests
  BY <1>2, PostedBody DEF Inv, TypeOK
<1>5. handler[p].req.op = "void" =>
          journal[Key(p)].req.op = "void" /\ journal[Key(p)].req.hold = handler[p].req.hold
  <2>1. journal[Key(p)].req.op \in {"credit", "debit", "confirm", "void"}
    BY <1>4, RequestKinds
  <2> QED
    BY <1>4, <2>1 DEF BodyOf, IsSend, Send, IsConfirm, ConfirmHoldScript, IsCancel, CancelHoldScript
<1>6. handler[p].req.op = "void" /\ handler[p].req.hold \in ApartHolds =>
          status[handler[p].req.hold] = "voided"
  BY <1>3, <1>5 DEF EntryOK, Settles
<1>7. ASSUME handler[p].req.op = "confirm", handler[p].req.hold \in ApartHolds,
             AsksAll(handler[p].req), OwnKey(p), original[handler[p].req.hold] < Word
      PROVE  status[handler[p].req.hold] = "confirmed"
  <2>1. journal[Key(p)].req = handler[p].req
    <3>1. Key(p) # NoKey
      BY <1>2, KeysAssumption DEF Inv, TypeOK
    <3> QED
      BY <1>7, <3>1 DEF OwnKey
  <2>2. EntryOK(journal[Key(p)]) /\ SettlementOK(p)
    BY <1>2, <1>3, <1>7, <2>1 DEF Settles, Inv, SettlementsOK
  <2> QED
    BY <1>2, <1>7, <2>1, <2>2 DEF EntryOK, SettlementOK, AsksAll
<1>8. Truthful(p)
  BY <1>2, <1>6, <1>7 DEF Truthful
<1> QED
  BY <1>1, <1>2, <1>8, QuietAnswerInv

LEMMA QuietInv ==
    ASSUME Inv, TypeOK', NEW p \in Handlers, Conflict(p) \/ Refuse(p) \/ Fail(p)
    PROVE  Inv'
<1>1. PICK reply \in {"InsufficientFund", "Internal", "Unavailable"} : Answer(p, reply)
  BY DEF Conflict, Refuse, Fail
<1>2. handler[p].pc # "idle" /\ UNCHANGED <<ledger, history>>
  BY DEF Conflict, Refuse, Fail, Posting
<1> QED
  BY <1>1, <1>2, QuietAnswerInv

LEMMA ReadHoldInv ==
    ASSUME Inv, TypeOK', NEW p \in Handlers, ReadHold(p)
    PROVE  Inv'
<1>1. /\ handler[p].pc = "read" /\ handler[p].req \in Requests /\ handler[p].req.op = "void"
      /\ UNCHANGED <<ledger, history>>
      /\ UNCHANGED <<balance, original, destination, funding, journal, status, paid, released, refunded>>
  BY DEF ReadHold, Inv, TypeOK, HandlerTypeOK, ledger, history
<1>2. handler[p].req \in VoidRequests
  BY <1>1, RequestKinds
<1>3. CASE Answer(p, "HoldNotFound")
  BY <1>1, <1>3, QuietAnswerInv
<1>4. CASE /\ IsHold(handler[p].req.hold) /\ IsClosed(handler[p].req.hold)
           /\ Answer(p, "ClosedHold")
  BY <1>1, <1>2, <1>4, QuietAnswerInv
<1>5. CASE handler' = [handler EXCEPT ![p].pc = "post"]
  <2>1. /\ handler'[p] = [pc |-> "post", req |-> handler[p].req, body |-> handler[p].body,
                          reply |-> handler[p].reply]
        /\ \A q \in Handlers \ {p} : handler'[q] = handler[q]
    <3>1. /\ handler[p] = [pc |-> handler[p].pc, req |-> handler[p].req,
                            body |-> handler[p].body, reply |-> handler[p].reply]
          /\ DOMAIN handler = Handlers
      BY DEF Inv, TypeOK, HandlerTypeOK
    <3>2. [handler[p] EXCEPT !.pc = "post"] =
              [pc |-> "post", req |-> handler[p].req, body |-> handler[p].body, reply |-> handler[p].reply]
      BY <3>1
    <3> QED
      BY <1>5, <3>1, <3>2
  <2>2. FundingOK' /\ HoldConservation' /\ RefundsOK' /\ JournalOK'
    BY <1>1, LedgerUnchanged DEF Inv
  <2>3. handler[p].body.script = "cancel"
    <3>1. BodyOf(handler[p].req, Body(p))
      BY <1>1, PostedBody DEF Inv
    <3>2. IsCancel(Body(p))
      BY <1>1, <3>1 DEF BodyOf
    <3> QED
      BY <3>2 DEF IsCancel, CancelHoldScript, Body
  <2>4. \A q \in Handlers :
            (Posting(q) /\ Body(q).script = "send")' => q # p /\ Posting(q) /\ Body(q).script = "send"
    BY <2>1, <2>3 DEF Posting, Body
  <2>5. HoldIdsOK'
    <3>1. \A k \in Keys : IsHold(HoldIdOf[k])' => k \in DOMAIN journal'
      BY <1>1 DEF Inv, HoldIdsOK, IsHold
    <3>2. ASSUME NEW q \in Handlers, (Posting(q) /\ Body(q).script = "send" /\ Body(q).hold # None)'
          PROVE  OwnHold(q)'
      <4>1. q # p /\ handler'[q] = handler[q] /\ OwnHold(q)
        BY <2>1, <2>4, <3>2 DEF Inv, HoldIdsOK, Body
      <4>2. CASE Key(q) # NoKey
        BY <4>1, <4>2 DEF OwnHold, Key, Body
      <4>3. CASE Key(q) = NoKey
        <5>1. /\ handler[q].req.op = "debit"
              /\ \A k \in Keys : Body(q).hold # HoldIdOf[k]
              /\ ~IsHold(Body(q).hold)
              /\ \A r \in Handlers :
                    Posting(r) /\ Body(r).script = "send" /\ Body(r).hold = Body(q).hold => r = q
          BY <4>1, <4>3 DEF OwnHold
        <5>2. ASSUME NEW r \in Handlers,
                     (Posting(r) /\ Body(r).script = "send" /\ Body(r).hold = Body(q).hold)'
              PROVE  r = q
          BY <2>1, <2>4, <4>1, <5>1, <5>2 DEF Body
        <5> QED
          BY <1>1, <4>1, <4>3, <5>1, <5>2 DEF OwnHold, Key, Body, IsHold
      <4> QED
        BY <4>2, <4>3
    <3> QED
      BY <3>1, <3>2 DEF HoldIdsOK
  <2>6. SettlementsOK'
    <3>1. ASSUME NEW q \in Handlers, handler'[q].pc # "idle", Settles(handler'[q].req)
          PROVE  SettlementOK(q)'
      <4>1. handler'[q].req = handler[q].req /\ handler'[q].body = handler[q].body
            /\ SettlementOK(q)
        BY <1>1, <2>1, <3>1 DEF Inv, SettlementsOK
      <4> QED
        BY <1>1, <4>1 DEF SettlementOK, Funded, CoversAll, Body, Postings
    <3> QED
      BY <3>1 DEF SettlementsOK
  <2>7. AcksOK'
    <3>1. VoidAckTruthful'
      BY <1>1, <2>1 DEF Inv, AcksOK, VoidAckTruthful, Answered
    <3>2. ConfirmAckTruthful'
      BY <1>1, <2>1 DEF Inv, AcksOK, ConfirmAckTruthful, Answered, AsksAll, OwnKey, Key
    <3>3. ClosedReplyTruthful'
      BY <1>1, <2>1 DEF Inv, AcksOK, ClosedReplyTruthful, Ended
    <3>4. \A q \in Handlers :
             /\ (handler[q].pc = "idle" /\ handler[q].reply = "ok" /\ Key(q) # NoKey => Key(q) \in DOMAIN journal)'
             /\ (handler[q].reply = "ClosedHold" => handler[q].req \in ConfirmRequests \union VoidRequests)'
      BY <1>1, <2>1 DEF Inv, AcksOK, Key
    <3> QED
      BY <3>1, <3>2, <3>3, <3>4 DEF AcksOK
  <2> QED
    BY <2>2, <2>5, <2>6, <2>7 DEF Inv
<1> QED
  BY <1>3, <1>4, <1>5 DEF ReadHold

-----------------------------------------------------------------------------
(* Transactions are committed.                                               *)

LEMMA RecordGrows ==
    ASSUME TypeOK, NEW p \in Handlers, ~Journaled(p), Record(p)
    PROVE  /\ \A k \in DOMAIN journal : k \in DOMAIN journal' /\ journal'[k] = journal[k]
           /\ \A k \in DOMAIN journal' \ DOMAIN journal :
                 journal'[k] = [body |-> Body(p), req |-> handler[p].req]
           /\ Key(p) # NoKey => Key(p) \in DOMAIN journal'
BY DEF TypeOK, Record, Journaled

\* Only debits are sent into a hold, and into one that no debit opened before.
LEMMA FreshHold ==
    ASSUME Inv, NEW p \in Handlers, Posting(p), ~Journaled(p), Body(p).script = "send",
           Body(p).hold # None
    PROVE  /\ handler[p].req.op = "debit"
           /\ ~IsHold(Body(p).hold)
           /\ Key(p) # NoKey => Body(p).hold = HoldIdOf[Key(p)]
           /\ Key(p) = NoKey => \A k \in Keys : Body(p).hold # HoldIdOf[k]
<1>1. OwnHold(p)
  BY DEF Inv, HoldIdsOK
<1>2. Key(p) \in Keys \union {NoKey}
  BY PostedBody DEF Inv, Posting
<1> QED
  BY <1>1, <1>2 DEF OwnHold, Journaled, Inv, HoldIdsOK

\* The hold a pending debit funds opens with its amount; the others stay, those
\* that are apart with all that they have.
LEMMA SendOpensHold ==
    ASSUME Inv, NEW p \in Handlers, CommitSend(p)
    PROVE  /\ \A h \in ApartHolds : h # Body(p).hold =>
                 /\ balance'[h] = balance[h] /\ original'[h] = original[h]
                 /\ funding'[h] = funding[h] /\ status'[h] = status[h]
           /\ \A h \in HoldIds : h # Body(p).hold => destination'[h] = destination[h]
           /\ \A h \in ApartHolds : released'[h] = released[h]
           /\ UNCHANGED <<paid, refunded>>
           /\ Body(p).amount \in Nat \ {0}
           /\ Body(p).hold \in ApartHolds =>
                 /\ ~Funded(Body(p).hold) /\ status[Body(p).hold] = "none"
                 /\ paid[Body(p).hold] = 0 /\ released[Body(p).hold] = 0
                 /\ balance'[Body(p).hold] = Body(p).amount
                 /\ original'[Body(p).hold] = Body(p).amount
                 /\ destination'[Body(p).hold] # None
                 /\ status'[Body(p).hold] = "open"
                 /\ \E t : funding'[Body(p).hold] = <<t>> /\ Yield(t.cut, t.from) = Body(p).amount
           /\ Conserved'
<1> DEFINE b == Body(p)
           In(a) == IF a = Into(b) THEN b.amount ELSE 0
<1>1. Posting(p) /\ ~Journaled(p) /\ b.script = "send" /\ handler[p].pc # "idle"
  BY DEF CommitSend, Posting
<1>2. IsSend(b)
  BY <1>1, PostedBody DEF Inv
<1>3. /\ b.from \in Seq(Places) /\ Distinct(b.from) /\ b.amount \in Nat \ {0}
      /\ b.to \in Places /\ b.to # None /\ b.hold \in HoldIds \union {None}
  BY <1>2, AccountsAssumption DEF IsSend, Places, Subjects
<1>4. PICK cut \in Cuts(Available(b.from, b.amount), b.amount) :
        /\ Yield(cut, b.from) = b.amount
        /\ balance' = [a \in Accounts |-> balance[a] - Paid(b.from, cut, a) + In(a)]
        /\ original' = [h \in HoldIds |-> original[h] + In(h)]
        /\ funding' = [h \in HoldIds |-> Funds(h, In(h), b.from, cut)]
        /\ released' = [h \in HoldIds |-> released[h] + Paid(b.from, cut, h)]
        /\ IF b.hold = None
           THEN UNCHANGED <<destination, status>>
           ELSE /\ destination' = [destination EXCEPT ![b.hold] = b.to]
                /\ status' = [status EXCEPT ![b.hold] = "open"]
  BY DEF CommitSend
<1>5. UNCHANGED <<paid, refunded>>
  BY DEF CommitSend
<1>6. \A h \in HoldIds :
          /\ h \in Accounts /\ balance[h] \in Nat /\ original[h] \in Nat
          /\ paid[h] \in Nat /\ released[h] \in Nat
  BY DEF Inv, TypeOK, Accounts
<1>7. \A h \in HoldIds : Paid(b.from, cut, h) \in Nat /\ In(h) \in Nat
  <2>1. balance \in [Accounts -> Nat] /\ b.amount \in Nat
    BY <1>3 DEF Inv, TypeOK
  <2>2. \A h \in HoldIds : Paid(b.from, cut, h) \in Nat
    <3> HIDE DEF b, In
    <3> QED
      BY <1>3, <1>6, <2>1, CutsFund
  <2> QED
    BY <1>3, <2>2
<1>8. \A h \in ApartHolds : h \in HoldIds /\ Paid(b.from, cut, h) = 0
  <2>1. \A i \in DOMAIN b.from : b.from[i] \in Places
    BY <1>3
  <2>2. \A h \in ApartHolds : h \in HoldIds /\ \A i \in DOMAIN b.from : b.from[i] # h
    BY <2>1, PlacesFacts
  <2> QED
    BY <2>2 DEF Paid
<1>9. \A h \in ApartHolds : h # b.hold => In(h) = 0
  BY <1>3, PlacesFacts DEF Into
<1>10. \A h \in HoldIds : h # b.hold => destination'[h] = destination[h] /\ status'[h] = status[h]
  BY <1>4 DEF Inv, TypeOK
<1>11. Conserved'
  <2> SUFFICES ASSUME NEW h \in HoldIds PROVE original'[h] = balance'[h] + paid'[h] + released'[h]
    BY DEF Conserved
  <2>1. original[h] = balance[h] + paid[h] + released[h]
    BY DEF Inv, HoldConservation, Conserved
  <2>2. /\ original'[h] = original[h] + In(h) /\ paid'[h] = paid[h]
        /\ balance'[h] = balance[h] - Paid(b.from, cut, h) + In(h)
        /\ released'[h] = released[h] + Paid(b.from, cut, h)
    BY <1>4, <1>5, <1>6
  <2> HIDE DEF b, In
  <2> QED
    BY <1>6, <1>7, <2>1, <2>2
<1>12. \A h \in ApartHolds : released'[h] = released[h]
  BY <1>4, <1>6, <1>8
<1>13. \A h \in ApartHolds : h # b.hold =>
          /\ balance'[h] = balance[h] /\ original'[h] = original[h]
          /\ funding'[h] = funding[h] /\ status'[h] = status[h]
  <2> HIDE DEF b, In
  <2> QED
    BY <1>4, <1>6, <1>8, <1>9, <1>10 DEF Funds
<1>14. ASSUME b.hold \in ApartHolds
       PROVE  /\ ~Funded(b.hold) /\ status[b.hold] = "none"
              /\ paid[b.hold] = 0 /\ released[b.hold] = 0
              /\ balance'[b.hold] = b.amount /\ original'[b.hold] = b.amount
              /\ destination'[b.hold] # None /\ status'[b.hold] = "open"
              /\ \E t : funding'[b.hold] = <<t>> /\ Yield(t.cut, t.from) = b.amount
  <2>1. b.hold \in HoldIds /\ b.hold # None
    BY <1>14, PlacesFacts, AccountsAssumption
  <2>2. In(b.hold) = b.amount /\ b.amount \in Nat /\ b.amount # 0
    BY <1>3, <2>1 DEF Into
  <2>3. ~IsHold(b.hold)
    BY <1>1, <2>1, FreshHold
  <2> HIDE DEF b, In
  <2>4. /\ ~Funded(b.hold) /\ status[b.hold] = "none"
        /\ original[b.hold] = 0 /\ balance[b.hold] = 0 /\ paid[b.hold] = 0 /\ released[b.hold] = 0
    <3>1. /\ original[b.hold] \in Nat /\ balance[b.hold] \in Nat
          /\ paid[b.hold] \in Nat /\ released[b.hold] \in Nat
          /\ original[b.hold] = balance[b.hold] + paid[b.hold] + released[b.hold]
          /\ ~(original[b.hold] > 0) /\ ~(status[b.hold] # "none") /\ ~Funded(b.hold)
      BY <1>14, <2>3, UnfundedHold
    <3> QED
      BY <3>1
  <2>5. balance'[b.hold] = b.amount /\ original'[b.hold] = b.amount
    BY <1>4, <1>6, <1>8, <1>14, <2>1, <2>2, <2>4
  <2>6. destination'[b.hold] # None /\ status'[b.hold] = "open"
    BY <1>3, <1>4, <2>1 DEF Inv, TypeOK
  <2> DEFINE t == [from |-> b.from, cut |-> cut]
  <2>7. funding'[b.hold] = <<t>>
    <3>1. funding[b.hold] = <<>> /\ Append(<<>>, t) = <<t>>
      BY <2>4 DEF Funded
    <3> QED
      BY <1>4, <2>1, <2>2, <3>1 DEF Funds
  <2>8. Yield(t.cut, t.from) = b.amount
    BY <1>4
  <2> HIDE DEF t
  <2> QED
    BY <2>4, <2>5, <2>6, <2>7, <2>8
<1> QED
  BY <1>3, <1>5, <1>10, <1>11, <1>12, <1>13, <1>14

LEMMA CommitSendInv ==
    ASSUME Inv, TypeOK', NEW p \in Handlers, CommitSend(p)
    PROVE  Inv' /\ Advance
<1> DEFINE b == Body(p)
<1>1. Posting(p) /\ ~Journaled(p) /\ b.script = "send" /\ handler[p].pc # "idle" /\ Record(p)
  BY DEF CommitSend, Posting
<1>2. handler[p].req.op \in {"credit", "debit"}
  BY <1>1, PostedBody DEF Inv
<1>3. \A h \in ApartHolds : h \in HoldIds
  BY PlacesFacts
<1>4. UNCHANGED <<paid, refunded>> /\ \A h \in ApartHolds : released'[h] = released[h]
  BY SendOpensHold
<1>5. PICK reply \in {"ok", "Unavailable"} : Answer(p, reply)
  BY DEF CommitSend, Done
<1>6. /\ \A k \in DOMAIN journal : k \in DOMAIN journal' /\ journal'[k] = journal[k]
      /\ \A k \in DOMAIN journal' \ DOMAIN journal :
            journal'[k] = [body |-> Body(p), req |-> handler[p].req]
      /\ Key(p) # NoKey => Key(p) \in DOMAIN journal'
  BY <1>1, RecordGrows DEF Inv
<1>7. /\ b.hold # None => ~IsHold(b.hold)
      /\ b.hold # None /\ Key(p) # NoKey => b.hold = HoldIdOf[Key(p)]
      /\ b.hold # None /\ Key(p) = NoKey => \A k \in Keys : b.hold # HoldIdOf[k]
  BY <1>1, FreshHold
<1>8. \A h \in HoldIds : h # b.hold => destination'[h] = destination[h]
  BY SendOpensHold
<1>9. \A h \in ApartHolds : h # b.hold =>
          /\ balance'[h] = balance[h] /\ original'[h] = original[h]
          /\ destination'[h] = destination[h] /\ funding'[h] = funding[h] /\ status'[h] = status[h]
  BY <1>3, SendOpensHold
<1>10. /\ b.amount \in Nat \ {0}
       /\ b.hold \in ApartHolds =>
             /\ ~Funded(b.hold) /\ status[b.hold] = "none"
             /\ paid[b.hold] = 0 /\ released[b.hold] = 0
             /\ balance'[b.hold] = b.amount /\ original'[b.hold] = b.amount
             /\ destination'[b.hold] # None /\ status'[b.hold] = "open"
             /\ \E t : funding'[b.hold] = <<t>> /\ Yield(t.cut, t.from) = b.amount
  BY SendOpensHold
<1>11. FundingOK'
  <2> SUFFICES ASSUME NEW h \in ApartHolds
               PROVE  IF funding'[h] # <<>>
                      THEN /\ funding'[h] = <<funding'[h][1]>>
                           /\ original'[h] = Yield(funding'[h][1].cut, funding'[h][1].from)
                           /\ original'[h] > 0
                           /\ destination'[h] # None
                      ELSE original'[h] = 0 /\ destination'[h] = None
    BY DEF FundingOK, Funded, Postings
  <2>1. CASE h = b.hold
    <3>1. PICK t : funding'[h] = <<t>> /\ Yield(t.cut, t.from) = b.amount
      BY <1>10, <2>1
    <3>2. original'[h] = b.amount /\ destination'[h] # None
      BY <1>10, <2>1
    <3> QED
      BY <1>10, <3>1, <3>2
  <2>2. CASE h # b.hold
    BY <1>9, <2>2 DEF Inv, FundingOK, Funded, Postings
  <2> QED
    BY <2>1, <2>2
<1>12. HoldConservation'
  <2>1. Conserved'
    BY SendOpensHold
  <2>2. ASSUME NEW h \in ApartHolds
        PROVE  /\ status'[h] = "open" <=> balance'[h] > 0
               /\ status'[h] = "none" <=> original'[h] = 0
    <3>1. CASE h = b.hold
      BY <1>10, <2>2, <3>1
    <3>2. CASE h # b.hold
      BY <1>9, <2>2, <3>2 DEF Inv, HoldConservation, OverWhenEmpty
    <3> QED
      BY <3>1, <3>2
  <2> QED
    BY <2>1, <2>2 DEF HoldConservation, OverWhenEmpty
<1>13. RefundsOK'
  <2> SUFFICES ASSUME NEW h \in ApartHolds, NEW a \in Balances
               PROVE  /\ refunded'[h][a] <= IF funding'[h] = <<>> THEN 0
                                            ELSE Paid(funding'[h][1].from, funding'[h][1].cut, a)
                      /\ status'[h] # "voided" => refunded'[h][a] = 0
    BY DEF RefundsOK, RefundBounded
  <2>1. CASE h = b.hold
    <3>1. (\E t : funding'[h] = <<t>>) /\ status[h] = "none"
      BY <1>10, <2>1
    <3>2. IsPostings(funding'[h][1])
      BY <1>3, <3>1 DEF TypeOK, IsFunding
    <3>3. Paid(funding'[h][1].from, funding'[h][1].cut, a) \in Nat
      BY <3>2, RefundType
    <3>4. refunded'[h][a] = 0
      BY <1>4, <3>1 DEF Inv, RefundsOK
    <3> QED
      BY <3>1, <3>3, <3>4
  <2>2. CASE h # b.hold
    BY <1>4, <1>9, <2>2 DEF Inv, RefundsOK, RefundBounded
  <2> QED
    BY <2>1, <2>2
<1>14. Advance
  <2> SUFFICES ASSUME NEW h \in ApartHolds, Funded(h) PROVE h # b.hold /\ balance[h] \in Nat
    BY <1>9 DEF Advance
  <2> QED
    BY <1>10, UnfundedHold
<1>15. \A k \in DOMAIN journal' \ DOMAIN journal : Settles(journal'[k].req) => EntryOK(journal[k])'
  BY <1>2, <1>6 DEF Settles
<1>16. \A k \in Keys : IsHold(HoldIdOf[k])' => k \in DOMAIN journal'
  <2> SUFFICES ASSUME NEW k \in Keys, destination'[HoldIdOf[k]] # None PROVE k \in DOMAIN journal'
    BY DEF IsHold
  <2>1. HoldIdOf[k] \in HoldIds
    BY KeysAssumption
  <2>2. CASE HoldIdOf[k] = b.hold
    <3>1. b.hold # None
      BY <2>1, <2>2, AccountsAssumption
    <3>2. Key(p) # NoKey /\ HoldIdOf[k] = HoldIdOf[Key(p)]
      BY <1>7, <2>2, <3>1
    <3>3. k = Key(p)
      BY <1>1, <3>2, PostedBody, KeysAssumption DEF Inv
    <3> QED
      BY <1>6, <3>2, <3>3
  <2>3. CASE HoldIdOf[k] # b.hold
    BY <1>6, <1>8, <2>1, <2>3 DEF Inv, HoldIdsOK, IsHold
  <2> QED
    BY <2>2, <2>3
<1>17. \A q \in Handlers \ {p} :
          Posting(q) /\ Body(q).script = "send" /\ Body(q).hold # None /\ Key(q) = NoKey =>
              ~IsHold(Body(q).hold)'
  <2> SUFFICES ASSUME NEW q \in Handlers \ {p}, Posting(q), Body(q).script = "send",
                      Body(q).hold # None, Key(q) = NoKey
               PROVE  destination'[Body(q).hold] = None
    BY <1>5 DEF IsHold, Body, Answer, Inv, TypeOK
  <2>1. OwnHold(q)
    BY DEF Inv, HoldIdsOK
  <2>2. ~IsHold(Body(q).hold) /\ Body(q).hold # b.hold
    BY <1>1, <2>1 DEF OwnHold
  <2>3. Body(q).hold \in HoldIds
    BY PostedBody DEF Inv, Posting, IsSend
  <2> QED
    BY <1>8, <2>2, <2>3 DEF IsHold
<1>18. handler'[p].req = handler[p].req
  BY <1>5 DEF Answer, Inv, TypeOK
<1>19. reply = "ok" => Truthful(p)'
  BY <1>2, <1>6, <1>18 DEF Truthful, Key
<1> QED
  BY <1>1, <1>5, <1>6, <1>11, <1>12, <1>13, <1>14, <1>15, <1>16, <1>17, <1>19, AnswerInv

\* A transaction that settles a hold opens none.
LEMMA DestinationsStay ==
    ASSUME Inv, NEW p \in Handlers, Posting(p), ~Journaled(p), Record(p), NEW reply, Answer(p, reply),
           destination' = destination
    PROVE  /\ \A k \in Keys : IsHold(HoldIdOf[k])' => k \in DOMAIN journal'
           /\ \A q \in Handlers \ {p} :
                 Posting(q) /\ Body(q).script = "send" /\ Body(q).hold # None /\ Key(q) = NoKey =>
                     ~IsHold(Body(q).hold)'
<1>1. \A k \in Keys : IsHold(HoldIdOf[k])' => k \in DOMAIN journal'
  BY RecordGrows DEF Inv, HoldIdsOK, IsHold
<1>2. ASSUME NEW q \in Handlers \ {p}, Posting(q), Body(q).script = "send", Body(q).hold # None,
             Key(q) = NoKey
      PROVE  ~IsHold(Body(q).hold)'
  <2>1. OwnHold(q)
    BY <1>2 DEF Inv, HoldIdsOK
  <2>2. destination[Body(q).hold] = None
    BY <1>2, <2>1 DEF OwnHold, IsHold
  <2>3. Body(q)' = Body(q)
    BY DEF Body, Answer, Inv, TypeOK
  <2> QED
    BY <2>2, <2>3 DEF IsHold
<1> QED
  BY <1>1, <1>2

\* A confirmation pays and releases no more than what remains, and closes the
\* hold when nothing is left; the other holds that are apart stay as they are.
LEMMA ConfirmDrainsHold ==
    ASSUME Inv, NEW p \in Handlers, CommitConfirm(p)
    PROVE  /\ Body(p).hold = handler[p].req.hold /\ handler[p].req.op = "confirm"
           /\ UNCHANGED <<destination, refunded>>
           /\ Conserved'
           /\ \A h \in ApartHolds : original'[h] = original[h] /\ funding'[h] = funding[h]
           /\ \A h \in ApartHolds : h # Body(p).hold =>
                 /\ balance'[h] = balance[h] /\ paid'[h] = paid[h] /\ released'[h] = released[h]
                 /\ status'[h] = status[h]
           /\ Body(p).hold \in ApartHolds =>
                 /\ Body(p).final = handler[p].req.final /\ CoversAll(handler[p].req, Body(p).amount)
                 /\ Body(p).amount \in Nat \ {0} /\ balance[Body(p).hold] \in Nat
                 /\ status[Body(p).hold] = "open"
                 /\ \E rest \in Nat :
                       /\ Body(p).amount + rest <= balance[Body(p).hold]
                       /\ Body(p).final => balance[Body(p).hold] = Body(p).amount + rest
                       /\ ~Body(p).final => rest = 0
                       /\ balance'[Body(p).hold] = balance[Body(p).hold] - (Body(p).amount + rest)
                       /\ paid'[Body(p).hold] = paid[Body(p).hold] + Body(p).amount
                       /\ released'[Body(p).hold] = released[Body(p).hold] + rest
                       /\ status'[Body(p).hold] =
                             IF balance[Body(p).hold] = Body(p).amount + rest THEN "confirmed" ELSE "open"
<1> DEFINE b == Body(p)
           req == handler[p].req
           In(a) == IF a = b.to THEN b.amount ELSE 0
           rest == IF b.final THEN balance[b.hold] - b.amount + In(b.hold) ELSE 0
<1>1. Posting(p) /\ b.script = "confirm" /\ handler[p].pc # "idle"
  BY DEF CommitConfirm, Posting
<1>2. IsConfirm(b) /\ req.op = "confirm" /\ b.hold = req.hold
  BY <1>1, PostedBody DEF Inv
<1>3. /\ b.hold \in HoldIds /\ b.amount \in Nat \ {0} /\ b.to \in Places
      /\ b.hold \in ApartHolds => b.to \notin HoldIds
  BY <1>2 DEF IsConfirm
<1>4. /\ b.amount <= balance[b.hold]
      /\ balance' = [a \in Accounts |->
              balance[a] - (IF a = b.hold THEN b.amount + rest ELSE 0) + In(a)
                         + (IF a = Main THEN rest ELSE 0)]
      /\ original' = [h \in HoldIds |-> original[h] + In(h)]
      /\ funding' = [h \in HoldIds |-> Funds(h, In(h), <<b.hold>>, Whole(b.amount + rest))]
      /\ paid' = [paid EXCEPT ![b.hold] = @ + b.amount]
      /\ released' = [released EXCEPT ![b.hold] = @ + rest]
      /\ status' = [status EXCEPT ![b.hold] = IF balance'[b.hold] = 0 THEN "confirmed" ELSE @]
      /\ UNCHANGED <<destination, refunded>>
  BY DEF CommitConfirm
<1>5. \A h \in HoldIds :
          /\ h \in Accounts /\ h # Main /\ balance[h] \in Nat /\ original[h] \in Nat
          /\ paid[h] \in Nat /\ released[h] \in Nat
  BY AccountsAssumption DEF Inv, TypeOK, Accounts
<1>6. (\A h : In(h) \in Nat) /\ \A h \in ApartHolds : h \in HoldIds /\ In(h) = 0
  BY <1>3, PlacesFacts
<1>7. rest \in Nat
  BY <1>3, <1>4, <1>5, <1>6
<1>8. \A h \in HoldIds :
          /\ balance'[h] = balance[h] - (IF h = b.hold THEN b.amount + rest ELSE 0) + In(h)
          /\ original'[h] = original[h] + In(h)
          /\ paid'[h] = paid[h] + (IF h = b.hold THEN b.amount ELSE 0)
          /\ released'[h] = released[h] + (IF h = b.hold THEN rest ELSE 0)
          /\ h # b.hold => status'[h] = status[h]
  <2> SUFFICES ASSUME NEW h \in HoldIds
               PROVE  /\ balance'[h] = balance[h] - (IF h = b.hold THEN b.amount + rest ELSE 0) + In(h)
                      /\ original'[h] = original[h] + In(h)
                      /\ paid'[h] = paid[h] + (IF h = b.hold THEN b.amount ELSE 0)
                      /\ released'[h] = released[h] + (IF h = b.hold THEN rest ELSE 0)
                      /\ h # b.hold => status'[h] = status[h]
    OBVIOUS
  <2> HIDE DEF b, In, rest
  <2>1. balance'[h] = balance[h] - (IF h = b.hold THEN b.amount + rest ELSE 0) + In(h)
    BY <1>3, <1>4, <1>5, <1>6, <1>7
  <2>2. paid'[h] = paid[h] + (IF h = b.hold THEN b.amount ELSE 0)
    BY <1>3, <1>4, <1>5 DEF Inv, TypeOK
  <2>3. released'[h] = released[h] + (IF h = b.hold THEN rest ELSE 0)
    BY <1>3, <1>4, <1>5 DEF Inv, TypeOK
  <2>4. original'[h] = original[h] + In(h) /\ (h # b.hold => status'[h] = status[h])
    BY <1>4 DEF Inv, TypeOK
  <2> QED
    BY <2>1, <2>2, <2>3, <2>4
<1>9. Conserved'
  <2> SUFFICES ASSUME NEW h \in HoldIds PROVE original'[h] = balance'[h] + paid'[h] + released'[h]
    BY DEF Conserved
  <2>1. original[h] = balance[h] + paid[h] + released[h]
    BY DEF Inv, HoldConservation, Conserved
  <2>2. b.amount \in Nat
    BY <1>3
  <2> HIDE DEF b, In, rest
  <2> QED
    BY <1>5, <1>6, <1>7, <1>8, <2>1, <2>2
<1>10. \A h \in ApartHolds : original'[h] = original[h] /\ funding'[h] = funding[h]
  <2> HIDE DEF b, In, rest
  <2> QED
    BY <1>4, <1>5, <1>6 DEF Funds
<1>11. \A h \in ApartHolds : h # b.hold =>
          /\ balance'[h] = balance[h] /\ paid'[h] = paid[h] /\ released'[h] = released[h]
          /\ status'[h] = status[h]
  <2> HIDE DEF b, In, rest
  <2> QED
    BY <1>5, <1>6, <1>8
<1>12. ASSUME b.hold \in ApartHolds
       PROVE  /\ b.final = req.final /\ CoversAll(req, b.amount)
              /\ balance[b.hold] \in Nat /\ status[b.hold] = "open"
              /\ b.amount + rest <= balance[b.hold]
              /\ b.final => balance[b.hold] = b.amount + rest
              /\ ~b.final => rest = 0
              /\ balance'[b.hold] = balance[b.hold] - (b.amount + rest)
              /\ paid'[b.hold] = paid[b.hold] + b.amount
              /\ released'[b.hold] = released[b.hold] + rest
              /\ status'[b.hold] = IF balance[b.hold] = b.amount + rest THEN "confirmed" ELSE "open"
  <2>1. Settles(req)
    BY <1>2, <1>12 DEF Settles
  <2>2. b.final = req.final /\ CoversAll(req, b.amount)
    BY <1>1, <1>2, <2>1 DEF Inv, SettlementsOK, SettlementOK
  <2>3. In(b.hold) = 0 /\ balance[b.hold] \in Nat /\ b.amount \in Nat \ {0}
    BY <1>3, <1>5, <1>6, <1>12
  <2>4. /\ b.amount + rest <= balance[b.hold]
        /\ b.final => balance[b.hold] = b.amount + rest
        /\ ~b.final => rest = 0
    <3> HIDE DEF b, In
    <3> QED
      BY <1>4, <2>3
  <2> HIDE DEF b, In, rest
  <2>5. status[b.hold] = "open"
    BY <1>4, <1>12, <2>3, UnfundedHold
  <2>6. /\ balance'[b.hold] = balance[b.hold] - (b.amount + rest)
        /\ paid'[b.hold] = paid[b.hold] + b.amount
        /\ released'[b.hold] = released[b.hold] + rest
    BY <1>3, <1>5, <1>7, <1>8, <2>3
  <2>7. status'[b.hold] = IF balance[b.hold] = b.amount + rest THEN "confirmed" ELSE "open"
    <3>1. status'[b.hold] = IF balance'[b.hold] = 0 THEN "confirmed" ELSE "open"
      BY <1>3, <1>4, <2>5 DEF Inv, TypeOK
    <3>2. balance'[b.hold] = 0 <=> balance[b.hold] = b.amount + rest
      BY <1>7, <2>3, <2>6
    <3> QED
      BY <3>1, <3>2
  <2> QED
    BY <2>2, <2>3, <2>4, <2>5, <2>6, <2>7
<1> HIDE DEF rest
<1>13. b.hold \in ApartHolds =>
         \E q \in Nat :
            /\ b.amount + q <= balance[b.hold]
            /\ b.final => balance[b.hold] = b.amount + q
            /\ ~b.final => q = 0
            /\ balance'[b.hold] = balance[b.hold] - (b.amount + q)
            /\ paid'[b.hold] = paid[b.hold] + b.amount
            /\ released'[b.hold] = released[b.hold] + q
            /\ status'[b.hold] = IF balance[b.hold] = b.amount + q THEN "confirmed" ELSE "open"
  BY <1>7, <1>12
<1> QED
  BY <1>2, <1>3, <1>4, <1>9, <1>10, <1>11, <1>12, <1>13

LEMMA CommitConfirmInv ==
    ASSUME Inv, TypeOK', NEW p \in Handlers, CommitConfirm(p)
    PROVE  Inv' /\ Advance
<1> DEFINE b == Body(p)
           req == handler[p].req
<1>1. Posting(p) /\ ~Journaled(p) /\ handler[p].pc # "idle" /\ Record(p)
  BY DEF CommitConfirm, Posting
<1>2. req.op = "confirm" /\ b.hold = req.hold /\ UNCHANGED <<destination, refunded>>
  BY ConfirmDrainsHold
<1>3. b.hold \in ApartHolds => b.amount \in Nat \ {0} /\ b.final = req.final /\ CoversAll(req, b.amount)
  BY ConfirmDrainsHold
<1>4. \A h \in ApartHolds :
          original'[h] = original[h] /\ funding'[h] = funding[h] /\ destination'[h] = destination[h]
  BY <1>2, ConfirmDrainsHold
<1>5. PICK reply \in {"ok", "Unavailable"} : Answer(p, reply)
  BY DEF CommitConfirm, Done
<1>6. b.hold \in ApartHolds =>
          balance[b.hold] \in Nat /\ status[b.hold] = "open" /\ original[b.hold] # 0
  <2>1. b.hold \in ApartHolds => status[b.hold] = "open"
    BY ConfirmDrainsHold
  <2> HIDE DEF b
  <2>2. b.hold \in ApartHolds => balance[b.hold] \in Nat /\ original[b.hold] > 0
    BY <2>1, UnfundedHold
  <2> QED
    BY <2>1, <2>2
<1>7. b.hold \in ApartHolds =>
        \E rest \in Nat :
          /\ b.amount + rest <= balance[b.hold]
          /\ b.final => balance[b.hold] = b.amount + rest
          /\ balance'[b.hold] = balance[b.hold] - (b.amount + rest)
          /\ status'[b.hold] = IF balance[b.hold] = b.amount + rest THEN "confirmed" ELSE "open"
  BY ConfirmDrainsHold
<1>8. b.hold \in ApartHolds =>
          /\ balance'[b.hold] <= balance[b.hold]
          /\ status'[b.hold] = "open" <=> balance'[b.hold] > 0
          /\ status'[b.hold] \in {"confirmed", "open"}
          /\ b.final => status'[b.hold] = "confirmed"
          /\ b.amount >= balance[b.hold] => status'[b.hold] = "confirmed"
  <2> SUFFICES ASSUME b.hold \in ApartHolds
               PROVE  /\ balance'[b.hold] <= balance[b.hold]
                      /\ status'[b.hold] = "open" <=> balance'[b.hold] > 0
                      /\ status'[b.hold] \in {"confirmed", "open"}
                      /\ b.final => status'[b.hold] = "confirmed"
                      /\ b.amount >= balance[b.hold] => status'[b.hold] = "confirmed"
    OBVIOUS
  <2>1. PICK rest \in Nat :
          /\ b.amount + rest <= balance[b.hold]
          /\ b.final => balance[b.hold] = b.amount + rest
          /\ balance'[b.hold] = balance[b.hold] - (b.amount + rest)
          /\ status'[b.hold] = IF balance[b.hold] = b.amount + rest THEN "confirmed" ELSE "open"
    BY <1>7
  <2>2. b.amount \in Nat /\ balance[b.hold] \in Nat
    BY <1>3, <1>6
  <2> HIDE DEF b
  <2> QED
    BY <2>1, <2>2
<1>9. \A h \in ApartHolds : h # b.hold => balance'[h] = balance[h] /\ status'[h] = status[h]
  BY ConfirmDrainsHold
<1>10. FundingOK'
  BY <1>4 DEF Inv, FundingOK, Funded, Postings
<1>11. HoldConservation'
  <2>1. Conserved'
    BY ConfirmDrainsHold
  <2>2. ASSUME NEW h \in ApartHolds
        PROVE  /\ status'[h] = "open" <=> balance'[h] > 0
               /\ status'[h] = "none" <=> original'[h] = 0
    <3>1. CASE h = b.hold
      BY <1>4, <1>6, <1>8, <3>1
    <3>2. CASE h # b.hold
      BY <1>4, <1>9, <2>2, <3>2 DEF Inv, HoldConservation, OverWhenEmpty
    <3> QED
      BY <3>1, <3>2
  <2> QED
    BY <2>1, <2>2 DEF HoldConservation, OverWhenEmpty
<1>12. RefundsOK'
  <2>1. RefundBounded'
    BY <1>2, <1>4 DEF Inv, RefundsOK, RefundBounded
  <2>2. ASSUME NEW h \in ApartHolds, NEW a \in Balances, status'[h] # "voided" PROVE refunded'[h][a] = 0
    BY <1>2, <1>6, <1>9, <2>2 DEF Inv, RefundsOK
  <2> QED
    BY <2>1, <2>2 DEF RefundsOK
<1>13. Advance
  <2> SUFFICES ASSUME NEW h \in ApartHolds
               PROVE  balance'[h] <= balance[h] /\ (Ended(h) => status'[h] = status[h])
    BY <1>4 DEF Advance
  <2>1. CASE h = b.hold
    BY <1>6, <1>8, <2>1 DEF Ended
  <2>2. CASE h # b.hold
    BY <1>9, <2>2, UnfundedHold
  <2> QED
    BY <2>1, <2>2
<1>14. b.hold \in ApartHolds =>
         /\ b.final => status'[b.hold] = "confirmed"
         /\ Uint64(req.amount) = 0 /\ original'[b.hold] < Word => status'[b.hold] = "confirmed"
  BY <1>2, <1>3, <1>4, <1>8 DEF CoversAll
<1>15. /\ \A k \in DOMAIN journal : k \in DOMAIN journal' /\ journal'[k] = journal[k]
       /\ \A k \in DOMAIN journal' \ DOMAIN journal : journal'[k] = [body |-> b, req |-> req]
       /\ Key(p) # NoKey => Key(p) \in DOMAIN journal'
  BY <1>1, RecordGrows DEF Inv
<1>16. \A k \in DOMAIN journal' \ DOMAIN journal : Settles(journal'[k].req) => EntryOK(journal[k])'
  BY <1>2, <1>14, <1>15 DEF EntryOK, Settles
<1>17. handler'[p].req = req
  BY <1>5 DEF Answer, Inv, TypeOK
<1>18. Truthful(p)'
  BY <1>2, <1>3, <1>14, <1>15, <1>17 DEF Truthful, Key, AsksAll
<1>19. /\ \A k \in Keys : IsHold(HoldIdOf[k])' => k \in DOMAIN journal'
       /\ \A q \in Handlers \ {p} :
             Posting(q) /\ Body(q).script = "send" /\ Body(q).hold # None /\ Key(q) = NoKey =>
                 ~IsHold(Body(q).hold)'
  BY <1>1, <1>2, <1>5, DestinationsStay
<1> QED
  BY <1>1, <1>5, <1>10, <1>11, <1>12, <1>13, <1>15, <1>16, <1>18, <1>19, AnswerInv

\* A cancel empties the hold, along the postings that funded it; the other holds
\* that are apart stay as they are.
LEMMA CancelEmptiesHold ==
    ASSUME Inv, NEW p \in Handlers, CommitCancel(p)
    PROVE  /\ Body(p).hold = handler[p].req.hold /\ handler[p].req.op = "void"
           /\ UNCHANGED <<destination, paid>>
           /\ Conserved'
           /\ \A h \in ApartHolds : original'[h] = original[h] /\ funding'[h] = funding[h]
           /\ \A h \in ApartHolds : h # Body(p).hold =>
                 /\ balance'[h] = balance[h] /\ released'[h] = released[h]
                 /\ status'[h] = status[h] /\ refunded'[h] = refunded[h]
           /\ Body(p).hold \in ApartHolds =>
                 /\ Funded(Body(p).hold) /\ IsPostings(Body(p).postings)
                 /\ Body(p).postings = Postings(Body(p).hold)
                 /\ balance[Body(p).hold] \in Nat /\ status[Body(p).hold] = "open"
                 /\ balance'[Body(p).hold] = 0
                 /\ released'[Body(p).hold] = released[Body(p).hold] + balance[Body(p).hold]
                 /\ status'[Body(p).hold] = "voided"
                 /\ \A a \in Balances :
                       refunded'[Body(p).hold][a] =
                           Refund(Body(p).postings.from, Body(p).postings.cut, balance[Body(p).hold], a)
<1> DEFINE b == Body(p)
           req == handler[p].req
           t == b.postings
           r == balance[b.hold]
           back == Refunded(t.from, t.cut, r)
           In(a) == Refund(t.from, t.cut, r, a)
<1>1. Posting(p) /\ b.script = "cancel" /\ handler[p].pc # "idle"
  BY DEF CommitCancel, Posting
<1>2. IsCancel(b) /\ req.op = "void" /\ b.hold = req.hold
  BY <1>1, PostedBody DEF Inv
<1>3. b.hold \in HoldIds /\ IsPostings(t)
  BY <1>2 DEF IsCancel
<1>4. /\ r > 0
      /\ balance' = [a \in Accounts |-> balance[a] - (IF a = b.hold THEN back ELSE 0) + In(a)]
      /\ original' = [h \in HoldIds |-> original[h] + In(h)]
      /\ funding' = [h \in HoldIds |-> Funds(h, In(h), <<b.hold>>, Whole(back))]
      /\ refunded' = [refunded EXCEPT ![b.hold] = [a \in Balances |-> @[a] + In(a)]]
      /\ released' = [released EXCEPT ![b.hold] = @ + back]
      /\ status' = [status EXCEPT ![b.hold] = IF r = back THEN "voided" ELSE @]
      /\ UNCHANGED <<destination, paid>>
  BY DEF CommitCancel
<1>5. \A h \in HoldIds :
          /\ h \in Accounts /\ balance[h] \in Nat /\ original[h] \in Nat
          /\ paid[h] \in Nat /\ released[h] \in Nat
  BY DEF Inv, TypeOK, Accounts
<1>6. (\A a : In(a) \in Nat) /\ back \in Nat
  <2>1. r \in Nat
    BY <1>3, <1>5
  <2>2. (\A a : In(a) \in Nat) /\ back \in 0 .. r
    BY <1>3, <2>1, RefundType
  <2> QED
    BY <2>1, <2>2
<1>7. \A h \in ApartHolds : h \in HoldIds /\ In(h) = 0
  <2>1. \A i \in DOMAIN t.from : t.from[i] \in Places
    BY <1>3 DEF IsPostings
  <2>2. \A h \in ApartHolds : h \in HoldIds /\ \A i \in DOMAIN t.from : t.from[i] # h
    BY <2>1, PlacesFacts
  <2> QED
    BY <2>2 DEF Refund
<1> HIDE DEF b, t, r, back, In
<1>8. \A h \in HoldIds :
          /\ balance'[h] = balance[h] - (IF h = b.hold THEN back ELSE 0) + In(h)
          /\ original'[h] = original[h] + In(h)
          /\ released'[h] = released[h] + (IF h = b.hold THEN back ELSE 0)
          /\ h # b.hold => status'[h] = status[h] /\ refunded'[h] = refunded[h]
  <2> SUFFICES ASSUME NEW h \in HoldIds
               PROVE  /\ balance'[h] = balance[h] - (IF h = b.hold THEN back ELSE 0) + In(h)
                      /\ original'[h] = original[h] + In(h)
                      /\ released'[h] = released[h] + (IF h = b.hold THEN back ELSE 0)
                      /\ h # b.hold => status'[h] = status[h] /\ refunded'[h] = refunded[h]
    OBVIOUS
  <2>1. balance'[h] = balance[h] - (IF h = b.hold THEN back ELSE 0) + In(h)
    BY <1>4, <1>5
  <2>2. released'[h] = released[h] + (IF h = b.hold THEN back ELSE 0)
    BY <1>3, <1>4, <1>5 DEF Inv, TypeOK
  <2>3. original'[h] = original[h] + In(h)
    BY <1>4
  <2>4. h # b.hold => status'[h] = status[h] /\ refunded'[h] = refunded[h]
    BY <1>4 DEF Inv, TypeOK
  <2> QED
    BY <2>1, <2>2, <2>3, <2>4
<1>9. Conserved'
  <2> SUFFICES ASSUME NEW h \in HoldIds PROVE original'[h] = balance'[h] + paid'[h] + released'[h]
    BY DEF Conserved
  <2>1. original[h] = balance[h] + paid[h] + released[h] /\ paid'[h] = paid[h]
    BY <1>4 DEF Inv, HoldConservation, Conserved
  <2> QED
    BY <1>5, <1>6, <1>8, <2>1
<1>10. \A h \in ApartHolds : original'[h] = original[h] /\ funding'[h] = funding[h]
  BY <1>4, <1>5, <1>7 DEF Funds
<1>11. \A h \in ApartHolds : h # b.hold =>
          /\ balance'[h] = balance[h] /\ released'[h] = released[h]
          /\ status'[h] = status[h] /\ refunded'[h] = refunded[h]
  BY <1>5, <1>7, <1>8
<1>12. ASSUME b.hold \in ApartHolds
       PROVE  /\ Funded(b.hold) /\ t = Postings(b.hold)
              /\ balance[b.hold] \in Nat /\ status[b.hold] = "open"
              /\ balance'[b.hold] = 0
              /\ released'[b.hold] = released[b.hold] + balance[b.hold]
              /\ status'[b.hold] = "voided"
              /\ \A a \in Balances : refunded'[b.hold][a] = In(a)
  <2>1. SettlementOK(p)
    BY <1>1, <1>2, <1>12 DEF Inv, SettlementsOK, Settles, b
  <2>2. Funded(b.hold) /\ t = Postings(b.hold)
    BY <1>2, <2>1 DEF SettlementOK, b, t
  <2>3. /\ r \in Nat /\ status[b.hold] = "open" /\ r <= original[b.hold] /\ original[b.hold] \in Nat
    BY <1>4, <1>12, UnfundedHold DEF r
  <2>4. back = r
    <3>1. original[b.hold] = Yield(t.cut, t.from)
      BY <1>12, <2>2 DEF Inv, FundingOK
    <3> QED
      BY <2>3, <3>1 DEF back, Refunded, Least
  <2>5. balance'[b.hold] = 0 /\ released'[b.hold] = released[b.hold] + r
    BY <1>3, <1>7, <1>8, <1>12, <2>3, <2>4 DEF r
  <2>6. status'[b.hold] = "voided"
    BY <1>3, <1>4, <2>4 DEF Inv, TypeOK
  <2>7. \A a \in Balances : refunded'[b.hold][a] = In(a)
    <3>1. \A a \in Balances : refunded[b.hold][a] = 0
      BY <1>12, <2>3 DEF Inv, RefundsOK
    <3>2. \A a \in Balances : refunded'[b.hold][a] = refunded[b.hold][a] + In(a)
      BY <1>3, <1>4 DEF Inv, TypeOK
    <3> QED
      BY <1>6, <3>1, <3>2
  <2> QED
    BY <2>2, <2>3, <2>5, <2>6, <2>7 DEF r
<1> QED
  BY <1>2, <1>3, <1>4, <1>9, <1>10, <1>11, <1>12 DEF b, t, r, In

LEMMA CommitCancelInv ==
    ASSUME Inv, TypeOK', NEW p \in Handlers, CommitCancel(p)
    PROVE  Inv' /\ Advance
<1> DEFINE b == Body(p)
           req == handler[p].req
           t == b.postings
           r == balance[b.hold]
<1>1. Posting(p) /\ ~Journaled(p) /\ handler[p].pc # "idle" /\ Record(p)
  BY DEF CommitCancel, Posting
<1>2. req.op = "void" /\ b.hold = req.hold /\ UNCHANGED <<destination, paid>>
  BY CancelEmptiesHold
<1>3. b.hold \in ApartHolds =>
          /\ IsPostings(t) /\ Funded(b.hold) /\ t = Postings(b.hold)
          /\ r \in Nat /\ status[b.hold] = "open"
  BY CancelEmptiesHold
<1>4. \A h \in ApartHolds :
          original'[h] = original[h] /\ funding'[h] = funding[h] /\ destination'[h] = destination[h]
  BY <1>2, CancelEmptiesHold
<1>5. PICK reply \in {"ok", "Unavailable"} : Answer(p, reply)
  BY DEF CommitCancel, Done
<1>6. b.hold \in ApartHolds => original[b.hold] # 0
  <2> HIDE DEF b
  <2> QED
    BY <1>3, UnfundedHold
<1>7. b.hold \in ApartHolds => balance'[b.hold] = 0 /\ status'[b.hold] = "voided"
  BY CancelEmptiesHold
<1>8. b.hold \in ApartHolds => \A a \in Balances : refunded'[b.hold][a] = Refund(t.from, t.cut, r, a)
  BY CancelEmptiesHold
<1>9. \A h \in ApartHolds : h # b.hold =>
          balance'[h] = balance[h] /\ status'[h] = status[h] /\ refunded'[h] = refunded[h]
  BY CancelEmptiesHold
<1>10. FundingOK'
  BY <1>4 DEF Inv, FundingOK, Funded, Postings
<1>11. HoldConservation'
  <2>1. Conserved'
    BY CancelEmptiesHold
  <2>2. ASSUME NEW h \in ApartHolds
        PROVE  /\ status'[h] = "open" <=> balance'[h] > 0
               /\ status'[h] = "none" <=> original'[h] = 0
    <3>1. CASE h = b.hold
      BY <1>4, <1>6, <1>7, <2>2, <3>1
    <3>2. CASE h # b.hold
      BY <1>4, <1>9, <2>2, <3>2 DEF Inv, HoldConservation, OverWhenEmpty
    <3> QED
      BY <3>1, <3>2
  <2> QED
    BY <2>1, <2>2 DEF HoldConservation, OverWhenEmpty
<1>12. RefundsOK'
  <2> SUFFICES ASSUME NEW h \in ApartHolds, NEW a \in Balances
               PROVE  /\ refunded'[h][a] <= IF funding'[h] = <<>> THEN 0
                                            ELSE Paid(funding'[h][1].from, funding'[h][1].cut, a)
                      /\ status'[h] # "voided" => refunded'[h][a] = 0
    BY DEF RefundsOK, RefundBounded
  <2>1. CASE h = b.hold
    <3>1. Refund(t.from, t.cut, r, a) <= Paid(t.from, t.cut, a)
      BY <1>3, <2>1, RefundType
    <3> QED
      BY <1>3, <1>4, <1>7, <1>8, <2>1, <3>1 DEF Funded, Postings
  <2>2. CASE h # b.hold
    BY <1>4, <1>9, <2>2 DEF Inv, RefundsOK, RefundBounded
  <2> QED
    BY <2>1, <2>2
<1>13. Advance
  <2> SUFFICES ASSUME NEW h \in ApartHolds
               PROVE  balance'[h] <= balance[h] /\ (Ended(h) => status'[h] = status[h])
    BY <1>4 DEF Advance
  <2>1. CASE h = b.hold
    BY <1>3, <1>7, <2>1 DEF Ended
  <2>2. CASE h # b.hold
    BY <1>9, <2>2, UnfundedHold
  <2> QED
    BY <2>1, <2>2
<1>14. /\ \A k \in DOMAIN journal : k \in DOMAIN journal' /\ journal'[k] = journal[k]
       /\ \A k \in DOMAIN journal' \ DOMAIN journal : journal'[k] = [body |-> b, req |-> req]
       /\ Key(p) # NoKey => Key(p) \in DOMAIN journal'
  BY <1>1, RecordGrows DEF Inv
<1>15. \A k \in DOMAIN journal' \ DOMAIN journal : Settles(journal'[k].req) => EntryOK(journal[k])'
  BY <1>2, <1>7, <1>14 DEF EntryOK, Settles
<1>16. handler'[p].req = req
  BY <1>5 DEF Answer, Inv, TypeOK
<1>17. Truthful(p)'
  BY <1>2, <1>7, <1>14, <1>16 DEF Truthful, Key
<1>18. /\ \A k \in Keys : IsHold(HoldIdOf[k])' => k \in DOMAIN journal'
       /\ \A q \in Handlers \ {p} :
             Posting(q) /\ Body(q).script = "send" /\ Body(q).hold # None /\ Key(q) = NoKey =>
                 ~IsHold(Body(q).hold)'
  BY <1>1, <1>2, <1>5, DestinationsStay
<1> QED
  BY <1>1, <1>5, <1>10, <1>11, <1>12, <1>13, <1>14, <1>15, <1>17, <1>18, AnswerInv

-----------------------------------------------------------------------------
LEMMA QuietAdvance ==
    ASSUME Inv, UNCHANGED <<ledger, history>>
    PROVE  Advance
BY UnfundedHold DEF Advance, ledger, history

LEMMA StepInv == Inv /\ [Next]_vars => Inv' /\ Advance
<1> SUFFICES ASSUME Inv, [Next]_vars PROVE Inv' /\ Advance
  OBVIOUS
<1>1. TypeOK'
  BY StepType DEF Inv
<1>2. CASE UNCHANGED <<ledger, handler, history>>
  <2>1. /\ UNCHANGED <<balance, original, destination, funding, journal, status, paid, released, refunded>>
        /\ handler' = handler
    BY <1>2 DEF ledger, history
  <2>2. FundingOK' /\ HoldConservation' /\ RefundsOK' /\ JournalOK'
    BY <1>2, LedgerUnchanged DEF Inv
  <2>3. HoldIdsOK'
    BY <2>1 DEF Inv, HoldIdsOK, OwnHold, IsHold, Posting, Body, Key
  <2>4. SettlementsOK'
    BY <2>1 DEF Inv, SettlementsOK, SettlementOK, CoversAll, Funded, Postings, Body
  <2>5. AcksOK'
    <3>1. VoidAckTruthful' /\ ClosedReplyTruthful'
      BY <2>1 DEF Inv, AcksOK, VoidAckTruthful, ClosedReplyTruthful, Answered, Ended
    <3>2. ConfirmAckTruthful'
      BY <2>1 DEF Inv, AcksOK, ConfirmAckTruthful, Answered, AsksAll, OwnKey, Key
    <3> QED
      BY <2>1, <3>1, <3>2 DEF Inv, AcksOK, Key
  <2>6. Inv'
    BY <1>1, <2>2, <2>3, <2>4, <2>5 DEF Inv
  <2> QED
    BY <1>2, <2>6, QuietAdvance
<1>3. CASE Tick
  BY <1>2, <1>3 DEF Tick
<1>4. CASE UNCHANGED vars
  BY <1>2, <1>4 DEF vars
<1>5. ASSUME NEW p \in Handlers, Receive(p) PROVE Inv' /\ Advance
  <2>1. UNCHANGED <<ledger, history>>
    BY <1>5 DEF Receive, CreditRefused, Credit, DebitRefused, Debit, ConfirmHoldRefused, ConfirmHold,
                VoidHoldRefused, VoidHold, Serve
  <2> QED
    BY <1>5, <2>1, ReceiveInv, QuietAdvance
<1>6. ASSUME NEW p \in Handlers, ReadHold(p) \/ Replay(p) \/ Conflict(p) \/ Refuse(p) \/ Fail(p)
      PROVE  Inv' /\ Advance
  <2>1. UNCHANGED <<ledger, history>>
    BY <1>6 DEF ReadHold, Replay, Conflict, Refuse, Fail
  <2> QED
    BY <1>1, <1>6, <2>1, ReadHoldInv, ReplayInv, QuietInv, QuietAdvance
<1>7. ASSUME NEW p \in Handlers, CommitSend(p) \/ CommitConfirm(p) \/ CommitCancel(p)
      PROVE  Inv' /\ Advance
  BY <1>1, <1>7, CommitSendInv, CommitConfirmInv, CommitCancelInv
<1> QED
  BY <1>3, <1>4, <1>5, <1>6, <1>7 DEF Next, CreateTransaction

\* The invariant holds in every reachable state.
THEOREM Safety == Spec => []Inv
BY InitInv, StepInv, PTL DEF Spec

\* The one transaction into the account of a hold that the requests leave alone is
\* that of its debit: however often the debit is retried or repeated, a void finds
\* one transaction to undo.
THEOREM HoldsAreFundedOnce == Spec => []SingleFunding
<1>1. Inv => SingleFunding
  <2> SUFFICES ASSUME Inv, NEW h \in ApartHolds
               PROVE  Len(funding[h]) = IF IsHold(h) THEN 1 ELSE 0
    BY DEF SingleFunding
  <2>1. Funded(h) <=> IsHold(h)
    BY UnfundedHold
  <2>2. CASE Funded(h)
    <3>1. PICK t : t = Postings(h)
      OBVIOUS
    <3>2. funding[h] = <<t>>
      BY <2>2, <3>1 DEF Inv, FundingOK
    <3> QED
      BY <2>1, <2>2, <3>2
  <2>3. CASE ~Funded(h)
    BY <2>1, <2>3 DEF Funded
  <2> QED
    BY <2>2, <2>3
<1> QED
  BY <1>1, Safety, PTL

\* No hold is opened twice, whoever sends funds to its account: a pending debit is
\* committed only into an account that is not a hold yet, though its identifier
\* was chosen before and other debits, or attempts of its own, ran since.
THEOREM HoldsAreOpenedOnce == Spec => OpenedOnce
<1>1. ASSUME Inv, NEW p \in Handlers, CommitSend(p), Body(p).hold # None
      PROVE  ~IsHold(Body(p).hold)
  BY <1>1, FreshHold DEF CommitSend
<1>2. Inv => [\A p \in Handlers : CommitSend(p) /\ Body(p).hold # None => ~IsHold(Body(p).hold)]_vars
  BY <1>1
<1> QED
  BY <1>2, Safety, PTL DEF OpenedOnce

\* However confirmations and voids interleave with transfers to and from hold
\* accounts, what came into one is still there, was paid to its destination or
\* went elsewhere; a hold that the requests leave alone is over exactly when it
\* is empty, and no balance gets back more than it gave to it.
THEOREM HoldsConserve == Spec => []FundsConserved
<1>1. Inv => FundsConserved
  BY DEF Inv, RefundsOK, FundsConserved
<1> QED
  BY <1>1, Safety, PTL

\* What the service answers about a hold that the requests leave alone is true of
\* it, though the handler read the hold before its transaction, and the key may
\* have been used before.
THEOREM AnswersAreTrue == Spec => []AnswersTruthful
<1>1. Inv => AnswersTruthful
  BY DEF Inv, AcksOK, AnswersTruthful
<1> QED
  BY <1>1, Safety, PTL

\* A hold that is over keeps its outcome and is never filled again, unless a
\* request names its account.
THEOREM ClosedHoldsStayClosed == Spec => ClosedForever
<1>1. ASSUME Inv, Inv', Advance, NEW h \in ApartHolds, Ended(h)
      PROVE  status'[h] = status[h] /\ balance'[h] = 0 /\ original'[h] = original[h]
  <2>1. /\ Funded(h) /\ balance[h] \in Nat /\ ~(balance[h] > 0)
    BY <1>1, UnfundedHold DEF Ended
  <2>2. balance'[h] \in Nat
    BY <1>1, PlacesFacts DEF Inv, TypeOK, Accounts
  <2> QED
    BY <1>1, <2>1, <2>2 DEF Advance
<1>2. Inv /\ Inv' /\ Advance =>
          \A h \in ApartHolds : Ended(h) =>
              status'[h] = status[h] /\ balance'[h] = 0 /\ original'[h] = original[h]
  BY <1>1
<1>3. Inv /\ [Next]_vars =>
          [\A h \in ApartHolds : Ended(h) =>
              status'[h] = status[h] /\ balance'[h] = 0 /\ original'[h] = original[h]]_vars
  BY <1>2, StepInv
<1> QED
  BY <1>3, Safety, PTL DEF Spec, ClosedForever

-----------------------------------------------------------------------------
(* Apart holds implement Escrow.                                             *)

LEMMA CommitSendEscrow ==
    ASSUME Inv, Inv', NEW p \in Handlers, CommitSend(p)
    PROVE  HoldEscrow!Next \/ UNCHANGED HoldEscrow!vars
<1> DEFINE h == Body(p).hold
           n == Body(p).amount
<1>1. \A a \in ApartHolds : a # h =>
          balance'[a] = balance[a] /\ original'[a] = original[a] /\ status'[a] = status[a]
  BY SendOpensHold
<1>2. \A a \in ApartHolds : paid'[a] = paid[a] /\ released'[a] = released[a]
  BY SendOpensHold
<1>3. Apart(paid)' = Apart(paid) /\ Apart(released)' = Apart(released)
  BY <1>2 DEF Apart
<1>4. CASE h \notin ApartHolds
  <2>1. \A a \in ApartHolds :
            balance'[a] = balance[a] /\ original'[a] = original[a] /\ status'[a] = status[a]
    BY <1>1, <1>4
  <2>2. Apart(balance)' = Apart(balance) /\ Apart(original)' = Apart(original) /\ Apart(status)' = Apart(status)
    BY <2>1 DEF Apart
  <2> QED
    BY <1>3, <2>2 DEF HoldEscrow!vars
<1>5. CASE h \in ApartHolds
  <2>1. /\ n \in Nat \ {0} /\ status[h] = "none"
        /\ original'[h] = n /\ balance'[h] = n /\ status'[h] = "open"
    BY <1>5, SendOpensHold
  <2> HIDE DEF h, n
  <2>2. Apart(status)' = [Apart(status) EXCEPT ![h] = "open"] /\ Apart(status)[h] = "none"
    BY <1>1, <1>5, <2>1 DEF Apart
  <2>3. Apart(original)' = [Apart(original) EXCEPT ![h] = n] /\ Apart(original)'[h] = n
    BY <1>1, <1>5, <2>1 DEF Apart
  <2>4. Apart(balance)' = [Apart(balance) EXCEPT ![h] = n]
    BY <1>1, <1>5, <2>1 DEF Apart
  <2>5. HoldEscrow!Open(h, Apart(original)'[h])
    BY <1>3, <2>2, <2>3, <2>4 DEF HoldEscrow!Open
  <2> QED
    BY <1>5, <2>1, <2>3, <2>5 DEF HoldEscrow!Next
<1> QED
  BY <1>4, <1>5

LEMMA CommitConfirmEscrow ==
    ASSUME Inv, Inv', NEW p \in Handlers, CommitConfirm(p)
    PROVE  HoldEscrow!Next \/ UNCHANGED HoldEscrow!vars
<1>a. PICK h, n : h = Body(p).hold /\ n = Body(p).amount
  OBVIOUS
<1>1. \A a \in ApartHolds : a # h =>
          /\ balance'[a] = balance[a] /\ paid'[a] = paid[a] /\ released'[a] = released[a]
          /\ status'[a] = status[a]
  BY <1>a, ConfirmDrainsHold
<1>2. \A a \in ApartHolds : original'[a] = original[a]
  BY ConfirmDrainsHold
<1>3. Apart(original)' = Apart(original)
  BY <1>2 DEF Apart
<1>4. CASE h \notin ApartHolds
  <2>1. \A a \in ApartHolds :
          /\ balance'[a] = balance[a] /\ paid'[a] = paid[a] /\ released'[a] = released[a]
          /\ status'[a] = status[a]
    BY <1>1, <1>4
  <2>2. /\ Apart(balance)' = Apart(balance) /\ Apart(paid)' = Apart(paid)
        /\ Apart(released)' = Apart(released) /\ Apart(status)' = Apart(status)
    BY <2>1 DEF Apart
  <2> QED
    BY <1>3, <2>2 DEF HoldEscrow!vars
<1>5. CASE h \in ApartHolds
  <2>1. n \in Nat \ {0} /\ balance[h] \in Nat /\ status[h] = "open" /\ released[h] \in Nat
    BY <1>a, <1>5, ConfirmDrainsHold, UnfundedHold
  <2>2. PICK rest \in Nat :
          /\ n + rest <= balance[h]
          /\ Body(p).final => balance[h] = n + rest
          /\ ~Body(p).final => rest = 0
          /\ balance'[h] = balance[h] - (n + rest)
          /\ paid'[h] = paid[h] + n
          /\ released'[h] = released[h] + rest
          /\ status'[h] = IF balance[h] = n + rest THEN "confirmed" ELSE "open"
    BY <1>a, <1>5, ConfirmDrainsHold
  <2>3. /\ Apart(status)[h] = "open" /\ Apart(balance)[h] = balance[h]
        /\ n \in 1 .. Apart(balance)[h]
    BY <1>5, <2>1, <2>2 DEF Apart
  <2>4. Apart(paid)' = [Apart(paid) EXCEPT ![h] = @ + n]
    BY <1>1, <1>5, <2>2 DEF Apart
  <2>5. CASE balance[h] = n + rest
    <3>1. balance'[h] = 0 /\ status'[h] = "confirmed" /\ rest = balance[h] - n
      BY <2>1, <2>2, <2>5
    <3>2. Apart(status)' = [Apart(status) EXCEPT ![h] = "confirmed"]
      BY <1>1, <1>5, <3>1 DEF Apart
    <3>3. Apart(balance)' = [Apart(balance) EXCEPT ![h] = 0]
      BY <1>1, <1>5, <3>1 DEF Apart
    <3>4. Apart(released)' = [Apart(released) EXCEPT ![h] = @ + (Apart(balance)[h] - n)]
      BY <1>1, <1>5, <2>2, <2>3, <3>1 DEF Apart
    <3>5. n <= Apart(balance)[h]
      BY <2>3
    <3>6. HoldEscrow!ConfirmAndClose(h, n)
      BY <1>3, <2>3, <2>4, <3>2, <3>3, <3>4, <3>5 DEF HoldEscrow!ConfirmAndClose
    <3> QED
      BY <1>5, <2>3, <3>6, Zenon DEF HoldEscrow!Next
  <2>6. CASE balance[h] # n + rest
    <3>1. /\ n < balance[h] /\ balance'[h] = balance[h] - n
          /\ status'[h] = status[h] /\ released'[h] = released[h]
      BY <2>1, <2>2, <2>6
    <3>2. Apart(status)' = Apart(status) /\ Apart(released)' = Apart(released)
      BY <1>1, <3>1 DEF Apart
    <3>3. Apart(balance)' = [Apart(balance) EXCEPT ![h] = @ - n]
      BY <1>1, <1>5, <3>1 DEF Apart
    <3>4. HoldEscrow!ConfirmPart(h, n)
      BY <1>3, <2>3, <2>4, <3>1, <3>2, <3>3 DEF HoldEscrow!ConfirmPart
    <3> QED
      BY <1>5, <2>3, <3>4, Zenon DEF HoldEscrow!Next
  <2> QED
    BY <2>5, <2>6
<1> QED
  BY <1>4, <1>5

LEMMA CommitCancelEscrow ==
    ASSUME Inv, Inv', NEW p \in Handlers, CommitCancel(p)
    PROVE  HoldEscrow!Next \/ UNCHANGED HoldEscrow!vars
<1>a. PICK h : h = Body(p).hold
  OBVIOUS
<1>1. \A a \in ApartHolds : a # h =>
          balance'[a] = balance[a] /\ released'[a] = released[a] /\ status'[a] = status[a]
  BY <1>a, CancelEmptiesHold
<1>2. \A a \in ApartHolds : original'[a] = original[a] /\ paid'[a] = paid[a]
  BY CancelEmptiesHold
<1>3. Apart(original)' = Apart(original) /\ Apart(paid)' = Apart(paid)
  BY <1>2 DEF Apart
<1>4. CASE h \notin ApartHolds
  <2>1. \A a \in ApartHolds :
            balance'[a] = balance[a] /\ released'[a] = released[a] /\ status'[a] = status[a]
    BY <1>1, <1>4
  <2>2. /\ Apart(balance)' = Apart(balance) /\ Apart(released)' = Apart(released)
        /\ Apart(status)' = Apart(status)
    BY <2>1 DEF Apart
  <2> QED
    BY <1>3, <2>2 DEF HoldEscrow!vars
<1>5. CASE h \in ApartHolds
  <2>1. /\ status[h] = "open" /\ balance'[h] = 0
        /\ released'[h] = released[h] + balance[h] /\ status'[h] = "voided"
    BY <1>a, <1>5, CancelEmptiesHold
  <2>2. Apart(status)' = [Apart(status) EXCEPT ![h] = "voided"] /\ Apart(status)[h] = "open"
    BY <1>1, <1>5, <2>1 DEF Apart
  <2>3. Apart(balance)' = [Apart(balance) EXCEPT ![h] = 0]
    BY <1>1, <1>5, <2>1 DEF Apart
  <2>4. Apart(released)' = [Apart(released) EXCEPT ![h] = @ + Apart(balance)[h]]
    BY <1>1, <1>5, <2>1 DEF Apart
  <2>5. HoldEscrow!Void(h)
    BY <1>3, <2>2, <2>3, <2>4 DEF HoldEscrow!Void
  <2> QED
    BY <1>5, <2>5, Zenon DEF HoldEscrow!Next
<1> QED
  BY <1>4, <1>5

\* A step that leaves the ledger and the history alone is a stutter of Escrow.
LEMMA QuietEscrow ==
    ASSUME UNCHANGED <<ledger, history>>
    PROVE  UNCHANGED HoldEscrow!vars
BY DEF ledger, history, HoldEscrow!vars, Apart

\* Whatever requests race for a hold that no request names as a subject, it behaves
\* as Escrow promises: opened once, drained towards its destination or the wallet,
\* ended once.
THEOREM HoldsImplementEscrow == Spec => ImplementsEscrow
<1>1. Init => HoldEscrow!Init
  BY PlacesFacts DEF Init, HoldEscrow!Init, HoldEscrow!Zero, Accounts, Apart
<1>2. Inv /\ Inv' /\ [Next]_vars => [HoldEscrow!Next]_(HoldEscrow!vars)
  <2> SUFFICES ASSUME Inv, Inv', [Next]_vars PROVE HoldEscrow!Next \/ UNCHANGED HoldEscrow!vars
    OBVIOUS
  <2>1. CASE UNCHANGED <<ledger, history>>
    BY <2>1, QuietEscrow
  <2>2. CASE Tick \/ UNCHANGED vars
    BY <2>1, <2>2 DEF Tick, vars
  <2>3. ASSUME NEW p \in Handlers, Receive(p) PROVE UNCHANGED <<ledger, history>>
    BY <2>3 DEF Receive, CreditRefused, Credit, DebitRefused, Debit, ConfirmHoldRefused, ConfirmHold,
                VoidHoldRefused, VoidHold, Serve
  <2>4. ASSUME NEW p \in Handlers, ReadHold(p) \/ Replay(p) \/ Conflict(p) \/ Refuse(p) \/ Fail(p)
        PROVE  UNCHANGED <<ledger, history>>
    BY <2>4 DEF ReadHold, Replay, Conflict, Refuse, Fail
  <2>5. ASSUME NEW p \in Handlers, CommitSend(p) \/ CommitConfirm(p) \/ CommitCancel(p)
        PROVE  HoldEscrow!Next \/ UNCHANGED HoldEscrow!vars
    BY <2>5, CommitSendEscrow, CommitConfirmEscrow, CommitCancelEscrow
  <2> QED
    BY <2>1, <2>2, <2>3, <2>4, <2>5 DEF Next, CreateTransaction
<1> QED
  BY <1>1, <1>2, Safety, PTL DEF Spec, ImplementsEscrow, HoldEscrow!Spec
=============================================================================
