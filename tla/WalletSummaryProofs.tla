------------------------- MODULE WalletSummaryProofs -------------------------
(***************************************************************************)
(* What a summary promises holds for every wallet and ledger, any number   *)
(* of pages, and whatever moves meanwhile: its error is bounded by what    *)
(* moved, it is exact when nothing does, and its totals go by expiry.      *)
(***************************************************************************)
EXTENDS WalletSummary, AccountsProofs, WellFoundedInduction

\* The amount of something that is listed, now or then.
IsAmounts(rows, S) == IsFiniteSet(S) /\ \A i \in S : rows[i].amount \in Int

IsLedger(seen) == IsFiniteSet(DOMAIN seen) /\ \A i \in DOMAIN seen : i \in Int /\ i > Start /\ IsAccount(seen[i])

\* The accounts of the wallet whose balances, at places in A, or holds, at
\* places in B, are counted.
Counts(i, item, A, B) ==
    /\ item.wallet = Wallet
    /\ (item.kind \in BalanceKinds /\ i \in A) \/ (item.kind = "hold" /\ i \in B)

Window(seen, A, B) == {i \in DOMAIN seen : Counts(i, seen[i], A, B)}

Total(seen, A, B) == Amounts(seen, Window(seen, A, B))

\* What a cursor shows of the items, and the places that it has not passed.
Shown(items, cursor) == IF cursor = NoCursor \/ cursor.view = Live THEN items ELSE cursor.view
Ahead(cursor) == {i \in Int : i > (IF cursor = NoCursor THEN Start ELSE cursor.after)}

\* The funds of the balances and the holds that the summary will come to list,
\* if these remain the items of the ledger.
BalancesAhead(items) ==
    IF call.step = "balances" THEN Total(Shown(items, call.cursor), Ahead(call.cursor), {}) ELSE 0

HoldsAhead(items) ==
    IF call.step = "holds" THEN Total(Shown(items, call.cursor), {}, Ahead(call.cursor))
    ELSE IF call.step = "done" THEN 0
    ELSE Total(items, {}, Int)

\* All that it comes to.
FundsIn(items) ==
    Amounts(call.balances, DOMAIN call.balances) + call.holdFunds + (BalancesAhead(items) + HoldsAhead(items))

IsCursor(cursor, query) ==
    cursor # NoCursor =>
        /\ cursor = [query |-> query, limit |-> maxPageSize, after |-> cursor.after, view |-> cursor.view]
        /\ cursor.after \in Int
        /\ cursor.view # Live => IsLedger(cursor.view)
        /\ ~before.changed => cursor.view \in {Live, accounts}

IsCall ==
    call = [step |-> call.step, cursor |-> call.cursor, balances |-> call.balances,
            counted |-> call.counted, availableFunds |-> call.availableFunds,
            expiredFunds |-> call.expiredFunds, expirableFunds |-> call.expirableFunds,
            holds |-> call.holds, holdFunds |-> call.holdFunds]

IsRow(row) ==
    row.place \in Int /\ row.amount \in Nat /\ row.expiresAt \in Int \union {Never}

IsRows(rows) == rows = [n \in 1 .. Len(rows) |-> rows[n]] /\ Len(rows) \in Nat /\ \A n \in 1 .. Len(rows) : IsRow(rows[n])

LedgerOK ==
    /\ IsLedger(accounts)
    /\ now \in Nat
    /\ moved \in Nat
    /\ before = [funds |-> before.funds, now |-> before.now, changed |-> before.changed]
    /\ before.funds \in Int /\ before.now \in Nat /\ before.now <= now /\ before.changed \in BOOLEAN

CallOK ==
    /\ IsCall
    /\ IsRows(call.balances) /\ IsRows(call.holds)
    /\ call.step \in {"idle", "balances", "count", "again", "holds", "done", "failed"}
    /\ call.step = "balances" => IsCursor(call.cursor, BalancesQuery)
    /\ call.step = "holds" => IsCursor(call.cursor, HoldsQuery)
    /\ call.step \in {"count", "again"} => call.cursor = NoCursor
    /\ call.step \in {"idle", "balances", "count", "again"} => call.holds = <<>>
    /\ call.holdFunds = Amounts(call.holds, DOMAIN call.holds)

\* The error so far.
ErrorOK == call.step \notin {"idle", "failed"} => Abs(FundsIn(accounts) - before.funds) <= moved

\* What is listed while nothing moves.
QuietOK ==
    call.step \notin {"idle", "failed"} /\ ~before.changed =>
        /\ call.holdFunds + HoldsAhead(accounts) = Total(accounts, {}, Int)
        /\ \A n \in DOMAIN call.balances :
              /\ call.balances[n].place \in Window(accounts, Int, {})
              /\ call.balances[n].amount = accounts[call.balances[n].place].amount
        /\ \A m, n \in DOMAIN call.balances : m < n => call.balances[m].place < call.balances[n].place
        /\ \A n \in DOMAIN call.balances :
              call.step = "balances" => call.balances[n].place \notin Ahead(call.cursor)
        /\ \A i \in Window(accounts, Int, {}) :
              (call.step = "balances" /\ i \in Ahead(call.cursor)) \/ i \in PlacesOf(call.balances)

\* The rows that were counted: as available, as expired, or neither.
CountedAs(V, X, K) ==
    LET e(n) == call.balances[n].expiresAt
        bal == call.balances
    IN
    /\ V \union X \union K = 1 .. call.counted
    /\ V \intersect X = {} /\ V \intersect K = {} /\ X \intersect K = {}
    /\ call.availableFunds = Amounts(bal, V)
    /\ call.expiredFunds = Amounts(bal, X)
    /\ call.expirableFunds = Amounts(bal, {n \in V : e(n) # Never})
    /\ \A n \in V : e(n) = Never \/ e(n) >= before.now
    /\ \A n \in X : e(n) # Never /\ e(n) < now
    /\ \A n \in K : e(n) # Never /\ before.now <= e(n) /\ e(n) < now

TotalsOK ==
    /\ call.counted \in 0 .. Len(call.balances)
    /\ call.step \in {"idle", "balances"} => call.counted = 0
    /\ call.step \in {"holds", "done"} => call.counted = Len(call.balances)
    /\ call.step = "again" => /\ call.counted < Len(call.balances)
                              /\ Expiry # Never /\ before.now <= Expiry
    /\ call.step # "failed" => \E V, X, K \in SUBSET (1 .. call.counted) : CountedAs(V, X, K)

\* The inductive invariant.
Inv == LedgerOK /\ CallOK /\ ErrorOK /\ QuietOK /\ TotalsOK

-----------------------------------------------------------------------------
(* Sums.  FoldSet takes the members of a set in an order of its own; that it *)
(* adds up the same whatever the order is shown with a function from the     *)
(* subsets to their sums, which grows with each member.                      *)

LEMMA LeastNumber ==
    ASSUME NEW T, T \subseteq Nat, T # {}
    PROVE  \E i \in T : \A j \in T : i <= j
<1> DEFINE R == {p \in Nat \X Nat : p[1] < p[2]}
<1>1. IsWellFoundedOn(R, Nat)
  BY NatLessThanWellFounded, Zenon DEF OpToRel
<1>2. \A i, j \in Nat : <<i, j>> \in R <=> i < j
  OBVIOUS
<1> HIDE DEF R
<1>3. PICK i \in T : \A j \in T : ~(<<j, i>> \in R)
  BY <1>1, WFMin
<1>4. \A j \in T : i \in Nat /\ j \in Nat /\ ~(j < i)
  BY <1>2, <1>3
<1> QED
  BY <1>4

\* Induction on finite sets: where something fails for a set, it fails for one
\* that has no smaller one.
LEMMA SmallestSet ==
    ASSUME NEW T, T # {}, \A R \in T : IsFiniteSet(R)
    PROVE  \E R \in T : \A Q \in T : Cardinality(R) <= Cardinality(Q)
<1> DEFINE sizes == {Cardinality(R) : R \in T}
<1>1. sizes \subseteq Nat /\ sizes # {}
  BY FS_CardinalityType
<1>2. PICK n \in sizes : \A m \in sizes : n <= m
  BY <1>1, LeastNumber
<1>3. PICK R \in T : Cardinality(R) = n
  OBVIOUS
<1> QED
  BY <1>2, <1>3

LEMMA OneLess ==
    ASSUME NEW S, IsFiniteSet(S), NEW x \in S
    PROVE  IsFiniteSet(S \ {x}) /\ Cardinality(S \ {x}) < Cardinality(S)
<1>1. Cardinality(S) \in Nat
  BY FS_CardinalityType
<1>2. IsFiniteSet(S \ {x}) /\ Cardinality(S \ {x}) = Cardinality(S) - 1
  BY FS_RemoveElement
<1> QED
  BY <1>1, <1>2

Additive(F, rows, S) ==
    /\ F \in [SUBSET S -> Int]
    /\ F[{}] = 0
    /\ \A T \in SUBSET S : \A x \in S \ T : F[T \union {x}] = F[T] + rows[x].amount

\* With one member more there is one still.
LEMMA AdditiveGrows ==
    ASSUME NEW rows, NEW S, NEW x \in S, \A y \in S : rows[y].amount \in Int, NEW F, Additive(F, rows, S \ {x})
    PROVE  \E G : Additive(G, rows, S)
<1> DEFINE Q == S \ {x}
           a == rows[x].amount
           G == [T \in SUBSET S |-> IF x \in T THEN F[T \ {x}] + a ELSE F[T]]
<1>1. /\ F \in [SUBSET Q -> Int] /\ F[{}] = 0
      /\ \A T \in SUBSET Q : \A y \in Q \ T : F[T \union {y}] = F[T] + rows[y].amount
  BY DEF Additive
<1>2. \A T \in SUBSET S : T \ {x} \in SUBSET Q /\ (x \notin T => T \in SUBSET Q)
  OBVIOUS
<1>3. G \in [SUBSET S -> Int] /\ G[{}] = 0
  BY <1>1, <1>2
<1>4. ASSUME NEW T \in SUBSET S, NEW y \in S \ T PROVE G[T \union {y}] = G[T] + rows[y].amount
  <2>0. T \union {y} \in SUBSET S /\ F[T \ {x}] \in Int
    BY <1>1, <1>2
  <2>1. CASE y = x
    <3>1. (T \union {x}) \ {x} = T /\ x \notin T /\ x \in T \union {x}
      BY <2>1
    <3>2. G[T] = F[T]
      BY <3>1
    <3>3. G[T \union {x}] = F[T] + a
      BY <2>0, <2>1, <3>1
    <3> QED
      BY <2>1, <3>2, <3>3
  <2>2. CASE y # x /\ x \in T
    <3>1. (T \union {y}) \ {x} = (T \ {x}) \union {y} /\ y \in Q \ (T \ {x}) /\ x \in T \union {y}
      BY <2>2
    <3>2. F[(T \ {x}) \union {y}] = F[T \ {x}] + rows[y].amount
      BY <1>1, <1>2, <3>1
    <3>3. G[T \union {y}] = F[(T \ {x}) \union {y}] + a
      BY <2>0, <3>1
    <3>4. G[T] = F[T \ {x}] + a
      BY <2>2
    <3>5. rows[y].amount \in Int /\ a \in Int
      OBVIOUS
    <3> HIDE DEF G, a, Q
    <3> QED
      BY <2>0, <3>2, <3>3, <3>4, <3>5 DEF a
  <2>3. CASE y # x /\ x \notin T
    <3>1. T \in SUBSET Q /\ y \in Q \ T /\ x \notin T \union {y}
      BY <2>3
    <3>2. F[T \union {y}] = F[T] + rows[y].amount
      BY <1>1, <3>1
    <3>3. G[T \union {y}] = F[T \union {y}] /\ G[T] = F[T]
      BY <2>0, <2>3, <3>1
    <3> QED
      BY <3>2, <3>3
  <2> QED
    BY <2>1, <2>2, <2>3
<1> HIDE DEF G
<1>5. Additive(G, rows, S)
  BY <1>3, <1>4 DEF Additive
<1> QED
  BY <1>5

LEMMA AdditiveExists ==
    ASSUME NEW rows, NEW S, IsAmounts(rows, S)
    PROVE  \E F : Additive(F, rows, S)
<1> DEFINE bad == {R \in SUBSET S : ~ \E F : Additive(F, rows, R)}
<1>1. ASSUME bad # {} PROVE FALSE
  <2>1. \A R \in bad : IsFiniteSet(R)
    BY FS_Subset DEF IsAmounts
  <2>2. PICK R \in bad : \A Q \in bad : Cardinality(R) <= Cardinality(Q)
    <3> HIDE DEF bad
    <3> QED
      BY <1>1, <2>1, SmallestSet
  <2>3. R # {}
    <3> DEFINE F == [T \in SUBSET {} |-> 0]
    <3>1. Additive(F, rows, {})
      BY DEF Additive
    <3> QED
      BY <3>1
  <2>4. PICK x \in R : TRUE
    BY <2>3
  <2>5. /\ IsFiniteSet(R) /\ R \ {x} \in SUBSET S /\ \A y \in R : rows[y].amount \in Int
        /\ Cardinality(R \ {x}) \in Nat /\ Cardinality(R) \in Nat
        /\ Cardinality(R \ {x}) < Cardinality(R)
    BY <2>1, OneLess, FS_CardinalityType DEF IsAmounts
  <2>6. R \ {x} \notin bad
    BY <2>2, <2>5
  <2>7. PICK F : Additive(F, rows, R \ {x})
    BY <2>5, <2>6
  <2> QED
    BY <2>5, <2>7, AdditiveGrows
<1> QED
  BY <1>1

\* What FoldSet is the choice of.
Folds(f, rows, S) ==
    f = [T \in SUBSET S |->
            IF T = {} THEN 0
            ELSE f[T \ {CHOOSE x \in T : TRUE}] + rows[CHOOSE x \in T : TRUE].amount]

LEMMA AmountsFolds ==
    ASSUME NEW rows, NEW S, NEW F, Folds(F, rows, S), \A f : Folds(f, rows, S) => f = F
    PROVE  Amounts(rows, S) = F[S]
<1>1. Amounts(rows, S) = LET f == CHOOSE f : Folds(f, rows, S) IN f[S]
  BY DEF Amounts, FoldSet, MapThenFoldSet, Folds
<1> DEFINE G == CHOOSE f : Folds(f, rows, S)
<1>2. Folds(G, rows, S)
  OBVIOUS
<1> QED
  BY <1>1, <1>2

LEMMA AmountsAre ==
    ASSUME NEW rows, NEW S, IsFiniteSet(S), NEW F, Additive(F, rows, S)
    PROVE  Amounts(rows, S) = F[S]
<1> DEFINE first(T) == CHOOSE x \in T : TRUE
<1>0. /\ F \in [SUBSET S -> Int] /\ F[{}] = 0
      /\ \A T \in SUBSET S : \A x \in S \ T : F[T \union {x}] = F[T] + rows[x].amount
  BY DEF Additive
<1>1. ASSUME NEW T \in SUBSET S, T # {}
      PROVE  /\ first(T) \in T /\ T \ {first(T)} \in SUBSET S
             /\ F[T] = F[T \ {first(T)}] + rows[first(T)].amount
  <2>1. first(T) \in T
    BY <1>1
  <2> HIDE DEF first
  <2>2. /\ T \ {first(T)} \in SUBSET S /\ first(T) \in S \ (T \ {first(T)})
        /\ (T \ {first(T)}) \union {first(T)} = T
    BY <2>1
  <2> QED
    BY <1>0, <2>1, <2>2
<1>2. Folds(F, rows, S)
  <2>1. F = [T \in SUBSET S |-> F[T]]
    BY <1>0
  <2>2. \A T \in SUBSET S : F[T] = IF T = {} THEN 0 ELSE F[T \ {first(T)}] + rows[first(T)].amount
    BY <1>0, <1>1
  <2> QED
    BY <2>1, <2>2 DEF Folds
<1>3. ASSUME NEW f, Folds(f, rows, S) PROVE f = F
  <2>1. /\ f = [T \in SUBSET S |-> f[T]]
        /\ \A T \in SUBSET S : f[T] = IF T = {} THEN 0 ELSE f[T \ {first(T)}] + rows[first(T)].amount
    BY <1>3 DEF Folds
  <2> HIDE DEF first
  <2> DEFINE bad == {T \in SUBSET S : f[T] # F[T]}
  <2>2. ASSUME bad # {} PROVE FALSE
    <3>1. \A T \in bad : IsFiniteSet(T)
      BY FS_Subset
    <3>2. PICK T \in bad : \A Q \in bad : Cardinality(T) <= Cardinality(Q)
      <4> HIDE DEF bad
      <4> QED
        BY <2>2, <3>1, SmallestSet
    <3>3. T # {}
      BY <1>0, <2>1
    <3> DEFINE Q == T \ {first(T)}
    <3>4. first(T) \in T /\ Q \in SUBSET S
      BY <1>1, <3>3
    <3>5. Cardinality(Q) \in Nat /\ Cardinality(T) \in Nat /\ Cardinality(Q) < Cardinality(T)
      BY <3>1, <3>4, OneLess, FS_CardinalityType
    <3>6. f[Q] = F[Q]
      BY <3>2, <3>4, <3>5
    <3>7. T \in SUBSET S /\ f[T] = f[Q] + rows[first(T)].amount
      BY <2>1, <3>3
    <3> QED
      BY <1>1, <3>3, <3>6, <3>7
  <2>3. \A T \in SUBSET S : f[T] = F[T]
    BY <2>2
  <2>4. F = [T \in SUBSET S |-> F[T]]
    BY <1>0
  <2>5. [T \in SUBSET S |-> f[T]] = [T \in SUBSET S |-> F[T]]
    BY <2>3
  <2> QED
    BY <2>1, <2>4, <2>5, Zenon
<1> HIDE DEF first
<1> QED
  BY <1>2, <1>3, AmountsFolds

\* One function has the sums of all subsets.
LEMMA Sums ==
    ASSUME NEW rows, NEW S, IsAmounts(rows, S)
    PROVE  \E F : /\ F \in [SUBSET S -> Int]
                  /\ F[{}] = 0
                  /\ \A T \in SUBSET S : \A x \in S \ T : F[T \union {x}] = F[T] + rows[x].amount
                  /\ \A T \in SUBSET S : Amounts(rows, T) = F[T]
<1>1. PICK F : Additive(F, rows, S)
  BY AdditiveExists
<1>2. ASSUME NEW T \in SUBSET S PROVE Amounts(rows, T) = F[T]
  <2> DEFINE G == [U \in SUBSET T |-> F[U]]
  <2>1. IsFiniteSet(T)
    BY FS_Subset DEF IsAmounts
  <2>2. Additive(G, rows, T)
    <3>1. \A U \in SUBSET T : U \in SUBSET S /\ G[U] = F[U]
      OBVIOUS
    <3>2. G \in [SUBSET T -> Int] /\ G[{}] = 0
      BY <1>1, <3>1 DEF Additive
    <3>3. \A U \in SUBSET T : \A x \in T \ U : U \union {x} \in SUBSET T
      OBVIOUS
    <3> HIDE DEF G
    <3> QED
      BY <1>1, <3>1, <3>2, <3>3 DEF Additive
  <2>3. G[T] = F[T]
    OBVIOUS
  <2> QED
    BY <2>1, <2>2, <2>3, AmountsAre
<1> QED
  BY <1>1, <1>2 DEF Additive

LEMMA SumInt ==
    ASSUME NEW rows, NEW S, IsAmounts(rows, S), NEW T \in SUBSET S
    PROVE  Amounts(rows, T) \in Int
<1>1. PICK F : /\ F \in [SUBSET S -> Int]
               /\ F[{}] = 0
               /\ \A U \in SUBSET S : \A x \in S \ U : F[U \union {x}] = F[U] + rows[x].amount
               /\ \A U \in SUBSET S : Amounts(rows, U) = F[U]
  BY Sums
<1> QED
  BY <1>1

LEMMA SumEmpty == \A rows : Amounts(rows, {}) = 0
<1> SUFFICES ASSUME NEW rows PROVE Amounts(rows, {}) = 0
  OBVIOUS
<1>1. IsAmounts(rows, {})
  BY FS_EmptySet DEF IsAmounts
<1> QED
  BY <1>1, Sums

LEMMA SumAdd ==
    ASSUME NEW rows, NEW S, IsAmounts(rows, S), NEW x, x \notin S, rows[x].amount \in Int
    PROVE  /\ IsAmounts(rows, S \union {x})
           /\ Amounts(rows, S \union {x}) = Amounts(rows, S) + rows[x].amount
<1>1. IsAmounts(rows, S \union {x})
  BY FS_AddElement DEF IsAmounts
<1> DEFINE all == S \union {x}
<1>2. PICK F : /\ F \in [SUBSET all -> Int]
               /\ F[{}] = 0
               /\ \A T \in SUBSET all : \A y \in all \ T : F[T \union {y}] = F[T] + rows[y].amount
               /\ \A T \in SUBSET all : Amounts(rows, T) = F[T]
  <2>1. IsAmounts(rows, all)
    BY <1>1
  <2> HIDE DEF all
  <2> QED
    BY <2>1, Sums
<1>3. S \in SUBSET (S \union {x}) /\ x \in (S \union {x}) \ S
  OBVIOUS
<1> QED
  BY <1>1, <1>2, <1>3

\* Only the amounts count.
LEMMA SumSame ==
    ASSUME NEW rows, NEW S, IsAmounts(rows, S), NEW other, \A x \in S : other[x].amount = rows[x].amount
    PROVE  IsAmounts(other, S) /\ Amounts(other, S) = Amounts(rows, S)
<1>1. PICK F : Additive(F, rows, S)
  BY AdditiveExists
<1>2. Additive(F, other, S)
  BY <1>1 DEF Additive
<1> QED
  BY <1>1, <1>2, AmountsAre DEF IsAmounts

LEMMA SumUnion ==
    ASSUME NEW rows, NEW S, NEW T, IsAmounts(rows, S), IsAmounts(rows, T), S \intersect T = {}
    PROVE  /\ IsAmounts(rows, S \union T)
           /\ Amounts(rows, S \union T) = Amounts(rows, S) + Amounts(rows, T)
<1>1. IsAmounts(rows, S \union T)
  BY FS_Union DEF IsAmounts
<1> DEFINE sum(U) == Amounts(rows, U)
           bad == {U \in SUBSET T : sum(S \union U) # sum(S) + sum(U)}
<1>2. \A U \in SUBSET T : /\ IsAmounts(rows, U) /\ IsAmounts(rows, S \union U)
                          /\ sum(U) \in Int /\ sum(S) \in Int
  <2> SUFFICES ASSUME NEW U \in SUBSET T
               PROVE  /\ IsAmounts(rows, U) /\ IsAmounts(rows, S \union U)
                      /\ sum(U) \in Int /\ sum(S) \in Int
    OBVIOUS
  <2>1. IsFiniteSet(U) /\ IsFiniteSet(S \union U)
    BY FS_Subset, FS_Union DEF IsAmounts
  <2>2. IsAmounts(rows, U) /\ IsAmounts(rows, S \union U)
    BY <2>1 DEF IsAmounts
  <2> QED
    BY <2>2, SumInt
<1>3. ASSUME bad # {} PROVE FALSE
  <2>1. \A U \in bad : IsFiniteSet(U)
    BY <1>2 DEF IsAmounts
  <2>2. PICK U \in bad : \A Q \in bad : Cardinality(U) <= Cardinality(Q)
    <3> HIDE DEF bad
    <3> QED
      BY <1>3, <2>1, SmallestSet
  <2>3. U # {}
    <3>1. S \union {} = S /\ sum({}) = 0 /\ sum(S) \in Int
      BY <1>2, SumEmpty
    <3>2. sum(S \union U) # sum(S) + sum(U)
      OBVIOUS
    <3> HIDE DEF sum, bad
    <3>3. ASSUME U = {} PROVE FALSE
      <4>1. sum(S \union {}) # sum(S) + sum({})
        BY <3>2, <3>3
      <4> QED
        BY <3>1, <4>1
    <3> QED
      BY <3>3
  <2>4. PICK x \in U : TRUE
    BY <2>3
  <2> DEFINE Q == U \ {x}
  <2>5. /\ Q \in SUBSET T /\ x \notin Q /\ Q \union {x} = U
        /\ x \notin S \union Q /\ (S \union Q) \union {x} = S \union U
        /\ rows[x].amount \in Int
    BY DEF IsAmounts
  <2>6. Cardinality(Q) \in Nat /\ Cardinality(U) \in Nat /\ Cardinality(Q) < Cardinality(U)
    BY <2>1, OneLess, FS_CardinalityType
  <2>7. Q \notin bad
    <3> HIDE DEF Q, bad
    <3> QED
      BY <2>2, <2>6
  <2> HIDE DEF Q
  <2>8. sum(S \union Q) = sum(S) + sum(Q)
    BY <2>5, <2>7
  <2>9. sum(U) = sum(Q) + rows[x].amount /\ sum(S \union U) = sum(S \union Q) + rows[x].amount
    BY <1>2, <2>5, SumAdd
  <2>10. sum(Q) \in Int /\ sum(S) \in Int /\ sum(S \union U) # sum(S) + sum(U)
    BY <1>2, <2>5
  <2> HIDE DEF sum, bad
  <2> QED
    BY <2>5, <2>8, <2>9, <2>10
<1> QED
  BY <1>1, <1>3

LEMMA SumNat ==
    ASSUME NEW rows, NEW S, IsFiniteSet(S), \A x \in S : rows[x].amount \in Nat
    PROVE  Amounts(rows, S) \in Nat
<1> DEFINE bad == {U \in SUBSET S : Amounts(rows, U) \notin Nat}
<1>1. \A U \in SUBSET S : IsAmounts(rows, U)
  BY FS_Subset DEF IsAmounts
<1>2. ASSUME bad # {} PROVE FALSE
  <2>1. \A U \in bad : IsFiniteSet(U)
    BY FS_Subset
  <2>2. PICK U \in bad : \A Q \in bad : Cardinality(U) <= Cardinality(Q)
    <3> HIDE DEF bad
    <3> QED
      BY <1>2, <2>1, SmallestSet
  <2>3. U # {}
    BY SumEmpty
  <2>4. PICK x \in U : TRUE
    BY <2>3
  <2> DEFINE Q == U \ {x}
  <2>5. Q \in SUBSET S /\ x \notin Q /\ Q \union {x} = U /\ rows[x].amount \in Nat
    OBVIOUS
  <2>6. Cardinality(Q) \in Nat /\ Cardinality(U) \in Nat /\ Cardinality(Q) < Cardinality(U)
    BY <2>1, OneLess, FS_CardinalityType
  <2>7. Q \notin bad
    <3> HIDE DEF Q, bad
    <3> QED
      BY <2>2, <2>6
  <2> HIDE DEF Q
  <2>8. Amounts(rows, Q) \in Nat
    BY <2>5, <2>7
  <2>9. Amounts(rows, U) = Amounts(rows, Q) + rows[x].amount
    BY <1>1, <2>5, SumAdd
  <2> QED
    BY <2>5, <2>8, <2>9
<1> QED
  BY <1>2

LEMMA SumPart ==
    ASSUME NEW rows, NEW S, IsFiniteSet(S), \A x \in S : rows[x].amount \in Nat, NEW T \in SUBSET S
    PROVE  Amounts(rows, T) <= Amounts(rows, S)
<1>1. IsFiniteSet(T) /\ IsFiniteSet(S \ T) /\ T \union (S \ T) = S /\ T \intersect (S \ T) = {}
  BY FS_Subset
<1>2. IsAmounts(rows, T) /\ IsAmounts(rows, S \ T)
  BY <1>1 DEF IsAmounts
<1>3. Amounts(rows, T) \in Nat /\ Amounts(rows, S \ T) \in Nat
  BY <1>1, SumNat
<1>4. Amounts(rows, S) = Amounts(rows, T) + Amounts(rows, S \ T)
  BY <1>1, <1>2, SumUnion
<1> QED
  BY <1>3, <1>4

\* What is added up may be added up before or after amounts are taken and given.
LEMMA SumPosted ==
    ASSUME NEW rows, NEW S, IsAmounts(rows, S), NEW less, IsAmounts(less, S), NEW more, IsAmounts(more, S),
           NEW other, \A x \in S : other[x].amount = rows[x].amount - less[x].amount + more[x].amount
    PROVE  Amounts(other, S) = Amounts(rows, S) - Amounts(less, S) + Amounts(more, S)
<1>1. PICK F : Additive(F, rows, S)
  BY AdditiveExists
<1>2. PICK L : Additive(L, less, S)
  BY AdditiveExists
<1>3. PICK M : Additive(M, more, S)
  BY AdditiveExists
<1> DEFINE G == [T \in SUBSET S |-> F[T] - L[T] + M[T]]
<1>4. Additive(G, other, S)
  <2>1. G \in [SUBSET S -> Int] /\ G[{}] = 0
    BY <1>1, <1>2, <1>3 DEF Additive
  <2>2. ASSUME NEW T \in SUBSET S, NEW x \in S \ T
        PROVE  G[T \union {x}] = G[T] + other[x].amount
    <3>1. T \union {x} \in SUBSET S /\ x \in S
      OBVIOUS
    <3>2. /\ F[T \union {x}] = F[T] + rows[x].amount /\ F[T] \in Int
          /\ L[T \union {x}] = L[T] + less[x].amount /\ L[T] \in Int
          /\ M[T \union {x}] = M[T] + more[x].amount /\ M[T] \in Int
      BY <1>1, <1>2, <1>3 DEF Additive
    <3>3. rows[x].amount \in Int /\ less[x].amount \in Int /\ more[x].amount \in Int
      BY <3>1 DEF IsAmounts
    <3>4. /\ G[T \union {x}] = F[T \union {x}] - L[T \union {x}] + M[T \union {x}]
          /\ G[T] = F[T] - L[T] + M[T]
      BY <3>1
    <3>5. other[x].amount = rows[x].amount - less[x].amount + more[x].amount
      BY <3>1
    <3> HIDE DEF G
    <3> QED
      BY <3>2, <3>3, <3>4, <3>5
  <2> HIDE DEF G
  <2> QED
    BY <2>1, <2>2 DEF Additive
<1>5. S \in SUBSET S /\ G[S] = F[S] - L[S] + M[S]
  OBVIOUS
<1> HIDE DEF G
<1>6. /\ Amounts(rows, S) = F[S] /\ Amounts(less, S) = L[S] /\ Amounts(more, S) = M[S]
      /\ Amounts(other, S) = G[S]
  BY <1>1, <1>2, <1>3, <1>4, AmountsAre DEF IsAmounts
<1> QED
  BY <1>5, <1>6

LEMMA SumZero ==
    ASSUME NEW rows, NEW S, IsFiniteSet(S), \A x \in S : rows[x].amount = 0
    PROVE  Amounts(rows, S) = 0
<1> DEFINE G == [T \in SUBSET S |-> 0]
<1>1. Additive(G, rows, S) /\ G[S] = 0
  BY DEF Additive
<1> HIDE DEF G
<1> QED
  BY <1>1, AmountsAre

\* A list of n different places.
ListOf(rows, n, g, seen, S) ==
    /\ n \in Nat /\ g \in [1 .. n -> S] /\ IsAmounts(seen, S)
    /\ \A i, j \in 1 .. n : g[i] = g[j] => i = j
    /\ \A i \in 1 .. n : rows[i].amount = seen[g[i]].amount

\* Its sum is that of the places.
LEMMA SumOfList ==
    ASSUME NEW n, NEW rows, NEW S, NEW g, NEW seen, ListOf(rows, n, g, seen, S)
    PROVE  Amounts(rows, 1 .. n) = Amounts(seen, {g[i] : i \in 1 .. n})
<1>0. /\ n \in Nat /\ g \in [1 .. n -> S] /\ IsAmounts(seen, S)
      /\ \A i, j \in 1 .. n : g[i] = g[j] => i = j
      /\ \A i \in 1 .. n : rows[i].amount = seen[g[i]].amount
  BY DEF ListOf
<1> DEFINE placesTo(k) == {g[i] : i \in 1 .. k}
           bad == {k \in 0 .. n : Amounts(rows, 1 .. k) # Amounts(seen, placesTo(k))}
<1>1. ASSUME bad # {} PROVE FALSE
  <2>1. bad \subseteq Nat
    BY <1>0
  <2>2. PICK k \in bad : \A j \in bad : k <= j
    <3> HIDE DEF bad
    <3> QED
      BY <1>1, <2>1, LeastNumber
  <2>3. k \in 0 .. n /\ Amounts(rows, 1 .. k) # Amounts(seen, placesTo(k))
    OBVIOUS
  <2>4. k # 0
    <3>1. 1 .. 0 = {} /\ placesTo(0) = {}
      OBVIOUS
    <3> QED
      BY <2>3, <3>1, SumEmpty
  <2>5. k - 1 \in 0 .. n /\ k \in 1 .. n /\ ~(k <= k - 1)
    BY <1>0, <2>3, <2>4
  <2>6. Amounts(rows, 1 .. k - 1) = Amounts(seen, placesTo(k - 1))
    BY <2>2, <2>5
  <2>7. /\ 1 .. k = (1 .. k - 1) \union {k} /\ k \notin 1 .. k - 1
        /\ 1 .. k - 1 \subseteq 1 .. n
    BY <1>0, <2>5
  <2>8. placesTo(k) = placesTo(k - 1) \union {g[k]} /\ g[k] \notin placesTo(k - 1) /\ g[k] \in S
    BY <1>0, <2>5, <2>7
  <2>9. IsAmounts(rows, 1 .. k - 1) /\ rows[k].amount \in Int /\ seen[g[k]].amount = rows[k].amount
    <3>1. IsFiniteSet(1 .. k - 1)
      BY <2>5, FS_Interval
    <3> QED
      BY <1>0, <2>5, <2>7, <3>1 DEF IsAmounts
  <2>10. IsAmounts(seen, placesTo(k - 1))
    <3>1. placesTo(k - 1) \in SUBSET S
      BY <1>0, <2>7
    <3> HIDE DEF placesTo
    <3> QED
      BY <1>0, <3>1, FS_Subset DEF IsAmounts
  <2> HIDE DEF placesTo
  <2>11. Amounts(rows, 1 .. k) = Amounts(rows, 1 .. k - 1) + rows[k].amount
    <3> DEFINE first == 1 .. k - 1
    <3>1. IsAmounts(rows, first) /\ k \notin first /\ 1 .. k = first \union {k} /\ rows[k].amount \in Int
      BY <2>7, <2>9
    <3> HIDE DEF first
    <3>2. Amounts(rows, first \union {k}) = Amounts(rows, first) + rows[k].amount
      BY <3>1, SumAdd
    <3> QED
      BY <3>1, <3>2 DEF first
  <2>12. Amounts(seen, placesTo(k)) = Amounts(seen, placesTo(k - 1)) + seen[g[k]].amount
    <3> DEFINE first == placesTo(k - 1)
               x == g[k]
    <3>1. /\ IsAmounts(seen, first) /\ x \notin first /\ placesTo(k) = first \union {x}
          /\ seen[x].amount \in Int
      BY <2>8, <2>9, <2>10
    <3> HIDE DEF first, x
    <3>2. Amounts(seen, first \union {x}) = Amounts(seen, first) + seen[x].amount
      BY <3>1, SumAdd
    <3>3. Amounts(seen, placesTo(k)) = Amounts(seen, first) + seen[x].amount
      BY <3>1, <3>2, Zenon
    <3> QED
      BY <3>3 DEF first, x
  <2> QED
    BY <2>3, <2>6, <2>9, <2>11, <2>12
<1>2. n \notin bad
  <2> HIDE DEF bad
  <2> QED
    BY <1>1
<1>3. n \in 0 .. n
  BY <1>0
<1> QED
  BY <1>2, <1>3

\* Lists of rows, one after the other.
Joined(all, a, b) ==
    /\ IsRows(all) /\ Len(all) = Len(a) + Len(b)
    /\ \A n \in 1 .. Len(a) : all[n] = a[n]
    /\ \A n \in 1 .. Len(b) : all[Len(a) + n] = b[n]
    /\ Amounts(all, DOMAIN all) = Amounts(a, DOMAIN a) + Amounts(b, DOMAIN b)

LEMMA SumOfLists == ASSUME NEW a, IsRows(a), NEW b, IsRows(b) PROVE Joined(a \o b, a, b)
<1> DEFINE Item == {a[n] : n \in 1 .. Len(a)} \union {b[n] : n \in 1 .. Len(b)}
           all == a \o b
           k == Len(a)
           m == Len(b)
<1>1. k \in Nat /\ m \in Nat /\ DOMAIN a = 1 .. k /\ DOMAIN b = 1 .. m
  BY DEF IsRows
<1>2. a \in Seq(Item) /\ b \in Seq(Item)
  <2>1. a \in [1 .. k -> Item] /\ b \in [1 .. m -> Item]
    BY DEF IsRows
  <2> QED
    BY <1>1, <2>1
<1>3. /\ Len(all) = k + m /\ DOMAIN all = 1 .. k + m
      /\ \A n \in 1 .. k : all[n] = a[n]
      /\ \A n \in 1 .. m : all[k + n] = b[n]
      /\ \A n \in k + 1 .. k + m : n - k \in 1 .. m /\ all[n] = b[n - k]
      /\ all = [n \in 1 .. k + m |-> all[n]]
  <2> HIDE DEF Item, k, m
  <2>1. all \in Seq(Item) /\ Len(all) = k + m
    BY <1>2 DEF k, m
  <2> HIDE DEF all
  <2>2. DOMAIN all = 1 .. k + m /\ all = [n \in 1 .. k + m |-> all[n]]
    BY <2>1
  <2>3. /\ \A n \in 1 .. k : all[n] = a[n]
        /\ \A n \in 1 .. m : all[k + n] = b[n]
        /\ \A n \in k + 1 .. k + m : n - k \in 1 .. m /\ all[n] = b[n - k]
    BY <1>1, <1>2 DEF k, m, all
  <2> QED
    BY <2>1, <2>2, <2>3
<1> HIDE DEF Item, all
<1>4. \A n \in 1 .. k : IsRow(a[n])
  BY DEF IsRows
<1>5. \A n \in 1 .. m : IsRow(b[n])
  BY DEF IsRows
<1> HIDE DEF k, m
<1>6. \A n \in 1 .. k + m : IsRow(all[n])
  <2>1. \A n \in 1 .. k + m : n \in 1 .. k \/ n \in k + 1 .. k + m
    BY <1>1
  <2> QED
    BY <1>3, <1>4, <1>5, <2>1
<1>7. IsRows(all)
  <2>1. k + m \in Nat
    BY <1>1
  <2> QED
    BY <1>3, <1>6, <2>1 DEF IsRows
<1> DEFINE first == 1 .. k
           second == k + 1 .. k + m
<1>8. /\ first \union second = 1 .. k + m /\ first \intersect second = {}
      /\ IsFiniteSet(first) /\ IsFiniteSet(second)
  BY <1>1, FS_Interval
<1>9. \A n \in 1 .. k + m : all[n].amount \in Int
  BY <1>6 DEF IsRow
<1>10. IsAmounts(all, first) /\ IsAmounts(all, second)
  <2> HIDE DEF first, second
  <2> QED
    BY <1>8, <1>9 DEF IsAmounts
<1>11. Amounts(all, 1 .. k + m) = Amounts(all, first) + Amounts(all, second)
  <2> HIDE DEF first, second
  <2>1. Amounts(all, first \union second) = Amounts(all, first) + Amounts(all, second)
    BY <1>8, <1>10, SumUnion
  <2> QED
    BY <1>8, <2>1
<1>12. Amounts(a, first) = Amounts(all, first)
  <2>1. \A n \in first : a[n].amount = all[n].amount
    BY <1>3
  <2> HIDE DEF first
  <2> QED
    BY <1>10, <2>1, SumSame
<1>13. Amounts(b, 1 .. m) = Amounts(all, second)
  <2> DEFINE g == [n \in 1 .. m |-> k + n]
  <2>1. g \in [1 .. m -> second]
    BY <1>1
  <2>2. \A i, j \in 1 .. m : g[i] = g[j] => i = j
    BY <1>1
  <2>3. \A n \in 1 .. m : g[n] = k + n
    OBVIOUS
  <2>4. \A n \in 1 .. m : b[n].amount = all[g[n]].amount
    BY <1>3, <2>3
  <2>5. {g[n] : n \in 1 .. m} = second
    <3>1. \A n \in second : n - k \in 1 .. m /\ k + (n - k) = n
      BY <1>1
    <3> HIDE DEF second, g
    <3>2. \A n \in second : n \in {g[j] : j \in 1 .. m}
      BY <2>3, <3>1
    <3> QED
      BY <2>1, <3>2
  <2> HIDE DEF g, second
  <2>6. Amounts(b, 1 .. m) = Amounts(all, {g[n] : n \in 1 .. m})
    <3>1. ListOf(b, m, g, all, second)
      BY <1>1, <1>10, <2>1, <2>2, <2>4 DEF ListOf
    <3> QED
      BY <3>1, SumOfList
  <2> QED
    BY <2>5, <2>6
<1>14. Joined(all, a, b)
  BY <1>1, <1>3, <1>7, <1>11, <1>12, <1>13 DEF Joined, k, m
<1> QED
  BY <1>14 DEF all

-----------------------------------------------------------------------------
(* What the ledger has of the wallet.                                        *)

LEMMA WindowSums ==
    ASSUME NEW seen, IsLedger(seen), NEW A, NEW B
    PROVE  /\ IsFiniteSet(Window(seen, A, B)) /\ Window(seen, A, B) \subseteq DOMAIN seen
           /\ \A i \in DOMAIN seen : seen[i].amount \in Nat
           /\ IsAmounts(seen, Window(seen, A, B))
           /\ Total(seen, A, B) \in Nat
           /\ Total(seen, A, B) = Total(seen, A, {}) + Total(seen, {}, B)
<1>1. \A i \in DOMAIN seen : seen[i].amount \in Nat
  BY DEF IsLedger, IsAccount
<1>2. \A C, D : /\ Window(seen, C, D) \subseteq DOMAIN seen
                /\ IsFiniteSet(Window(seen, C, D))
                /\ IsAmounts(seen, Window(seen, C, D))
  <2> SUFFICES ASSUME NEW C, NEW D
               PROVE  /\ Window(seen, C, D) \subseteq DOMAIN seen
                      /\ IsFiniteSet(Window(seen, C, D))
                      /\ IsAmounts(seen, Window(seen, C, D))
    OBVIOUS
  <2>1. Window(seen, C, D) \subseteq DOMAIN seen
    BY DEF Window
  <2>2. IsFiniteSet(Window(seen, C, D))
    BY <2>1, FS_Subset DEF IsLedger
  <2> QED
    BY <1>1, <2>1, <2>2 DEF IsAmounts
<1>3. Total(seen, A, B) \in Nat
  BY <1>1, <1>2, SumNat DEF Total
<1>4. /\ Window(seen, A, {}) \union Window(seen, {}, B) = Window(seen, A, B)
      /\ Window(seen, A, {}) \intersect Window(seen, {}, B) = {}
  BY DEF Window, Counts, BalanceKinds
<1>5. Amounts(seen, Window(seen, A, {}) \union Window(seen, {}, B))
        = Amounts(seen, Window(seen, A, {})) + Amounts(seen, Window(seen, {}, B))
  BY <1>2, <1>4, SumUnion
<1> QED
  BY <1>1, <1>2, <1>3, <1>4, <1>5 DEF Total

\* All the accounts of the wallet.
LEMMA WholeWindow ==
    ASSUME IsLedger(accounts)
    PROVE  /\ Window(accounts, Ahead(NoCursor), {}) = Window(accounts, Int, {})
           /\ Window(accounts, {}, Ahead(NoCursor)) = Window(accounts, {}, Int)
           /\ Of(BalanceKinds \union {"hold"}) = Window(accounts, Int, Int)
           /\ Of(BalanceKinds) = Window(accounts, Int, {})
           /\ Of({"hold"}) = Window(accounts, {}, Int)
<1>1. \A i \in DOMAIN accounts : i \in Int /\ i \in Ahead(NoCursor)
  BY DEF Ahead, IsLedger
<1> QED
  BY <1>1 DEF Window, Counts, Of, BalanceKinds

\* What a transaction takes or gives: so much, from or to accounts there are.
IsPosting(p, seen) == DOMAIN p \subseteq DOMAIN seen /\ \A i \in DOMAIN p : p[i].amount \in Nat

\* Of it, at most the whole is taken from, or given to, some of the accounts.
LEMMA PartOfPosting ==
    ASSUME NEW seen, IsFiniteSet(DOMAIN seen), NEW p, IsPosting(p, seen)
    PROVE  /\ Whole(p) \in Nat
           /\ \A W \in SUBSET DOMAIN seen :
                LET share == [i \in DOMAIN seen |-> [amount |-> Share(p, i)]] IN
                /\ IsAmounts(share, W)
                /\ Amounts(share, W) \in 0 .. Whole(p)
<1> DEFINE share == [i \in DOMAIN seen |-> [amount |-> Share(p, i)]]
<1>1. /\ IsFiniteSet(DOMAIN p) /\ \A i \in DOMAIN p : p[i].amount \in Nat
      /\ Whole(p) = Amounts(p, DOMAIN p)
  BY FS_Subset DEF IsPosting, Whole
<1>2. Whole(p) \in Nat
  BY <1>1, SumNat
<1>3. ASSUME NEW W \in SUBSET DOMAIN seen PROVE IsAmounts(share, W) /\ Amounts(share, W) \in 0 .. Whole(p)
  <2> DEFINE U == W \intersect DOMAIN p
             V == W \ DOMAIN p
  <2>1. IsFiniteSet(W) /\ IsFiniteSet(U) /\ IsFiniteSet(V) /\ U \union V = W /\ U \intersect V = {}
    <3>1. IsFiniteSet(W)
      BY FS_Subset
    <3> QED
      BY <3>1, FS_Subset
  <2>2. /\ \A i \in W : share[i].amount \in Nat
        /\ \A i \in U : share[i].amount = p[i].amount
        /\ \A i \in V : share[i].amount = 0
    BY <1>1 DEF Share
  <2>3. U \in SUBSET DOMAIN p /\ U \subseteq W /\ V \subseteq W
    OBVIOUS
  <2> HIDE DEF U, V, share
  <2>4. IsAmounts(share, U) /\ IsAmounts(share, V) /\ IsAmounts(share, W) /\ IsAmounts(p, U)
    BY <1>1, <2>1, <2>2, <2>3 DEF IsAmounts
  <2>5. Amounts(share, U) = Amounts(p, U)
    BY <2>2, <2>4, SumSame
  <2>6. Amounts(share, V) = 0
    BY <2>1, <2>2, SumZero
  <2>7. Amounts(share, W) = Amounts(share, U) + Amounts(share, V)
    BY <2>1, <2>4, SumUnion
  <2>8. Amounts(p, U) \in Nat
    BY <1>1, <2>1, <2>3, SumNat
  <2>9. Amounts(p, U) <= Whole(p)
    BY <1>1, <2>3, SumPart
  <2> QED
    BY <1>2, <2>4, <2>5, <2>6, <2>7, <2>8, <2>9
<1> QED
  BY <1>2, <1>3

\* What a transaction does to the totals.
LEMMA TotalPosted ==
    ASSUME IsLedger(accounts), NEW take, IsPosting(take, accounts), Covered(take),
           NEW give, IsPosting(give, accounts)
    PROVE  /\ Whole(take) \in Nat /\ Whole(give) \in Nat
           /\ IsLedger(Posted(take, give))
           /\ DOMAIN Posted(take, give) = DOMAIN accounts
           /\ \A A, B : \E t \in 0 .. Whole(take), g \in 0 .. Whole(give) :
                Total(Posted(take, give), A, B) = Total(accounts, A, B) - t + g
<1> DEFINE after == Posted(take, give)
           taken == [i \in DOMAIN accounts |-> [amount |-> Share(take, i)]]
           given == [i \in DOMAIN accounts |-> [amount |-> Share(give, i)]]
<1>1. IsFiniteSet(DOMAIN accounts)
  BY DEF IsLedger
<1>2. /\ Whole(take) \in Nat /\ Whole(give) \in Nat
      /\ \A W \in SUBSET DOMAIN accounts :
            /\ IsAmounts(taken, W) /\ Amounts(taken, W) \in 0 .. Whole(take)
            /\ IsAmounts(given, W) /\ Amounts(given, W) \in 0 .. Whole(give)
  BY <1>1, PartOfPosting
<1>3. DOMAIN after = DOMAIN accounts
  BY DEF Posted
<1>4. ASSUME NEW i \in DOMAIN accounts
      PROVE  /\ IsAccount(after[i])
             /\ after[i].kind = accounts[i].kind /\ after[i].wallet = accounts[i].wallet
             /\ after[i].amount = accounts[i].amount - taken[i].amount + given[i].amount
  <2> DEFINE a == accounts[i]
             x == a.amount - Share(take, i) + Share(give, i)
  <2>1. IsAccount(a) /\ a.amount \in Nat
    BY DEF IsLedger, IsAccount
  <2>2. after[i] = [a EXCEPT !.amount = x]
    BY DEF Posted
  <2>3. a = [kind |-> a.kind, wallet |-> a.wallet, name |-> a.name, custom |-> a.custom,
             expiresAt |-> a.expiresAt, amount |-> a.amount]
    BY <2>1 DEF IsAccount
  <2>4. Share(take, i) \in 0 .. a.amount /\ Share(give, i) \in Nat
    BY <2>1 DEF Share, Covered, IsPosting
  <2>5. x \in Nat
    BY <2>1, <2>4
  <2>6. taken[i].amount = Share(take, i) /\ given[i].amount = Share(give, i)
    OBVIOUS
  <2> HIDE DEF a, x, after, taken, given
  <2>7. after[i] = [kind |-> a.kind, wallet |-> a.wallet, name |-> a.name, custom |-> a.custom,
                    expiresAt |-> a.expiresAt, amount |-> x]
    BY <2>2, <2>3
  <2>8. /\ after[i].kind = a.kind /\ after[i].wallet = a.wallet /\ after[i].name = a.name
        /\ after[i].custom = a.custom /\ after[i].expiresAt = a.expiresAt /\ after[i].amount = x
    BY <2>7
  <2>9. IsAccount(after[i])
    BY <2>1, <2>5, <2>7, <2>8 DEF IsAccount
  <2> QED
    BY <2>6, <2>8, <2>9 DEF a, x
<1> HIDE DEF after, taken, given
<1>5. IsLedger(after)
  BY <1>3, <1>4 DEF IsLedger
<1>6. ASSUME NEW A, NEW B
      PROVE  \E t \in 0 .. Whole(take), g \in 0 .. Whole(give) :
                Total(after, A, B) = Total(accounts, A, B) - t + g
  <2> DEFINE W == Window(accounts, A, B)
  <2>1. Window(after, A, B) = W
    BY <1>3, <1>4 DEF Window, Counts
  <2>2. IsAmounts(accounts, W) /\ W \in SUBSET DOMAIN accounts
    BY WindowSums
  <2>3. \A i \in W : after[i].amount = accounts[i].amount - taken[i].amount + given[i].amount
    BY <1>4, <2>2
  <2> HIDE DEF W
  <2>4. Amounts(after, W) = Amounts(accounts, W) - Amounts(taken, W) + Amounts(given, W)
    BY <1>2, <2>2, <2>3, SumPosted
  <2>5. Total(after, A, B) = Total(accounts, A, B) - Amounts(taken, W) + Amounts(given, W)
    BY <2>1, <2>4 DEF Total, W
  <2> QED
    BY <1>2, <2>2, <2>5
<1> QED
  BY <1>2, <1>3, <1>5, <1>6 DEF after

\* There is one account more.
LEMMA TotalAdded ==
    ASSUME NEW seen, IsLedger(seen), NEW h \in Int, h > Start, h \notin DOMAIN seen, NEW item, IsAccount(item)
    PROVE  /\ IsLedger(Added(seen, h, item))
           /\ \A A, B : Total(Added(seen, h, item), A, B) =
                          Total(seen, A, B) + (IF Counts(h, item, A, B) THEN item.amount ELSE 0)
<1> DEFINE other == Added(seen, h, item)
<1>1. /\ DOMAIN other = DOMAIN seen \union {h} /\ other[h] = item
      /\ \A i \in DOMAIN seen : other[i] = seen[i]
  BY DEF Added
<1> HIDE DEF other
<1>2. IsLedger(other)
  <2>1. IsFiniteSet(DOMAIN seen \union {h})
    BY FS_AddElement DEF IsLedger
  <2> QED
    BY <1>1, <2>1 DEF IsLedger
<1>3. ASSUME NEW A, NEW B
      PROVE  Total(other, A, B) = Total(seen, A, B) + (IF Counts(h, item, A, B) THEN item.amount ELSE 0)
  <2> DEFINE W == Window(seen, A, B)
  <2>1. Window(other, A, B) = IF Counts(h, item, A, B) THEN W \union {h} ELSE W
    <3>1. \A i \in DOMAIN seen : i # h /\ Counts(i, other[i], A, B) = Counts(i, seen[i], A, B)
      BY <1>1
    <3> QED
      BY <1>1, <3>1 DEF Window
  <2>2. IsAmounts(seen, W) /\ Total(seen, A, B) \in Nat /\ h \notin W /\ W \subseteq DOMAIN seen
    BY WindowSums
  <2>3. Amounts(other, W) = Amounts(seen, W) /\ IsAmounts(other, W)
    <3>1. \A i \in W : other[i].amount = seen[i].amount
      BY <1>1, <2>2
    <3> HIDE DEF W
    <3> QED
      BY <2>2, <3>1, SumSame
  <2>4. Amounts(other, W \union {h}) = Amounts(other, W) + item.amount
    <3>1. other[h].amount \in Int /\ other[h].amount = item.amount
      BY <1>1 DEF IsAccount
    <3> HIDE DEF W
    <3> QED
      BY <2>2, <2>3, <3>1, SumAdd
  <2> QED
    BY <2>1, <2>2, <2>3, <2>4 DEF Total
<1> QED
  BY <1>2, <1>3 DEF other

-----------------------------------------------------------------------------
(* Pages.                                                                    *)

\* What one page comes to: its rows are the first of what was ahead, and the
\* sum of them and of what is ahead then is the same.
Reads(rows, next, seen, S) ==
    /\ IsRows(rows)
    /\ next # NoCursor => next.after \in S
    /\ \A n \in 1 .. Len(rows) : rows[n].place \in S /\ rows[n].amount = seen[rows[n].place].amount
    /\ \A m, n \in 1 .. Len(rows) : m < n => rows[m].place < rows[n].place
    /\ \A n \in 1 .. Len(rows) : rows[n].place \notin Ahead(next) \/ next = NoCursor
    /\ \A i \in S : (next # NoCursor /\ i \in Ahead(next)) \/ \E n \in 1 .. Len(rows) : rows[n].place = i
    /\ Amounts(seen, S) = Amounts(rows, 1 .. Len(rows))
                          + (IF next = NoCursor THEN 0 ELSE Amounts(seen, S \intersect Ahead(next)))

\* The items of a list that a cursor has not passed.
Listable(seen, query, cursor) == {i \in DOMAIN seen : i \in Ahead(cursor) /\ Matches(query, seen[i])}

LEMMA QueriesFind ==
    ASSUME NEW seen, IsLedger(seen), NEW cursor
    PROVE  /\ Listable(seen, BalancesQuery, cursor) = Window(seen, Ahead(cursor), {})
           /\ Listable(seen, HoldsQuery, cursor) = Window(seen, {}, Ahead(cursor))
<1>1. /\ BalancesQuery.metadata = {Reserved("id", Wallet)} /\ BalancesQuery.account = AnyValue
      /\ HoldsQuery.metadata = {Reserved("holds/wallet_id", Wallet)} /\ HoldsQuery.account = AnyValue
  BY DEF BalancesQuery, HoldsQuery, Query
<1>2. ASSUME NEW i \in DOMAIN seen
      PROVE  /\ Matches(BalancesQuery, seen[i]) <=> seen[i].kind \in BalanceKinds /\ seen[i].wallet = Wallet
             /\ Matches(HoldsQuery, seen[i]) <=> seen[i].kind = "hold" /\ seen[i].wallet = Wallet
  <2>1. seen[i].kind \in Kinds
    BY DEF IsLedger, IsAccount, Kinds
  <2>2. /\ Reserved("id", Wallet) \in LedgerMetadata(seen[i])
             <=> seen[i].kind \in {"wallet", "balance"} /\ seen[i].wallet = Wallet
        /\ Reserved("holds/wallet_id", Wallet) \in LedgerMetadata(seen[i])
             <=> seen[i].kind = "hold" /\ seen[i].wallet = Wallet
    BY <2>1, ReservedTell
  <2> QED
    BY <1>1, <2>2 DEF Matches, BalanceKinds
<1> QED
  BY <1>2 DEF Listable, Window, Counts

LEMMA PageRows ==
    ASSUME NEW seen, IsLedger(seen), NEW S, S \subseteq DOMAIN seen, NEW page, NEW query, NEW limit, NEW view,
           IsPageOf(page, S, query, limit, view), limit \in Nat,
           page.rows = [n \in 1 .. Len(page.data) |-> seen[page.data[n]]]
    PROVE  /\ Reads(Rows(page), page.next, seen, S)
           /\ page.next # NoCursor =>
                page.next = [query |-> query, limit |-> limit, after |-> page.next.after, view |-> view]
                /\ page.next.after \in Int
<1> DEFINE rows == Rows(page)
           N == Len(page.data)
           data == page.data
           places == {data[n] : n \in 1 .. N}
           next == page.next
<1>1. /\ N \in Nat /\ data \in [1 .. N -> S]
      /\ \A m, n \in 1 .. N : m < n => data[m] < data[n]
  BY DEF IsPageOf
<1>2. \A i \in DOMAIN seen : i \in Int /\ IsAccount(seen[i])
  BY DEF IsLedger
<1>3. rows = [n \in 1 .. N |-> [place |-> data[n], amount |-> seen[data[n]].amount,
                                expiresAt |-> seen[data[n]].expiresAt]]
  BY <1>1 DEF Rows
<1> HIDE DEF rows, N, data
<1>4. /\ \A n \in 1 .. N : rows[n].place = data[n] /\ rows[n].amount = seen[data[n]].amount /\ IsRow(rows[n])
      /\ Len(rows) = N /\ rows = [n \in 1 .. N |-> rows[n]]
  <2>1. \A n \in 1 .. N : data[n] \in Int /\ IsAccount(seen[data[n]]) /\ data[n] \in S
    BY <1>1, <1>2
  <2>2. \A n \in 1 .. N : /\ rows[n].place = data[n] /\ rows[n].amount = seen[data[n]].amount
                          /\ rows[n].expiresAt = seen[data[n]].expiresAt
    BY <1>3
  <2>3. \A n \in 1 .. N : IsRow(rows[n])
    BY <2>1, <2>2 DEF IsRow, IsAccount
  <2>4. Len(rows) = N
    BY <1>1, <1>3
  <2>5. rows = [n \in 1 .. N |-> rows[n]]
    BY <1>3
  <2> QED
    BY <2>2, <2>3, <2>4, <2>5
<1>5. IsRows(rows)
  BY <1>1, <1>4 DEF IsRows
<1>6. IsAmounts(seen, S)
  BY <1>2, FS_Subset DEF IsLedger, IsAccount, IsAmounts
<1>7. Amounts(rows, 1 .. N) = Amounts(seen, places)
  <2>1. \A i, j \in 1 .. N : data[i] = data[j] => i = j
    <3> SUFFICES ASSUME NEW i \in 1 .. N, NEW j \in 1 .. N, data[i] = data[j], i # j PROVE FALSE
      OBVIOUS
    <3>1. i < j \/ j < i
      OBVIOUS
    <3>2. data[i] \in Int
      BY <1>1, <1>2
    <3>3. data[i] < data[j] \/ data[j] < data[i]
      BY <1>1, <3>1
    <3> QED
      BY <3>2, <3>3
  <2>2. \A i \in 1 .. N : rows[i].amount = seen[data[i]].amount
    BY <1>4
  <2>3. Amounts(rows, 1 .. N) = Amounts(seen, {data[i] : i \in 1 .. N})
    <3> HIDE DEF places
    <3>1. N \in Nat /\ data \in [1 .. N -> S] /\ IsAmounts(seen, S)
      BY <1>1, <1>6
    <3>2. ListOf(rows, N, data, seen, S)
      BY <2>1, <2>2, <3>1 DEF ListOf
    <3> QED
      BY <3>2, SumOfList
  <2> QED
    BY <2>3
<1>8. places \subseteq S
  BY <1>1
<1>9. CASE next = NoCursor
  <2>1. \A i \in S : \E n \in 1 .. N : data[n] = i
    BY <1>9 DEF IsPageOf, N, data
  <2>2. places = S
    BY <1>8, <2>1
  <2>3. Amounts(seen, S) \in Int
    BY <1>6, SumInt
  <2> HIDE DEF places
  <2>4. Amounts(seen, S) = Amounts(rows, 1 .. N) + 0
    BY <1>7, <2>2, <2>3
  <2>5. /\ \A n \in 1 .. N : rows[n].place \in S /\ rows[n].amount = seen[rows[n].place].amount
        /\ \A m, n \in 1 .. N : m < n => rows[m].place < rows[n].place
        /\ \A i \in S : \E n \in 1 .. N : rows[n].place = i
    BY <1>1, <1>4, <2>1
  <2>6. Reads(rows, next, seen, S)
    <3> HIDE DEF next
    <3> QED
      BY <1>4, <1>5, <1>9, <2>4, <2>5 DEF Reads
  <2> QED
    BY <1>9, <2>6 DEF rows
<1>10. CASE next # NoCursor
  <2>1. PICK last \in S :
          /\ next = [query |-> query, limit |-> limit, after |-> last, view |-> view]
          /\ \A n \in 1 .. N : data[n] <= last
          /\ \A i \in S : i <= last => \E n \in 1 .. N : data[n] = i
    BY <1>10 DEF IsPageOf, N, data
  <2>2. last \in Int /\ next.after = last
    BY <1>2, <2>1
  <2> HIDE DEF next
  <2>3. Ahead(next) = {i \in Int : i > last}
    BY <1>10, <2>2 DEF Ahead, next
  <2>4. \A i \in S : i \in Int
    BY <1>2
  <2>5. places = {i \in S : i <= last}
    BY <1>1, <2>1
  <2>6. \A i \in S : i \in Ahead(next) <=> ~(i <= last)
    BY <2>2, <2>3, <2>4
  <2> DEFINE later == S \intersect Ahead(next)
  <2>7. places \union later = S /\ places \intersect later = {}
    BY <2>5, <2>6
  <2>8. IsAmounts(seen, places) /\ IsAmounts(seen, later)
    <3>1. places \in SUBSET S /\ later \in SUBSET S
      BY <1>8
    <3> HIDE DEF places, later
    <3> QED
      BY <1>6, <3>1, FS_Subset DEF IsAmounts
  <2>9. Amounts(seen, S) = Amounts(seen, places) + Amounts(seen, later)
    <3> HIDE DEF places, later
    <3>1. Amounts(seen, places \union later) = Amounts(seen, places) + Amounts(seen, later)
      BY <2>7, <2>8, SumUnion
    <3> QED
      BY <2>7, <3>1
  <2>10. \A i \in S : i \in Ahead(next) \/ \E n \in 1 .. N : rows[n].place = i
    BY <1>4, <2>1, <2>6
  <2>11. \A n \in 1 .. N : rows[n].place \notin Ahead(next)
    BY <1>1, <1>4, <2>1, <2>6
  <2>12. Reads(rows, next, seen, S)
    <3>1. \A n \in 1 .. N : rows[n].place \in S /\ rows[n].amount = seen[rows[n].place].amount
      BY <1>1, <1>4
    <3>2. \A m, n \in 1 .. N : m < n => rows[m].place < rows[n].place
      BY <1>1, <1>4
    <3>3. Amounts(seen, S) = Amounts(rows, 1 .. N) + Amounts(seen, S \intersect Ahead(next))
      BY <1>7, <2>9
    <3>4. next.after \in S
      BY <2>1, <2>2
    <3> QED
      BY <3>4, <1>4, <1>5, <1>10, <2>10, <2>11, <3>1, <3>2, <3>3 DEF Reads, next
  <2>13. next = [query |-> query, limit |-> limit, after |-> next.after, view |-> view] /\ next.after \in Int
    BY <2>1, <2>2
  <2> QED
    BY <2>12, <2>13 DEF rows, next
<1> QED
  BY <1>9, <1>10

\* A page of a list of the summary.
LEMMA PagesOfSummary ==
    ASSUME IsLedger(accounts), NEW query, IsCursor(call.cursor, query), NEW view \in Views(accounts),
           before.changed \in BOOLEAN,
           NEW page, page = fetchAndMapAllAccounts(query, view),
           NEW seen, seen = Shown(accounts, call.cursor)
    PROVE  /\ IsLedger(seen)
           /\ Reads(Rows(page), page.next, seen, Listable(seen, query, call.cursor))
           /\ page.next # NoCursor => IsCursor(page.next, query) /\ Shown(accounts, page.next) = seen
           /\ ~before.changed => seen = accounts
<1> DEFINE first == call.cursor = NoCursor
           after == IF first THEN Start ELSE call.cursor.after
           shown == IF first THEN view ELSE call.cursor.view
<1>1. page = LedgerPage(accounts, query, maxPageSize, after, shown)
  <2>1. ~first => call.cursor.query = query /\ call.cursor.limit = maxPageSize
    BY DEF IsCursor
  <2> QED
    BY <2>1 DEF fetchAndMapAllAccounts, mapAccountList, ListFirst, ListCursor
<1>2. after \in Int
  BY DEF IsCursor, Start
<1>3. /\ seen = (IF shown = Live THEN accounts ELSE shown) /\ IsLedger(seen)
      /\ shown # Live => IsLedger(shown)
      /\ ~before.changed => shown \in {Live, accounts}
  BY DEF IsCursor, Views, Shown
<1>4. IsFiniteSet(DOMAIN seen) /\ DOMAIN seen \subseteq Int
  BY <1>3 DEF IsLedger
<1>5. Rest(seen, query, after) = Listable(seen, query, call.cursor)
  BY <1>2, <1>4 DEF Rest, Listable, Ahead
<1> HIDE DEF first, after, shown
<1>6. maxPageSize \in Nat \ {0}
  BY SummaryAssumption
<1>7. IsPageOf(page, Rest(seen, query, after), query, maxPageSize, shown)
  BY <1>1, <1>3, <1>4, <1>6, LedgerPages
<1>8. page.rows = [n \in 1 .. Len(page.data) |-> seen[page.data[n]]]
  <2>1. LedgerPage(accounts, query, maxPageSize, after, shown).rows
          = [n \in 1 .. Len(LedgerPage(accounts, query, maxPageSize, after, shown).data) |->
               (IF shown = Live THEN accounts ELSE shown)
                 [LedgerPage(accounts, query, maxPageSize, after, shown).data[n]]]
    BY DEF LedgerPage
  <2> QED
    BY <1>1, <1>3, <2>1
<1>9. Rest(seen, query, after) \subseteq DOMAIN seen
  BY DEF Rest
<1>10. /\ Reads(Rows(page), page.next, seen, Rest(seen, query, after))
       /\ page.next # NoCursor =>
            page.next = [query |-> query, limit |-> maxPageSize, after |-> page.next.after, view |-> shown]
            /\ page.next.after \in Int
  BY <1>3, <1>6, <1>7, <1>8, <1>9, PageRows
<1>11. ASSUME page.next # NoCursor PROVE IsCursor(page.next, query) /\ Shown(accounts, page.next) = seen
  <2> DEFINE next == page.next
  <2>1. /\ next = [query |-> query, limit |-> maxPageSize, after |-> next.after, view |-> shown]
        /\ next.after \in Int
    BY <1>10, <1>11
  <2> HIDE DEF next
  <2>2. next.view = shown
    BY <2>1
  <2>3. next = [query |-> query, limit |-> maxPageSize, after |-> next.after, view |-> next.view]
    BY <2>1, <2>2
  <2>4. IsCursor(next, query)
    BY <1>3, <2>1, <2>2, <2>3 DEF IsCursor
  <2>5. Shown(accounts, next) = seen
    BY <1>3, <1>11, <2>2 DEF Shown, next
  <2> QED
    BY <2>4, <2>5 DEF next
<1>12. ~before.changed => seen = accounts
  BY <1>3
<1> QED
  BY <1>3, <1>5, <1>10, <1>11, <1>12

-----------------------------------------------------------------------------
(* Moves.                                                                    *)

LEMMA RowsSum == ASSUME NEW rows, IsRows(rows)
                 PROVE  /\ DOMAIN rows = 1 .. Len(rows) /\ IsAmounts(rows, DOMAIN rows)
                        /\ Amounts(rows, DOMAIN rows) \in Nat
<1>1. DOMAIN rows = 1 .. Len(rows) /\ Len(rows) \in Nat /\ \A n \in 1 .. Len(rows) : rows[n].amount \in Nat
  BY DEF IsRows, IsRow
<1>2. IsFiniteSet(DOMAIN rows)
  BY <1>1, FS_Interval
<1> QED
  BY <1>1, <1>2, SumNat DEF IsAmounts

\* No funds are ahead that are not numbers.
LEMMA FundsType ==
    ASSUME LedgerOK, CallOK, NEW items, IsLedger(items)
    PROVE  /\ Amounts(call.balances, DOMAIN call.balances) \in Nat /\ call.holdFunds \in Nat
           /\ BalancesAhead(items) \in Nat /\ HoldsAhead(items) \in Nat
           /\ FundsIn(items) \in Nat
<1>1. Amounts(call.balances, DOMAIN call.balances) \in Nat /\ call.holdFunds \in Nat
  BY RowsSum DEF CallOK
<1>2. call.step \in {"balances", "holds"} => IsLedger(Shown(items, call.cursor))
  BY DEF CallOK, IsCursor, Shown
<1>3. BalancesAhead(items) \in Nat /\ HoldsAhead(items) \in Nat
  BY <1>2, WindowSums DEF BalancesAhead, HoldsAhead
<1> QED
  BY <1>1, <1>3 DEF FundsIn

\* The totals of two ledgers are no further apart than n.
Within(n, items, after) == \A A, B : Abs(Total(after, A, B) - Total(items, A, B)) <= n

LEMMA AheadMoves ==
    ASSUME LedgerOK, CallOK, call.step \in {"balances", "count", "again", "holds"},
           NEW after, IsLedger(after), NEW n \in Nat, Within(n, accounts, after)
    PROVE  Abs(FundsIn(after) - FundsIn(accounts)) <= n
<1> DEFINE ahead(items) == BalancesAhead(items) + HoldsAhead(items)
           live == call.cursor = NoCursor \/ call.cursor.view = Live
           cursor == call.cursor
<1>1. IsLedger(accounts)
  BY DEF LedgerOK
<1>2. \A items : IsLedger(items) => /\ BalancesAhead(items) \in Nat /\ HoldsAhead(items) \in Nat
                                    /\ FundsIn(items) \in Nat
                                    /\ FundsIn(items) = Amounts(call.balances, DOMAIN call.balances)
                                                        + call.holdFunds + ahead(items)
  BY FundsType DEF FundsIn
<1>3. Amounts(call.balances, DOMAIN call.balances) \in Nat /\ call.holdFunds \in Nat
  BY <1>1, FundsType
<1>4. \A items, A, B : IsLedger(items) => Total(items, A, B) \in Nat
                                          /\ Total(items, A, B) = Total(items, A, {}) + Total(items, {}, B)
  BY WindowSums
<1>5. Abs(0) <= n
  BY DEF Abs
<1>6. Abs(ahead(after) - ahead(accounts)) <= n
  <2>1. CASE call.step = "balances" /\ live
    <3>1. ASSUME NEW items, IsLedger(items) PROVE ahead(items) = Total(items, Ahead(cursor), Int)
      <4>1. BalancesAhead(items) = Total(items, Ahead(cursor), {}) /\ HoldsAhead(items) = Total(items, {}, Int)
        BY <2>1 DEF BalancesAhead, HoldsAhead, Shown
      <4> QED
        BY <1>4, <3>1, <4>1
    <3> QED
      BY <1>1, <3>1 DEF Within
  <2>2. CASE call.step = "balances" /\ ~live
    <3>1. \A items : BalancesAhead(items) = BalancesAhead(accounts) /\ HoldsAhead(items) = Total(items, {}, Int)
      BY <2>2 DEF BalancesAhead, HoldsAhead, Shown
    <3>2. ahead(after) - ahead(accounts) = Total(after, {}, Int) - Total(accounts, {}, Int)
      <4> HIDE DEF live, cursor
      <4>1. Total(after, {}, Int) \in Nat /\ Total(accounts, {}, Int) \in Nat /\ BalancesAhead(accounts) \in Nat
        BY <1>1, <1>2, <1>4
      <4> QED
        BY <3>1, <4>1
    <3> QED
      BY <3>2 DEF Within
  <2>3. CASE call.step \in {"count", "again"}
    <3>1. \A items : BalancesAhead(items) = 0 /\ HoldsAhead(items) = Total(items, {}, Int)
      BY <2>3 DEF BalancesAhead, HoldsAhead
    <3>2. ahead(after) - ahead(accounts) = Total(after, {}, Int) - Total(accounts, {}, Int)
      <4>1. Total(after, {}, Int) \in Nat /\ Total(accounts, {}, Int) \in Nat
        BY <1>1, <1>4
      <4> QED
        BY <3>1, <4>1
    <3> QED
      BY <3>2 DEF Within
  <2>4. CASE call.step = "holds" /\ live
    <3>1. \A items : BalancesAhead(items) = 0 /\ HoldsAhead(items) = Total(items, {}, Ahead(cursor))
      BY <2>4 DEF BalancesAhead, HoldsAhead, Shown
    <3>2. ahead(after) - ahead(accounts) = Total(after, {}, Ahead(cursor)) - Total(accounts, {}, Ahead(cursor))
      <4> HIDE DEF live, cursor
      <4>1. Total(after, {}, Ahead(cursor)) \in Nat /\ Total(accounts, {}, Ahead(cursor)) \in Nat
        BY <1>1, <1>4
      <4> QED
        BY <3>1, <4>1
    <3> QED
      BY <3>2 DEF Within
  <2>5. CASE call.step = "holds" /\ ~live
    <3>1. BalancesAhead(after) = BalancesAhead(accounts) /\ HoldsAhead(after) = HoldsAhead(accounts)
      BY <2>5 DEF BalancesAhead, HoldsAhead, Shown
    <3>2. ahead(after) - ahead(accounts) = 0
      BY <1>1, <1>2, <3>1
    <3> QED
      BY <1>5, <3>2
  <2> QED
    BY <2>1, <2>2, <2>3, <2>4, <2>5
<1>7. FundsIn(after) - FundsIn(accounts) = ahead(after) - ahead(accounts)
  <2>1. ahead(after) \in Nat /\ ahead(accounts) \in Nat
    BY <1>1, <1>2
  <2> HIDE DEF ahead
  <2> QED
    BY <1>1, <1>2, <1>3, <2>1
<1> QED
  BY <1>6, <1>7

\* The error grows by no more than what moves.
LEMMA ErrorGrows == \A a, b, f, m, n \in Int : Abs(a - f) <= m /\ Abs(b - a) <= n => Abs(b - f) <= m + n
BY DEF Abs

LEMMA MoveKeeps ==
    ASSUME Inv, NEW after, NEW n \in Nat, Move(after, n), IsLedger(after), Within(n, accounts, after)
    PROVE  Inv'
<1>1. /\ call.step \in {"balances", "count", "again", "holds"}
      /\ accounts' = after /\ moved' = moved + n
      /\ before' = [before EXCEPT !.changed = TRUE]
      /\ now' = now /\ call' = call
  BY DEF Move, MayMove
<1>2. before = [funds |-> before.funds, now |-> before.now, changed |-> before.changed]
  BY DEF Inv, LedgerOK
<1>3. before'.funds = before.funds /\ before'.now = before.now /\ before'.changed = TRUE
      /\ before' = [funds |-> before.funds, now |-> before.now, changed |-> TRUE]
  BY <1>1, <1>2
<1>4. LedgerOK'
  <2>1. moved' \in Nat
    BY <1>1 DEF Inv, LedgerOK
  <2> QED
    BY <1>1, <1>3, <2>1 DEF Inv, LedgerOK
<1>5. CallOK'
  BY <1>1, <1>3 DEF Inv, CallOK, IsCall, IsCursor
<1>6. ErrorOK'
  <2>1. FundsIn(accounts)' = FundsIn(after)
    BY <1>1 DEF FundsIn, BalancesAhead, HoldsAhead, Shown
  <2>2. Abs(FundsIn(accounts) - before.funds) <= moved
    BY <1>1 DEF Inv, ErrorOK
  <2>3. Abs(FundsIn(after) - FundsIn(accounts)) <= n
    BY <1>1, AheadMoves DEF Inv
  <2>4. /\ FundsIn(accounts) \in Int /\ FundsIn(after) \in Int
        /\ before.funds \in Int /\ moved \in Int /\ n \in Int
    BY FundsType DEF Inv, LedgerOK
  <2>5. Abs(FundsIn(after) - before.funds) <= moved + n
    BY <2>2, <2>3, <2>4, ErrorGrows
  <2> QED
    BY <1>1, <1>3, <2>1, <2>5 DEF ErrorOK
<1>7. QuietOK'
  BY <1>3 DEF QuietOK
<1>8. TotalsOK'
  <2>1. /\ call.step # "failed" => \E V, X, K \in SUBSET (1 .. call.counted) : CountedAs(V, X, K)
        /\ TotalsOK
    BY DEF Inv, TotalsOK
  <2>2. Expiry' = Expiry
    BY <1>1 DEF Expiry, Counting
  <2>3. ASSUME NEW V, NEW X, NEW K, CountedAs(V, X, K) PROVE CountedAs(V, X, K)'
    BY <1>1, <1>3, <2>3 DEF CountedAs
  <2> QED
    BY <1>1, <1>3, <2>1, <2>2, <2>3 DEF TotalsOK
<1> QED
  BY <1>4, <1>5, <1>6, <1>7, <1>8 DEF Inv

\* One account.
LEMMA OnePosting ==
    ASSUME IsLedger(accounts), NEW i \in DOMAIN accounts, NEW n \in Nat
    PROVE  IsPosting(At(i, n), accounts) /\ Whole(At(i, n)) = n
<1> DEFINE p == At(i, n)
<1>1. DOMAIN p = {} \union {i} /\ i \notin {} /\ p[i].amount = n
  BY DEF At
<1> HIDE DEF p
<1>2. IsAmounts(p, {}) /\ Amounts(p, {}) = 0
  BY SumEmpty, FS_EmptySet DEF IsAmounts
<1>3. Amounts(p, {} \union {i}) = Amounts(p, {}) + p[i].amount
  BY <1>1, <1>2, SumAdd
<1> QED
  BY <1>1, <1>2, <1>3 DEF IsPosting, Whole, p

LEMMA NoPosting == IsPosting(Elsewhere, accounts) /\ Whole(Elsewhere) = 0
BY SumEmpty DEF IsPosting, Whole, Elsewhere

\* Any of some accounts.
LEMMA PostingsAre ==
    ASSUME IsLedger(accounts), NEW S \in SUBSET DOMAIN accounts, NEW p \in Postings(S)
    PROVE  IsPosting(p, accounts) /\ Whole(p) \in Nat
<1>1. IsPosting(p, accounts)
  BY SummaryAssumption DEF Postings, IsPosting
<1> QED
  BY <1>1, PartOfPosting DEF IsLedger

\* A transaction of n that takes and gives no more than n.
LEMMA TransactionKeeps ==
    ASSUME Inv, NEW take, IsPosting(take, accounts), NEW give, IsPosting(give, accounts),
           NEW n \in Nat, Whole(take) <= n, Whole(give) <= n, Transaction(take, give, n)
    PROVE  Inv'
<1> DEFINE after == Posted(take, give)
<1>1. IsLedger(accounts) /\ Covered(take) /\ Move(after, n)
  BY DEF Inv, LedgerOK, Transaction
<1>2. /\ IsLedger(after) /\ Whole(take) \in Nat /\ Whole(give) \in Nat
      /\ \A A, B : \E t \in 0 .. Whole(take), g \in 0 .. Whole(give) :
            Total(after, A, B) = Total(accounts, A, B) - t + g
  BY <1>1, TotalPosted
<1> HIDE DEF after
<1>3. ASSUME NEW A, NEW B PROVE Abs(Total(after, A, B) - Total(accounts, A, B)) <= n
  <2>1. PICK t \in 0 .. Whole(take), g \in 0 .. Whole(give) :
            Total(after, A, B) = Total(accounts, A, B) - t + g
    BY <1>2
  <2>2. Total(accounts, A, B) \in Nat
    BY <1>1, WindowSums
  <2> QED
    BY <1>2, <2>1, <2>2 DEF Abs
<1> QED
  BY <1>1, <1>2, <1>3, MoveKeeps DEF Within

LEMMA OfLedger ==
    ASSUME Inv
    PROVE  /\ IsLedger(accounts) /\ \A i \in DOMAIN accounts : accounts[i].amount \in Nat
           /\ \A kinds : Of(kinds) \subseteq DOMAIN accounts
BY DEF Inv, LedgerOK, IsLedger, IsAccount, Of

LEMMA CreditKeeps == ASSUME Inv, Credit PROVE Inv'
<1>1. PICK take \in Postings(Of(BalanceKinds \union {"hold"})), b \in Of(BalanceKinds), others \in 0 .. Largest :
        Transaction(take, At(b, Whole(take) + others), Whole(take) + others)
  BY DEF Credit
<1>2. IsPosting(take, accounts) /\ Whole(take) \in Nat /\ others \in Nat /\ b \in DOMAIN accounts
  BY OfLedger, PostingsAre, SummaryAssumption
<1> DEFINE n == Whole(take) + others
<1>3. n \in Nat /\ Whole(take) <= n
  BY <1>2
<1>4. Transaction(take, At(b, n), n)
  BY <1>1
<1> HIDE DEF n
<1>5. IsPosting(At(b, n), accounts) /\ Whole(At(b, n)) = n
  BY <1>2, <1>3, OfLedger, OnePosting
<1> QED
  BY <1>2, <1>3, <1>4, <1>5, TransactionKeeps

\* What goes elsewhere, or to an account of the wallet.
LEMMA GivenTo ==
    ASSUME Inv, NEW n \in Nat, NEW kinds, NEW give \in {Elsewhere} \union {At(b, n) : b \in Of(kinds)}
    PROVE  IsPosting(give, accounts) /\ Whole(give) <= n
<1>1. CASE give = Elsewhere
  BY <1>1, NoPosting
<1>2. ASSUME NEW b \in Of(kinds), give = At(b, n) PROVE IsPosting(give, accounts) /\ Whole(give) <= n
  BY <1>2, OfLedger, OnePosting
<1> QED
  BY <1>1, <1>2

LEMMA DebitKeeps == ASSUME Inv, Debit PROVE Inv'
<1> DEFINE sources == {b \in Of(BalanceKinds) : Spendable(accounts[b].expiresAt)}
<1>1. PICK take \in Postings(sources) :
        \E give \in {Elsewhere} \union {At(b, Whole(take)) : b \in Of(BalanceKinds \union {"hold"})} :
            Transaction(take, give, Whole(take))
  BY DEF Debit
<1>2. sources \in SUBSET DOMAIN accounts
  BY OfLedger
<1> HIDE DEF sources
<1>3. IsPosting(take, accounts) /\ Whole(take) \in Nat
  BY <1>2, OfLedger, PostingsAre
<1>4. PICK give \in {Elsewhere} \union {At(b, Whole(take)) : b \in Of(BalanceKinds \union {"hold"})} :
        Transaction(take, give, Whole(take))
  BY <1>1
<1>5. IsPosting(give, accounts) /\ Whole(give) <= Whole(take)
  BY <1>3, GivenTo
<1> QED
  BY <1>3, <1>4, <1>5, TransactionKeeps

LEMMA ConfirmKeeps == ASSUME Inv, ConfirmHold PROVE Inv'
<1>1. PICK h \in Of({"hold"}) : \E n \in 1 .. accounts[h].amount :
        \E give \in {Elsewhere} \union {At(b, n) : b \in Of(BalanceKinds \union {"hold"})} :
            Transaction(At(h, n), give, n)
  BY DEF ConfirmHold
<1>2. PICK n \in 1 .. accounts[h].amount :
        \E give \in {Elsewhere} \union {At(b, n) : b \in Of(BalanceKinds \union {"hold"})} :
            Transaction(At(h, n), give, n)
  BY <1>1
<1>3. PICK give \in {Elsewhere} \union {At(b, n) : b \in Of(BalanceKinds \union {"hold"})} :
        Transaction(At(h, n), give, n)
  BY <1>2
<1>4. h \in DOMAIN accounts /\ n \in Nat
  BY OfLedger
<1>5. IsPosting(give, accounts) /\ Whole(give) <= n
  BY <1>4, GivenTo
<1>6. IsPosting(At(h, n), accounts) /\ Whole(At(h, n)) = n
  BY <1>4, OfLedger, OnePosting
<1> QED
  BY <1>3, <1>4, <1>5, <1>6, TransactionKeeps

LEMMA VoidKeeps == ASSUME Inv, VoidHold PROVE Inv'
<1>1. PICK h \in Of({"hold"}), give \in Postings(Of(BalanceKinds)) :
        Whole(give) = accounts[h].amount /\ Transaction(At(h, accounts[h].amount), give, accounts[h].amount)
  BY DEF VoidHold
<1>2. h \in DOMAIN accounts /\ accounts[h].amount \in Nat
  BY OfLedger
<1>3. IsPosting(At(h, accounts[h].amount), accounts) /\ Whole(At(h, accounts[h].amount)) = accounts[h].amount
  BY <1>2, OfLedger, OnePosting
<1>4. IsPosting(give, accounts)
  BY OfLedger, PostingsAre
<1> QED
  BY <1>1, <1>2, <1>3, <1>4, TransactionKeeps

LEMMA HoldKeeps == ASSUME Inv, Hold PROVE Inv'
<1> DEFINE sources == {b \in Of(BalanceKinds) : Spendable(accounts[b].expiresAt)}
<1>1. PICK h \in DOMAIN NewAccounts \ DOMAIN accounts, take \in Postings(sources) :
        /\ Covered(take)
        /\ Move(Added(Posted(take, Elsewhere), h, [NewAccounts[h] EXCEPT !.amount = Whole(take)]), Whole(take))
  BY DEF Hold
<1>2. sources \in SUBSET DOMAIN accounts /\ IsLedger(accounts)
  BY OfLedger
<1> HIDE DEF sources
<1> DEFINE n == Whole(take)
           mid == Posted(take, Elsewhere)
           item == [NewAccounts[h] EXCEPT !.amount = n]
           after == Added(mid, h, item)
<1>3. IsPosting(take, accounts) /\ n \in Nat
  BY <1>2, PostingsAre
<1>4. /\ IsLedger(mid) /\ DOMAIN mid = DOMAIN accounts
      /\ \A A, B : \E t \in 0 .. n, g \in 0 .. 0 : Total(mid, A, B) = Total(accounts, A, B) - t + g
  <2>1. /\ IsLedger(mid) /\ DOMAIN mid = DOMAIN accounts
        /\ \A A, B : \E t \in 0 .. n, g \in 0 .. Whole(Elsewhere) :
              Total(mid, A, B) = Total(accounts, A, B) - t + g
    BY <1>1, <1>2, <1>3, NoPosting, TotalPosted
  <2> QED
    BY <2>1, NoPosting
<1>5. Move(after, n)
  BY <1>1
<1> HIDE DEF mid, n
<1>6. IsAccount(item) /\ item.amount = n /\ h \in Int /\ h > Start
  <2> DEFINE new == NewAccounts[h]
  <2>1. IsAccount(new) /\ h \in Int /\ h > Start
    BY LedgerAssumption
  <2> HIDE DEF new
  <2>2. item = [kind |-> new.kind, wallet |-> new.wallet, name |-> new.name, custom |-> new.custom,
                expiresAt |-> new.expiresAt, amount |-> n]
    BY <2>1 DEF IsAccount, new
  <2> HIDE DEF item
  <2>3. /\ item.kind = new.kind /\ item.wallet = new.wallet /\ item.name = new.name
        /\ item.custom = new.custom /\ item.expiresAt = new.expiresAt /\ item.amount = n
    BY <2>2
  <2> QED
    BY <1>3, <2>1, <2>2, <2>3 DEF IsAccount
<1> HIDE DEF item
<1>7. /\ IsLedger(after)
      /\ \A A, B : Total(after, A, B) = Total(mid, A, B) + (IF Counts(h, item, A, B) THEN item.amount ELSE 0)
  BY <1>1, <1>4, <1>6, TotalAdded
<1> HIDE DEF after
<1>8. ASSUME NEW A, NEW B PROVE Abs(Total(after, A, B) - Total(accounts, A, B)) <= n
  <2> DEFINE e == IF Counts(h, item, A, B) THEN n ELSE 0
  <2>1. Total(accounts, A, B) \in Nat
    BY <1>2, WindowSums
  <2>2. PICK t \in 0 .. n : Total(mid, A, B) = Total(accounts, A, B) - t
    BY <1>4, <2>1
  <2>3. e \in {n, 0} /\ Total(after, A, B) = Total(mid, A, B) + e
    BY <1>6, <1>7
  <2> HIDE DEF e
  <2> QED
    BY <1>3, <2>1, <2>2, <2>3 DEF Abs
<1> QED
  BY <1>3, <1>5, <1>7, <1>8, MoveKeeps DEF Within

LEMMA CreateKeeps == ASSUME Inv, CreateBalance PROVE Inv'
<1>1. PICK b \in DOMAIN NewAccounts \ DOMAIN accounts : Move(Added(accounts, b, NewAccounts[b]), 0)
  BY DEF CreateBalance
<1> DEFINE item == NewAccounts[b]
           after == Added(accounts, b, item)
<1>2. IsAccount(item) /\ item.amount = 0 /\ b \in Int /\ b > Start /\ b \notin DOMAIN accounts /\ IsLedger(accounts)
  BY LedgerAssumption DEF Inv, LedgerOK
<1>3. Move(after, 0)
  BY <1>1
<1> HIDE DEF item
<1>4. /\ IsLedger(after)
      /\ \A A, B : Total(after, A, B) = Total(accounts, A, B) + (IF Counts(b, item, A, B) THEN item.amount ELSE 0)
  BY <1>2, TotalAdded
<1> HIDE DEF after
<1>5. ASSUME NEW A, NEW B PROVE Abs(Total(after, A, B) - Total(accounts, A, B)) <= 0
  <2>1. Total(accounts, A, B) \in Nat
    BY <1>2, WindowSums
  <2>2. Total(after, A, B) = Total(accounts, A, B) + 0
    BY <1>2, <1>4
  <2> QED
    BY <2>1, <2>2 DEF Abs
<1> QED
  BY <1>3, <1>4, <1>5, MoveKeeps DEF Within

-----------------------------------------------------------------------------
(* The handler.                                                              *)

LEMMA EmptyRows ==
    /\ IsRows(<<>>) /\ Len(<<>>) = 0 /\ DOMAIN <<>> = {}
    /\ Amounts(<<>>, DOMAIN <<>>) = 0 /\ \A rows : Amounts(rows, {}) = 0
<1>1. Len(<<>>) = 0 /\ DOMAIN <<>> = {} /\ <<>> = [n \in 1 .. Len(<<>>) |-> <<>>[n]]
  OBVIOUS
<1>2. IsRows(<<>>)
  BY <1>1 DEF IsRows
<1> QED
  BY <1>1, <1>2, SumEmpty

LEMMA NoneCounted ==
    ASSUME call.counted = 0, call.availableFunds = 0, call.expiredFunds = 0, call.expirableFunds = 0
    PROVE  \E V, X, K \in SUBSET (1 .. call.counted) : CountedAs(V, X, K)
<1>1. CountedAs({}, {}, {})
  <2>1. \A rows : Amounts(rows, {}) = 0
    BY EmptyRows
  <2>2. 1 .. call.counted = {} /\ {n \in {} : call.balances[n].expiresAt # Never} = {}
    OBVIOUS
  <2> QED
    BY <2>1, <2>2 DEF CountedAs
<1>2. {} \in SUBSET (1 .. call.counted)
  OBVIOUS
<1> QED
  BY <1>1, <1>2

LEMMA InitInv == Init => Inv
<1> SUFFICES ASSUME Init PROVE Inv
  OBVIOUS
<1>1. /\ now = 0 /\ accounts = FirstAccounts /\ call = Idle /\ moved = 0
      /\ before = [funds |-> 0, now |-> 0, changed |-> FALSE]
  BY DEF Init
<1>2. /\ call.step = "idle" /\ call.balances = <<>> /\ call.holds = <<>> /\ call.holdFunds = 0
      /\ call.counted = 0 /\ call.availableFunds = 0 /\ call.expiredFunds = 0 /\ call.expirableFunds = 0
      /\ IsCall
  BY <1>1 DEF Idle, IsCall
<1>3. LedgerOK
  BY <1>1, LedgerAssumption DEF LedgerOK, IsLedger
<1>4. CallOK
  BY <1>2, EmptyRows DEF CallOK
<1>5. TotalsOK
  <2>1. 0 \in 0 .. Len(call.balances)
    BY <1>2, EmptyRows
  <2> QED
    BY <1>2, <2>1, NoneCounted DEF TotalsOK
<1> QED
  BY <1>2, <1>3, <1>4, <1>5 DEF Inv, ErrorOK, QuietOK

LEMMA TickKeeps == ASSUME Inv, Tick PROVE Inv'
<1>1. /\ now' = now + 1 /\ accounts' = accounts /\ call' = call /\ before' = before /\ moved' = moved
  BY DEF Tick
<1>2. /\ LedgerOK /\ CallOK /\ ErrorOK /\ QuietOK /\ TotalsOK
      /\ now \in Nat /\ before.now \in Nat /\ before.now <= now
  BY DEF Inv, LedgerOK
<1>3. LedgerOK'
  <2>1. now + 1 \in Nat /\ before.now <= now + 1
    BY <1>2
  <2> QED
    BY <1>1, <1>2, <2>1 DEF LedgerOK
<1>4. CallOK'
  BY <1>1, <1>2 DEF CallOK, IsCall, IsCursor
<1>5. ErrorOK'
  BY <1>1, <1>2 DEF ErrorOK, FundsIn, BalancesAhead, HoldsAhead
<1>6. QuietOK'
  BY <1>1, <1>2 DEF QuietOK, HoldsAhead, PlacesOf
<1>7. TotalsOK'
  <2>1. /\ call.step # "failed" => \E V, X, K \in SUBSET (1 .. call.counted) : CountedAs(V, X, K)
        /\ \A n \in 1 .. call.counted : IsRow(call.balances[n])
    <3>1. \A n \in 1 .. call.counted : n \in 1 .. Len(call.balances)
      BY <1>2 DEF TotalsOK, CallOK, IsRows
    <3> QED
      BY <1>2, <3>1 DEF TotalsOK, CallOK, IsRows
  <2>2. Expiry' = Expiry
    BY <1>1 DEF Expiry, Counting
  <2>3. ASSUME NEW V \in SUBSET (1 .. call.counted), NEW X \in SUBSET (1 .. call.counted),
               NEW K \in SUBSET (1 .. call.counted), CountedAs(V, X, K)
        PROVE  CountedAs(V, X, K)'
    <3>1. ASSUME NEW n \in 1 .. call.counted, call.balances[n].expiresAt # Never, call.balances[n].expiresAt < now
          PROVE  call.balances[n].expiresAt < now'
      <4>1. call.balances[n].expiresAt \in Int
        BY <2>1, <3>1 DEF IsRow
      <4> QED
        BY <1>1, <1>2, <3>1, <4>1
    <3> QED
      BY <1>1, <2>3, <3>1 DEF CountedAs
  <2> QED
    BY <1>1, <1>2, <2>1, <2>2, <2>3 DEF TotalsOK
<1> QED
  BY <1>3, <1>4, <1>5, <1>6, <1>7 DEF Inv

LEMMA BeginKeeps == ASSUME Inv, Begin PROVE Inv'
<1>1. /\ call' = [Idle EXCEPT !.step = "balances"]
      /\ before' = [funds |-> Amounts(accounts, Of(BalanceKinds \union {"hold"})), now |-> now, changed |-> FALSE]
      /\ moved' = 0 /\ now' = now /\ accounts' = accounts
  BY DEF Begin
<1>2. /\ call'.step = "balances" /\ call'.balances = <<>> /\ call'.holds = <<>> /\ call'.holdFunds = 0
      /\ call'.counted = 0 /\ call'.availableFunds = 0 /\ call'.expiredFunds = 0 /\ call'.expirableFunds = 0
      /\ call'.cursor = NoCursor /\ IsCall'
  BY <1>1 DEF Idle, IsCall
<1>3. IsLedger(accounts) /\ now \in Nat
  BY DEF Inv, LedgerOK
<1>4. /\ before'.funds = Total(accounts, Int, Int) /\ before'.now = now /\ before'.changed = FALSE
      /\ Total(accounts, Int, Int) \in Nat
      /\ Total(accounts, Int, Int) = Total(accounts, Int, {}) + Total(accounts, {}, Int)
  BY <1>1, <1>3, WholeWindow, WindowSums DEF Total
<1>5. LedgerOK'
  <2>1. before' = [funds |-> before'.funds, now |-> before'.now, changed |-> before'.changed]
    BY <1>1
  <2> QED
    BY <1>1, <1>3, <1>4, <2>1 DEF LedgerOK
<1>6. CallOK'
  BY <1>2, EmptyRows DEF CallOK, IsCursor
<1>7. FundsIn(accounts)' = Total(accounts, Int, Int)
  <2>1. BalancesAhead(accounts)' = Total(accounts, Int, {})
    BY <1>1, <1>2, <1>3, WholeWindow DEF BalancesAhead, Shown, Total
  <2>2. HoldsAhead(accounts)' = Total(accounts, {}, Int)
    BY <1>1, <1>2 DEF HoldsAhead
  <2> QED
    BY <1>2, <1>4, <2>1, <2>2, EmptyRows DEF FundsIn
<1>8. ErrorOK'
  <2>1. Total(accounts, Int, Int) - Total(accounts, Int, Int) = 0
    BY <1>4
  <2> QED
    BY <1>1, <1>4, <1>7, <2>1 DEF ErrorOK, Abs
<1>9. QuietOK'
  <2>1. call'.holdFunds + HoldsAhead(accounts)' = Total(accounts, {}, Int)
    <3>1. Total(accounts, {}, Int) \in Nat
      BY <1>3, WindowSums
    <3> QED
      BY <1>1, <1>2, <3>1 DEF HoldsAhead
  <2>2. \A i \in Window(accounts, Int, {}) : i \in Ahead(NoCursor)
    BY <1>3 DEF Window, Ahead, IsLedger
  <2>3. DOMAIN call'.balances = {}
    BY <1>2, EmptyRows
  <2> QED
    BY <1>1, <1>2, <2>1, <2>2, <2>3 DEF QuietOK
<1>10. TotalsOK'
  <2>1. 0 \in 0 .. Len(call'.balances)
    BY <1>2, EmptyRows
  <2>2. (\E V, X, K \in SUBSET (1 .. call.counted) : CountedAs(V, X, K))'
    <3>1. CountedAs({}, {}, {})'
      <4>1. \A rows : Amounts(rows, {}) = 0
        BY EmptyRows
      <4>2. 1 .. call'.counted = {} /\ {n \in {} : call'.balances[n].expiresAt # Never} = {}
        BY <1>2
      <4> QED
        BY <1>2, <4>1, <4>2 DEF CountedAs
    <3>2. {} \in SUBSET (1 .. call'.counted)
      OBVIOUS
    <3> QED
      BY <3>1, <3>2
  <2> QED
    BY <1>2, <2>1, <2>2 DEF TotalsOK
<1> QED
  BY <1>5, <1>6, <1>8, <1>9, <1>10 DEF Inv

LEMMA FailKeeps == ASSUME Inv, FetchFails PROVE Inv'
<1>1. /\ call' = [call EXCEPT !.step = "failed"] /\ call.step \in {"balances", "holds"}
      /\ now' = now /\ accounts' = accounts /\ before' = before /\ moved' = moved
  BY DEF FetchFails
<1>2. LedgerOK /\ CallOK /\ TotalsOK /\ IsCall
  BY DEF Inv, CallOK
<1>3. /\ call'.step = "failed" /\ call'.balances = call.balances /\ call'.holds = call.holds
      /\ call'.holdFunds = call.holdFunds /\ call'.counted = call.counted /\ IsCall'
  BY <1>1, <1>2 DEF IsCall
<1>4. LedgerOK' /\ CallOK' /\ ErrorOK' /\ QuietOK' /\ TotalsOK'
  BY <1>1, <1>2, <1>3 DEF LedgerOK, CallOK, ErrorOK, QuietOK, TotalsOK
<1> QED
  BY <1>4 DEF Inv

-----------------------------------------------------------------------------
(* Counting.                                                                 *)

LEMMA CountingKeeps ==
    ASSUME Inv, call.step \in {"count", "again"}, call'.step \in {"count", "again", "holds"}, IsCall',
           call'.balances = call.balances, call'.holds = call.holds, call'.holdFunds = call.holdFunds,
           call'.cursor = call.cursor, UNCHANGED <<now, accounts, before, moved>>
    PROVE  LedgerOK' /\ CallOK' /\ ErrorOK' /\ QuietOK'
<1>1. LedgerOK /\ CallOK /\ ErrorOK /\ QuietOK /\ IsLedger(accounts) /\ call.cursor = NoCursor
  BY DEF Inv, LedgerOK, CallOK
<1>2. LedgerOK'
  BY <1>1 DEF LedgerOK
<1>3. CallOK'
  <2>1. call.holds = <<>> /\ IsRows(call.balances)
    BY <1>1 DEF CallOK
  <2> QED
    BY <1>1, <2>1 DEF CallOK, IsCursor
<1>4. HoldsAhead(accounts)' = HoldsAhead(accounts) /\ BalancesAhead(accounts)' = BalancesAhead(accounts)
  <2>1. HoldsAhead(accounts) = Total(accounts, {}, Int) /\ BalancesAhead(accounts) = 0
    BY DEF HoldsAhead, BalancesAhead
  <2>2. Total(accounts, {}, Ahead(NoCursor)) = Total(accounts, {}, Int)
    BY <1>1, WholeWindow DEF Total
  <2>3. HoldsAhead(accounts)' = Total(accounts, {}, Int) /\ BalancesAhead(accounts)' = 0
    BY <1>1, <2>2 DEF HoldsAhead, BalancesAhead, Shown
  <2> QED
    BY <2>1, <2>3
<1>5. ErrorOK'
  BY <1>1, <1>4 DEF ErrorOK, FundsIn
<1>6. QuietOK'
  BY <1>1, <1>4 DEF QuietOK, PlacesOf
<1> QED
  BY <1>2, <1>3, <1>5, <1>6

\* The row that is counted.
LEMMA NextRow ==
    ASSUME Inv, call.step \in {"count", "again"}, call.counted < Len(call.balances)
    PROVE  /\ call.counted \in Nat /\ call.counted + 1 \in 0 .. Len(call.balances)
           /\ 1 .. call.counted + 1 = (1 .. call.counted) \union {call.counted + 1}
           /\ call.counted + 1 \notin 1 .. call.counted
           /\ IsAmounts(call.balances, 1 .. call.counted)
           /\ Counting = call.balances[call.counted + 1]
           /\ Counting.amount \in Nat /\ Expiry = Counting.expiresAt /\ (Expiry # Never => Expiry \in Int)
           /\ now \in Nat /\ before.now \in Nat /\ before.now <= now
           /\ IsCall /\ IsFiniteSet(1 .. call.counted)
<1>1. /\ call.counted \in 0 .. Len(call.balances) /\ IsRows(call.balances) /\ IsCall
      /\ now \in Nat /\ before.now \in Nat /\ before.now <= now
  BY DEF Inv, LedgerOK, CallOK, TotalsOK
<1>2. Len(call.balances) \in Nat /\ \A n \in 1 .. Len(call.balances) : IsRow(call.balances[n])
  BY <1>1 DEF IsRows
<1>3. /\ call.counted \in Nat /\ call.counted + 1 \in 0 .. Len(call.balances)
      /\ call.counted + 1 \in 1 .. Len(call.balances)
      /\ 1 .. call.counted + 1 = (1 .. call.counted) \union {call.counted + 1}
      /\ call.counted + 1 \notin 1 .. call.counted
      /\ 1 .. call.counted \subseteq 1 .. Len(call.balances)
  BY <1>1, <1>2
<1>4. IsFiniteSet(1 .. call.counted)
  BY <1>3, FS_Interval
<1>5. IsAmounts(call.balances, 1 .. call.counted)
  BY <1>2, <1>3, <1>4 DEF IsAmounts, IsRow
<1>6. IsRow(Counting)
  BY <1>2, <1>3 DEF Counting
<1> QED
  BY <1>1, <1>3, <1>4, <1>5, <1>6 DEF Expiry, Counting, IsRow

\* The totals are those of the rows with one more.
LEMMA CountedOne ==
    ASSUME Inv, call.step \in {"count", "again"}, call.counted < Len(call.balances),
           call'.counted = call.counted + 1, call'.balances = call.balances, UNCHANGED <<now, before>>,
           NEW V, V \in SUBSET (1 .. call.counted), NEW X, X \in SUBSET (1 .. call.counted),
           NEW K, K \in SUBSET (1 .. call.counted), CountedAs(V, X, K),
           \/ /\ Expiry = Never \/ before.now <= Expiry
              /\ call'.availableFunds = call.availableFunds + Counting.amount
              /\ call'.expirableFunds = call.expirableFunds + (IF Expiry = Never THEN 0 ELSE Counting.amount)
              /\ call'.expiredFunds = call.expiredFunds
           \/ /\ Expiry # Never /\ Expiry < now
              /\ call'.availableFunds = call.availableFunds /\ call'.expirableFunds = call.expirableFunds
              /\ call'.expiredFunds = call.expiredFunds + Counting.amount
           \/ /\ Expiry # Never /\ before.now <= Expiry /\ Expiry < now
              /\ call'.availableFunds = call.availableFunds /\ call'.expirableFunds = call.expirableFunds
              /\ call'.expiredFunds = call.expiredFunds
    PROVE  (\E P, Q, R \in SUBSET (1 .. call.counted) : CountedAs(P, Q, R))'
<1> DEFINE n == call.counted + 1
           bal == call.balances
           e(m) == bal[m].expiresAt
           E == {m \in V : e(m) # Never}
<1>1. /\ n \notin 1 .. call.counted /\ 1 .. n = (1 .. call.counted) \union {n}
      /\ Counting = bal[n] /\ e(n) = Expiry /\ bal[n].amount \in Int /\ (Expiry # Never => Expiry \in Int)
      /\ IsAmounts(bal, 1 .. call.counted) /\ before.now \in Nat /\ IsFiniteSet(1 .. call.counted)
  BY NextRow
<1>2. /\ V \union X \union K = 1 .. call.counted
      /\ V \intersect X = {} /\ V \intersect K = {} /\ X \intersect K = {}
      /\ call.availableFunds = Amounts(bal, V) /\ call.expiredFunds = Amounts(bal, X)
      /\ call.expirableFunds = Amounts(bal, E)
      /\ \A m \in V : e(m) = Never \/ e(m) >= before.now
      /\ \A m \in X : e(m) # Never /\ e(m) < now
      /\ \A m \in K : e(m) # Never /\ before.now <= e(m) /\ e(m) < now
  BY DEF CountedAs
<1>3. call'.balances = bal /\ call'.counted = n /\ now' = now /\ before' = before
  OBVIOUS
<1>4. /\ E \in SUBSET (1 .. call.counted) /\ n \notin V /\ n \notin X /\ n \notin K /\ n \notin E
      /\ V \in SUBSET (1 .. n) /\ X \in SUBSET (1 .. n) /\ K \in SUBSET (1 .. n)
      /\ V \union {n} \in SUBSET (1 .. n) /\ X \union {n} \in SUBSET (1 .. n) /\ K \union {n} \in SUBSET (1 .. n)
  <2> HIDE DEF n, bal
  <2> QED
    BY <1>1, <1>2
<1>5. \A T \in SUBSET (1 .. call.counted) :
        n \notin T => /\ Amounts(bal, T \union {n}) = Amounts(bal, T) + Counting.amount
                      /\ Amounts(bal, T) \in Int
  <2> SUFFICES ASSUME NEW T \in SUBSET (1 .. call.counted), n \notin T
               PROVE  /\ Amounts(bal, T \union {n}) = Amounts(bal, T) + Counting.amount
                      /\ Amounts(bal, T) \in Int
    OBVIOUS
  <2> HIDE DEF n, bal
  <2>1. IsAmounts(bal, T)
    BY <1>1, FS_Subset DEF IsAmounts
  <2> QED
    BY <1>1, <2>1, SumAdd, SumInt
<1> HIDE DEF n, bal
<1>6. CASE /\ Expiry = Never \/ before.now <= Expiry
           /\ call'.availableFunds = call.availableFunds + Counting.amount
           /\ call'.expirableFunds = call.expirableFunds + (IF Expiry = Never THEN 0 ELSE Counting.amount)
           /\ call'.expiredFunds = call.expiredFunds
  <2>0. PICK W : W = V \union {n}
    OBVIOUS
  <2> DEFINE F == {m \in W : e(m) # Never}
  <2>1. F = IF Expiry = Never THEN E ELSE E \union {n}
    BY <1>1, <2>0
  <2>2. call'.availableFunds = Amounts(bal, W) /\ call'.expirableFunds = Amounts(bal, F)
    <3>1. Amounts(bal, E) \in Int /\ Amounts(bal, E \union {n}) = Amounts(bal, E) + Counting.amount
      BY <1>4, <1>5
    <3>2. call'.availableFunds = Amounts(bal, W)
      BY <1>2, <1>4, <1>5, <1>6, <2>0
    <3> HIDE DEF E, F
    <3>3. call'.expirableFunds = Amounts(bal, F)
      BY <1>2, <1>6, <2>1, <3>1
    <3> QED
      BY <3>2, <3>3
  <2>3. \A m \in W : e(m) = Never \/ e(m) >= before.now
    BY <1>1, <1>2, <1>6, <2>0
  <2>4. W \union X \union K = 1 .. n /\ W \intersect X = {} /\ W \intersect K = {}
    BY <1>1, <1>2, <1>4, <2>0
  <2>5. CountedAs(W, X, K)'
    <3>1. {m \in W : call'.balances[m].expiresAt # Never} = F
      BY <1>3
    <3> HIDE DEF F
    <3> QED
      BY <1>2, <1>3, <1>6, <2>2, <2>3, <2>4, <3>1 DEF CountedAs
  <2>6. W \in SUBSET (1 .. call'.counted) /\ X \in SUBSET (1 .. call'.counted) /\ K \in SUBSET (1 .. call'.counted)
    BY <1>3, <1>4, <2>0
  <2> QED
    BY <2>5, <2>6
<1>7. CASE /\ Expiry # Never /\ Expiry < now
           /\ call'.availableFunds = call.availableFunds /\ call'.expirableFunds = call.expirableFunds
           /\ call'.expiredFunds = call.expiredFunds + Counting.amount
  <2>0. PICK W : W = X \union {n}
    OBVIOUS
  <2>1. call'.expiredFunds = Amounts(bal, W)
    BY <1>2, <1>4, <1>5, <1>7, <2>0
  <2>2. \A m \in W : e(m) # Never /\ e(m) < now
    BY <1>1, <1>2, <1>7, <2>0
  <2>3. V \union W \union K = 1 .. n /\ V \intersect W = {} /\ W \intersect K = {}
    BY <1>1, <1>2, <1>4, <2>0
  <2>4. CountedAs(V, W, K)'
    <3>1. {m \in V : call'.balances[m].expiresAt # Never} = E
      BY <1>3
    <3> HIDE DEF E
    <3> QED
      BY <1>2, <1>3, <1>7, <2>1, <2>2, <2>3, <3>1 DEF CountedAs
  <2>5. W \in SUBSET (1 .. call'.counted) /\ V \in SUBSET (1 .. call'.counted) /\ K \in SUBSET (1 .. call'.counted)
    BY <1>3, <1>4, <2>0
  <2> QED
    BY <2>4, <2>5
<1>8. CASE /\ Expiry # Never /\ before.now <= Expiry /\ Expiry < now
           /\ call'.availableFunds = call.availableFunds /\ call'.expirableFunds = call.expirableFunds
           /\ call'.expiredFunds = call.expiredFunds
  <2>0. PICK W : W = K \union {n}
    OBVIOUS
  <2>1. \A m \in W : e(m) # Never /\ before.now <= e(m) /\ e(m) < now
    BY <1>1, <1>2, <1>8, <2>0
  <2>2. V \union X \union W = 1 .. n /\ V \intersect W = {} /\ X \intersect W = {}
    BY <1>1, <1>2, <1>4, <2>0
  <2>3. CountedAs(V, X, W)'
    <3>1. {m \in V : call'.balances[m].expiresAt # Never} = E
      BY <1>3
    <3> HIDE DEF E
    <3> QED
      BY <1>2, <1>3, <1>8, <2>1, <2>2, <3>1 DEF CountedAs
  <2>4. W \in SUBSET (1 .. call'.counted) /\ V \in SUBSET (1 .. call'.counted) /\ X \in SUBSET (1 .. call'.counted)
    BY <1>3, <1>4, <2>0
  <2> QED
    BY <2>3, <2>4
<1> QED
  BY <1>6, <1>7, <1>8

LEMMA CountExpiredKeeps == ASSUME Inv, CountExpired PROVE Inv'
<1>1. /\ call.step = "count" /\ call.counted < Len(call.balances)
      /\ call' = IF Expiry = Never
                 THEN [call EXCEPT !.counted = @ + 1, !.availableFunds = @ + Counting.amount]
                 ELSE IF Expiry < now
                 THEN [call EXCEPT !.counted = @ + 1, !.expiredFunds = @ + Counting.amount]
                 ELSE [call EXCEPT !.step = "again"]
      /\ UNCHANGED <<now, accounts, before, moved>>
  BY DEF CountExpired
<1>2. IsCall /\ TotalsOK
  BY DEF Inv, CallOK
<1>3. IsCall' /\ call'.balances = call.balances /\ call'.holds = call.holds /\ call'.holdFunds = call.holdFunds
      /\ call'.cursor = call.cursor /\ call'.expirableFunds = call.expirableFunds
  BY <1>1, <1>2 DEF IsCall
<1>4. \/ /\ Expiry = Never /\ call'.step = "count" /\ call'.counted = call.counted + 1
         /\ call'.availableFunds = call.availableFunds + Counting.amount
         /\ call'.expiredFunds = call.expiredFunds
      \/ /\ Expiry # Never /\ Expiry < now /\ call'.step = "count" /\ call'.counted = call.counted + 1
         /\ call'.availableFunds = call.availableFunds
         /\ call'.expiredFunds = call.expiredFunds + Counting.amount
      \/ /\ Expiry # Never /\ ~(Expiry < now) /\ call'.step = "again" /\ call'.counted = call.counted
         /\ call'.availableFunds = call.availableFunds /\ call'.expiredFunds = call.expiredFunds
  BY <1>1, <1>2 DEF IsCall
<1>5. LedgerOK' /\ CallOK' /\ ErrorOK' /\ QuietOK'
  BY <1>1, <1>3, <1>4, CountingKeeps
<1>6. PICK V \in SUBSET (1 .. call.counted), X \in SUBSET (1 .. call.counted), K \in SUBSET (1 .. call.counted) :
        CountedAs(V, X, K)
  BY <1>1, <1>2 DEF TotalsOK
<1>7. /\ call.counted + 1 \in 0 .. Len(call.balances) /\ call.counted \in Nat
      /\ (Expiry # Never => Expiry \in Int) /\ now \in Nat /\ before.now \in Nat /\ before.now <= now
      /\ Counting.amount \in Nat
  BY <1>1, NextRow
<1>8. TotalsOK'
  <2>1. CASE call'.step = "count" /\ call'.counted = call.counted + 1
    <3>1. call.expirableFunds + 0 = call.expirableFunds
      <4>1. IsAmounts(call.balances, 1 .. call.counted)
        BY <1>1, NextRow
      <4>2. /\ call.expirableFunds = Amounts(call.balances, {n \in V : call.balances[n].expiresAt # Never})
            /\ {n \in V : call.balances[n].expiresAt # Never} \in SUBSET (1 .. call.counted)
        BY <1>6 DEF CountedAs
      <4> DEFINE E == {n \in V : call.balances[n].expiresAt # Never}
      <4>3. call.expirableFunds \in Int
        <5> HIDE DEF E
        <5> QED
          BY <4>1, <4>2, SumInt DEF E
      <4> QED
        BY <4>3
    <3>2. (\E P, Q, R \in SUBSET (1 .. call.counted) : CountedAs(P, Q, R))'
      BY <1>1, <1>3, <1>4, <1>6, <2>1, <3>1, CountedOne
    <3> QED
      BY <1>3, <1>7, <2>1, <3>2 DEF TotalsOK
  <2>2. CASE Expiry # Never /\ ~(Expiry < now) /\ call'.step = "again" /\ call'.counted = call.counted
             /\ call'.availableFunds = call.availableFunds /\ call'.expiredFunds = call.expiredFunds
    <3>1. Expiry' = Expiry
      BY <1>3, <2>2 DEF Expiry, Counting
    <3>2. before.now <= Expiry
      BY <1>7, <2>2
    <3>3. CountedAs(V, X, K)'
      BY <1>1, <1>3, <1>6, <2>2 DEF CountedAs
    <3>4. (\E P, Q, R \in SUBSET (1 .. call.counted) : CountedAs(P, Q, R))'
      BY <2>2, <3>3
    <3> QED
      BY <1>1, <1>2, <1>3, <2>2, <3>1, <3>2, <3>4 DEF TotalsOK
  <2> QED
    BY <1>4, <2>1, <2>2
<1> QED
  BY <1>5, <1>8 DEF Inv

LEMMA CountExpirableKeeps == ASSUME Inv, CountExpirable PROVE Inv'
<1>1. /\ call.step = "again"
      /\ call' = IF Expiry < now
                 THEN [call EXCEPT !.step = "count", !.counted = @ + 1]
                 ELSE [call EXCEPT !.step = "count", !.counted = @ + 1,
                                   !.expirableFunds = @ + Counting.amount,
                                   !.availableFunds = @ + Counting.amount]
      /\ UNCHANGED <<now, accounts, before, moved>>
  BY DEF CountExpirable
<1>2. IsCall /\ TotalsOK /\ call.counted < Len(call.balances) /\ Expiry # Never /\ before.now <= Expiry
  BY <1>1 DEF Inv, CallOK, TotalsOK
<1>3. IsCall' /\ call'.balances = call.balances /\ call'.holds = call.holds /\ call'.holdFunds = call.holdFunds
      /\ call'.cursor = call.cursor /\ call'.expiredFunds = call.expiredFunds
      /\ call'.step = "count" /\ call'.counted = call.counted + 1
  BY <1>1, <1>2 DEF IsCall
<1>4. \/ /\ Expiry < now
         /\ call'.availableFunds = call.availableFunds /\ call'.expirableFunds = call.expirableFunds
      \/ /\ ~(Expiry < now)
         /\ call'.availableFunds = call.availableFunds + Counting.amount
         /\ call'.expirableFunds = call.expirableFunds + Counting.amount
  BY <1>1, <1>2 DEF IsCall
<1>5. LedgerOK' /\ CallOK' /\ ErrorOK' /\ QuietOK'
  BY <1>1, <1>3, CountingKeeps
<1>6. PICK V \in SUBSET (1 .. call.counted), X \in SUBSET (1 .. call.counted), K \in SUBSET (1 .. call.counted) :
        CountedAs(V, X, K)
  BY <1>1, <1>2 DEF TotalsOK
<1>7. (\E P, Q, R \in SUBSET (1 .. call.counted) : CountedAs(P, Q, R))'
  BY <1>1, <1>2, <1>3, <1>4, <1>6, CountedOne
<1>8. TotalsOK'
  <2>1. call.counted + 1 \in 0 .. Len(call.balances)
    BY <1>1, <1>2, NextRow
  <2> QED
    BY <1>3, <1>7, <2>1 DEF TotalsOK
<1> QED
  BY <1>5, <1>8 DEF Inv

LEMMA CountedKeeps == ASSUME Inv, Counted PROVE Inv'
<1>1. /\ call.step = "count" /\ call.counted = Len(call.balances) /\ call' = [call EXCEPT !.step = "holds"]
      /\ UNCHANGED <<now, accounts, before, moved>>
  BY DEF Counted
<1>2. IsCall /\ TotalsOK
  BY DEF Inv, CallOK
<1>3. IsCall' /\ call'.balances = call.balances /\ call'.holds = call.holds /\ call'.holdFunds = call.holdFunds
      /\ call'.cursor = call.cursor /\ call'.expiredFunds = call.expiredFunds /\ call'.counted = call.counted
      /\ call'.availableFunds = call.availableFunds /\ call'.expirableFunds = call.expirableFunds
      /\ call'.step = "holds"
  BY <1>1, <1>2 DEF IsCall
<1>4. LedgerOK' /\ CallOK' /\ ErrorOK' /\ QuietOK'
  BY <1>1, <1>3, CountingKeeps
<1>5. PICK V \in SUBSET (1 .. call.counted), X \in SUBSET (1 .. call.counted), K \in SUBSET (1 .. call.counted) :
        CountedAs(V, X, K)
  BY <1>1, <1>2 DEF TotalsOK
<1>6. CountedAs(V, X, K)'
  BY <1>1, <1>3, <1>5 DEF CountedAs
<1>7. TotalsOK'
  BY <1>1, <1>2, <1>3, <1>5, <1>6 DEF TotalsOK
<1> QED
  BY <1>4, <1>7 DEF Inv

-----------------------------------------------------------------------------
(* Listing.                                                                  *)

\* What is ahead of a page, and of the next one.
LEMMA AheadOfPages ==
    ASSUME NEW seen, IsLedger(seen), NEW cursor, NEW next, NEW rows,
           cursor # NoCursor => cursor.after \in Int,
           NEW query \in {BalancesQuery, HoldsQuery},
           NEW S, S = Listable(seen, query, cursor), Reads(rows, next, seen, S)
    PROVE  /\ next # NoCursor => Ahead(next) \subseteq Ahead(cursor) /\ S \intersect Ahead(next) = Listable(seen, query, next)
           /\ \A i \in Ahead(cursor), j \in Int \ Ahead(cursor) : j < i
<1> DEFINE after == IF cursor = NoCursor THEN Start ELSE cursor.after
<1>1. after \in Int /\ Ahead(cursor) = {i \in Int : i > after}
  BY DEF Start, Ahead
<1> HIDE DEF after
<1>2. ASSUME next # NoCursor
      PROVE  Ahead(next) \subseteq Ahead(cursor) /\ S \intersect Ahead(next) = Listable(seen, query, next)
  <2>1. next.after \in S /\ S \subseteq Ahead(cursor)
    BY <1>2 DEF Reads, Listable
  <2>2. Ahead(next) = {i \in Int : i > next.after} /\ next.after \in Int /\ next.after > after
    BY <1>1, <1>2, <2>1 DEF Ahead
  <2>3. Ahead(next) \subseteq Ahead(cursor)
    BY <1>1, <2>2
  <2> QED
    BY <2>3 DEF Listable
<1>3. \A i \in Ahead(cursor), j \in Int \ Ahead(cursor) : j < i
  BY <1>1
<1> QED
  BY <1>2, <1>3

LEMMA FetchBalancesKeeps == ASSUME Inv, FetchBalances PROVE Inv'
<1>1. PICK view \in Views(accounts) :
        call' = [call EXCEPT
                   !.balances = @ \o Rows(fetchAndMapAllAccounts(BalancesQuery, view)),
                   !.cursor = fetchAndMapAllAccounts(BalancesQuery, view).next,
                   !.step = IF fetchAndMapAllAccounts(BalancesQuery, view).next = NoCursor
                            THEN "count" ELSE "balances"]
  BY DEF FetchBalances
<1>2. PICK page : page = fetchAndMapAllAccounts(BalancesQuery, view)
  OBVIOUS
<1>3. PICK rows : rows = Rows(page)
  OBVIOUS
<1>4. PICK seen : seen = Shown(accounts, call.cursor)
  OBVIOUS
<1>5. call.step = "balances" /\ now' = now /\ accounts' = accounts /\ before' = before /\ moved' = moved
  BY DEF FetchBalances
<1>6. /\ LedgerOK /\ CallOK /\ ErrorOK /\ QuietOK /\ TotalsOK /\ IsCall /\ IsLedger(accounts)
      /\ IsCursor(call.cursor, BalancesQuery) /\ before.changed \in BOOLEAN /\ IsRows(call.balances)
      /\ call.counted = 0 /\ call.holds = <<>>
  BY <1>5 DEF Inv, LedgerOK, CallOK, TotalsOK
<1>7. /\ call'.balances = call.balances \o rows /\ call'.cursor = page.next
      /\ call'.step = (IF page.next = NoCursor THEN "count" ELSE "balances")
      /\ IsCall' /\ call'.holds = call.holds /\ call'.holdFunds = call.holdFunds /\ call'.counted = 0
      /\ call'.availableFunds = call.availableFunds /\ call'.expiredFunds = call.expiredFunds
      /\ call'.expirableFunds = call.expirableFunds
  BY <1>1, <1>2, <1>3, <1>6 DEF IsCall
<1> DEFINE S == Listable(seen, BalancesQuery, call.cursor)
           all == call.balances \o rows
           next == page.next
           a == Len(call.balances)
           b == Len(rows)
<1>8. /\ IsLedger(seen) /\ Reads(rows, next, seen, S)
      /\ next # NoCursor => IsCursor(next, BalancesQuery) /\ Shown(accounts, next) = seen
      /\ ~before.changed => seen = accounts
  BY <1>2, <1>3, <1>4, <1>6, PagesOfSummary
<1>9. /\ S = Window(seen, Ahead(call.cursor), {})
      /\ next # NoCursor => /\ Ahead(next) \subseteq Ahead(call.cursor)
                            /\ S \intersect Ahead(next) = Window(seen, Ahead(next), {})
      /\ \A i \in Ahead(call.cursor), j \in Int \ Ahead(call.cursor) : j < i
  <2>1. call.cursor # NoCursor => call.cursor.after \in Int
    BY <1>6 DEF IsCursor
  <2> HIDE DEF next
  <2>2. /\ next # NoCursor => /\ Ahead(next) \subseteq Ahead(call.cursor)
                              /\ S \intersect Ahead(next) = Listable(seen, BalancesQuery, next)
        /\ \A i \in Ahead(call.cursor), j \in Int \ Ahead(call.cursor) : j < i
    BY <1>8, <2>1, AheadOfPages
  <2> QED
    BY <1>8, <2>2, QueriesFind
<1>10. /\ IsRows(rows) /\ IsRows(all) /\ a \in Nat /\ b \in Nat /\ Len(all) = a + b
       /\ \A n \in 1 .. a : all[n] = call.balances[n]
       /\ \A n \in 1 .. b : all[a + n] = rows[n]
       /\ Amounts(all, DOMAIN all) = Amounts(call.balances, DOMAIN call.balances) + Amounts(rows, 1 .. b)
       /\ DOMAIN all = 1 .. a + b /\ DOMAIN rows = 1 .. b /\ DOMAIN call.balances = 1 .. a
  <2>1. IsRows(rows)
    BY <1>8 DEF Reads
  <2> HIDE DEF all, a, b
  <2>2. Joined(all, call.balances, rows)
    BY <1>6, <2>1, SumOfLists DEF all
  <2>4. /\ IsRows(all) /\ Len(all) = a + b
        /\ \A n \in 1 .. a : all[n] = call.balances[n]
        /\ \A n \in 1 .. b : all[a + n] = rows[n]
        /\ Amounts(all, DOMAIN all) = Amounts(call.balances, DOMAIN call.balances) + Amounts(rows, DOMAIN rows)
    BY <2>2 DEF Joined, a, b
  <2>5. /\ DOMAIN all = 1 .. Len(all) /\ DOMAIN rows = 1 .. b /\ DOMAIN call.balances = 1 .. a
        /\ a \in Nat /\ b \in Nat
    BY <1>6, <2>1, <2>4 DEF IsRows, a, b
  <2> QED
    BY <2>1, <2>4, <2>5
<1> HIDE DEF S, all, next, a, b
<1>11. LedgerOK'
  BY <1>5, <1>6 DEF LedgerOK
<1>12. CallOK'
  <2>1. IsCursor(next, BalancesQuery)'
    BY <1>5, <1>7, <1>8 DEF IsCursor, next
  <2>2. IsRows(call'.balances)
    BY <1>7, <1>10 DEF all
  <2> QED
    BY <1>6, <1>7, <2>1, <2>2 DEF CallOK, next
<1>13. ErrorOK'
  <2>1. BalancesAhead(accounts) = Amounts(seen, S)
    BY <1>4, <1>5, <1>9 DEF BalancesAhead, Total
  <2>2. BalancesAhead(accounts)' = (IF next = NoCursor THEN 0 ELSE Amounts(seen, S \intersect Ahead(next)))
    BY <1>5, <1>7, <1>8, <1>9 DEF BalancesAhead, Total, next
  <2>3. HoldsAhead(accounts)' = HoldsAhead(accounts)
    BY <1>5, <1>7 DEF HoldsAhead
  <2>4. Amounts(seen, S) = Amounts(rows, 1 .. b) + (IF next = NoCursor THEN 0 ELSE Amounts(seen, S \intersect Ahead(next)))
    BY <1>8 DEF Reads, b
  <2>5. /\ Amounts(call.balances, DOMAIN call.balances) \in Nat /\ Amounts(rows, 1 .. b) \in Nat
        /\ HoldsAhead(accounts) \in Nat /\ call.holdFunds \in Nat
    BY <1>6, <1>10, FundsType, RowsSum
  <2>6. (IF next = NoCursor THEN 0 ELSE Amounts(seen, S \intersect Ahead(next))) \in Int
    <3>1. next # NoCursor => Total(seen, Ahead(next), {}) \in Nat
      BY <1>8, WindowSums
    <3> QED
      BY <1>9, <3>1 DEF Total
  <2> DEFINE later == IF next = NoCursor THEN 0 ELSE Amounts(seen, S \intersect Ahead(next))
  <2>7. FundsIn(accounts)' = Amounts(all, DOMAIN all) + call.holdFunds + (later + HoldsAhead(accounts))
    BY <1>7, <2>2, <2>3 DEF FundsIn, all
  <2>8. FundsIn(accounts) = Amounts(call.balances, DOMAIN call.balances) + call.holdFunds
                            + (Amounts(rows, 1 .. b) + later + HoldsAhead(accounts))
    BY <2>1, <2>4 DEF FundsIn
  <2> HIDE DEF later
  <2>9. FundsIn(accounts)' = FundsIn(accounts)
    BY <1>10, <2>5, <2>6, <2>7, <2>8 DEF later
  <2> QED
    BY <1>5, <1>6, <2>9 DEF ErrorOK
<1>14. QuietOK'
  <2> SUFFICES ASSUME ~before.changed
               PROVE  /\ call'.holdFunds + HoldsAhead(accounts)' = Total(accounts, {}, Int)
                      /\ \A n \in 1 .. a + b :
                            /\ all[n].place \in Window(accounts, Int, {})
                            /\ all[n].amount = accounts[all[n].place].amount
                            /\ next # NoCursor => all[n].place \notin Ahead(next)
                      /\ \A m, n \in 1 .. a + b : m < n => all[m].place < all[n].place
                      /\ \A i \in Window(accounts, Int, {}) :
                            (next # NoCursor /\ i \in Ahead(next)) \/ \E n \in 1 .. a + b : all[n].place = i
    <3>1. call'.balances = all /\ call'.cursor = next
      BY <1>7 DEF all, next
    <3>2. call'.step = "balances" => next # NoCursor
      BY <1>7 DEF next
    <3>3. next # NoCursor => call'.step = "balances"
      BY <1>7 DEF next
    <3> QED
      BY <1>5, <1>10, <3>1, <3>2, <3>3 DEF QuietOK, PlacesOf
  <2>1. seen = accounts
    BY <1>8
  <2>2. /\ call.holdFunds + HoldsAhead(accounts) = Total(accounts, {}, Int)
        /\ \A n \in 1 .. a :
              /\ call.balances[n].place \in Window(accounts, Int, {})
              /\ call.balances[n].amount = accounts[call.balances[n].place].amount
              /\ call.balances[n].place \notin Ahead(call.cursor)
        /\ \A m, n \in 1 .. a : m < n => call.balances[m].place < call.balances[n].place
        /\ \A i \in Window(accounts, Int, {}) :
              i \in Ahead(call.cursor) \/ \E n \in 1 .. a : call.balances[n].place = i
    BY <1>5, <1>6, <1>10 DEF QuietOK, PlacesOf
  <2>3. call'.holdFunds + HoldsAhead(accounts)' = Total(accounts, {}, Int)
    <3>1. HoldsAhead(accounts)' = HoldsAhead(accounts)
      BY <1>5, <1>7 DEF HoldsAhead
    <3> QED
      BY <1>7, <2>2, <3>1
  <2>4. S = Window(accounts, Ahead(call.cursor), {}) /\ S \subseteq Window(accounts, Int, {})
        /\ Window(accounts, Int, {}) \subseteq Int
        /\ \A i \in Window(accounts, Int, {}) : i \in Ahead(call.cursor) => i \in S
        /\ S \subseteq Ahead(call.cursor)
    BY <1>6, <1>9, <2>1 DEF Window, Counts, IsLedger
  <2>5. /\ \A n \in 1 .. b : /\ rows[n].place \in S /\ rows[n].amount = accounts[rows[n].place].amount
                             /\ next # NoCursor => rows[n].place \notin Ahead(next)
        /\ \A m, n \in 1 .. b : m < n => rows[m].place < rows[n].place
        /\ \A i \in S : (next # NoCursor /\ i \in Ahead(next)) \/ \E n \in 1 .. b : rows[n].place = i
    BY <1>8, <2>1 DEF Reads, b
  <2>6. \A n \in 1 .. b : rows[n].place \in Ahead(call.cursor)
    <3>1. \A i \in S : i \in Ahead(call.cursor)
      BY <1>9, <2>1 DEF Window, Counts
    <3>2. \A n \in 1 .. b : rows[n].place \in S
      BY <2>5
    <3> QED
      BY <3>1, <3>2
  <2>7. \A n \in 1 .. a + b : \/ n \in 1 .. a /\ all[n] = call.balances[n]
                              \/ n > a /\ n - a \in 1 .. b /\ all[n] = rows[n - a]
    <3> SUFFICES ASSUME NEW n \in 1 .. a + b, n \notin 1 .. a
                 PROVE  n > a /\ n - a \in 1 .. b /\ all[n] = rows[n - a]
      BY <1>10
    <3>1. n > a /\ n - a \in 1 .. b /\ a + (n - a) = n
      BY <1>10
    <3> QED
      BY <1>10, <3>1
  <2>8. ASSUME NEW n \in 1 .. a + b
        PROVE  /\ all[n].place \in Window(accounts, Int, {})
               /\ all[n].amount = accounts[all[n].place].amount
               /\ next # NoCursor => all[n].place \notin Ahead(next)
    <3>1. CASE n \in 1 .. a /\ all[n] = call.balances[n]
      BY <1>9, <2>2, <3>1
    <3>2. CASE n - a \in 1 .. b /\ all[n] = rows[n - a]
      BY <2>4, <2>5, <3>2
    <3> QED
      BY <2>7, <3>1, <3>2
  <2>9. ASSUME NEW m \in 1 .. a + b, NEW n \in 1 .. a + b, m < n PROVE all[m].place < all[n].place
    <3>1. CASE n \in 1 .. a
      <4>1. m \in 1 .. a
        BY <1>10, <2>9, <3>1
      <4> QED
        BY <1>10, <2>2, <2>9, <3>1, <4>1
    <3>2. CASE m \in 1 .. a /\ n - a \in 1 .. b /\ all[n] = rows[n - a]
      <4>1. all[m].place \in Int \ Ahead(call.cursor)
        BY <1>10, <2>2, <2>4, <3>2
      <4>2. all[n].place \in Ahead(call.cursor)
        BY <2>6, <3>2
      <4> QED
        BY <1>9, <4>1, <4>2
    <3>3. CASE m - a \in 1 .. b /\ all[m] = rows[m - a] /\ n - a \in 1 .. b /\ all[n] = rows[n - a]
      <4>1. m - a < n - a
        BY <1>10, <2>9
      <4> QED
        BY <2>5, <3>3, <4>1
    <3> QED
      BY <2>7, <3>1, <3>2, <3>3
  <2>10. ASSUME NEW i \in Window(accounts, Int, {})
        PROVE  (next # NoCursor /\ i \in Ahead(next)) \/ \E n \in 1 .. a + b : all[n].place = i
    <3>1. CASE i \in Ahead(call.cursor)
      <4>1. i \in S
        BY <2>4, <3>1
      <4>2. CASE next # NoCursor /\ i \in Ahead(next)
        BY <4>2
      <4>3. CASE \E n \in 1 .. b : rows[n].place = i
        <5>1. PICK n \in 1 .. b : rows[n].place = i
          BY <4>3
        <5>2. a + n \in 1 .. a + b /\ all[a + n].place = i
          BY <1>10, <5>1
        <5> QED
          BY <5>2
      <4> QED
        BY <2>5, <4>1, <4>2, <4>3
    <3>2. CASE i \notin Ahead(call.cursor)
      <4>1. PICK n \in 1 .. a : call.balances[n].place = i
        BY <2>2, <3>2
      <4>2. n \in 1 .. a + b /\ all[n].place = i
        BY <1>10, <4>1
      <4> QED
        BY <4>2
    <3> QED
      BY <3>1, <3>2
  <2> QED
    BY <2>3, <2>8, <2>9, <2>10
<1>15. TotalsOK'
  <2>1. PICK V \in SUBSET (1 .. call.counted), X \in SUBSET (1 .. call.counted), K \in SUBSET (1 .. call.counted) :
          CountedAs(V, X, K)
    BY <1>5, <1>6 DEF TotalsOK
  <2>2. V = {} /\ X = {} /\ K = {}
    BY <1>6
  <2>3. \A r : Amounts(r, {}) = 0
    BY EmptyRows
  <2>4. call.availableFunds = 0 /\ call.expiredFunds = 0 /\ call.expirableFunds = 0
    <3>1. {n \in V : call.balances[n].expiresAt # Never} = {}
      BY <2>2
    <3> QED
      BY <2>1, <2>2, <2>3, <3>1 DEF CountedAs
  <2>5. CountedAs({}, {}, {})'
    <3>1. 1 .. call'.counted = {} /\ {n \in {} : call'.balances[n].expiresAt # Never} = {}
      BY <1>7
    <3> QED
      BY <1>7, <2>3, <2>4, <3>1 DEF CountedAs
  <2>6. (\E P, Q, R \in SUBSET (1 .. call.counted) : CountedAs(P, Q, R))'
    <3>1. {} \in SUBSET (1 .. call'.counted)
      OBVIOUS
    <3> QED
      BY <2>5, <3>1
  <2>7. 0 \in 0 .. Len(call'.balances)
    <3>1. Len(all) \in Nat
      BY <1>10
    <3> QED
      BY <1>7, <3>1 DEF all
  <2> QED
    BY <1>7, <2>6, <2>7 DEF TotalsOK
<1> QED
  BY <1>11, <1>12, <1>13, <1>14, <1>15 DEF Inv

LEMMA FetchHoldsKeeps == ASSUME Inv, FetchHolds PROVE Inv'
<1>1. PICK view \in Views(accounts) :
        LET page == fetchAndMapAllAccounts(HoldsQuery, view)
            rows == call.holds \o Rows(page)
        IN  call' = [call EXCEPT
                !.holds = rows, !.cursor = page.next,
                !.step = IF page.next = NoCursor THEN "done" ELSE "holds",
                !.holdFunds = Amounts(rows, DOMAIN rows)]
  BY DEF FetchHolds
<1>2. PICK page : page = fetchAndMapAllAccounts(HoldsQuery, view)
  OBVIOUS
<1>3. PICK rows : rows = Rows(page)
  OBVIOUS
<1>4. PICK seen : seen = Shown(accounts, call.cursor)
  OBVIOUS
<1>5. call.step = "holds" /\ now' = now /\ accounts' = accounts /\ before' = before /\ moved' = moved
  BY DEF FetchHolds
<1>6. /\ LedgerOK /\ CallOK /\ ErrorOK /\ QuietOK /\ TotalsOK /\ IsCall /\ IsLedger(accounts)
      /\ IsCursor(call.cursor, HoldsQuery) /\ before.changed \in BOOLEAN /\ IsRows(call.holds)
      /\ call.holdFunds = Amounts(call.holds, DOMAIN call.holds)
  BY <1>5 DEF Inv, LedgerOK, CallOK
<1> DEFINE S == Listable(seen, HoldsQuery, call.cursor)
           all == call.holds \o rows
           next == page.next
           later == IF next = NoCursor THEN 0 ELSE Amounts(seen, S \intersect Ahead(next))
<1>7. /\ call'.holds = all /\ call'.cursor = next
      /\ call'.step = (IF next = NoCursor THEN "done" ELSE "holds")
      /\ call'.holdFunds = Amounts(all, DOMAIN all)
      /\ IsCall' /\ call'.balances = call.balances /\ call'.counted = call.counted
      /\ call'.availableFunds = call.availableFunds /\ call'.expiredFunds = call.expiredFunds
      /\ call'.expirableFunds = call.expirableFunds
  BY <1>1, <1>2, <1>3, <1>6 DEF IsCall
<1>8. /\ IsLedger(seen) /\ Reads(rows, next, seen, S)
      /\ next # NoCursor => IsCursor(next, HoldsQuery) /\ Shown(accounts, next) = seen
      /\ ~before.changed => seen = accounts
  BY <1>2, <1>3, <1>4, <1>6, PagesOfSummary
<1>9. /\ S = Window(seen, {}, Ahead(call.cursor))
      /\ next # NoCursor => S \intersect Ahead(next) = Window(seen, {}, Ahead(next))
  <2>1. call.cursor # NoCursor => call.cursor.after \in Int
    BY <1>6 DEF IsCursor
  <2> HIDE DEF next
  <2>2. next # NoCursor => S \intersect Ahead(next) = Listable(seen, HoldsQuery, next)
    BY <1>8, <2>1, AheadOfPages
  <2> QED
    BY <1>8, <2>2, QueriesFind
<1>10. IsRows(rows) /\ Joined(all, call.holds, rows)
  <2>1. IsRows(rows)
    BY <1>8 DEF Reads
  <2> QED
    BY <1>6, <2>1, SumOfLists
<1> HIDE DEF S, all, next, later
<1>11. /\ HoldsAhead(accounts) = Amounts(seen, S) /\ BalancesAhead(accounts) = 0
       /\ HoldsAhead(accounts)' = later /\ BalancesAhead(accounts)' = 0
  <2>1. HoldsAhead(accounts) = Amounts(seen, S) /\ BalancesAhead(accounts) = 0
    BY <1>4, <1>5, <1>9 DEF HoldsAhead, BalancesAhead, Total
  <2>2. BalancesAhead(accounts)' = 0
    BY <1>7 DEF BalancesAhead
  <2>3. HoldsAhead(accounts)' = later
    BY <1>5, <1>7, <1>8, <1>9 DEF HoldsAhead, Total, later
  <2> QED
    BY <2>1, <2>2, <2>3
<1>12. later \in Nat
  <2>1. CASE next = NoCursor
    BY <2>1 DEF later
  <2>2. CASE next # NoCursor
    <3>1. Total(seen, {}, Ahead(next)) \in Nat
      BY <1>8, WindowSums
    <3>2. Total(seen, {}, Ahead(next)) = Amounts(seen, S \intersect Ahead(next))
      BY <1>9, <2>2 DEF Total
    <3> QED
      BY <2>2, <3>1, <3>2 DEF later
  <2> QED
    BY <2>1, <2>2
<1>13. call'.holdFunds + HoldsAhead(accounts)' = call.holdFunds + HoldsAhead(accounts)
  <2>1. Amounts(seen, S) = Amounts(rows, 1 .. Len(rows)) + later
    BY <1>8 DEF Reads, later
  <2>2. /\ DOMAIN rows = 1 .. Len(rows) /\ Amounts(rows, DOMAIN rows) \in Nat
        /\ Amounts(call.holds, DOMAIN call.holds) \in Nat
    BY <1>6, <1>10, RowsSum
  <2>3. later \in Int
    BY <1>12
  <2>4. Amounts(all, DOMAIN all) = Amounts(call.holds, DOMAIN call.holds) + Amounts(rows, DOMAIN rows)
    BY <1>10 DEF Joined
  <2> QED
    BY <1>6, <1>7, <1>11, <2>1, <2>2, <2>3, <2>4
<1>14. LedgerOK'
  BY <1>5, <1>6 DEF LedgerOK
<1>15. CallOK'
  <2>1. IsCursor(next, HoldsQuery)'
    BY <1>5, <1>7, <1>8 DEF IsCursor, next
  <2>2. IsRows(all)
    BY <1>10 DEF Joined
  <2> QED
    BY <1>6, <1>7, <2>1, <2>2 DEF CallOK, next
<1>16. ErrorOK'
  <2>1. Amounts(call.balances, DOMAIN call.balances) \in Nat /\ call.holdFunds \in Nat /\ HoldsAhead(accounts) \in Nat
    BY <1>6, FundsType
  <2>2. later \in Int /\ call'.holdFunds \in Int
    <3>1. call'.holdFunds \in Nat
      BY <1>7, <1>10, RowsSum DEF Joined
    <3> QED
      BY <1>12, <3>1
  <2>3. FundsIn(accounts)' = Amounts(call.balances, DOMAIN call.balances) + call'.holdFunds + (0 + later)
    BY <1>7, <1>11 DEF FundsIn
  <2>4. FundsIn(accounts) = Amounts(call.balances, DOMAIN call.balances) + call.holdFunds + (0 + HoldsAhead(accounts))
    BY <1>11 DEF FundsIn
  <2>5. FundsIn(accounts)' = FundsIn(accounts)
    BY <1>11, <1>13, <2>1, <2>2, <2>3, <2>4
  <2> QED
    BY <1>5, <1>6, <2>5 DEF ErrorOK
<1>17. QuietOK'
  BY <1>5, <1>6, <1>7, <1>13 DEF QuietOK, PlacesOf
<1>18. TotalsOK'
  <2>1. PICK V \in SUBSET (1 .. call.counted), X \in SUBSET (1 .. call.counted), K \in SUBSET (1 .. call.counted) :
          CountedAs(V, X, K)
    BY <1>5, <1>6 DEF TotalsOK
  <2>2. CountedAs(V, X, K)'
    BY <1>5, <1>7, <2>1 DEF CountedAs
  <2> QED
    BY <1>5, <1>6, <1>7, <2>1, <2>2 DEF TotalsOK
<1> QED
  BY <1>14, <1>15, <1>16, <1>17, <1>18 DEF Inv

LEMMA NextInv == Inv /\ [Next]_vars => Inv'
<1> SUFFICES ASSUME Inv, [Next]_vars PROVE Inv'
  OBVIOUS
<1>1. CASE GetWalletSummary
  BY <1>1, BeginKeeps, FetchBalancesKeeps, FailKeeps, CountExpiredKeeps, CountExpirableKeeps, CountedKeeps,
     FetchHoldsKeeps DEF GetWalletSummary
<1>2. CASE Credit \/ Debit \/ Hold
  BY <1>2, CreditKeeps, DebitKeeps, HoldKeeps
<1>3. CASE CreateBalance \/ ConfirmHold \/ VoidHold
  BY <1>3, CreateKeeps, ConfirmKeeps, VoidKeeps
<1>4. CASE Tick
  BY <1>4, TickKeeps
<1>5. CASE UNCHANGED vars
  <2>1. now' = now /\ accounts' = accounts /\ call' = call /\ before' = before /\ moved' = moved
    BY <1>5 DEF vars
  <2>2. /\ LedgerOK /\ CallOK /\ ErrorOK /\ QuietOK /\ TotalsOK
        /\ call.step # "failed" => \E V, X, K \in SUBSET (1 .. call.counted) : CountedAs(V, X, K)
    BY DEF Inv, TotalsOK
  <2>3. LedgerOK' /\ CallOK'
    BY <2>1, <2>2 DEF LedgerOK, CallOK, IsCall, IsCursor
  <2>4. ErrorOK' /\ QuietOK'
    BY <2>1, <2>2 DEF ErrorOK, QuietOK, FundsIn, BalancesAhead, HoldsAhead, PlacesOf
  <2>5. ASSUME NEW V, NEW X, NEW K, CountedAs(V, X, K) PROVE CountedAs(V, X, K)'
    BY <2>1, <2>5 DEF CountedAs
  <2>6. Expiry' = Expiry
    BY <2>1 DEF Expiry, Counting
  <2>7. TotalsOK'
    BY <2>1, <2>2, <2>5, <2>6 DEF TotalsOK
  <2> QED
    BY <2>3, <2>4, <2>7 DEF Inv
<1> QED
  BY <1>1, <1>2, <1>3, <1>4, <1>5 DEF Next

\* Inv holds whenever GetWalletSummary reads, counts or has ended.
THEOREM SummaryInvariant == Spec => []Inv
<1> QED
  BY InitInv, NextInv, PTL DEF Spec

-----------------------------------------------------------------------------
(* What a summary promises.                                                  *)

\* The balances and holds of a summary are off the wealth of the wallet by no
\* more than what moved while GetWalletSummary read them.
THEOREM SummaryErrs == Spec => []ErrorWithinMoves
<1>1. Inv => ErrorWithinMoves
  <2> SUFFICES ASSUME Inv, Done PROVE Abs(Listed + call.holdFunds - before.funds) <= moved
    BY DEF ErrorWithinMoves
  <2>1. Abs(FundsIn(accounts) - before.funds) <= moved
    BY DEF Inv, ErrorOK, Done
  <2>2. Listed \in Nat /\ call.holdFunds \in Nat
    BY FundsType DEF Inv, LedgerOK, Listed
  <2>3. FundsIn(accounts) = Listed + call.holdFunds
    BY <2>2 DEF FundsIn, BalancesAhead, HoldsAhead, Done, Listed
  <2>4. before.funds \in Int /\ moved \in Nat
    BY DEF Inv, LedgerOK
  <2> QED
    BY <2>1, <2>2, <2>3, <2>4 DEF Abs
<1> QED
  BY <1>1, SummaryInvariant, PTL

\* When nothing moves, GetWalletSummary lists each balance of the wallet once,
\* with what it holds, and the holds of no other wallet.
THEOREM QuietSummary == Spec => []QuietSummaryExact
<1>1. Inv => QuietSummaryExact
  <2> SUFFICES ASSUME Inv, Done, ~before.changed
               PROVE  /\ PlacesOf(call.balances) = Of(BalanceKinds)
                      /\ Len(call.balances) = Cardinality(Of(BalanceKinds))
                      /\ \A n \in DOMAIN call.balances :
                            call.balances[n].amount = accounts[call.balances[n].place].amount
                      /\ call.holdFunds = Amounts(accounts, Of({"hold"}))
    BY DEF QuietSummaryExact
  <2> DEFINE bal == call.balances
             B == Of(BalanceKinds)
             N == Len(bal)
             f == [n \in 1 .. N |-> bal[n].place]
  <2>1. /\ call.step = "done" /\ IsLedger(accounts) /\ IsRows(bal) /\ LedgerOK /\ CallOK
    BY DEF Inv, LedgerOK, CallOK, Done
  <2>2. N \in Nat /\ DOMAIN bal = 1 .. N /\ \A n \in 1 .. N : bal[n].place \in Int
    BY <2>1 DEF IsRows, IsRow
  <2>3. /\ B = Window(accounts, Int, {}) /\ Of({"hold"}) = Window(accounts, {}, Int)
        /\ IsFiniteSet(B)
    BY <2>1, WholeWindow, WindowSums
  <2>4. /\ call.holdFunds + HoldsAhead(accounts) = Total(accounts, {}, Int)
        /\ \A n \in 1 .. N : bal[n].place \in B /\ bal[n].amount = accounts[bal[n].place].amount
        /\ \A m, n \in 1 .. N : m < n => bal[m].place < bal[n].place
        /\ \A i \in B : i \in PlacesOf(bal)
    BY <2>1, <2>2, <2>3 DEF Inv, QuietOK
  <2>5. PlacesOf(bal) = B
    BY <2>2, <2>4 DEF PlacesOf
  <2>6. N = Cardinality(B)
    <3> HIDE DEF bal, N, B
    <3>1. \A m, n \in 1 .. N : bal[m].place = bal[n].place => m = n
      <4> SUFFICES ASSUME NEW m \in 1 .. N, NEW n \in 1 .. N, bal[m].place = bal[n].place, m # n PROVE FALSE
        OBVIOUS
      <4>1. m < n \/ n < m
        BY <2>2
      <4>2. bal[m].place < bal[n].place \/ bal[n].place < bal[m].place
        BY <2>4, <4>1
      <4> QED
        BY <2>2, <4>2
    <3>2. \A n \in 1 .. N : f[n] = bal[n].place
      OBVIOUS
    <3>3. f \in [1 .. N -> B] /\ \A m, n \in 1 .. N : f[m] = f[n] => m = n
      BY <2>4, <3>1, <3>2
    <3>4. \A i \in B : \E n \in 1 .. N : f[n] = i
      BY <2>2, <2>4, <3>2 DEF PlacesOf
    <3> HIDE DEF f
    <3>5. ExistsBijection(1 .. N, B)
      BY <3>3, <3>4 DEF ExistsBijection, Bijection, Injection, IsInjective, Surjection
    <3>6. IsFiniteSet(1 .. N) /\ Cardinality(1 .. N) = N
      BY <2>2, FS_Interval
    <3>7. Cardinality(1 .. N) = Cardinality(B)
      BY <2>3, <3>5, <3>6, FS_Bijection
    <3> QED
      BY <3>6, <3>7
  <2>7. call.holdFunds = Amounts(accounts, Of({"hold"}))
    <3>1. HoldsAhead(accounts) = 0 /\ call.holdFunds \in Nat
      BY <2>1, FundsType DEF HoldsAhead
    <3> QED
      BY <2>3, <2>4, <3>1 DEF Total
  <2> QED
    BY <2>2, <2>4, <2>5, <2>6, <2>7
<1> QED
  BY <1>1, SummaryInvariant, PTL

\* The totals of GetWalletSummary go by expiry up to the time that it takes,
\* whatever the clock does between two balances, or two readings for one.
THEOREM SummaryTotals == Spec => []TotalsByExpiry
<1>1. Inv => TotalsByExpiry
  <2> SUFFICES ASSUME Inv, Done PROVE TotalsByExpiry
    BY DEF TotalsByExpiry
  <2> DEFINE bal == call.balances
             N == Len(bal)
             e(n) == bal[n].expiresAt
  <2>1. /\ call.counted = N /\ IsRows(bal) /\ call.step = "done"
        /\ \E V, X, K \in SUBSET (1 .. call.counted) : CountedAs(V, X, K)
    BY DEF Inv, CallOK, TotalsOK, Done
  <2>2. PICK V \in SUBSET (1 .. N), X \in SUBSET (1 .. N), K \in SUBSET (1 .. N) : CountedAs(V, X, K)
    BY <2>1
  <2>3. /\ V \union X \union K = 1 .. N
        /\ V \intersect X = {} /\ V \intersect K = {} /\ X \intersect K = {}
        /\ call.availableFunds = Amounts(bal, V) /\ call.expiredFunds = Amounts(bal, X)
        /\ call.expirableFunds = Amounts(bal, {n \in V : e(n) # Never})
        /\ \A n \in V : e(n) = Never \/ e(n) >= before.now
        /\ \A n \in X : e(n) # Never /\ e(n) < now
        /\ \A n \in K : e(n) # Never /\ before.now <= e(n) /\ e(n) < now
    BY <2>1, <2>2 DEF CountedAs
  <2>4. /\ DOMAIN bal = 1 .. N /\ IsFiniteSet(1 .. N)
        /\ \A n \in 1 .. N : bal[n].amount \in Nat
    <3>1. DOMAIN bal = 1 .. N /\ N \in Nat /\ \A n \in 1 .. N : bal[n].amount \in Nat
      BY <2>1 DEF IsRows, IsRow
    <3> QED
      BY <3>1, FS_Interval
  <2>5. ASSUME NEW T \in SUBSET (1 .. N)
        PROVE  IsFiniteSet(T) /\ IsAmounts(bal, T) /\ Amounts(bal, T) \in Nat /\ \A n \in T : bal[n].amount \in Nat
    <3> HIDE DEF bal, N
    <3>1. IsFiniteSet(T) /\ \A n \in T : bal[n].amount \in Nat
      BY <2>4, FS_Subset
    <3>2. Amounts(bal, T) \in Nat
      BY <3>1, SumNat
    <3>3. IsAmounts(bal, T)
      BY <3>1 DEF IsAmounts
    <3> QED
      BY <3>1, <3>2, <3>3
  <2> DEFINE never == {n \in DOMAIN bal : e(n) = Never}
             lapsed == {n \in DOMAIN bal : e(n) # Never /\ before.now <= e(n) /\ e(n) < now}
             unexpired == {n \in DOMAIN bal : e(n) = Never \/ e(n) >= before.now}
             expired == {n \in DOMAIN bal : e(n) # Never /\ e(n) < now}
             E == {n \in V : e(n) # Never}
  <2>6. /\ K \subseteq lapsed /\ V \subseteq unexpired /\ X \subseteq expired
        /\ never \union E = V /\ never \intersect E = {}
        /\ never \in SUBSET (1 .. N) /\ lapsed \in SUBSET (1 .. N) /\ unexpired \in SUBSET (1 .. N)
        /\ expired \in SUBSET (1 .. N) /\ E \in SUBSET (1 .. N)
    BY <2>3, <2>4
  <2>7. /\ Listed = Amounts(bal, 1 .. N)
        /\ ListedWith(LAMBDA x : x # Never /\ before.now <= x /\ x < now) = Amounts(bal, lapsed)
        /\ ListedWith(LAMBDA x : x = Never \/ x >= before.now) = Amounts(bal, unexpired)
        /\ ListedWith(LAMBDA x : x # Never /\ x < now) = Amounts(bal, expired)
        /\ ListedWith(LAMBDA x : x = Never) = Amounts(bal, never)
    BY <2>4 DEF Listed, ListedWith
  <2> HIDE DEF never, lapsed, unexpired, expired, E, bal, N
  <2>8. Amounts(bal, 1 .. N) = Amounts(bal, V) + Amounts(bal, X) + Amounts(bal, K)
    <3>1. Amounts(bal, V \union X) = Amounts(bal, V) + Amounts(bal, X) /\ IsAmounts(bal, V \union X)
      BY <2>3, <2>5, SumUnion
    <3>2. (V \union X) \intersect K = {}
      BY <2>3
    <3>3. Amounts(bal, (V \union X) \union K) = Amounts(bal, V \union X) + Amounts(bal, K)
      BY <2>5, <3>1, <3>2, SumUnion
    <3> QED
      BY <2>3, <3>1, <3>3
  <2>9. Amounts(bal, V) = Amounts(bal, never) + Amounts(bal, E)
    <3>1. Amounts(bal, never \union E) = Amounts(bal, never) + Amounts(bal, E)
      BY <2>5, <2>6, SumUnion
    <3> QED
      BY <2>6, <3>1
  <2>10. /\ Amounts(bal, K) <= Amounts(bal, lapsed) /\ Amounts(bal, V) <= Amounts(bal, unexpired)
         /\ Amounts(bal, X) <= Amounts(bal, expired)
    BY <2>5, <2>6, SumPart
  <2>11. /\ Amounts(bal, V) \in Nat /\ Amounts(bal, X) \in Nat /\ Amounts(bal, K) \in Nat
         /\ Amounts(bal, never) \in Nat /\ Amounts(bal, E) \in Nat
    BY <2>5, <2>6
  <2>12. call.expirableFunds = Amounts(bal, E)
    BY <2>3 DEF E
  <2> DEFINE uncounted == Listed - (call.availableFunds + call.expiredFunds)
  <2>13. uncounted = Amounts(bal, K) /\ call.availableFunds - call.expirableFunds = Amounts(bal, never)
    <3>1. Listed = call.availableFunds + call.expiredFunds + Amounts(bal, K)
      BY <2>3, <2>7, <2>8, Zenon
    <3>2. call.availableFunds = Amounts(bal, never) + call.expirableFunds
      BY <2>3, <2>9, <2>12, Zenon
    <3>3. /\ call.availableFunds \in Nat /\ call.expiredFunds \in Nat /\ call.expirableFunds \in Nat
          /\ Amounts(bal, K) \in Nat /\ Amounts(bal, never) \in Nat
      BY <2>3, <2>11, <2>12, Zenon
    <3> HIDE DEF uncounted
    <3>4. Listed - (call.availableFunds + call.expiredFunds) = Amounts(bal, K)
      BY <3>1, <3>3
    <3>5. call.availableFunds - call.expirableFunds = Amounts(bal, never)
      BY <3>2, <3>3
    <3> QED
      BY <3>4, <3>5, Zenon DEF uncounted
  <2>14. uncounted >= 0
    BY <2>11, <2>13
  <2> HIDE DEF uncounted
  <2>15. /\ uncounted <= Amounts(bal, lapsed) /\ call.availableFunds <= Amounts(bal, unexpired)
         /\ call.expiredFunds <= Amounts(bal, expired)
    BY <2>3, <2>10, <2>13
  <2> QED
    BY <2>7, <2>13, <2>14, <2>15 DEF TotalsByExpiry, uncounted
<1> QED
  BY <1>1, SummaryInvariant, PTL
=============================================================================
