--------------------------- MODULE AccountsProofs ---------------------------
(***************************************************************************)
(* Lemmas about the operators of Accounts: the order of a list, and what a *)
(* page of it leaves for the next one.                                     *)
(***************************************************************************)
EXTENDS Accounts, FiniteSetTheorems, TLAPS

\* The place of a number in a set is that of the numbers below it: a larger
\* number has more of them.
LEMMA RanksGrow ==
    ASSUME NEW S, IsFiniteSet(S), S \subseteq Int, NEW i \in S
    PROVE  /\ Cardinality({j \in S : j < i}) \in 0 .. Cardinality(S) - 1
           /\ \A k \in S : i < k => Cardinality({j \in S : j < i}) < Cardinality({j \in S : j < k})
<1> DEFINE Below(k) == {j \in S : j < k}
<1>1. \A k \in S : IsFiniteSet(Below(k)) /\ Cardinality(Below(k)) \in Nat
  BY FS_Subset, FS_CardinalityType
<1>2. Cardinality(S) \in Nat
  BY FS_CardinalityType
<1>3. Cardinality(Below(i)) < Cardinality(S)
  <2>1. Below(i) \in SUBSET S /\ Below(i) # S
    BY DEF Below
  <2> QED
    BY <1>1, <1>2, <2>1, FS_Subset
<1>4. ASSUME NEW k \in S, i < k PROVE Cardinality(Below(i)) < Cardinality(Below(k))
  <2>1. Below(i) \in SUBSET Below(k)
    <3>1. ASSUME NEW j \in Below(i) PROVE j \in Below(k)
      <4>1. j \in S /\ j < i /\ j \in Int /\ i \in Int /\ k \in Int
        OBVIOUS
      <4> QED
        BY <1>4, <4>1
    <3> QED
      BY <3>1
  <2>2. i \in Below(k) /\ i \notin Below(i)
    BY <1>4
  <2> HIDE DEF Below
  <2> QED
    BY <1>1, <2>1, <2>2, FS_Subset
<1> QED
  BY <1>1, <1>2, <1>3, <1>4

\* The places of a list in their order, each once: whatever the ledger has, what
\* it pages through is the whole of it without repetition.
THEOREM AscendingOrder ==
    ASSUME NEW S, IsFiniteSet(S), S \subseteq Int
    PROVE  /\ Cardinality(S) \in Nat
           /\ Ascending(S) \in [1 .. Cardinality(S) -> S]
           /\ \A m, n \in 1 .. Cardinality(S) : m < n => Ascending(S)[m] < Ascending(S)[n]
           /\ \A i \in S : \E n \in 1 .. Cardinality(S) : Ascending(S)[n] = i
<1> DEFINE rank(i) == Cardinality({j \in S : j < i})
           N == Cardinality(S)
           f == [i \in S |-> rank(i) + 1]
<1>1. N \in Nat
  BY FS_CardinalityType
<1>2. /\ \A i \in S : rank(i) \in 0 .. N - 1
      /\ \A i, k \in S : i < k => rank(i) < rank(k)
  BY RanksGrow
<1>3. Ascending(S) = [n \in 1 .. N |-> CHOOSE i \in S : rank(i) = n - 1]
  BY DEF Ascending
<1> HIDE DEF rank, N
<1>4. f \in Injection(S, 1 .. N)
  <2>1. f \in [S -> 1 .. N]
    BY <1>1, <1>2
  <2>2. \A i, k \in S : rank(i) = rank(k) => i = k
    BY <1>2
  <2>3. \A i, k \in S : f[i] = f[k] => i = k
    BY <1>1, <1>2, <2>2
  <2> QED
    BY <2>1, <2>3 DEF Injection, IsInjective
<1>5. f \in Surjection(S, 1 .. N)
  <2>1. IsFiniteSet(1 .. N) /\ Cardinality(1 .. N) = N
    BY <1>1, FS_Interval
  <2> QED
    BY <1>4, <2>1, FS_Injection DEF N
<1>6. \A n \in 1 .. N : \E i \in S : rank(i) = n - 1
  <2> SUFFICES ASSUME NEW n \in 1 .. N PROVE \E i \in S : rank(i) = n - 1
    OBVIOUS
  <2>1. PICK i \in S : f[i] = n
    BY <1>5 DEF Surjection
  <2>2. rank(i) + 1 = n /\ rank(i) \in 0 .. N - 1
    BY <1>2, <2>1
  <2> QED
    BY <1>1, <2>2
<1>7. \A n \in 1 .. N : Ascending(S)[n] \in S /\ rank(Ascending(S)[n]) = n - 1
  BY <1>3, <1>6
<1>8. Ascending(S) \in [1 .. N -> S]
  BY <1>3, <1>7
<1>9. \A m, n \in 1 .. N : m < n => Ascending(S)[m] < Ascending(S)[n]
  <2> SUFFICES ASSUME NEW m \in 1 .. N, NEW n \in 1 .. N, m < n,
                      ~(Ascending(S)[m] < Ascending(S)[n])
               PROVE  FALSE
    OBVIOUS
  <2> DEFINE i == Ascending(S)[m]
             k == Ascending(S)[n]
  <2>1. i \in S /\ k \in S /\ rank(i) = m - 1 /\ rank(k) = n - 1
    BY <1>7
  <2>2. i \in Int /\ k \in Int /\ ~(i < k)
    BY <2>1
  <2>3. i = k \/ k < i
    BY <2>2
  <2> HIDE DEF i, k
  <2>4. rank(k) <= rank(i)
    BY <1>1, <1>2, <2>1, <2>3
  <2> QED
    BY <1>1, <2>1, <2>4
<1>10. \A i \in S : \E n \in 1 .. N : Ascending(S)[n] = i
  <2> SUFFICES ASSUME NEW i \in S PROVE \E n \in 1 .. N : Ascending(S)[n] = i
    OBVIOUS
  <2> DEFINE n == rank(i) + 1
             k == Ascending(S)[n]
  <2>1. n \in 1 .. N /\ rank(i) = n - 1
    BY <1>1, <1>2
  <2>2. k \in S /\ rank(k) = rank(i)
    BY <1>7, <2>1
  <2> HIDE DEF k
  <2>3. rank(i) \in Int /\ i \in Int /\ k \in Int
    BY <1>1, <1>2, <2>2
  <2>4. ~(i < k) /\ ~(k < i)
    BY <1>2, <2>2, <2>3
  <2>5. i = k
    BY <2>3, <2>4
  <2> QED
    BY <2>1, <2>5 DEF k
<1> QED
  BY <1>1, <1>8, <1>9, <1>10 DEF N

\* The items of a list that come after a place, in what the ledger shows.
Rest(seen, query, after) == {i \in DOMAIN seen : i > after /\ Matches(query, seen[i])}

\* A page has the first of them, no more than the limit; it is the last page if
\* it has them all, and else its cursor goes on where it ends.
IsPageOf(page, S, query, limit, view) ==
    /\ Len(page.data) \in 0 .. limit
    /\ page.data \in [1 .. Len(page.data) -> S]
    /\ \A m, n \in 1 .. Len(page.data) : m < n => page.data[m] < page.data[n]
    /\ page.next = NoCursor => \A i \in S : \E n \in 1 .. Len(page.data) : page.data[n] = i
    /\ page.next # NoCursor =>
           \E last \in S :
               /\ page.next = [query |-> query, limit |-> limit, after |-> last, view |-> view]
               /\ \A n \in 1 .. Len(page.data) : page.data[n] <= last
               /\ \A i \in S : i <= last => \E n \in 1 .. Len(page.data) : page.data[n] = i

\* What the ledger answers to ListAccounts and ListTransactions, for any items,
\* query, limit and cursor: a page leaves to its own cursor exactly what it has
\* not listed.
THEOREM LedgerPages ==
    ASSUME NEW items, NEW query, NEW limit \in Nat \ {0}, NEW after, NEW view,
           NEW seen, seen = (IF view = Live THEN items ELSE view),
           IsFiniteSet(DOMAIN seen), DOMAIN seen \subseteq Int
    PROVE  IsPageOf(LedgerPage(items, query, limit, after, view), Rest(seen, query, after),
                    query, limit, view)
<1> DEFINE S == Rest(seen, query, after)
           N == Cardinality(S)
           rest == Ascending(S)
           size == IF limit < N THEN limit ELSE N
           data == SubSeq(rest, 1, size)
           page == LedgerPage(items, query, limit, after, view)
<1>1. IsFiniteSet(S) /\ S \subseteq Int
  BY FS_Subset DEF Rest
<1>2. /\ N \in Nat
      /\ rest \in [1 .. N -> S]
      /\ \A m, n \in 1 .. N : m < n => rest[m] < rest[n]
      /\ \A i \in S : \E n \in 1 .. N : rest[n] = i
  <2> HIDE DEF S
  <2> QED
    BY <1>1, AscendingOrder
<1>3. Len(rest) = N
  BY <1>2
<1>4. /\ page.data = data
      /\ page.next = IF N <= limit THEN NoCursor
                     ELSE [query |-> query, limit |-> limit, after |-> Last(data), view |-> view]
  BY <1>3 DEF LedgerPage, Places, Rest
<1> HIDE DEF page
<1>5. size \in 0 .. limit /\ size <= N
  BY <1>2
<1>6. data = [n \in 1 .. size |-> rest[n]] /\ Len(data) = size
  <2> HIDE DEF rest, N, size
  <2>1. rest \in Seq(S) /\ Len(rest) = N
    BY <1>2
  <2>2. Len(data) = size /\ DOMAIN data = 1 .. size
    BY <1>2, <1>5, <2>1
  <2>3. \A n \in 1 .. size : data[n] = rest[n]
    BY <1>2, <1>5, <2>1
  <2>4. data = [n \in 1 .. size |-> data[n]]
    BY <2>2, <2>1, <1>5
  <2> QED
    BY <2>2, <2>3, <2>4
<1>7. /\ \A n \in 1 .. size : n \in 1 .. N /\ data[n] = rest[n] /\ data[n] \in S
      /\ \A m, n \in 1 .. size : m < n => data[m] < data[n]
  <2> HIDE DEF S, N, rest, size, data
  <2>1. \A n \in 1 .. size : n \in 1 .. N
    BY <1>2, <1>5
  <2> QED
    BY <1>2, <1>6, <2>1
<1> HIDE DEF S, N, rest, data
<1>8. data \in [1 .. size -> S]
  BY <1>6, <1>7
<1>9. ASSUME N <= limit PROVE IsPageOf(page, S, query, limit, view)
  <2>1. size = N /\ page.next = NoCursor
    BY <1>2, <1>4, <1>9
  <2>2. \A i \in S : \E n \in 1 .. size : data[n] = i
    BY <1>2, <1>7, <2>1
  <2> QED
    BY <1>4, <1>5, <1>6, <1>7, <1>8, <2>1, <2>2 DEF IsPageOf
<1>10. ASSUME ~(N <= limit) PROVE IsPageOf(page, S, query, limit, view)
  <2>1. size = limit /\ limit \in 1 .. size /\ Last(data) = data[limit]
    BY <1>2, <1>6, <1>10 DEF Last
  <2> DEFINE last == data[limit]
  <2>2. last \in S /\ last \in Int
    BY <1>1, <1>7, <2>1
  <2>3. \A n \in 1 .. size : data[n] <= last
    <3> SUFFICES ASSUME NEW n \in 1 .. size PROVE data[n] <= last
      OBVIOUS
    <3>1. n = limit \/ n < limit
      BY <2>1
    <3>2. data[n] \in Int /\ last \in Int
      BY <1>1, <1>7, <2>2
    <3>3. n < limit => data[n] < data[limit]
      BY <1>7, <2>1
    <3> QED
      BY <3>1, <3>2, <3>3
  <2>4. \A i \in S : i <= last => \E n \in 1 .. size : data[n] = i
    <3> SUFFICES ASSUME NEW i \in S, i <= last PROVE \E n \in 1 .. size : data[n] = i
      OBVIOUS
    <3>1. PICK n \in 1 .. N : rest[n] = i
      BY <1>2
    <3>2. last = rest[limit] /\ limit \in 1 .. N
      BY <1>7, <2>1
    <3>3. ~(limit < n)
      BY <1>1, <1>2, <2>2, <3>1, <3>2
    <3>4. n \in 1 .. size
      BY <1>2, <2>1, <3>1, <3>3
    <3> QED
      BY <1>7, <3>1, <3>4
  <2>5. page.next = [query |-> query, limit |-> limit, after |-> last, view |-> view]
    BY <1>4, <1>10, <2>1
  <2>6. page.next # NoCursor
    BY <2>5 DEF NoCursor
  <2> HIDE DEF last
  <2>7. \E l \in S :
           /\ page.next = [query |-> query, limit |-> limit, after |-> l, view |-> view]
           /\ \A n \in 1 .. size : data[n] <= l
           /\ \A i \in S : i <= l => \E n \in 1 .. size : data[n] = i
    BY <2>2, <2>3, <2>4, <2>5
  <2> HIDE DEF size
  <2>8. page.data = data /\ Len(data) = size /\ size \in 0 .. limit
    BY <1>4, <1>5, <1>6
  <2>9. \E l \in S :
           /\ page.next = [query |-> query, limit |-> limit, after |-> l, view |-> view]
           /\ \A n \in 1 .. Len(page.data) : page.data[n] <= l
           /\ \A i \in S : i <= l => \E n \in 1 .. Len(page.data) : page.data[n] = i
    BY <2>7, <2>8
  <2>10. /\ page.data \in [1 .. Len(page.data) -> S]
         /\ \A m, n \in 1 .. Len(page.data) : m < n => page.data[m] < page.data[n]
    BY <1>7, <1>8, <2>8
  <2> QED
    BY <2>6, <2>8, <2>9, <2>10 DEF IsPageOf
<1> QED
  BY <1>9, <1>10 DEF S, page

-----------------------------------------------------------------------------
(* Metadata.                                                                 *)

\* Metadata are pairs of a key and a value.
IsPairs(custom) == \A q \in custom : q = <<q[1], q[2]>>

AreReserved(S) == \A x \in S : \E k, v : x = Reserved(k, v)

\* The service's own metadata of an item, and its users'.
Own(item) == {x \in LedgerMetadata(item) : \E k, v : x = Reserved(k, v)}
Users(item) == IF item.kind \in {"balance", "foreign"} THEN {} ELSE item.custom

Kinds == {"wallet", "balance", "hold", "transaction", "foreign"}

\* No metadata of a user are taken for the service's.
LEMMA ReservedKeys ==
    ASSUME NEW S, NEW custom, NEW k, NEW v
    PROVE  Reserved(k, v) \in S \union EncodeCustomMetadata(custom) <=> Reserved(k, v) \in S
BY DEF Reserved, EncodeCustomMetadata

LEMMA OneReserved == \A k, v, l, w : Reserved(k, v) = Reserved(l, w) <=> k = l /\ v = w
BY DEF Reserved

\* No metadata of the service are taken for a user's.
LEMMA CustomKeys ==
    ASSUME NEW S, AreReserved(S), NEW asked, IsPairs(asked), NEW custom, IsPairs(custom)
    PROVE  EncodeCustomMetadata(asked) \subseteq S \union EncodeCustomMetadata(custom) <=> asked \subseteq custom
<1>1. ASSUME NEW p \in asked, <<"wallets/custom_data_", p[1], p[2]>> \in S \union EncodeCustomMetadata(custom)
      PROVE  p \in custom
  <2>1. <<"wallets/custom_data_", p[1], p[2]>> \notin S
    BY DEF AreReserved, Reserved
  <2>2. PICK q \in custom : <<"wallets/custom_data_", p[1], p[2]>> = <<"wallets/custom_data_", q[1], q[2]>>
    BY <1>1, <2>1 DEF EncodeCustomMetadata
  <2>3. p = <<p[1], p[2]>> /\ q = <<q[1], q[2]>>
    BY <1>1 DEF IsPairs
  <2>4. p[1] = q[1] /\ p[2] = q[2]
    BY <2>2
  <2>5. p = q
    BY <2>3, <2>4, Zenon
  <2> QED
    BY <2>5
<1>2. \A p \in asked : <<"wallets/custom_data_", p[1], p[2]>> \in EncodeCustomMetadata(asked)
  BY DEF EncodeCustomMetadata
<1>3. asked \subseteq custom => EncodeCustomMetadata(asked) \subseteq EncodeCustomMetadata(custom)
  BY DEF EncodeCustomMetadata
<1>4. EncodeCustomMetadata(asked) \subseteq S \union EncodeCustomMetadata(custom) => asked \subseteq custom
  BY <1>1, <1>2
<1> QED
  BY <1>3, <1>4

\* The keys of the service tell the kind of an item and its wallet.
LEMMA ReservedTell ==
    ASSUME NEW item, item.kind \in Kinds
    PROVE  /\ Reserved("spec/type", "wallets.primary") \in LedgerMetadata(item) <=> item.kind = "wallet"
           /\ Reserved("spec/type", "wallets.hold") \in LedgerMetadata(item) <=> item.kind = "hold"
           /\ Reserved("transaction", "true") \in LedgerMetadata(item) <=> item.kind = "transaction"
           /\ Reserved("balances", "true") \in LedgerMetadata(item) <=> item.kind \in {"wallet", "balance"}
           /\ \A v : Reserved("id", v) \in LedgerMetadata(item) <=>
                        item.kind \in {"wallet", "balance"} /\ item.wallet = v
           /\ \A v : Reserved("holds/wallet_id", v) \in LedgerMetadata(item) <=>
                        item.kind = "hold" /\ item.wallet = v
           /\ \A v : item.kind = "wallet" =>
                        (Reserved("name", v) \in LedgerMetadata(item) <=> item.name = v)
<1>1. CASE item.kind = "wallet"
  <2> DEFINE S == {Reserved("spec/type", "wallets.primary"), Reserved("name", item.name),
                   Reserved("id", item.wallet), Reserved("balances", "true"),
                   Reserved("balances/name", MainBalance)}
  <2>1. LedgerMetadata(item) = S \union EncodeCustomMetadata(item.custom)
    BY <1>1 DEF LedgerMetadata, WalletMetadata
  <2> HIDE DEF S
  <2>2. \A k, v : Reserved(k, v) \in LedgerMetadata(item) <=> Reserved(k, v) \in S
    BY <2>1, ReservedKeys
  <2> QED
    BY <1>1, <2>2, OneReserved DEF S
<1>2. CASE item.kind = "balance"
  BY <1>2, OneReserved DEF LedgerMetadata, BalanceMetadata
<1>3. CASE item.kind = "hold"
  <2> DEFINE S == {Reserved("spec/type", "wallets.hold"), Reserved("holds/wallet_id", item.wallet)}
  <2>1. LedgerMetadata(item) = S \union EncodeCustomMetadata(item.custom)
    BY <1>3 DEF LedgerMetadata, HoldMetadata
  <2> HIDE DEF S
  <2>2. \A k, v : Reserved(k, v) \in LedgerMetadata(item) <=> Reserved(k, v) \in S
    BY <2>1, ReservedKeys
  <2> QED
    BY <1>3, <2>2, OneReserved DEF S
<1>4. CASE item.kind = "transaction"
  <2> DEFINE S == {Reserved("transaction", "true")}
  <2>1. LedgerMetadata(item) = S \union EncodeCustomMetadata(item.custom)
    BY <1>4 DEF LedgerMetadata, TransactionMetadata
  <2> HIDE DEF S
  <2>2. \A k, v : Reserved(k, v) \in LedgerMetadata(item) <=> Reserved(k, v) \in S
    BY <2>1, ReservedKeys
  <2> QED
    BY <1>4, <2>2, OneReserved DEF S
<1>5. CASE item.kind = "foreign"
  BY <1>5 DEF LedgerMetadata
<1> QED
  BY <1>1, <1>2, <1>3, <1>4, <1>5 DEF Kinds

\* The other keys tell what its users wrote.
LEMMA CustomTell ==
    ASSUME NEW item, item.kind \in Kinds, IsPairs(Users(item)), NEW asked, IsPairs(asked)
    PROVE  EncodeCustomMetadata(asked) \subseteq LedgerMetadata(item) <=> asked \subseteq Users(item)
<1>1. AreReserved(Own(item))
  BY DEF AreReserved, Own
<1>2. LedgerMetadata(item) = Own(item) \union EncodeCustomMetadata(Users(item))
  <2>1. \A x \in EncodeCustomMetadata(Users(item)) : x \in LedgerMetadata(item)
    BY DEF Users, Kinds, LedgerMetadata, WalletMetadata, HoldMetadata, TransactionMetadata, EncodeCustomMetadata
  <2>2. ASSUME NEW x \in LedgerMetadata(item), x \notin EncodeCustomMetadata(Users(item))
        PROVE  \E k, v : x = Reserved(k, v)
    BY <2>2 DEF Users, Kinds, LedgerMetadata, WalletMetadata, BalanceMetadata, HoldMetadata, TransactionMetadata
  <2> QED
    BY <2>1, <2>2 DEF Own
<1> QED
  BY <1>1, <1>2, CustomKeys
=============================================================================
