---------------------------- MODULE ListsProofs ----------------------------
(***************************************************************************)
(* What the lists promise holds for every size of the pages and every      *)
(* ledger: a list has all that it is about, once, and nothing else.        *)
(***************************************************************************)
EXTENDS Lists, AccountsProofs

ListedBy(rd) == {rd.listed[n] : n \in 1 .. Len(rd.listed)}

\* What the pages put together is in the order of the ledger.
InOrder(listed) ==
    /\ Len(listed) \in Nat
    /\ listed \in Seq(Int)
    /\ \A m, n \in 1 .. Len(listed) : m < n => listed[m] < listed[n]

\* What a cursor shows: what there was at the first page, or what there is.
Shown(rd, view) == IF view = Live THEN Items(rd.request.op) ELSE view

\* What was in question at the first page is what a cursor of that time finds.
ViewOK(rd, steadyOnes, view) ==
    view # Live =>
        /\ IsFiniteSet(DOMAIN view) /\ DOMAIN view \subseteq Int
        /\ rd.first = {i \in DOMAIN view : Matches(QueryOf(rd.request), view[i])}
        /\ steadyOnes \subseteq rd.first

\* Up to the place of a cursor everything steady is listed, and nothing beyond.
ReadUpTo(rd, steadyOnes, place) ==
    /\ \A i \in ListedBy(rd) : i <= place
    /\ \A i \in steadyOnes : i <= place => i \in ListedBy(rd)

CursorOK(rd, steadyOnes) ==
    /\ rd.request \in Requests
    /\ rd.cursor = [query |-> QueryOf(rd.request), limit |-> rd.cursor.limit,
                    after |-> rd.cursor.after, view |-> rd.cursor.view]
    /\ rd.cursor.limit \in 1 .. maxPageSize
    /\ rd.cursor.after \in Int
    /\ steadyOnes \subseteq InQuestion(rd.request)
    /\ ViewOK(rd, steadyOnes, rd.cursor.view)
    /\ ReadUpTo(rd, steadyOnes, rd.cursor.after)

IsReader(rd) ==
    rd = [step |-> rd.step, request |-> rd.request, asked |-> rd.asked, status |-> rd.status,
          cursor |-> rd.cursor, listed |-> rd.listed, pageSize |-> rd.pageSize, count |-> rd.count,
          first |-> rd.first, there |-> rd.there]

Reads(rd, steadyOnes) ==
    /\ IsReader(rd)
    /\ rd.asked \in PageSizes \union {NoPageSize}
    /\ rd.count \in 0 .. maxPageSize
    /\ InOrder(rd.listed)
    /\ rd.step = "reading" => CursorOK(rd, steadyOnes)
    /\ rd.step = "done" => steadyOnes \subseteq ListedBy(rd)

LedgerOK ==
    /\ IsFiniteSet(DOMAIN accounts)
    /\ \A i \in DOMAIN accounts : i \in Int /\ i > Start /\ IsAccount(accounts[i])
    /\ changes \in 0 .. Changes
    /\ \E n \in 0 .. changes : DOMAIN transactions = -n .. -1
    /\ \A i \in DOMAIN transactions : IsTransaction(transactions[i])

\* The inductive invariant.
Inv == LedgerOK /\ Reads(reader, steady)

-----------------------------------------------------------------------------
\* A query finds what the list is about, by the metadata that the service
\* writes and whatever its users write.
LEMMA QueriesTell ==
    ASSUME NEW r \in Requests, NEW item,
           IF r.op = "ListTransactions" THEN IsTransaction(item) ELSE IsAccount(item)
    PROVE  Matches(QueryOf(r), item) <=> Asked(r, item)
<1>1. /\ IsPairs(r.custom) /\ IsPairs(Users(item)) /\ item.kind \in Kinds
      /\ item.kind = "foreign" \/ Users(item) = item.custom
  BY RequestsAssumption DEF IsTransaction, IsAccount, IsCustom, IsPairs, Users, Kinds
<1>2. EncodeCustomMetadata(r.custom) \subseteq LedgerMetadata(item) <=> r.custom \subseteq Users(item)
  BY <1>1, CustomTell
<1>3. CASE r.op = "ListWallets"
  <2>1. QueryOf(r) = ListWallets(r)
    BY <1>3 DEF QueryOf
  <2>2. Matches(QueryOf(r), item) <=>
          /\ Reserved("spec/type", "wallets.primary") \in LedgerMetadata(item)
          /\ EncodeCustomMetadata(r.custom) \subseteq LedgerMetadata(item)
          /\ r.name # AnyValue => Reserved("name", r.name) \in LedgerMetadata(item)
    BY <2>1 DEF Matches, ListWallets, Query
  <2> QED
    BY <1>1, <1>2, <1>3, <2>2, ReservedTell DEF Asked
<1>4. CASE r.op = "ListHolds"
  <2>1. QueryOf(r) = ListHolds(r)
    BY <1>4 DEF QueryOf
  <2>2. Matches(QueryOf(r), item) <=>
          /\ Reserved("spec/type", "wallets.hold") \in LedgerMetadata(item)
          /\ EncodeCustomMetadata(r.custom) \subseteq LedgerMetadata(item)
          /\ r.wallet # AnyValue => Reserved("holds/wallet_id", r.wallet) \in LedgerMetadata(item)
    BY <2>1 DEF Matches, ListHolds, Query
  <2> QED
    BY <1>1, <1>2, <1>4, <2>2, ReservedTell DEF Asked
<1>5. CASE r.op = "ListBalances"
  <2>1. QueryOf(r) = ListBalances(r)
    BY <1>5 DEF QueryOf
  <2>2. Matches(QueryOf(r), item) <=>
          /\ Reserved("balances", "true") \in LedgerMetadata(item)
          /\ Reserved("id", r.wallet) \in LedgerMetadata(item)
          /\ EncodeCustomMetadata(r.custom) \subseteq LedgerMetadata(item)
    BY <2>1 DEF Matches, ListBalances, Query, BalancesMetadataFilter
  <2> QED
    BY <1>1, <1>2, <1>5, <2>2, ReservedTell DEF Asked
<1>6. CASE r.op = "ListTransactions"
  <2>1. QueryOf(r) = ListTransactions(r)
    BY <1>6 DEF QueryOf
  <2>2. r.custom = {} /\ AnyValue # <<r.wallet, MainBalance>>
    BY <1>6, RequestsAssumption
  <2>3. Matches(QueryOf(r), item) <=>
          /\ Reserved("transaction", "true") \in LedgerMetadata(item)
          /\ r.wallet # AnyValue => <<r.wallet, MainBalance>> \in item.touches
    BY <2>1, <2>2 DEF Matches, ListTransactions
  <2> QED
    BY <1>1, <1>6, <2>2, <2>3, ReservedTell DEF Asked
<1> QED
  BY <1>3, <1>4, <1>5, <1>6, RequestsAssumption

\* So a query finds in the ledger what is in question.
LEMMA QueriesFind ==
    ASSUME LedgerOK, NEW r \in Requests
    PROVE  /\ IsFiniteSet(DOMAIN Items(r.op))
           /\ \A i \in DOMAIN Items(r.op) : i \in Int /\ i > Start
           /\ InQuestion(r) = {i \in DOMAIN Items(r.op) : Matches(QueryOf(r), Items(r.op)[i])}
<1>1. CASE r.op = "ListTransactions"
  <2>1. Items(r.op) = transactions
    BY <1>1 DEF Items
  <2>2. PICK n \in 0 .. changes : DOMAIN transactions = -n .. -1
    BY DEF LedgerOK
  <2>3. n \in Nat /\ Start + n < 0 /\ Start \in Int
    BY <2>2, LedgerAssumption DEF LedgerOK, Start
  <2>4. IsFiniteSet(-n .. -1) /\ \A i \in -n .. -1 : i \in Int /\ i > Start
    BY <2>3, FS_Interval
  <2>5. \A i \in DOMAIN transactions : Matches(QueryOf(r), transactions[i]) <=> Asked(r, transactions[i])
    BY <1>1, QueriesTell DEF LedgerOK
  <2> QED
    BY <2>1, <2>2, <2>4, <2>5 DEF InQuestion
<1>2. CASE r.op # "ListTransactions"
  <2>1. Items(r.op) = accounts
    BY <1>2 DEF Items
  <2>2. \A i \in DOMAIN accounts : Matches(QueryOf(r), accounts[i]) <=> Asked(r, accounts[i])
    BY <1>2, QueriesTell DEF LedgerOK
  <2> QED
    BY <2>1, <2>2 DEF InQuestion, LedgerOK
<1> QED
  BY <1>1, <1>2

-----------------------------------------------------------------------------
(* A page.                                                                   *)

LEMMA PageSizesBounded ==
    ASSUME NEW asked \in PageSizes \union {NoPageSize}
    PROVE  parsePageSize(asked) \in 0 .. maxPageSize
BY LimitsAssumption DEF parsePageSize

Continues(all, listed, data) ==
    /\ InOrder(all)
    /\ Len(all) = Len(listed) + Len(data)
    /\ \A n \in 1 .. Len(listed) : all[n] = listed[n]
    /\ \A n \in 1 .. Len(data) : all[Len(listed) + n] = data[n]
    /\ \A n \in Len(listed) + 1 .. Len(all) :
          n - Len(listed) \in 1 .. Len(data) /\ all[n] = data[n - Len(listed)]

\* What is listed so far, and then the page that comes after, is in order.
LEMMA PagesInOrder ==
    ASSUME NEW listed, InOrder(listed), NEW data \in Seq(Int), Len(data) \in Nat,
           NEW all, all = listed \o data,
           \A m, n \in 1 .. Len(data) : m < n => data[m] < data[n],
           \A m \in 1 .. Len(listed), n \in 1 .. Len(data) : listed[m] < data[n]
    PROVE  Continues(all, listed, data)
<1> DEFINE a == Len(listed)
           b == Len(data)
<1>1. /\ a \in Nat /\ b \in Nat /\ listed \in Seq(Int)
      /\ \A m, n \in 1 .. a : m < n => listed[m] < listed[n]
  BY DEF InOrder
<1>2. all \in Seq(Int) /\ Len(all) = a + b
  BY <1>1
<1>3. /\ \A n \in 1 .. a : all[n] = listed[n]
      /\ \A n \in a + 1 .. a + b : n - a \in 1 .. b /\ all[n] = data[n - a]
      /\ \A n \in 1 .. b : all[a + n] = data[n]
  BY <1>1
<1>4. ASSUME NEW m \in 1 .. a + b, NEW n \in 1 .. a + b, m < n PROVE all[m] < all[n]
  <2> HIDE DEF a, b
  <2>1. CASE n <= a
    <3>1. m \in 1 .. a /\ n \in 1 .. a
      BY <1>1, <1>4, <2>1
    <3> QED
      BY <1>1, <1>3, <1>4, <3>1
  <2>2. CASE m > a
    <3>1. m \in a + 1 .. a + b /\ n \in a + 1 .. a + b
      BY <1>1, <1>4, <2>2
    <3>2. m - a \in 1 .. b /\ n - a \in 1 .. b /\ m - a < n - a
      BY <1>1, <1>4, <3>1
    <3> QED
      BY <1>3, <3>1, <3>2 DEF b
  <2>3. CASE m <= a /\ n > a
    <3>1. m \in 1 .. a /\ n \in a + 1 .. a + b
      BY <1>1, <2>3
    <3>2. n - a \in 1 .. b
      BY <1>3, <3>1
    <3> QED
      BY <1>3, <3>1, <3>2 DEF a, b
  <2>4. n <= a \/ m > a \/ (m <= a /\ n > a)
    <3>1. m \in Int /\ n \in Int /\ a \in Int
      BY <1>1
    <3> QED
      BY <3>1
  <2> QED
    BY <2>1, <2>2, <2>3, <2>4
<1> QED
  BY <1>1, <1>2, <1>3, <1>4 DEF InOrder, Continues

\* What the reader has after a page, field by field.
ReadsAs(new, rd, answer) ==
    /\ IsReader(new)
    /\ new.step = IF answer.status # 200 THEN "refused"
                  ELSE IF answer.next = NoCursor THEN "done" ELSE "reading"
    /\ new.request = rd.request
    /\ new.asked = rd.asked
    /\ new.first = rd.first
    /\ new.cursor = answer.next
    /\ new.listed = rd.listed \o answer.data
    /\ new.count = Len(answer.data)

LEMMA ReadFields == \A rd, answer : IsReader(rd) => ReadsAs(Read(rd, answer), rd, answer)
<1> SUFFICES ASSUME NEW rd, NEW answer, IsReader(rd) PROVE ReadsAs(Read(rd, answer), rd, answer)
  OBVIOUS
<1> DEFINE new == Read(rd, answer)
           step == IF answer.status # 200 THEN "refused"
                   ELSE IF answer.next = NoCursor THEN "done" ELSE "reading"
<1>1. rd = [step |-> rd.step, request |-> rd.request, asked |-> rd.asked, status |-> rd.status,
            cursor |-> rd.cursor, listed |-> rd.listed, pageSize |-> rd.pageSize, count |-> rd.count,
            first |-> rd.first, there |-> rd.there]
  BY DEF IsReader
<1>2. new = [step |-> step, request |-> rd.request, asked |-> rd.asked, status |-> answer.status,
             cursor |-> answer.next, listed |-> rd.listed \o answer.data,
             pageSize |-> answer.pageSize, count |-> Len(answer.data),
             first |-> rd.first, there |-> rd.there]
  <2> DEFINE listed == rd.listed \o answer.data
             count == Len(answer.data)
  <2>1. new = [rd EXCEPT !.step = step, !.status = answer.status, !.cursor = answer.next,
                         !.pageSize = answer.pageSize, !.listed = listed, !.count = count]
    BY DEF Read
  <2> HIDE DEF new, step, listed, count
  <2>2. new = [step |-> step, request |-> rd.request, asked |-> rd.asked, status |-> answer.status,
             cursor |-> answer.next, listed |-> listed, pageSize |-> answer.pageSize, count |-> count,
             first |-> rd.first, there |-> rd.there]
    BY <1>1, <2>1
  <2> QED
    BY <2>2 DEF listed, count
<1> HIDE DEF new
<1> QED
  BY <1>2 DEF IsReader, ReadsAs, new

\* A reader who may go on from a place, with a cursor or without one.
MayRead(rd, steadyOnes, limit, after, view) ==
    /\ IsReader(rd)
    /\ rd.request \in Requests
    /\ rd.asked \in PageSizes \union {NoPageSize}
    /\ InOrder(rd.listed)
    /\ limit \in 1 .. maxPageSize
    /\ after \in Int
    /\ ReadUpTo(rd, steadyOnes, after)
    /\ ViewOK(rd, steadyOnes, view)
    /\ steadyOnes \subseteq InQuestion(rd.request)

IsAnswer(answer, page) == answer.status = 200 /\ answer.data = page.data /\ answer.next = page.next

PageAfter(rd, limit, after, view) ==
    LedgerPage(Items(rd.request.op), QueryOf(rd.request), limit, after, view)

\* All that is added to the list comes after the place and is asked for.
AddsAfter(new, rd, after, view) ==
    \A n \in Len(rd.listed) + 1 .. Len(new.listed) :
        new.listed[n] \in Rest(Shown(rd, view), QueryOf(rd.request), after)

\* A page adds to the list what comes next, and leaves out nothing steady.
LEMMA PageRead ==
    ASSUME LedgerOK,
           NEW rd, NEW steadyOnes, NEW limit, NEW after, NEW view,
           MayRead(rd, steadyOnes, limit, after, view),
           NEW answer, IsAnswer(answer, PageAfter(rd, limit, after, view))
    PROVE  /\ Reads(Read(rd, answer), steadyOnes)
           /\ AddsAfter(Read(rd, answer), rd, after, view)
<1> DEFINE page == PageAfter(rd, limit, after, view)
<1>0. /\ IsReader(rd) /\ rd.request \in Requests
      /\ rd.asked \in PageSizes \union {NoPageSize}
      /\ InOrder(rd.listed) /\ limit \in 1 .. maxPageSize /\ after \in Int
      /\ ReadUpTo(rd, steadyOnes, after) /\ ViewOK(rd, steadyOnes, view)
      /\ steadyOnes \subseteq InQuestion(rd.request)
      /\ page = LedgerPage(Items(rd.request.op), QueryOf(rd.request), limit, after, view)
      /\ answer.status = 200 /\ answer.data = page.data /\ answer.next = page.next
  BY DEF MayRead, IsAnswer, PageAfter
<1> HIDE DEF page
<1> DEFINE query == QueryOf(rd.request)
           seen == Shown(rd, view)
           S == Rest(seen, query, after)
           data == page.data
           new == Read(rd, answer)
           before == Len(rd.listed)
<1>1. /\ IsFiniteSet(DOMAIN seen) /\ DOMAIN seen \subseteq Int
      /\ \A i \in steadyOnes : i > after => i \in S
  <2>1. CASE view = Live
    BY <1>0, <2>1, QueriesFind DEF Shown, Rest
  <2>2. CASE view # Live
    BY <1>0, <2>2, QueriesFind DEF Shown, Rest, ViewOK
  <2> QED
    BY <2>1, <2>2
<1>2. S \subseteq Int /\ \A i \in S : after < i
  BY <1>1 DEF Rest
<1>3. limit \in Nat \ {0} /\ seen = (IF view = Live THEN Items(rd.request.op) ELSE view)
  BY <1>0, LimitsAssumption DEF Shown
<1> HIDE DEF seen, query, S, data, new, before
<1>4. /\ Len(data) \in 0 .. limit
      /\ data \in [1 .. Len(data) -> S]
      /\ \A m, n \in 1 .. Len(data) : m < n => data[m] < data[n]
      /\ page.next = NoCursor => \A i \in S : \E n \in 1 .. Len(data) : data[n] = i
      /\ page.next # NoCursor =>
             \E last \in S :
                 /\ page.next = [query |-> query, limit |-> limit, after |-> last, view |-> view]
                 /\ \A n \in 1 .. Len(data) : data[n] <= last
                 /\ \A i \in S : i <= last => \E n \in 1 .. Len(data) : data[n] = i
  <2> DEFINE items == Items(rd.request.op)
  <2>1. page = LedgerPage(items, query, limit, after, view)
    BY <1>0 DEF query
  <2>2. seen = (IF view = Live THEN items ELSE view)
    BY <1>3
  <2> HIDE DEF items
  <2>3. IsPageOf(page, Rest(seen, query, after), query, limit, view)
    BY <1>1, <1>3, <2>1, <2>2, LedgerPages
  <2> QED
    BY <2>3 DEF S, data, IsPageOf
<1>5. /\ new.step = IF page.next = NoCursor THEN "done" ELSE "reading"
      /\ new.request = rd.request /\ new.asked = rd.asked /\ new.first = rd.first
      /\ new.cursor = page.next /\ new.listed = rd.listed \o data /\ new.count = Len(data)
      /\ IsReader(new)
  <2>1. IsReader(rd) /\ answer.status = 200 /\ answer.next = page.next /\ answer.data = data
    BY <1>0 DEF data
  <2>2. ReadsAs(new, rd, answer)
    BY <2>1, ReadFields DEF new
  <2> QED
    BY <2>1, <2>2 DEF ReadsAs
<1>6. /\ before \in Nat
      /\ \A n \in 1 .. before : rd.listed[n] \in ListedBy(rd) /\ rd.listed[n] \in Int /\ rd.listed[n] <= after
  BY <1>0 DEF InOrder, ReadUpTo, ListedBy, before
<1>7. data \in Seq(Int) /\ Len(data) \in Nat /\ \A n \in 1 .. Len(data) : data[n] \in S
  <2>1. Len(data) \in Nat
    BY <1>4
  <2>2. \A n \in 1 .. Len(data) : data[n] \in S /\ data[n] \in Int
    BY <1>2, <1>4
  <2>3. data \in [1 .. Len(data) -> Int]
    BY <1>4, <2>2
  <2> QED
    BY <2>1, <2>2, <2>3
<1>8. \A m \in 1 .. before, n \in 1 .. Len(data) : rd.listed[m] < data[n]
  <2> SUFFICES ASSUME NEW m \in 1 .. before, NEW n \in 1 .. Len(data)
               PROVE  rd.listed[m] < data[n]
    OBVIOUS
  <2>1. rd.listed[m] \in Int /\ rd.listed[m] <= after /\ after < data[n] /\ data[n] \in Int
    BY <1>2, <1>6, <1>7
  <2> QED
    BY <1>0, <2>1
<1>9. /\ InOrder(new.listed)
      /\ Len(new.listed) = before + Len(data)
      /\ \A n \in 1 .. before : new.listed[n] = rd.listed[n]
      /\ \A n \in 1 .. Len(data) : new.listed[before + n] = data[n]
      /\ \A n \in before + 1 .. Len(new.listed) :
            n - before \in 1 .. Len(data) /\ new.listed[n] = data[n - before]
  <2> DEFINE listed == rd.listed
  <2>1. InOrder(listed) /\ new.listed = listed \o data
    BY <1>0, <1>5
  <2>2. /\ data \in Seq(Int) /\ Len(data) \in Nat
        /\ \A m, n \in 1 .. Len(data) : m < n => data[m] < data[n]
    BY <1>4, <1>7
  <2>3. \A m \in 1 .. Len(listed), n \in 1 .. Len(data) : listed[m] < data[n]
    BY <1>8 DEF before
  <2> HIDE DEF listed
  <2>4. Continues(new.listed, listed, data)
    BY <2>1, <2>2, <2>3, PagesInOrder
  <2> QED
    BY <2>4 DEF listed, before, Continues
<1>10. ListedBy(new) = ListedBy(rd) \union {data[n] : n \in 1 .. Len(data)}
  <2>1. ASSUME NEW n \in 1 .. before PROVE rd.listed[n] \in ListedBy(new)
    <3>1. n \in 1 .. Len(new.listed) /\ new.listed[n] = rd.listed[n]
      BY <1>6, <1>7, <1>9
    <3> QED
      BY <3>1 DEF ListedBy
  <2>2. ASSUME NEW n \in 1 .. Len(data) PROVE data[n] \in ListedBy(new)
    <3>1. before + n \in 1 .. Len(new.listed)
      BY <1>6, <1>7, <1>9
    <3> QED
      BY <1>9, <3>1 DEF ListedBy
  <2>3. ASSUME NEW n \in 1 .. Len(new.listed)
        PROVE  new.listed[n] \in ListedBy(rd) \union {data[m] : m \in 1 .. Len(data)}
    <3>1. n \in 1 .. before \/ n \in before + 1 .. Len(new.listed)
      BY <1>6, <1>7, <1>9
    <3> QED
      BY <1>6, <1>9, <3>1
  <2>4. ListedBy(rd) = {rd.listed[n] : n \in 1 .. before}
    BY DEF ListedBy, before
  <2>5. ListedBy(new) = {new.listed[n] : n \in 1 .. Len(new.listed)}
    BY DEF ListedBy
  <2>6. ListedBy(new) \subseteq ListedBy(rd) \union {data[n] : n \in 1 .. Len(data)}
    BY <2>3, <2>5
  <2>7. ListedBy(rd) \subseteq ListedBy(new)
    BY <2>1, <2>4
  <2>8. {data[n] : n \in 1 .. Len(data)} \subseteq ListedBy(new)
    BY <2>2
  <2> QED
    BY <2>6, <2>7, <2>8
<1>11. new.step = "done" => steadyOnes \subseteq ListedBy(new)
  <2> SUFFICES ASSUME page.next = NoCursor, NEW i \in steadyOnes PROVE i \in ListedBy(new)
    BY <1>5
  <2>1. i \in Int
    BY <1>0, QueriesFind
  <2>2. i <= after \/ i \in S
    BY <1>0, <1>1, <2>1
  <2> QED
    BY <1>0, <1>4, <1>10, <2>2 DEF ReadUpTo
<1>12. new.step = "reading" => CursorOK(new, steadyOnes)
  <2> SUFFICES ASSUME page.next # NoCursor PROVE CursorOK(new, steadyOnes)
    BY <1>5
  <2>1. PICK last \in S :
          /\ page.next = [query |-> query, limit |-> limit, after |-> last, view |-> view]
          /\ \A n \in 1 .. Len(data) : data[n] <= last
          /\ \A i \in S : i <= last => \E n \in 1 .. Len(data) : data[n] = i
    BY <1>4
  <2>2. last \in Int /\ after < last
    BY <1>2
  <2>3. ASSUME NEW i \in ListedBy(new) PROVE i <= last
    <3>1. CASE i \in ListedBy(rd)
      <4>1. i <= after /\ i \in Int
        BY <3>1, <1>6 DEF ListedBy, before
      <4> QED
        BY <1>0, <2>2, <4>1
    <3> QED
      BY <1>10, <2>1, <2>3, <3>1
  <2>4. ASSUME NEW i \in steadyOnes, i <= last PROVE i \in ListedBy(new)
    <3>1. i \in Int
      BY <1>0, QueriesFind
    <3>2. i <= after \/ i \in S
      BY <1>0, <1>1, <3>1
    <3> QED
      BY <1>0, <1>10, <2>1, <2>4, <3>2 DEF ReadUpTo
  <2>5. /\ new.cursor.query = query /\ new.cursor.limit = limit
        /\ new.cursor.after = last /\ new.cursor.view = view
        /\ new.cursor = [query |-> query, limit |-> limit, after |-> last, view |-> view]
    BY <1>5, <2>1
  <2>6. ViewOK(new, steadyOnes, view)
    BY <1>0, <1>5 DEF ViewOK
  <2> QED
    BY <1>0, <1>5, <2>2, <2>3, <2>4, <2>5, <2>6 DEF CursorOK, ReadUpTo, query
<1>13. new.count \in 0 .. maxPageSize
  BY <1>0, <1>4, <1>5, LimitsAssumption
<1>14. \A n \in before + 1 .. Len(new.listed) : new.listed[n] \in S
  BY <1>7, <1>9
<1> QED
  BY <1>0, <1>5, <1>9, <1>11, <1>12, <1>13, <1>14 DEF Reads, AddsAfter, new, before, S, seen, query

-----------------------------------------------------------------------------
(* The steps of the reader.                                                  *)

\* A list is refused, or a page of it is answered.
LEMMA AnswerCases ==
    ASSUME NEW r \in Requests, NEW asked \in PageSizes \union {NoPageSize}, NEW token,
           NEW answer \in Answers(r, asked, token)
    PROVE  \/ answer.status # 200 /\ answer.data = <<>>
           \/ /\ token # Garbled
              /\ parsePageSize(asked) \in 1 .. maxPageSize
              /\ answer.status = 200
              /\ \E view \in Views(Items(r.op)) :
                    LET page == mapAccountList(Items(r.op), view, QueryOf(r), parsePageSize(asked), token)
                    IN  answer.data = page.data /\ answer.next = page.next
<1> DEFINE limit == parsePageSize(asked)
           refusal(status) == [status |-> status, data |-> <<>>, next |-> NoCursor, pageSize |-> 0]
           page(view) == mapAccountList(Items(r.op), view, QueryOf(r), limit, token)
<1>1. limit \in 0 .. maxPageSize /\ maxPageSize \in Nat
  BY PageSizesBounded, LimitsAssumption
<1>2. refusal(400).status # 200 /\ refusal(400).data = <<>>
  OBVIOUS
<1>3. refusal(mapListError(token)).status # 200 /\ refusal(mapListError(token)).data = <<>>
  BY DEF mapListError
<1>4. CASE limit = 0
  BY <1>2, <1>4 DEF Answers
<1>5. CASE limit # 0
  <2>1. limit \in 1 .. maxPageSize
    BY <1>1, <1>5
  <2>2. \/ answer = refusal(mapListError(token))
        \/ /\ token # Garbled
           /\ \E view \in Views(Items(r.op)) :
                 answer = [status |-> 200, data |-> page(view).data, next |-> page(view).next,
                           pageSize |-> limit]
    <3> HIDE DEF limit, page
    <3>1. answer \in {refusal(mapListError(token))}
             \union (IF token = Garbled THEN {}
                     ELSE {[status |-> 200, data |-> page(view).data, next |-> page(view).next,
                            pageSize |-> limit] : view \in Views(Items(r.op))})
      BY <1>5 DEF Answers, limit, page
    <3> QED
      BY <3>1
  <2> QED
    BY <1>3, <2>1, <2>2
<1> QED
  BY <1>4, <1>5

\* A refusal ends the list, and lists nothing.
LEMMA Refusal ==
    ASSUME NEW rd, IsReader(rd), rd.asked \in PageSizes \union {NoPageSize}, InOrder(rd.listed),
           NEW answer, answer.status # 200, answer.data = <<>>, NEW steadyOnes
    PROVE  Reads(Read(rd, answer), steadyOnes) /\ Read(rd, answer).listed = rd.listed
<1> DEFINE new == Read(rd, answer)
<1>1. ReadsAs(new, rd, answer)
  BY ReadFields
<1> HIDE DEF new
<1>2. rd.listed \o <<>> = rd.listed
  BY DEF InOrder
<1>3. new.listed = rd.listed /\ new.count = 0 /\ new.step = "refused" /\ IsReader(new) /\ new.asked = rd.asked
  BY <1>1, <1>2 DEF ReadsAs
<1>4. new.count \in 0 .. maxPageSize
  BY <1>3, LimitsAssumption
<1>5. Reads(new, steadyOnes)
  BY <1>3, <1>4 DEF Reads
<1> QED
  BY <1>3, <1>5 DEF new

\* The reader reads from what does not change meanwhile.
LEMMA ReadsNext ==
    ASSUME NEW new, NEW steadyOnes, Reads(new, steadyOnes), reader' = new, steady' = steadyOnes,
           UNCHANGED <<accounts, transactions>>
    PROVE  Reads(reader, steady)'
<1>1. InQuestion(new.request) = InQuestion(reader.request)'
  BY DEF InQuestion, Items
<1> QED
  BY <1>1 DEF Reads, CursorOK, ViewOK, ReadUpTo, ListedBy, IsReader, InOrder

\* What is added to the list is in question, or was at the first page.
Wanted(n) ==
    LET i == reader'.listed[n] IN
    \/ i \in InQuestion(reader'.request)
    \/ reader.step = "reading" /\ reader.cursor.view # Live /\ i \in reader.first

LEMMA FirstStep ==
    ASSUME Inv, First
    PROVE  Inv' /\ \A n \in Len(reader.listed) + 1 .. Len(reader'.listed) : Wanted(n)
<1>1. PICK r \in Requests, asked \in PageSizes, token \in {NoCursor, Garbled} :
        \E answer \in Answers(r, asked, token) :
          /\ reader' = Read([Idle EXCEPT !.request = r, !.asked = asked, !.first = InQuestion(r),
                                         !.there = DOMAIN Items(r.op)], answer)
          /\ steady' = InQuestion(r)
  BY DEF First
<1> DEFINE rd == [Idle EXCEPT !.request = r, !.asked = asked, !.first = InQuestion(r),
                              !.there = DOMAIN Items(r.op)]
           query == QueryOf(r)
           limit == parsePageSize(asked)
<1>2. PICK answer \in Answers(r, asked, token) : reader' = Read(rd, answer) /\ steady' = InQuestion(r)
  BY <1>1
<1>3. /\ IsReader(rd) /\ rd.request = r /\ rd.asked = asked /\ rd.first = InQuestion(r) /\ rd.listed = <<>>
  <2> DEFINE first == InQuestion(r)
             there == DOMAIN Items(r.op)
  <2>0. rd = [Idle EXCEPT !.request = r, !.asked = asked, !.first = first, !.there = there]
    OBVIOUS
  <2> HIDE DEF first, there, rd
  <2>1. rd = [step |-> "idle", request |-> r, asked |-> asked, status |-> 0, cursor |-> NoCursor,
              listed |-> <<>>, pageSize |-> 0, count |-> 0, first |-> first, there |-> there]
    BY <2>0 DEF Idle
  <2> HIDE DEF rd
  <2> QED
    BY <2>1 DEF IsReader, first
<1> HIDE DEF rd
<1>4. InOrder(rd.listed) /\ ListedBy(rd) = {} /\ Start \in Int /\ Len(rd.listed) = 0
  BY <1>3 DEF InOrder, ListedBy, Start
<1>5. /\ \A i \in InQuestion(r) : i > Start
      /\ InQuestion(r) = {i \in DOMAIN Items(r.op) : Matches(query, Items(r.op)[i])}
      /\ IsFiniteSet(DOMAIN Items(r.op)) /\ \A i \in DOMAIN Items(r.op) : i \in Int
  BY QueriesFind DEF Inv, InQuestion
<1>6. ASSUME NEW view \in Views(Items(r.op)) PROVE ViewOK(rd, InQuestion(r), view)
  BY <1>3, <1>5 DEF ViewOK, Views
<1>7. ReadUpTo(rd, InQuestion(r), Start)
  BY <1>4, <1>5 DEF ReadUpTo, Start
<1>8. /\ Reads(Read(rd, answer), InQuestion(r))
      /\ \A n \in 1 .. Len(Read(rd, answer).listed) : Read(rd, answer).listed[n] \in InQuestion(r)
  <2>1. CASE answer.status # 200 /\ answer.data = <<>>
    <3>1. Reads(Read(rd, answer), InQuestion(r)) /\ Read(rd, answer).listed = rd.listed
      BY <1>3, <1>4, <2>1, Refusal
    <3> QED
      BY <1>3, <3>1
  <2>2. ASSUME token # Garbled, limit \in 1 .. maxPageSize, answer.status = 200,
               NEW view \in Views(Items(r.op)),
               answer.data = mapAccountList(Items(r.op), view, query, limit, token).data,
               answer.next = mapAccountList(Items(r.op), view, query, limit, token).next
        PROVE  /\ Reads(Read(rd, answer), InQuestion(r))
               /\ \A n \in 1 .. Len(Read(rd, answer).listed) : Read(rd, answer).listed[n] \in InQuestion(r)
    <3> DEFINE page == PageAfter(rd, limit, Start, view)
    <3>1. IsAnswer(answer, page)
      BY <1>3, <2>2 DEF mapAccountList, ListFirst, IsAnswer, PageAfter
    <3>2. ViewOK(rd, InQuestion(r), view)
      BY <1>6
    <3> HIDE DEF limit
    <3>3. MayRead(rd, InQuestion(r), limit, Start, view)
      BY <1>3, <1>4, <1>7, <2>2, <3>2 DEF MayRead
    <3>5. /\ Reads(Read(rd, answer), InQuestion(r))
          /\ AddsAfter(Read(rd, answer), rd, Start, view)
      BY <3>1, <3>3, PageRead DEF Inv
    <3>4. Rest(Shown(rd, view), QueryOf(rd.request), Start) \subseteq InQuestion(r)
      BY <1>3, <1>5 DEF Rest, Shown, Views
    <3> QED
      BY <1>4, <3>4, <3>5 DEF AddsAfter
  <2> QED
    BY <2>1, <2>2, AnswerCases
<1>9. LedgerOK'
  BY DEF Inv, LedgerOK, First
<1>10. Reads(reader, steady)'
  <2> HIDE DEF rd
  <2> QED
    BY <1>2, <1>8, ReadsNext DEF First
<1>11. ASSUME NEW n \in Len(reader.listed) + 1 .. Len(reader'.listed) PROVE Wanted(n)
  <2>1. reader'.request = r
    <3>1. ReadsAs(Read(rd, answer), rd, answer)
      BY <1>3, ReadFields
    <3> QED
      BY <1>2, <1>3, <3>1 DEF ReadsAs
  <2>2. Len(reader.listed) \in Nat /\ Len(reader'.listed) \in Nat
    BY <1>10 DEF Inv, Reads, InOrder
  <2>3. n \in 1 .. Len(reader'.listed)
    BY <1>11, <2>2
  <2> QED
    BY <1>2, <1>8, <2>1, <2>3 DEF Wanted
<1> QED
  BY <1>9, <1>10, <1>11 DEF Inv

LEMMA PageStep ==
    ASSUME Inv, Page
    PROVE  Inv' /\ \A n \in Len(reader.listed) + 1 .. Len(reader'.listed) : Wanted(n)
<1> DEFINE c == reader.cursor
           r == reader.request
<1>1. /\ LedgerOK /\ reader.step = "reading" /\ Reads(reader, steady) /\ CursorOK(reader, steady)
  BY DEF Inv, Page, Reads
<1>2. /\ IsReader(reader) /\ InOrder(reader.listed) /\ reader.asked \in PageSizes \union {NoPageSize}
      /\ r \in Requests /\ c.limit \in 1 .. maxPageSize /\ c.after \in Int
      /\ c = [query |-> QueryOf(r), limit |-> c.limit, after |-> c.after, view |-> c.view]
      /\ steady \subseteq InQuestion(r)
      /\ ViewOK(reader, steady, c.view) /\ ReadUpTo(reader, steady, c.after)
  BY <1>1 DEF Reads, CursorOK
<1>3. MayRead(reader, steady, c.limit, c.after, c.view)
  BY <1>2 DEF MayRead
<1>4. c # NoCursor /\ c.query = QueryOf(r)
  BY <1>2 DEF NoCursor
<1>5. PICK asked \in {reader.asked, NoPageSize} :
        \E answer \in Answers(r, asked, c) : reader' = Read(reader, answer)
  BY DEF Page
<1>6. PICK answer \in Answers(r, asked, c) : reader' = Read(reader, answer)
  BY <1>5
<1> DEFINE new == Read(reader, answer)
<1>7. ReadsAs(new, reader, answer)
  BY <1>2, ReadFields
<1>8. asked \in PageSizes \union {NoPageSize}
  BY <1>2, <1>5
<1>9. /\ Reads(new, steady)
      /\ \/ new.listed = reader.listed
         \/ AddsAfter(new, reader, c.after, c.view)
  <2>1. CASE answer.status # 200 /\ answer.data = <<>>
    BY <1>2, <2>1, Refusal
  <2>2. ASSUME NEW view,
               answer.status = 200,
               answer.data = mapAccountList(Items(r.op), view, QueryOf(r), parsePageSize(asked), c).data,
               answer.next = mapAccountList(Items(r.op), view, QueryOf(r), parsePageSize(asked), c).next
        PROVE  Reads(new, steady) /\ AddsAfter(new, reader, c.after, c.view)
    <3>1. mapAccountList(Items(r.op), view, QueryOf(r), parsePageSize(asked), c)
            = PageAfter(reader, c.limit, c.after, c.view)
      BY <1>4 DEF mapAccountList, ListCursor, PageAfter
    <3>2. IsAnswer(answer, PageAfter(reader, c.limit, c.after, c.view))
      BY <2>2, <3>1 DEF IsAnswer
    <3> QED
      BY <1>1, <1>3, <3>2, PageRead
  <2> HIDE DEF new
  <2>3. \/ answer.status # 200 /\ answer.data = <<>>
        \/ /\ answer.status = 200
           /\ \E view :
                 /\ answer.data = mapAccountList(Items(r.op), view, QueryOf(r), parsePageSize(asked), c).data
                 /\ answer.next = mapAccountList(Items(r.op), view, QueryOf(r), parsePageSize(asked), c).next
    <3> DEFINE limit == parsePageSize(asked)
    <3>1. \/ answer.status # 200 /\ answer.data = <<>>
          \/ /\ c # Garbled /\ limit \in 1 .. maxPageSize /\ answer.status = 200
             /\ \E view \in Views(Items(r.op)) :
                   LET page == mapAccountList(Items(r.op), view, QueryOf(r), limit, c)
                   IN  answer.data = page.data /\ answer.next = page.next
      <4> HIDE DEF c, r
      <4> QED
        BY <1>2, <1>8, AnswerCases
    <3> QED
      BY <3>1
  <2> QED
    BY <2>1, <2>2, <2>3
<1>10. LedgerOK'
  BY <1>1 DEF LedgerOK, Page
<1>11. Reads(reader, steady)'
  <2> HIDE DEF new
  <2> QED
    BY <1>6, <1>9, ReadsNext DEF Page, new
<1>12. ASSUME NEW n \in Len(reader.listed) + 1 .. Len(reader'.listed) PROVE Wanted(n)
  <2>1. reader' = new /\ new.request = r
    BY <1>6, <1>7 DEF ReadsAs
  <2> HIDE DEF new
  <2>2. CASE new.listed = reader.listed
    <3>1. Len(reader.listed) \in Nat
      BY <1>2 DEF InOrder
    <3> QED
      BY <1>12, <2>1, <2>2, <3>1
  <2>3. CASE AddsAfter(new, reader, c.after, c.view)
    <3>1. new.listed[n] \in Rest(Shown(reader, c.view), QueryOf(r), c.after)
      BY <1>12, <2>1, <2>3 DEF AddsAfter
    <3>2. CASE c.view = Live
      <4>1. InQuestion(r) = {i \in DOMAIN Items(r.op) : Matches(QueryOf(r), Items(r.op)[i])}
        BY <1>1, <1>2, QueriesFind
      <4>2. new.listed[n] \in InQuestion(r)
        BY <3>1, <3>2, <4>1 DEF Rest, Shown
      <4> QED
        BY <2>1, <4>2 DEF Wanted
    <3>3. CASE c.view # Live
      <4>1. new.listed[n] \in reader.first
        BY <1>2, <3>1, <3>3 DEF Rest, Shown, ViewOK
      <4> QED
        BY <1>1, <2>1, <3>3, <4>1 DEF Wanted
    <3> QED
      BY <3>2, <3>3
  <2> QED
    BY <1>9, <2>2, <2>3 DEF new
<1> QED
  BY <1>10, <1>11, <1>12 DEF Inv

-----------------------------------------------------------------------------
(* The other requests.                                                       *)

\* The ledger may change between two pages: what is no more in question is not
\* steady, and the cursor stays good for the rest.
LEMMA ChangeKeepsReader ==
    ASSUME Inv, StillSteady, UNCHANGED reader
    PROVE  Reads(reader, steady)'
<1>1. Reads(reader, steady) /\ reader' = reader
  BY DEF Inv
<1>2. CASE reader.step = "reading"
  <2>1. steady' \subseteq steady /\ steady' \subseteq InQuestion(reader.request)'
    BY <1>2 DEF StillSteady
  <2>2. CursorOK(reader, steady)'
    BY <1>1, <1>2, <2>1 DEF Reads, CursorOK, ViewOK, ReadUpTo, ListedBy
  <2> QED
    BY <1>1, <1>2, <2>2 DEF Reads, IsReader, InOrder, ListedBy
<1>3. CASE reader.step # "reading"
  <2>1. steady' = steady
    BY <1>3 DEF StillSteady
  <2> QED
    BY <1>1, <1>3, <2>1 DEF Reads, IsReader, InOrder, ListedBy
<1> QED
  BY <1>2, <1>3

LEMMA CreateAccountStep ==
    ASSUME LedgerOK, CreateAccount
    PROVE  LedgerOK'
<1>1. PICK i \in Spots \ DOMAIN accounts, a \in NewAccounts : accounts' = Added(accounts, i, a)
  BY DEF CreateAccount
<1>2. /\ DOMAIN accounts' = DOMAIN accounts \union {i}
      /\ accounts'[i] = a
      /\ \A j \in DOMAIN accounts : accounts'[j] = accounts[j]
  BY <1>1 DEF Added
<1>3. IsFiniteSet(DOMAIN accounts')
  BY <1>2, FS_AddElement DEF LedgerOK
<1>4. i \in Int /\ i > Start /\ IsAccount(a)
  BY LedgerAssumption
<1>5. \A j \in DOMAIN accounts' : j \in Int /\ j > Start /\ IsAccount(accounts'[j])
  BY <1>2, <1>4 DEF LedgerOK
<1>6. /\ changes' = changes + 1 /\ changes' \in 0 .. Changes
      /\ transactions' = transactions
  BY LedgerAssumption DEF LedgerOK, CreateAccount, Changed
<1>7. \E n \in 0 .. changes' : DOMAIN transactions' = -n .. -1
  <2>1. PICK n \in 0 .. changes : DOMAIN transactions = -n .. -1
    BY DEF LedgerOK
  <2>2. n \in 0 .. changes'
    BY <1>6, <2>1 DEF LedgerOK
  <2> QED
    BY <1>6, <2>1, <2>2
<1> QED
  BY <1>3, <1>5, <1>6, <1>7 DEF LedgerOK

LEMMA PatchWalletStep ==
    ASSUME LedgerOK, PatchWallet
    PROVE  LedgerOK'
<1>1. PICK i \in DOMAIN accounts, p \in Patches :
        /\ accounts[i].kind = "wallet"
        /\ accounts' = [accounts EXCEPT ![i].custom =
              {q \in @ : \A x \in p : x[1] # q[1]} \union p]
  BY DEF PatchWallet
<1> DEFINE a == accounts[i]
           custom == {q \in a.custom : \A x \in p : x[1] # q[1]} \union p
<1>2. /\ DOMAIN accounts' = DOMAIN accounts
      /\ \A j \in DOMAIN accounts \ {i} : accounts'[j] = accounts[j]
  BY <1>1
<1>3. IsAccount(a)
  BY DEF LedgerOK
<1>4. IsCustom(custom)
  BY <1>3, LedgerAssumption DEF IsAccount, IsCustom
<1>5. accounts'[i] = [kind |-> a.kind, wallet |-> a.wallet, name |-> a.name, custom |-> custom]
  BY <1>1, <1>3 DEF IsAccount
<1> HIDE DEF a, custom
<1>6. IsAccount(accounts'[i])
  BY <1>1, <1>3, <1>4, <1>5 DEF IsAccount, a
<1>7. \A j \in DOMAIN accounts' : j \in Int /\ j > Start /\ IsAccount(accounts'[j])
  BY <1>2, <1>6 DEF LedgerOK
<1>8. /\ changes' = changes + 1 /\ changes' \in 0 .. Changes
      /\ transactions' = transactions
  <2>1. Changed /\ transactions' = transactions
    BY DEF PatchWallet
  <2> QED
    BY <2>1, LedgerAssumption DEF LedgerOK, Changed
<1>9. \E n \in 0 .. changes' : DOMAIN transactions' = -n .. -1
  <2>1. PICK n \in 0 .. changes : DOMAIN transactions = -n .. -1
    BY DEF LedgerOK
  <2>2. n \in 0 .. changes'
    BY <1>8, <2>1 DEF LedgerOK
  <2> QED
    BY <1>8, <2>1, <2>2
<1> QED
  BY <1>2, <1>7, <1>8, <1>9 DEF LedgerOK

LEMMA PostTransactionStep ==
    ASSUME LedgerOK, PostTransaction
    PROVE  LedgerOK'
<1>1. PICK t \in NewTransactions :
        transactions' = Added(transactions, -1 - Cardinality(DOMAIN transactions), t)
  BY DEF PostTransaction
<1>2. PICK n \in 0 .. changes : DOMAIN transactions = -n .. -1
  BY DEF LedgerOK
<1>3. changes \in Nat /\ n \in Nat
  BY <1>2 DEF LedgerOK
<1>4. Cardinality(DOMAIN transactions) = n
  <2>1. Cardinality(-n .. -1) = IF -n > -1 THEN 0 ELSE (-1) - (-n) + 1
    BY <1>3, FS_Interval
  <2> QED
    BY <1>2, <1>3, <2>1
<1>5. /\ DOMAIN transactions' = DOMAIN transactions \union {-1 - n}
      /\ \A j \in DOMAIN transactions' :
            transactions'[j] = t \/ (j \in DOMAIN transactions /\ transactions'[j] = transactions[j])
  <2> DEFINE i == -1 - n
  <2>1. transactions' = [j \in DOMAIN transactions \union {i} |-> IF j = i THEN t ELSE transactions[j]]
    BY <1>1, <1>4 DEF Added
  <2> HIDE DEF i
  <2>2. DOMAIN transactions' = DOMAIN transactions \union {i}
    BY <2>1
  <2>3. ASSUME NEW j \in DOMAIN transactions'
        PROVE  transactions'[j] = t \/ (j \in DOMAIN transactions /\ transactions'[j] = transactions[j])
    <3>1. transactions'[j] = IF j = i THEN t ELSE transactions[j]
      BY <2>1, <2>2, Zenon
    <3> QED
      BY <2>2, <3>1
  <2> QED
    BY <2>2, <2>3 DEF i
<1>6. DOMAIN transactions' = -(n + 1) .. -1
  BY <1>2, <1>3, <1>5
<1>7. \A j \in DOMAIN transactions' : IsTransaction(transactions'[j])
  BY <1>5, LedgerAssumption DEF LedgerOK
<1>8. /\ changes' = changes + 1 /\ changes' \in 0 .. Changes
      /\ accounts' = accounts
  BY LedgerAssumption DEF LedgerOK, PostTransaction, Changed
<1>9. n + 1 \in 0 .. changes'
  BY <1>2, <1>3, <1>8
<1> QED
  BY <1>6, <1>7, <1>8, <1>9 DEF LedgerOK

-----------------------------------------------------------------------------
(* The theorems.                                                             *)

LEMMA InitInv == Init => Inv
<1> SUFFICES ASSUME Init PROVE Inv
  OBVIOUS
<1>1. reader = [step |-> "idle", request |-> AnyValue, asked |-> NoPageSize, status |-> 0,
                cursor |-> NoCursor, listed |-> <<>>, pageSize |-> 0, count |-> 0,
                first |-> {}, there |-> {}]
  BY DEF Init, Idle
<1>2. Reads(reader, steady)
  BY <1>1, LimitsAssumption DEF Reads, IsReader, InOrder
<1>3. LedgerOK
  <2>1. DOMAIN transactions = -0 .. -1 /\ changes = 0 /\ Changes \in Nat
    BY LedgerAssumption DEF Init
  <2> QED
    BY <2>1, LedgerAssumption DEF LedgerOK, Init
<1> QED
  BY <1>2, <1>3 DEF Inv

LEMMA ChangeStep ==
    ASSUME Inv, CreateAccount \/ PatchWallet \/ PostTransaction
    PROVE  Inv' /\ reader' = reader
<1>1. StillSteady /\ reader' = reader
  BY DEF CreateAccount, PatchWallet, PostTransaction
<1>2. LedgerOK'
  BY CreateAccountStep, PatchWalletStep, PostTransactionStep DEF Inv
<1> QED
  BY <1>1, <1>2, ChangeKeepsReader DEF Inv

LEMMA NextInv == Inv /\ [Next]_vars => Inv'
<1> SUFFICES ASSUME Inv, [Next]_vars PROVE Inv'
  OBVIOUS
<1>1. CASE UNCHANGED vars
  <2>1. LedgerOK'
    BY <1>1 DEF vars, Inv, LedgerOK
  <2>2. Reads(reader, steady)'
    BY <1>1, ReadsNext DEF vars, Inv
  <2> QED
    BY <2>1, <2>2 DEF Inv
<1> QED
  BY <1>1, FirstStep, PageStep, ChangeStep DEF Next

LEMMA Invariance == Spec => []Inv
BY InitInv, NextInv, PTL DEF Spec

\* A list in order has nothing twice.
LEMMA NothingTwice ==
    ASSUME NEW listed, InOrder(listed)
    PROVE  Cardinality({listed[n] : n \in 1 .. Len(listed)}) = Len(listed)
<1> DEFINE N == Len(listed)
           S == {listed[n] : n \in 1 .. N}
           f == [n \in 1 .. N |-> listed[n]]
<1>1. /\ N \in Nat
      /\ \A n \in 1 .. N : listed[n] \in Int
      /\ \A m, n \in 1 .. N : m < n => listed[m] < listed[n]
  BY DEF InOrder
<1>2. \A m, n \in 1 .. N : listed[m] = listed[n] => m = n
  <2> SUFFICES ASSUME NEW m \in 1 .. N, NEW n \in 1 .. N, listed[m] = listed[n], m # n PROVE FALSE
    OBVIOUS
  <2>1. m < n \/ n < m
    BY <1>1
  <2> QED
    BY <1>1, <2>1
<1>3. f \in Bijection(1 .. N, S)
  BY <1>2 DEF Bijection, Injection, Surjection, IsInjective
<1>4. ExistsBijection(1 .. N, S)
  BY <1>3 DEF ExistsBijection
<1> HIDE DEF S, N
<1>5. Cardinality(S) = N
  BY <1>1, <1>4, FS_CountingElements
<1> QED
  BY <1>5 DEF S, N

\* However the ledger changes between two pages, and whichever of them are of
\* the first page's time: a list that is read to its end has all that was in
\* question throughout, and nothing twice.
THEOREM ListsAreComplete == Spec => []ListedOnce
<1>1. Inv => ListedOnce
  <2> SUFFICES ASSUME Inv PROVE ListedOnce
    OBVIOUS
  <2>1. InOrder(reader.listed) /\ (reader.step = "done" => steady \subseteq ListedBy(reader))
    BY DEF Inv, Reads
  <2>2. Listed = ListedBy(reader)
    BY DEF Listed, ListedBy
  <2>3. Cardinality(Listed) = Len(reader.listed)
    BY <2>1, NothingTwice DEF Listed
  <2> QED
    BY <2>1, <2>2, <2>3 DEF ListedOnce
<1> QED
  BY <1>1, Invariance, PTL

\* No page exceeds the maximum, whatever size is asked for and whatever cursor
\* is given.
THEOREM PagesStayBounded == Spec => []PagesBounded
<1>1. Inv => PagesBounded
  BY LimitsAssumption DEF Inv, Reads, PagesBounded
<1> QED
  BY <1>1, Invariance, PTL

\* A page has what was asked for and nothing else, whatever metadata its users
\* write.
THEOREM ListsAreExact == Spec => OnlyWhatWasAsked
<1>1. ASSUME Inv, [Next]_vars
      PROVE  [\A n \in Len(reader.listed) + 1 .. Len(reader'.listed) : Wanted(n)]_vars
  <2>1. CASE reader' = reader
    <3>1. Len(reader.listed) \in Nat
      BY DEF Inv, Reads, InOrder
    <3> QED
      BY <2>1, <3>1
  <2> QED
    BY <1>1, <2>1, FirstStep, PageStep, ChangeStep DEF Next
<1>2. Inv /\ [Next]_vars =>
        [\A n \in Len(reader.listed) + 1 .. Len(reader'.listed) :
          LET i == reader'.listed[n] IN
          \/ i \in InQuestion(reader'.request)
          \/ reader.step = "reading" /\ reader.cursor.view # Live /\ i \in reader.first]_vars
  BY <1>1 DEF Wanted
<1> QED
  BY <1>2, Invariance, PTL DEF Spec, OnlyWhatWasAsked
=============================================================================
