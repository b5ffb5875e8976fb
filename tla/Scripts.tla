------------------------------ MODULE Scripts ------------------------------
(***************************************************************************)
(* What the Numscript programs of the wallets service do to amounts.       *)
(* A script that takes a total from an ordered list of sources is          *)
(* described by its cuts: cut[i] is what the first i sources paid, so that *)
(* source i paid cut[i] - cut[i - 1].  The script that cancels a hold      *)
(* walks the same list the other way: the first postings are refunded      *)
(* first, each for at most what it paid.                                   *)
(***************************************************************************)
EXTENDS Naturals, Sequences, FiniteSets

Least(a, b) == IF a < b THEN a ELSE b

\* The cuts of a script that sends n from sources where avail[i] can be had
\* from the i-th one: in order, each gives all it can until n is reached.
\* There is exactly one; a set, so that nothing has to be assumed about it.
Cuts(avail, n) ==
    {cut \in [0 .. Len(avail) -> 0 .. n] :
        /\ cut[0] = 0
        /\ \A i \in 1 .. Len(avail) : cut[i] = Least(n, cut[i - 1] + avail[i])}

\* All that the list of sources yields: n, unless they do not hold that much.
Yield(cut, from) == cut[Len(from)]

\* What account a pays in a transaction that took from with cut.
Paid(from, cut, a) ==
    IF \E i \in DOMAIN from : from[i] = a
    THEN LET i == CHOOSE i \in DOMAIN from : from[i] = a
         IN cut[i] - cut[i - 1]
    ELSE 0

\* Defect: the postings are refunded without their maximum.
Refund_NoMax(from, cut, r, a) == IF from # <<>> /\ from[1] = a THEN r ELSE 0

\* What account a gets back when r is sent to the sources of a transaction,
\* each taking at most its own posting, the first one first.
Refund(from, cut, r, a) ==
    IF \E i \in DOMAIN from : from[i] = a
    THEN LET i == CHOOSE i \in DOMAIN from : from[i] = a
         IN Least(r, cut[i]) - Least(r, cut[i - 1])
    ELSE 0

\* The part of r that the sources can take; what is over is kept.
Refunded(from, cut, r) == Least(r, Yield(cut, from))

\* The lists that name every member of S once.
Orderings(S) ==
    {s \in [1 .. Cardinality(S) -> S] :
        \A i, j \in 1 .. Cardinality(S) : s[i] = s[j] => i = j}
=============================================================================
