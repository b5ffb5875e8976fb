--------------------------- MODULE StartUpProofs ---------------------------
(***************************************************************************)
(* For any number of replicas and faults: no replica serves without its    *)
(* ledger, and the race for its creation costs each at most one start.     *)
(***************************************************************************)
EXTENDS StartUp, TLAPS

\* The counters of a replica in the invariant are bounded as claimed.
LEMMA InvBounds == Inv => StartsBounded
  BY DEF Inv, TypeOK, Steps, StartsLeft, StartsBounded

\* The invariant holds at first, whether the ledger exists or not.
LEMMA InitInv == Init => Inv
  BY FaultsAssumption DEF Init, Inv, TypeOK, Steps, ServingMeansLedger, StartsLeft

\* Each step of a replica, of the ledger and of the network keeps it.
LEMMA NextInv == Inv /\ [Next]_vars => Inv'
<1> SUFFICES ASSUME Inv, [Next]_vars PROVE Inv'
  OBVIOUS
<1> USE DEF Inv, TypeOK, Steps, ServingMeansLedger, StartsLeft
<1>1. ASSUME NEW r \in Replicas, Start(r) PROVE Inv'
  BY <1>1 DEF Start
<1>2. ASSUME NEW r \in Replicas, GetLedger(r) PROVE Inv'
  BY <1>2 DEF GetLedger
<1>3. ASSUME NEW r \in Replicas, CreateLedger(r) PROVE Inv'
  BY <1>3 DEF CreateLedger
<1>4. ASSUME NEW r \in Replicas, CallFails(r) PROVE Inv'
  BY <1>4 DEF CallFails, Fault
<1>5. ASSUME NEW r \in Replicas, Listen(r) PROVE Inv'
  BY <1>5 DEF Listen
<1>6. ASSUME NEW r \in Replicas, Crash(r) PROVE Inv'
  BY <1>6 DEF Crash, Fault
<1>7. ASSUME NEW r \in Replicas, NEW n \in 1 .. starts[r], Created(r, n) PROVE Inv'
  <2>1. TypeOK'
    BY <1>7 DEF Created
  <2>2. ledger' = TRUE /\ starts' = starts /\ faults' = faults
    BY <1>7 DEF Created
  <2>3. ServingMeansLedger'
    BY <2>2
  <2>4. ASSUME NEW s \in Replicas PROVE StartsLeft(s)'
    <3>1. CASE step'[s] = step[s]
      BY <2>2, <3>1
    <3>2. CASE step'[s] # step[s]
      <4>1. s = r /\ step[r] = "creating" /\ step'[r] \in {"down", "listen"}
        BY <1>7, <3>2 DEF Created
      <4>2. starts[r] <= faults + 1
        BY <4>1
      <4> QED
        BY <2>2, <4>1, <4>2
    <3> QED
      BY <3>1, <3>2
  <2> QED
    BY <2>1, <2>3, <2>4
<1>8. ASSUME NEW r \in Replicas, NEW n \in 1 .. starts[r], Lose(r, n) PROVE Inv'
  BY <1>8 DEF Lose
<1>9. CASE UNCHANGED vars
  BY <1>9 DEF vars
<1> QED
  BY <1>1, <1>2, <1>3, <1>4, <1>5, <1>6, <1>7, <1>8, <1>9 DEF Next

\* The inductive invariant of the start: module.go, EnsureLedgerExists.
THEOREM Starting == Spec => []Inv
  BY InitInv, NextInv, PTL DEF Spec

\* A replica that takes requests has its ledger: the hook of the manager runs
\* before the one of the server, and its errors end the start.
THEOREM ServingHasLedger == Spec => []ServingMeansLedger
<1>1. Inv => ServingMeansLedger
  BY DEF Inv
<1> QED
  BY <1>1, Starting, PTL

\* Losing the race for CreateLedger costs a replica at most one start.
THEOREM RaceCostsOneStart == Spec => []StartsBounded
  BY InvBounds, Starting, PTL
=============================================================================
