------------------------------ MODULE StartUp ------------------------------
(***************************************************************************)
(* Start of the replicas of the service (src/pkg/module.go, manager.go,    *)
(* ledger_interface.go): before it listens, each one gets its ledger and   *)
(* creates it when there is none.  Several start together, find nothing    *)
(* and create it; the creation of all but one fails, and with it the start *)
(* of its replica, which its platform starts again.  A call may fail with  *)
(* or without effect, the effect may come late, and a replica may stop at  *)
(* any time.                                                               *)
(***************************************************************************)
EXTENDS Naturals

CONSTANTS
    Replicas,
    MaxFaults       \* bound: failed calls and crashes

ASSUME FaultsAssumption == MaxFaults \in Nat

VARIABLES
    ledger,         \* whether the ledger exists
    step,           \* what each replica does
    starts,         \* how often it was started
    wire,           \* creations on their way: <<replica, start>>
    faults          \* failed calls and crashes so far

vars == <<ledger, step, starts, wire, faults>>

Steps == {"down", "get", "notFound", "creating", "listen", "serving"}

TypeOK ==
    /\ ledger \in BOOLEAN
    /\ step \in [Replicas -> Steps]
    /\ starts \in [Replicas -> Nat]
    /\ wire \subseteq Replicas \X Nat
    /\ faults \in Nat

Init ==
    /\ ledger \in BOOLEAN
    /\ step = [r \in Replicas |-> "down"]
    /\ starts = [r \in Replicas |-> 0]
    /\ wire = {}
    /\ faults = 0

----------------------------------------------------------------------------
\* Defect: the server listens before the manager is initialised.
Start_ListenFirst(r) ==
    /\ step[r] = "down"
    /\ step' = [step EXCEPT ![r] = "listen"]
    /\ starts' = [starts EXCEPT ![r] = @ + 1]
    /\ UNCHANGED <<ledger, wire, faults>>

\* The application runs its hooks in order: Manager.Init is the first.
Start(r) ==
    /\ step[r] = "down"
    /\ step' = [step EXCEPT ![r] = "get"]
    /\ starts' = [starts EXCEPT ![r] = @ + 1]
    /\ UNCHANGED <<ledger, wire, faults>>

\* Defect: the ledger is not looked for.
GetLedger_Skipped(r) ==
    /\ step[r] = "get"
    /\ step' = [step EXCEPT ![r] = "notFound"]
    /\ UNCHANGED <<ledger, starts, wire, faults>>

\* EnsureLedgerExists: the ledger is there, or NOT_FOUND.
GetLedger(r) ==
    /\ step[r] = "get"
    /\ step' = [step EXCEPT ![r] = IF ledger THEN "listen" ELSE "notFound"]
    /\ UNCHANGED <<ledger, starts, wire, faults>>

CreateLedger(r) ==
    /\ step[r] = "notFound"
    /\ step' = [step EXCEPT ![r] = "creating"]
    /\ wire' = wire \union {<<r, starts[r]>>}
    /\ UNCHANGED <<ledger, starts, faults>>

\* Defect: a start whose creation is refused tries it again.
Created_Insists(r, n) ==
    /\ <<r, n>> \in wire
    /\ wire' = wire \ {<<r, n>>}
    /\ ledger' = TRUE
    /\ step' = IF step[r] = "creating" /\ starts[r] = n
               THEN [step EXCEPT ![r] = IF ledger THEN "notFound" ELSE "listen"]
               ELSE step
    /\ UNCHANGED <<starts, faults>>

\* The ledger creates what it has not, and refuses it otherwise.  The error is
\* that of Init, which ends the replica; a replica that no longer waits for
\* the answer does not notice.
Created(r, n) ==
    /\ <<r, n>> \in wire
    /\ wire' = wire \ {<<r, n>>}
    /\ ledger' = TRUE
    /\ step' = IF step[r] = "creating" /\ starts[r] = n
               THEN [step EXCEPT ![r] = IF ledger THEN "down" ELSE "listen"]
               ELSE step
    /\ UNCHANGED <<starts, faults>>

\* A call fails, by an error or a timeout, and Init with it.  A creation that
\* is on its way may still take effect.
Fault == faults < MaxFaults /\ faults' = faults + 1

CallFails(r) ==
    /\ Fault
    /\ step[r] \in {"get", "creating"}
    /\ step' = [step EXCEPT ![r] = "down"]
    /\ UNCHANGED <<ledger, starts, wire>>

\* It is lost.
Lose(r, n) ==
    /\ <<r, n>> \in wire
    /\ step[r] # "creating" \/ starts[r] # n
    /\ wire' = wire \ {<<r, n>>}
    /\ UNCHANGED <<ledger, step, starts, faults>>

\* The second hook: the HTTP server listens.
Listen(r) ==
    /\ step[r] = "listen"
    /\ step' = [step EXCEPT ![r] = "serving"]
    /\ UNCHANGED <<ledger, starts, wire, faults>>

Crash(r) ==
    /\ Fault
    /\ step[r] # "down"
    /\ step' = [step EXCEPT ![r] = "down"]
    /\ UNCHANGED <<ledger, starts, wire>>

Work(r) ==
    \/ Start(r) \/ GetLedger(r) \/ CreateLedger(r) \/ Listen(r)
    \/ step[r] = "creating" /\ Created(r, starts[r])

Next ==
    \E r \in Replicas :
        \/ Start(r) \/ GetLedger(r) \/ CreateLedger(r) \/ CallFails(r) \/ Listen(r) \/ Crash(r)
        \/ \E n \in 1 .. starts[r] : Created(r, n) \/ Lose(r, n)

Spec == Init /\ [][Next]_vars

\* The platform restarts what is down, and calls that do not fail are answered.
FairSpec == Spec /\ \A r \in Replicas : WF_vars(Work(r))
----------------------------------------------------------------------------
(***************************************************************************)
(* A replica takes requests only when its ledger exists, whoever created   *)
(* it, whichever of its calls failed and however often it was restarted.   *)
(***************************************************************************)
ServingMeansLedger == \A r \in Replicas : step[r] \in {"listen", "serving"} => ledger

(***************************************************************************)
(* The race for the creation costs a replica one start at the most: its    *)
(* starts are two and one for each fault, also when a creation that it had *)
(* given up overtakes its next one.                                        *)
(***************************************************************************)
StartsBounded == \A r \in Replicas : starts[r] <= faults + 2

(***************************************************************************)
(* When the faults are over every replica comes to serve, and stays.       *)
(***************************************************************************)
AllServe == <>[](\A r \in Replicas : step[r] = "serving")

\* The inductive invariant.  A replica that is down has one start to spare
\* until the ledger exists; one that found no ledger began before it did.
StartsLeft(r) ==
    /\ starts[r] <= faults + 2
    /\ ~ledger \/ step[r] \in {"down", "notFound", "creating"} => starts[r] <= faults + 1
    /\ ~ledger /\ step[r] = "down" => starts[r] <= faults

Inv ==
    /\ TypeOK
    /\ ServingMeansLedger
    /\ \A r \in Replicas : StartsLeft(r)
=============================================================================
