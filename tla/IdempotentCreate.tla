-------------------------- MODULE IdempotentCreate --------------------------
(***************************************************************************)
(* What an Idempotency-Key promises to the client of a create: whatever    *)
(* the retries, the races and the failures, at most one response is ever   *)
(* recorded for a key, and no other response is told under it.  Errors may *)
(* be told at any time; they promise nothing and are not seen here.        *)
(***************************************************************************)
CONSTANTS
    Keys,           \* Idempotency-Keys
    Responses,      \* the resources a create may answer with
    None            \* no response

VARIABLES
    outcome,        \* the response recorded for a key, or None
    told            \* the responses sent to clients: pairs <<key, response>>

vars == <<outcome, told>>

Init ==
    /\ outcome = [k \in Keys |-> None]
    /\ told = {}

\* The create takes effect; its client may hear of it or not.
Create(k, r) ==
    /\ outcome[k] = None
    /\ outcome' = [outcome EXCEPT ![k] = r]
    /\ told' \in {told, told \union {<<k, r>>}}

Replay(k) ==
    /\ outcome[k] # None
    /\ told' = told \union {<<k, outcome[k]>>}
    /\ UNCHANGED outcome

Next ==
    \E k \in Keys :
        \/ \E r \in Responses : Create(k, r)
        \/ Replay(k)

Spec == Init /\ [][Next]_vars

=============================================================================
