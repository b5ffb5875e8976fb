------------------------------- MODULE Escrow -------------------------------
(***************************************************************************)
(* What a hold promises, whatever requests race for it: the funds it is    *)
(* opened with are locked once, leave it only towards the destination of   *)
(* the hold or back to the wallet, and the hold ends once, confirmed or    *)
(* voided, with nothing left in it.                                        *)
(***************************************************************************)
EXTENDS Naturals

CONSTANT HoldIds

VARIABLES
    status,     \* [HoldIds -> {"none", "open", "confirmed", "voided"}]
    original,   \* what the hold was opened with
    remaining,  \* what is still locked
    paid,       \* what went to the destination
    released    \* what went back to the wallet

vars == <<status, original, remaining, paid, released>>

Zero == [h \in HoldIds |-> 0]

Init ==
    /\ status = [h \in HoldIds |-> "none"]
    /\ original = Zero
    /\ remaining = Zero
    /\ paid = Zero
    /\ released = Zero

Open(h, n) ==
    /\ status[h] = "none"
    /\ status' = [status EXCEPT ![h] = "open"]
    /\ original' = [original EXCEPT ![h] = n]
    /\ remaining' = [remaining EXCEPT ![h] = n]
    /\ UNCHANGED <<paid, released>>

\* A part is paid and the rest stays locked.
ConfirmPart(h, n) ==
    /\ status[h] = "open"
    /\ n < remaining[h]
    /\ remaining' = [remaining EXCEPT ![h] = @ - n]
    /\ paid' = [paid EXCEPT ![h] = @ + n]
    /\ UNCHANGED <<status, original, released>>

\* n is paid, all that is over goes back to the wallet.
ConfirmAndClose(h, n) ==
    /\ status[h] = "open"
    /\ n <= remaining[h]
    /\ status' = [status EXCEPT ![h] = "confirmed"]
    /\ remaining' = [remaining EXCEPT ![h] = 0]
    /\ paid' = [paid EXCEPT ![h] = @ + n]
    /\ released' = [released EXCEPT ![h] = @ + (remaining[h] - n)]
    /\ UNCHANGED original

Void(h) ==
    /\ status[h] = "open"
    /\ status' = [status EXCEPT ![h] = "voided"]
    /\ remaining' = [remaining EXCEPT ![h] = 0]
    /\ released' = [released EXCEPT ![h] = @ + remaining[h]]
    /\ UNCHANGED <<original, paid>>

Next ==
    \E h \in HoldIds :
        \/ original'[h] \in Nat \ {0} /\ Open(h, original'[h])
        \/ \E n \in 1 .. remaining[h] : ConfirmPart(h, n) \/ ConfirmAndClose(h, n)
        \/ Void(h)

Spec == Init /\ [][Next]_vars
=============================================================================
