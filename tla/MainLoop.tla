------------------------------ MODULE MainLoop ------------------------------
(***************************************************************************)
(* The rounds of tohd's main loop (src/main.rs) and what each of their     *)
(* steps may do to the 5 V output.  TohLoan and Daemon look at the loop    *)
(* from two sides, the calls on the published object and the back cover;   *)
(* both implement this module, so that they agree about the order of the   *)
(* steps and about the power between them.                                 *)
(***************************************************************************)
VARIABLES
    phase,  \* between two rounds, searching, detecting, published, removed
    power   \* the 5 V output

vars == <<phase, power>>

Init == phase = "between" /\ power \in BOOLEAN

\* What main does to the power by itself, except at power_up: leave it or cut it.
LeaveOrCut == power' \in {power, FALSE}

\* BackCover::new: a round begins with the power off.
NewCover ==
    /\ phase = "between" /\ phase' = "searching"
    /\ power' = FALSE

\* A TOH is connected; power_up switches the power on, or fails to.
PowerUp ==
    /\ phase = "searching"
    /\ \/ phase' = "detecting" /\ power' = TRUE
       \/ phase' = "between" /\ UNCHANGED power

\* It cannot be identified or read, or is gone again.
DetectFails ==
    /\ phase = "detecting" /\ phase' = "between"
    /\ LeaveOrCut

Publish ==
    /\ phase = "detecting" /\ phase' = "published"
    /\ LeaveOrCut

\* The object of a TOH that is gone is taken off its path before its loan is
\* ended, and no round begins before both are done.
Remove ==
    /\ phase = "published" /\ phase' = "removed"
    /\ UNCHANGED power

AbortWatcher ==
    /\ phase = "removed" /\ phase' = "between"
    /\ LeaveOrCut

\* The process ends, in BackCover::new and at publication perhaps after it has
\* cut the power, and is started again.
Restart ==
    /\ phase' = "between"
    /\ \/ UNCHANGED power
       \/ phase \in {"between", "detecting"} /\ power' = FALSE

\* Borrowers switch the power too, also on objects that were removed.
LoanPower == power' \in BOOLEAN /\ UNCHANGED phase

Next ==
    \/ NewCover \/ PowerUp \/ DetectFails \/ Publish \/ Remove \/ AbortWatcher
    \/ Restart \/ LoanPower

Spec == Init /\ [][Next]_vars
=============================================================================
