------------------------------ MODULE BoardBoot ------------------------------
(***************************************************************************)
(* What module Pairing takes the boot of a board to be (its Listen,        *)
(* StartApp and Restart, for one board): frames are queued from some       *)
(* moment on; later, in one step, the board halts for want of a peer MAC,  *)
(* or app_task runs with a live Lakers session; any failure is a reset.    *)
(***************************************************************************)
VARIABLES task, session

vars == <<task, session>>

Init == task = "down" /\ session = "Empty"

Listen == task = "down" /\ task' = "listening" /\ UNCHANGED session

Halt == task = "listening" /\ task' = "halted" /\ UNCHANGED session

StartApp == task = "listening" /\ task' = "loop" /\ session' = "Live"

Restart == task # "down" /\ task' = "down" /\ session' = "Empty"

Next == Listen \/ Halt \/ StartApp \/ Restart

Spec == Init /\ [][Next]_vars
=============================================================================
