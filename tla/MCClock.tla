------------------------------- MODULE MCClock -------------------------------
(***************************************************************************)
(* The two clocks of the timeline, side by side and of no concern to each  *)
(* other: Hlc, with wall clocks that tie, run ahead and jump backward, and *)
(* Offset, with routes whose delays differ by direction.                   *)
(***************************************************************************)
EXTENDS Hlc, Offset

VARIABLE clock          \* the one explored

ClockInit == Init /\ OffsetInit /\ clock \in {"hlc", "offset"}

ClockNext == /\ UNCHANGED clock
             /\ \/ clock = "hlc" /\ Next /\ UNCHANGED offsetVars
                \/ clock = "offset" /\ OffsetNext /\ UNCHANGED vars

ClockSpec == ClockInit /\ [][ClockNext]_<<vars, offsetVars, clock>>
==============================================================================
