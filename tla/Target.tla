-------------------------------- MODULE Target --------------------------------
(***************************************************************************)
(* packages/bare-probe/adapters: what every adapter is given, a target to  *)
(* instrument and a caller's clock.                                        *)
(***************************************************************************)

VARIABLES transport,    \* what the target is
          removable     \* it has the optional method that takes a listener off

(* What opts.now, the caller's, does in one call of the probe's code. *)
Clock == {"works", "fails", "fails once"}
=============================================================================
