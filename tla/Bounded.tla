------------------------------- MODULE Bounded -------------------------------
(***************************************************************************)
(* Sequences kept under a size limit by forgetting their oldest elements:  *)
(* what the ring buffer, the settled set, the reporter's queue and the     *)
(* hub's history have in common.                                           *)
(***************************************************************************)
EXTENDS Naturals, Sequences

(* The newest n elements of s. *)
Newest(s, n) == IF Len(s) <= n THEN s ELSE SubSeq(s, Len(s) - n + 1, Len(s))

(* How many elements of s a limit of n leaves out. *)
Excess(s, n) == IF Len(s) <= n THEN 0 ELSE Len(s) - n
=============================================================================
