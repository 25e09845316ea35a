----------------------------- MODULE MCCollector -----------------------------
(* Collector with every bound small enough to be hit. *)
EXTENDS Collector, TLC

Symmetry == Permutations(CorrIds) \cup Permutations(Peers)
=============================================================================
