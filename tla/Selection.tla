------------------------------ MODULE Selection ------------------------------
(***************************************************************************)
(* What a filter leaves of a sequence: the elements that are in a set, in  *)
(* the order they had.  It is SelectSeq with the test given as a set, and  *)
(* as a recursive function, which the proofs can argue about.              *)
(***************************************************************************)
EXTENDS Naturals, Sequences

KeepIf(kept, x, S) == IF x \in S THEN Append(kept, x) ELSE kept

Only(s, S) ==
  LET kept[n \in 0 .. Len(s)] == IF n = 0 THEN <<>> ELSE KeepIf(kept[n - 1], s[n], S)
  IN  kept[Len(s)]
=============================================================================
