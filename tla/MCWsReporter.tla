---------------------------- MODULE MCWsReporter -----------------------------
(* WsReporter with closing handshakes, failures and an event that cannot   *)
(* be serialised.                                                          *)
EXTENDS WsReporter, SequencesExt

(* Only is what SelectSeq is, on short sequences. *)
ASSUME SelectionIsSelectSeq ==
  \A s \in SeqOf(Frames, 3) :
    \A S \in SUBSET Frames : Only(s, S) = SelectSeq(s, LAMBDA f : f \in S)
=============================================================================
