---------------------------- MODULE MCGuiServer ------------------------------
(* GuiServer with devices that reconnect and viewers that come and go. *)
EXTENDS GuiServer, TLC

Symmetry == Permutations(Sources) \cup Permutations(Invocable)
=============================================================================
