--------------------------- MODULE MCCollectorSink ---------------------------
(* CollectorSink under arbitrary lifecycle events. *)
EXTENDS CollectorSink
=============================================================================
