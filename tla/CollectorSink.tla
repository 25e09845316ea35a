---------------------------- MODULE CollectorSink ----------------------------
(***************************************************************************)
(* packages/bare-probe/core/sink.ts: the EventSink that turns the          *)
(* lifecycle events of the adapters into calls of the collector.  Events   *)
(* without a corrId, and event types the switch does not name, change      *)
(* nothing and are left out; request.end, message.in and send.error have   *)
(* one effect and are one action.                                          *)
(***************************************************************************)
EXTENDS Collector

CONSTANT NoPeer         \* an event that carries no peerId

ASSUME NoPeerAssumption == NoPeer \notin Peers

Targets(p) == IF p = NoPeer THEN {} ELSE {p}

(* Fault: announcing another target restarts the request's clock. *)
ExtendFanoutRefreshed(c, p) ==
  /\ pending' = [pending EXCEPT ![c].awaiting = @ \cup Targets(p), ![c].age = 0]
  /\ UNCHANGED <<settled, events, dropped, counters, history>>

(* Another target of a request in flight: awaited too, nothing shown. *)
ExtendFanout(c, p) ==
  /\ pending' = [pending EXCEPT ![c].awaiting = @ \cup Targets(p)]
  /\ UNCHANGED <<settled, events, dropped, counters, history>>

(* Fault: every start registers a request. *)
EmitStartAlways(c, p) == Request(c, Targets(p))

EmitStart(c, p) == \/ c \in Live /\ ExtendFanout(c, p)
                   \/ c \notin Live /\ Request(c, Targets(p))

EmitAnswer(c, p) == p # NoPeer /\ Response(c, p)

SinkNext == \/ \E c \in CorrIds, p \in Peers \cup {NoPeer} :
                 EmitStart(c, p) \/ EmitAnswer(c, p)
            \/ Sweep
            \/ Tick

(* Time passes, and the caller of the sink keeps calling sweep. *)
Fairness == WF_vars(Tick) /\ WF_vars(Sweep)

SinkSpec == Init /\ [][SinkNext]_vars /\ Fairness

-----------------------------------------------------------------------------
(* Events never make the sink reuse the id of a live request, so the       *)
(* collector's public counters account for every request ever registered.  *)
CountersTellAll ==
  started = Cardinality(Live) + completed + timedOut + pendingDropped

(* Every request ends: however often a broadcast goes on announcing        *)
(* targets, and whatever answers arrive, a request in flight is answered,  *)
(* swept or evicted.                                                       *)
RequestsEnd == \A c \in CorrIds : c \in Live ~> c \notin Live
=============================================================================
