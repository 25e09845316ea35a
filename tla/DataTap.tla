------------------------------- MODULE DataTap -------------------------------
(***************************************************************************)
(* packages/bare-probe/adapters/webrtc.ts (instrumentDataChannel) and      *)
(* hyperswarm.ts: a probe replaces the send method of a channel by one     *)
(* that calls it and reports, and listens to what arrives.  A channel may  *)
(* carry several probes, put on and taken off in any order, each wrapping  *)
(* the method it found.  A probe's clock (opts.now) is the caller's and    *)
(* may throw; its sink may throw too, which emitSafe keeps to itself.      *)
(***************************************************************************)
EXTENDS Naturals, Sequences, FiniteSets, Selection, Target

CONSTANTS Probes,       \* the probes that may be put on the channel
          MaxBuffered   \* bound: bufferedAmount, writableLength

ASSUME ChannelAssumption == MaxBuffered \in Nat

VARIABLES method,       \* the channel's send(): the probes it goes through, outermost first
          origSend,     \* the method each probe found
          probe,        \* what became of each probe
          listening,    \* the probes whose listeners are attached, first one first
          buffered,     \* bufferedAmount
          nested,       \* history: probes came off in the reverse of their order
          did,          \* history: what the application or the channel did last
          emitted       \* history: the events that step emitted

channelVars ==
  <<transport, removable, method, origSend, probe, listening, buffered, nested, did, emitted>>
wiring == <<transport, removable, method, origSend, probe, listening, nested>>

Faulty(clocks) == {p \in Probes : clocks[p] # "works"}
Nothing == [op |-> "none"]

ChannelInit == /\ method = <<>>
               /\ origSend = [p \in Probes |-> <<>>]
               /\ probe = [p \in Probes |-> "off"]
               /\ listening = <<>>
               /\ buffered = 0
               /\ nested = TRUE
               /\ did = Nothing /\ emitted = <<>>

-----------------------------------------------------------------------------
Quiet == did' = Nothing /\ emitted' = <<>> /\ UNCHANGED buffered

(* isProbeDisabledByBuild: a development flag or the environment decides.  *)
isProbeDisabledByBuild(dev, production) == ~ dev \/ production

(* A probe that is disabled leaves the channel alone, and so does its restore. *)
InstrumentChannel(p, enabled, dev, production) ==
  /\ probe[p] = "off"
  /\ IF ~ enabled \/ isProbeDisabledByBuild(dev, production)
       THEN /\ probe' = [probe EXCEPT ![p] = "disabled"]
            /\ UNCHANGED <<method, origSend, listening>>
       ELSE /\ probe' = [probe EXCEPT ![p] = "on"]
            /\ origSend' = [origSend EXCEPT ![p] = method]
            /\ method' = <<p>> \o method
            /\ listening' = Append(listening, p)
  /\ UNCHANGED <<transport, removable, nested>>
  /\ Quiet

Others(p) == Only(listening, Probes \ {p})

(* Fault: restore() leaves its listeners on the channel. *)
RestoreChannelSend(p) ==
  /\ probe[p] \in {"on", "restored"}
  /\ probe' = [probe EXCEPT ![p] = "restored"]
  /\ method' = origSend[p]
  /\ nested' = (nested /\ method \in {origSend[p], <<p>> \o origSend[p]})
  /\ UNCHANGED <<transport, removable, listening, origSend>>
  /\ Quiet

(* restore(), which may be called again.  It puts back the method the      *)
(* probe found, whatever has been wrapped around it since.                 *)
RestoreChannel(p) ==
  /\ probe[p] \in {"on", "restored"}
  /\ probe' = [probe EXCEPT ![p] = "restored"]
  /\ method' = origSend[p]
  /\ listening' = IF removable THEN Others(p) ELSE listening
  /\ nested' = (nested /\ method \in {origSend[p], <<p>> \o origSend[p]})
  /\ UNCHANGED <<transport, removable, origSend>>
  /\ Quiet

-----------------------------------------------------------------------------
Emit(p, type, level) == [probe |-> p, type |-> type, level |-> level]

Out(kind) == IF kind = "req" THEN "request.start" ELSE "message.out"

(* Fault: the wrapper reports what the transport threw and returns. *)
WrappedSwallowing(p, call, kind, clock) ==
  [call EXCEPT !.result = "ok",
     !.events = Append(@, Emit(p, IF call.result = "ok" THEN Out(kind) ELSE "send.error", buffered))]

(* One wrapper around a call that came to `call.result`, having emitted    *)
(* call.events; `clock` says on which of its calls the clock throws.  On   *)
(* a data channel the report of a send that succeeded stands inside the    *)
(* try: a clock that fails there is taken for a failed send.               *)
Wrapped(p, call, kind, clock) ==
  CASE call.result = "ok" /\ clock = "works" ->
         [call EXCEPT !.events = Append(@, Emit(p, Out(kind), buffered))]
    [] call.result = "ok" /\ clock = "fails once" /\ transport = "webrtc-dc" ->
         [result |-> "clock", events |-> Append(call.events, Emit(p, "send.error", buffered))]
    [] call.result # "ok" /\ clock = "works" ->
         [call EXCEPT !.events = Append(@, Emit(p, "send.error", buffered))]
    [] OTHER -> [call EXCEPT !.result = "clock"]

(* A call of the method: the transport's own, then each wrapper on the way out. *)
Through(outcome, kind, clocks) ==
  LET call[n \in 0 .. Len(method)] ==
        IF n = 0 THEN [result |-> outcome, events |-> <<>>]
                 ELSE LET p == method[Len(method) + 1 - n] IN Wrapped(p, call[n - 1], kind, clocks[p])
  IN call[Len(method)]

ChannelSend(kind, outcome, clocks) ==
  /\ outcome = "ok" => buffered < MaxBuffered
  /\ LET call == Through(outcome, kind, clocks) IN
     /\ did' = [op |-> "send", outcome |-> outcome, result |-> call.result,
                level |-> buffered, faulty |-> Faulty(clocks)]
     /\ emitted' = call.events
  /\ buffered' = IF outcome = "ok" THEN buffered + 1 ELSE buffered
  /\ UNCHANGED wiring

(* What reaches the channel is reported by each listener. *)
Arrive(op, type, listeners, clocks) ==
  /\ did' = [op |-> op, faulty |-> Faulty(clocks)]
  /\ emitted' = [i \in DOMAIN listeners |-> Emit(listeners[i], type, buffered)]
  /\ UNCHANGED wiring

Working(clocks) == Only(listening, Probes \ Faulty(clocks))

(* A message: the listener catches what its clock throws. *)
ChannelMessage(kind, clocks) ==
  /\ Arrive("message", IF kind = "res" THEN "request.end" ELSE "message.in", Working(clocks), clocks)
  /\ UNCHANGED buffered

(* bufferedamountlow on a data channel, which shields its listeners from   *)
(* each other.                                                             *)
BufferedAmountLow(clocks) ==
  /\ transport = "webrtc-dc" /\ buffered > 0
  /\ Arrive("low", "backpressure.clear", Working(clocks), clocks)
  /\ buffered' = 0

(* close on a stream, whose emit() stops at the first listener that throws. *)
ChannelClose(clocks) ==
  /\ transport = "hyperswarm"
  /\ \E n \in 0 .. Len(listening) :
       /\ \A i \in 1 .. n : clocks[listening[i]] = "works"
       /\ n < Len(listening) => clocks[listening[n + 1]] # "works"
       /\ Arrive("close", "conn.state", SubSeq(listening, 1, n), clocks)
  /\ UNCHANGED buffered

(* The stream's buffer runs empty. *)
ChannelDrain == /\ transport = "hyperswarm" /\ buffered > 0
                /\ buffered' = 0
                /\ did' = Nothing /\ emitted' = <<>>
                /\ UNCHANGED wiring

Clocks == [Probes -> Clock]

ChannelNext == \/ \E p \in Probes : \/ RestoreChannel(p)
                                    \/ \E enabled, dev, production \in BOOLEAN :
                                         InstrumentChannel(p, enabled, dev, production)
               \/ \E clocks \in Clocks :
                    \/ \E kind \in {"res", "other"} : ChannelMessage(kind, clocks)
                    \/ \E kind \in {"req", "other"}, outcome \in {"ok", "refused"} :
                         ChannelSend(kind, outcome, clocks)
                    \/ BufferedAmountLow(clocks)
                    \/ ChannelClose(clocks)
               \/ ChannelDrain

DataTapSpec == /\ transport \in {"webrtc-dc", "hyperswarm"} /\ removable \in BOOLEAN /\ ChannelInit
               /\ [][ChannelNext]_channelVars

-----------------------------------------------------------------------------
On == {p \in Probes : probe[p] = "on"}
Reporting == {emitted[i].probe : i \in DOMAIN emitted}

(* The application learns of a send what the transport made of it, however *)
(* many probes stand between them, unless the clock of one of them throws. *)
AppLearnsTheTruth ==
  did.op = "send" /\ did.result # did.outcome
    => did.result = "clock" /\ \E i \in DOMAIN method : method[i] \in did.faulty

(* Probes that came off in the reverse of their order leave those still on *)
(* to report every send, once, with the level the application sent at; and *)
(* arrivals reach the probes that are on, in whatever order others came    *)
(* off, and those only if listeners can be removed.                        *)
ProbesSeeTraffic ==
  /\ Cardinality(Reporting) = Len(emitted)
  /\ did.op = "send" => \A i \in DOMAIN emitted : emitted[i].level = did.level
  /\ did.op = "send" /\ nested =>
       Reporting \subseteq On /\ (On \cap did.faulty = {} => Reporting = On)
  /\ did.op \in {"message", "low"} =>
       On \ did.faulty \subseteq Reporting /\ (removable => Reporting = On \ did.faulty)
  /\ did.op = "close" /\ removable =>
       Reporting \subseteq On /\ (On \cap did.faulty = {} => Reporting = On)
=============================================================================
