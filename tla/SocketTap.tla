------------------------------ MODULE SocketTap ------------------------------
(***************************************************************************)
(* packages/bare-probe/adapters/websocket.ts: a probe replaces the global  *)
(* WebSocket class by one that extends it.  Probes stack up as subclasses; *)
(* a socket keeps the probes of the class it was made by, whatever becomes *)
(* of the class.  The caller's peerIdFromUrl runs in the constructor and   *)
(* may throw; so may the caller's clock, there and in every report.        *)
(***************************************************************************)
EXTENDS Naturals, Sequences, FiniteSets, Selection, Target

CONSTANTS Layers,       \* the probes that may be put on the class
          MaxSockets    \* bound: sockets made

ASSUME SocketBoundsAssumption == MaxSockets \in Nat

VARIABLES class,        \* globalObj.WebSocket: the subclasses, outermost first
          original,     \* OriginalWebSocket of each probe
          layer,        \* what became of each probe
          sockets,      \* the sockets that exist, and for whom they were made
          tidy,         \* history: probes came off in the reverse of their order
          act,          \* history: what the application or a socket did last
          told          \* history: the events that step emitted

classVars == <<transport, removable, class, original, layer, tidy>>
socketVars == <<classVars, sockets, act, told>>

NoAct == [op |-> "none"]
Failing(clocks) == {p \in Layers : clocks[p] # "works"}
Telling(probes, clocks) == Only(probes, Layers \ Failing(clocks))
Tagged(probes, type) == [i \in DOMAIN probes |-> [probe |-> probes[i], type |-> type]]

SocketInit == /\ class = <<>>
              /\ original = [p \in Layers |-> <<>>]
              /\ layer = [p \in Layers |-> "off"]
              /\ sockets = <<>>
              /\ tidy = TRUE
              /\ act = NoAct /\ told = <<>>

-----------------------------------------------------------------------------
Untold == act' = NoAct /\ told' = <<>> /\ UNCHANGED <<transport, removable, sockets>>

instrumentWebSocket(p, enabled) ==
  /\ layer[p] = "off"
  /\ IF ~ enabled
       THEN layer' = [layer EXCEPT ![p] = "disabled"] /\ UNCHANGED <<class, original>>
       ELSE /\ layer' = [layer EXCEPT ![p] = "on"]
            /\ original' = [original EXCEPT ![p] = class]
            /\ class' = <<p>> \o class
  /\ UNCHANGED tidy
  /\ Untold

(* restore() puts back the class the probe found.  No socket is touched.   *)
RestoreClass(p) ==
  /\ layer[p] \in {"on", "restored"}
  /\ layer' = [layer EXCEPT ![p] = "restored"]
  /\ class' = original[p]
  /\ tidy' = (tidy /\ class \in {original[p], <<p>> \o original[p]})
  /\ UNCHANGED original
  /\ Untold

-----------------------------------------------------------------------------
(* The probes of a new socket: those whose constructor ran, innermost      *)
(* first, and whose clock had the time of the attempt.  One whose clock    *)
(* throws there leaves the socket without listeners and without a wrapper. *)
Wired(k, clocks) ==
  Telling([i \in 1 .. k - 1 |-> class[Len(class) + 1 - i]], clocks)

(* The constructors run from the base class outwards.  The k-th probe's    *)
(* peerIdFromUrl may throw: the probes inside it have then attached to a   *)
(* socket the application never gets.                                      *)
Construct(k, clocks) ==
  /\ Len(sockets) < MaxSockets
  /\ k \in 1 .. Len(class) + 1
  /\ sockets' = Append(sockets,
       [probes |-> Wired(k, clocks), owned |-> k > Len(class), phase |-> "connecting",
        orderly |-> tidy, audience |-> {p \in Layers : layer[p] = "on"} \ Failing(clocks)])
  /\ act' = [op |-> "construct", socket |-> Len(sockets) + 1, faulty |-> Failing(clocks)]
  /\ told' = Tagged(Wired(k, clocks), "ws.open.attempt")
  /\ UNCHANGED classVars

(* Fault: a probe is heard only while it is on the class. *)
HappensToClass(s, op, phase, type, clocks) ==
  /\ sockets' = [sockets EXCEPT ![s].phase = phase]
  /\ act' = [op |-> op, socket |-> s, faulty |-> Failing(clocks)]
  /\ told' = Tagged(Only(Telling(sockets[s].probes, clocks), {class[i] : i \in DOMAIN class}), type)
  /\ UNCHANGED classVars

(* What happens to a socket is told by its listeners, in their order; one  *)
(* whose clock throws tells nothing, and keeps no other from telling.      *)
Happens(s, op, phase, type, clocks) ==
  /\ sockets' = [sockets EXCEPT ![s].phase = phase]
  /\ act' = [op |-> op, socket |-> s, faulty |-> Failing(clocks)]
  /\ told' = Tagged(Telling(sockets[s].probes, clocks), type)
  /\ UNCHANGED classVars

SocketOpen(s, clocks) ==
  sockets[s].phase = "connecting" /\ Happens(s, "open", "open", "ws.open", clocks)
SocketMessage(s, clocks) ==
  sockets[s].phase = "open" /\ Happens(s, "message", "open", "ws.message.in", clocks)
SocketError(s, clocks) ==
  sockets[s].phase # "closed" /\ Happens(s, "error", "failed", "ws.error", clocks)
SocketClose(s, clocks) ==
  sockets[s].phase # "closed" /\ Happens(s, "close", "closed", "ws.close", clocks)

(* One wrapper around a send that came to call.result, having told         *)
(* call.told.  The report of a send that succeeded stands inside the try:  *)
(* a clock that fails there is taken for a failed send.                    *)
Rewrapped(p, call, clock) ==
  LET tell(type) == Append(call.told, [probe |-> p, type |-> type]) IN
  CASE call.result = "ok" /\ clock = "works" -> [call EXCEPT !.told = tell("ws.message.out")]
    [] call.result = "ok" /\ clock = "fails once" -> [result |-> "clock", told |-> tell("send.error")]
    [] call.result # "ok" /\ clock = "works" -> [call EXCEPT !.told = tell("send.error")]
    [] OTHER -> [call EXCEPT !.result = "clock"]

(* A call of a socket's send: the platform's own, then each wrapper. *)
SentThrough(probes, outcome, clocks) ==
  LET call[n \in 0 .. Len(probes)] ==
        IF n = 0 THEN [result |-> outcome, told |-> <<>>]
                 ELSE Rewrapped(probes[n], call[n - 1], clocks[probes[n]])
  IN call[Len(probes)]

(* send() throws while the socket connects, and silently discards later.   *)
SocketSend(s, clocks) ==
  /\ sockets[s].owned
  /\ LET outcome == IF sockets[s].phase = "connecting" THEN "refused" ELSE "ok"
         call == SentThrough(sockets[s].probes, outcome, clocks)
     IN /\ act' = [op |-> "send", socket |-> s, outcome |-> outcome,
                   result |-> call.result, faulty |-> Failing(clocks)]
        /\ told' = call.told
  /\ UNCHANGED <<classVars, sockets>>

SocketClocks == [Layers -> Clock]

SocketNext ==
  \/ \E p \in Layers : \/ RestoreClass(p)
                       \/ \E enabled \in BOOLEAN : instrumentWebSocket(p, enabled)
  \/ \E clocks \in SocketClocks :
       \/ \E k \in 1 .. Cardinality(Layers) + 1 : Construct(k, clocks)
       \/ \E s \in DOMAIN sockets : \/ SocketOpen(s, clocks) \/ SocketMessage(s, clocks)
                                   \/ SocketError(s, clocks) \/ SocketClose(s, clocks)
                                   \/ SocketSend(s, clocks)

SocketTapSpec == transport = "websocket" /\ removable = FALSE /\ SocketInit /\ [][SocketNext]_socketVars

-----------------------------------------------------------------------------
Tellers == {told[i].probe : i \in DOMAIN told}

(* If probes had come off the class in the reverse of their order when a   *)
(* socket was made, then what happens to it is told, once each, by exactly *)
(* the probes that were on then and whose clocks had the time of the       *)
(* attempt, also after restore(), but for those whose clock fails now.     *)
HeardByItsProbes(socket) ==
  /\ Cardinality(Tellers) = Len(told)
  /\ socket.orderly =>
       /\ Tellers \subseteq socket.audience
       /\ act.op # "send" => Tellers \cap act.faulty = {}
       /\ socket.owned => socket.audience \ act.faulty \subseteq Tellers

(* The application learns of a send what the platform made of it, and a    *)
(* probe reports that, unless the clock of a probe on the way failed.      *)
SentTruly(socket) ==
  LET failed == {i \in DOMAIN socket.probes : socket.probes[i] \in act.faulty} IN
  /\ act.result # act.outcome => act.result = "clock" /\ failed # {}
  /\ \A i \in DOMAIN told :
       LET inside == {j \in failed : \E n \in DOMAIN socket.probes :
                                       j <= n /\ socket.probes[n] = told[i].probe}
       IN IF told[i].type = "ws.message.out" THEN act.outcome = "ok" /\ inside = {}
                                             ELSE act.outcome # "ok" \/ inside # {}

(* Whoever stands around a socket, and whatever became of the class since  *)
(* it was made: its probes are heard, and what they tell of a send is true.*)
SocketsToldTruly ==
  act.op # "none" => /\ HeardByItsProbes(sockets[act.socket])
                     /\ act.op = "send" => SentTruly(sockets[act.socket])
=============================================================================
