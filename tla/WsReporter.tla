----------------------------- MODULE WsReporter ------------------------------
(***************************************************************************)
(* packages/bare-observe/src/reporters.ts: createWebSocketReporter, with   *)
(* the sockets it opens and the network under them.                        *)
(*                                                                         *)
(* All handlers share one variable ws, while every socket the reporter     *)
(* ever made keeps its own handlers.  A socket whose peer has started the  *)
(* closing handshake is `closing` before its close event fires, and an     *)
(* export that finds it so replaces it: from then on two sockets are       *)
(* alive, and the events of the old one act on the new value of ws.        *)
(*                                                                         *)
(* The n-th exported event is the number n; the announce frame is 0.       *)
(***************************************************************************)
EXTENDS Integers, Sequences, FiniteSets, Functions, Bounded, Selection

CONSTANTS MaxQueue,             \* option maxQueue
          Unserializable,       \* events on which JSON.stringify throws
          MaxEvents,            \* bound: events exported
          MaxClosings,          \* bound: closing handshakes started by a peer
          MaxDrops,             \* bound: connections that fail
          MaxThrows             \* bound: constructions of a WebSocket that throw

ASSUME LimitsAssumption == /\ MaxQueue \in Nat
                           /\ Unserializable \subseteq Nat \ {0}
ASSUME BoundsAssumption == /\ MaxEvents \in Nat /\ MaxClosings \in Nat
                           /\ MaxDrops \in Nat /\ MaxThrows \in Nat

(* ws is replaced at most twice for a closing handshake (when an export    *)
(* finds it closing, and when it has closed) and once for a failure.       *)
Sockets == 1 .. 1 + 2 * MaxClosings + MaxDrops
Null == 0
Announce == 0

VARIABLES ws,           \* the shared variable: a socket, or Null
          queue,        \* events waiting for a connection
          closed,       \* close() was called
          timers,       \* reconnect timers pending
          state,        \* readyState of each socket
          sent,         \* history: the frames sent, and on which socket
          exported,     \* history: events exported before close()
          overflowed,   \* history: events the queue evicted
          throws,       \* history: constructions that threw
          closings,     \* history: closing handshakes started by a peer
          drops         \* history: connections that failed

reporterVars == <<ws, queue, closed, timers>>
historyVars == <<sent, exported, overflowed>>
faultVars == <<throws, closings, drops>>
vars == <<reporterVars, state, historyVars, faultVars>>

Frames == 0 .. MaxEvents

Init == /\ ws = Null
        /\ queue = <<>>
        /\ closed = FALSE
        /\ timers = 0
        /\ state = [s \in Sockets |-> "unmade"]
        /\ sent = <<>>
        /\ exported = 0
        /\ overflowed = {}
        /\ throws = 0 /\ closings = 0 /\ drops = 0

-----------------------------------------------------------------------------
Serializable(frames) == Only(frames, Frames \ Unserializable)
Poison(frames) == Only(frames, Unserializable)

(* The queue is `waiting`; enqueue each frame in turn. *)
Enqueue(waiting, frames) ==
  /\ queue' = Newest(waiting \o frames, MaxQueue)
  /\ overflowed' = overflowed \cup (Range(waiting \o frames) \ Range(queue'))

On(socket, frames) == [i \in 1 .. Len(frames) |-> [socket |-> socket, frame |-> frames[i]]]

(* ws is a socket in state r, when the sockets are in states st. *)
WsIs(st, r) == ws # Null /\ st[ws] = r

(* Fault: what cannot be sent now is given up. *)
RawSendOrForget(st, waiting, frames) ==
  /\ sent' = IF WsIs(st, "open") THEN sent \o On(ws, Serializable(frames)) ELSE sent
  /\ Enqueue(waiting, <<>>)

(* rawSend of each frame in turn on ws, when the sockets are in states st  *)
(* and the queue is `waiting`.  An open socket sends all but what          *)
(* JSON.stringify throws on; a closing one discards what it is given       *)
(* without an error; no socket, and one still connecting, throw.  What     *)
(* throws is queued.                                                       *)
RawSend(st, waiting, frames) ==
  \/ /\ WsIs(st, "open")
     /\ sent' = sent \o On(ws, Serializable(frames))
     /\ Enqueue(waiting, Poison(frames))
  \/ /\ WsIs(st, "closing")
     /\ Enqueue(waiting, Poison(frames))
     /\ UNCHANGED sent
  \/ /\ ~ WsIs(st, "open") /\ ~ WsIs(st, "closing")
     /\ Enqueue(waiting, frames)
     /\ UNCHANGED sent

(* ensure() keeps a socket that is connecting or open. *)
Usable(s) == s # Null /\ state[s] \in {"connecting", "open"}

NextSocket == CHOOSE s \in Sockets : /\ state[s] = "unmade"
                                     /\ \A t \in 1 .. s - 1 : state[t] # "unmade"

MakeSocket == /\ ws' = NextSocket
              /\ state' = [state EXCEPT ![NextSocket] = "connecting"]
              /\ UNCHANGED throws

ConstructorThrows == /\ throws < MaxThrows
                     /\ throws' = throws + 1
                     /\ ws' = Null
                     /\ UNCHANGED state

Ensure == IF closed \/ Usable(ws) THEN UNCHANGED <<ws, state, throws>>
                                  ELSE MakeSocket \/ ConstructorThrows

-----------------------------------------------------------------------------
(* export(batch).  A socket ensure() has just made is connecting, so only  *)
(* one that was open before takes the batch.                               *)
ExportBatch(batch) ==
  /\ ~ closed
  /\ Ensure
  /\ IF WsIs(state, "open")
       THEN RawSend(state, queue, batch)
       ELSE Enqueue(queue, batch) /\ UNCHANGED sent
  /\ UNCHANGED <<closed, timers, closings, drops>>

Export == \E n \in 1 .. 2 :
            /\ exported + n <= MaxEvents
            /\ exported' = exported + n
            /\ ExportBatch([i \in 1 .. n |-> exported + i])

(* Fault: the queue is sent before the announce frame. *)
DrainThenAnnounce(st) ==
  IF WsIs(st, "open") \/ WsIs(st, "closing")
    THEN RawSend(st, <<>>, Append(queue, Announce))
    ELSE RawSend(st, queue, <<Announce>>)

(* Fault: the queue is sent and kept. *)
DrainAndKeep(st) == IF WsIs(st, "open") THEN RawSend(st, queue, <<Announce>> \o queue)
                                        ELSE RawSend(st, queue, <<Announce>>)

(* onopen of s announces and drains the queue, on whatever socket ws is    *)
(* now.  Where that throws, the announce frame joins the queue first and   *)
(* the queue is then put back as it was.                                   *)
Drain(st) == IF WsIs(st, "open") \/ WsIs(st, "closing")
               THEN RawSend(st, <<>>, <<Announce>> \o queue)
               ELSE RawSend(st, queue, <<Announce>>)

Open(s) == /\ state[s] = "connecting"
           /\ state' = [state EXCEPT ![s] = "open"]
           /\ Drain(state')
           /\ UNCHANGED <<ws, closed, timers, exported, faultVars>>

(* Fault: a socket that closed is not replaced until the next export. *)
OnCloseNoRetry(s) == /\ state' = [state EXCEPT ![s] = "closed"]
                     /\ ws' = Null
                     /\ UNCHANGED <<queue, closed, timers, historyVars, throws, closings>>

(* onclose of s, which need not be ws any more. *)
OnClose(s) == /\ state' = [state EXCEPT ![s] = "closed"]
              /\ ws' = Null
              /\ timers' = timers + (IF closed THEN 0 ELSE 1)
              /\ UNCHANGED <<queue, closed, historyVars, throws, closings>>

Fail(s) == /\ state[s] \in {"connecting", "open"}
           /\ drops < MaxDrops
           /\ drops' = drops + 1
           /\ OnClose(s)

Closed(s) == /\ state[s] = "closing"
             /\ OnClose(s)
             /\ UNCHANGED drops

(* The peer of s starts the closing handshake: no event yet. *)
PeerCloses(s) == /\ state[s] = "open"
                 /\ closings < MaxClosings
                 /\ closings' = closings + 1
                 /\ state' = [state EXCEPT ![s] = "closing"]
                 /\ UNCHANGED <<reporterVars, historyVars, throws, drops>>

Timer == /\ timers > 0
         /\ timers' = timers - 1
         /\ Ensure
         /\ UNCHANGED <<queue, closed, historyVars, closings, drops>>

Close == /\ ~ closed
         /\ closed' = TRUE
         /\ state' = [s \in Sockets |-> IF s = ws /\ Usable(s) THEN "closing" ELSE state[s]]
         /\ ws' = Null
         /\ UNCHANGED <<queue, timers, historyVars, faultVars>>

Network(s) == Open(s) \/ Fail(s) \/ Closed(s) \/ PeerCloses(s)

Next == Export \/ Timer \/ Close \/ \E s \in Sockets : Network(s)

(* Timers fire, a connection attempt ends, a closing handshake ends. *)
Fairness == /\ WF_vars(Timer)
            /\ \A s \in Sockets : WF_vars(Open(s)) /\ WF_vars(Closed(s))

Spec == Init /\ [][Next]_vars /\ Fairness

-----------------------------------------------------------------------------
(* The first frame of a connection says which device it comes from, also   *)
(* when sockets overlap and one's onopen runs on another.                  *)
AnnouncedFirst ==
  \A i \in 1 .. Len(sent) :
    \E j \in 1 .. i : sent[j] = [socket |-> sent[i].socket, frame |-> Announce]

(* Over all connections, events are sent in the order they were exported   *)
(* and none is sent twice.                                                 *)
SentInOrder ==
  \A i, j \in 1 .. Len(sent) :
    i < j /\ sent[j].frame # Announce => sent[i].frame < sent[j].frame

Sent(n) == \E i \in 1 .. Len(sent) : sent[i].frame = n

(* No event is lost but by overflow of the queue: none is given to a       *)
(* socket that discards it.                                                *)
OnlyOverflowLoses ==
  \A n \in 1 .. exported : Sent(n) \/ n \in Range(queue) \/ n \in overflowed

(* Events exported while disconnected get out: once the network lets a     *)
(* connection live, what the queue has kept is sent, without waiting for   *)
(* another export.  A constructor that throws in the timer ends the        *)
(* retries, and events then do wait for another export.                    *)
EventsGetOut ==
  \A n \in (1 .. MaxEvents) \ Unserializable :
    n \in Range(queue) ~> n \notin Range(queue) \/ closed \/ throws > 0

(* reporters.ts:20: the source identity is sent once per connection.       *)
AnnouncedOnce ==
  \A s \in Sockets : state[s] = "open" =>
    Cardinality({i \in 1 .. Len(sent) : sent[i] = [socket |-> s, frame |-> Announce]}) = 1
=============================================================================
