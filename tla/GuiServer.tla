------------------------------ MODULE GuiServer ------------------------------
(***************************************************************************)
(* packages/bare-observe/gui/server.mjs: the hub that devices stream       *)
(* events to and that viewers watch.  Each WebSocket is handled by         *)
(* closures over its own connection and over the tables below, and each    *)
(* frame or close event is one step; between the steps of one connection   *)
(* any steps of the others may come.  TCP delivers the frames of one       *)
(* connection in order and its close last, but orders nothing between two  *)
(* connections: a device that reconnects may announce itself on the new    *)
(* one before the hub sees the old one close.                              *)
(*                                                                         *)
(* A device (the reporter) announces one source per connection, possibly   *)
(* more than once, before its events; a viewer greets once and sends no    *)
(* events.  The n-th event the hub takes is the number n.                  *)
(***************************************************************************)
EXTENDS Naturals, Sequences, FiniteSets, Functions, Bounded, Selection

CONSTANTS Conns, Sources,
          Invocable,            \* connections of builds that opted in to replay
          MaxHistory,           \* MAX_HISTORY
          MaxEvents,            \* bound: events of the devices
          MaxClears,            \* bound: purges
          MaxInvokes            \* bound: replays

ASSUME ConnsAssumption == IsFiniteSet(Conns) /\ Invocable \subseteq Conns
ASSUME HistoryAssumption == MaxHistory \in Nat
ASSUME BoundsAssumption == MaxEvents \in Nat /\ MaxClears \in Nat /\ MaxInvokes \in Nat

VARIABLES HISTORY,      \* events kept, oldest first
          sources,      \* source -> whether its latest announce had caps.invoke
          sourceRefs,   \* source -> how many connections announce it
          sourceConns,  \* source -> those connections, first announced first
          browsers,     \* the viewers' connections
          role,         \* per connection: "new", "open", "closed", or a viewer's
          announced,    \* per connection: the sources it announced
          chips,        \* per viewer: the sources it was told of
          shown,        \* per viewer: the events it was sent and not told to clear
          origin,       \* history: the source of each event
          purged,       \* history: events the hub had taken when they were purged
          clears,       \* history: purges
          arrivals,     \* history: announces that were a connection's first
          routes        \* history: replays forwarded to a device

tables == <<HISTORY, sources, sourceRefs, sourceConns, browsers>>
connVars == <<role, announced>>
viewerVars == <<chips, shown>>
history == <<origin, purged, clears, arrivals, routes>>
vars == <<tables, connVars, viewerVars, history>>

Events == 1 .. MaxEvents

Nothing == [s \in {} |-> {}]

Init == /\ HISTORY = <<>>
        /\ sources = Nothing /\ sourceRefs = Nothing /\ sourceConns = Nothing
        /\ browsers = {}
        /\ role = [c \in Conns |-> "new"]
        /\ announced = [c \in Conns |-> {}]
        /\ chips = [c \in Conns |-> {}]
        /\ shown = [c \in Conns |-> <<>>]
        /\ origin = <<>>
        /\ purged = {}
        /\ clears = 0
        /\ arrivals = <<>>
        /\ routes = <<>>

-----------------------------------------------------------------------------
(* Map.set and Map.delete. *)
With(map, s, v) == [t \in DOMAIN map \cup {s} |-> IF t = s THEN v ELSE map[t]]
Without(map, s) == [t \in DOMAIN map \ {s} |-> map[t]]

Refs(s) == IF s \in DOMAIN sourceRefs THEN sourceRefs[s] ELSE 0
ConnsOf(s) == IF s \in DOMAIN sourceConns THEN sourceConns[s] ELSE <<>>

(* The upgrade of a connection whose origin the hub accepts. *)
Accept(c) == /\ role[c] = "new"
             /\ role' = [role EXCEPT ![c] = "open"]
             /\ UNCHANGED <<tables, announced, viewerVars, history>>

-----------------------------------------------------------------------------
(* Frames of a device. *)

(* A connection's first announce of s counts it among the connections of s. *)
Join(c, s) ==
  IF s \in announced[c]
    THEN UNCHANGED <<announced, sourceRefs, sourceConns, arrivals>>
    ELSE /\ announced' = [announced EXCEPT ![c] = @ \cup {s}]
         /\ sourceRefs' = With(sourceRefs, s, Refs(s) + 1)
         /\ sourceConns' = With(sourceConns, s, Append(ConnsOf(s), c))
         /\ arrivals' = Append(arrivals, [conn |-> c, source |-> s])

Announce(c, s) ==
  /\ role[c] = "open"
  /\ announced[c] \subseteq {s}
  /\ Join(c, s)
  /\ sources' = With(sources, s, c \in Invocable)
  /\ chips' = [b \in Conns |-> IF b \in browsers THEN chips[b] \cup {s} ELSE chips[b]]
  /\ UNCHANGED <<HISTORY, browsers, role, shown, origin, purged, clears, routes>>

Remember(events, e) == Newest(Append(events, e), MaxHistory)

Event(c, s) ==
  LET e == Len(origin) + 1 IN
  /\ role[c] = "open"
  /\ s \in announced[c]
  /\ e <= MaxEvents
  /\ origin' = Append(origin, s)
  /\ HISTORY' = Remember(HISTORY, e)
  /\ shown' = [b \in Conns |-> IF b \in browsers THEN Append(shown[b], e) ELSE shown[b]]
  /\ UNCHANGED <<sources, sourceRefs, sourceConns, browsers, connVars, chips,
                 purged, clears, arrivals, routes>>

-----------------------------------------------------------------------------
(* Frames of a viewer. *)

(* Fault: a new viewer is sent live events only. *)
HelloLiveOnly(c) ==
  /\ role[c] = "open"
  /\ announced[c] = {}
  /\ role' = [role EXCEPT ![c] = "viewer"]
  /\ browsers' = browsers \cup {c}
  /\ chips' = [chips EXCEPT ![c] = DOMAIN sources]
  /\ UNCHANGED <<HISTORY, sources, sourceRefs, sourceConns, announced, shown, history>>

(* A viewer is sent the sources, then the history, then what is live. *)
Hello(c) ==
  /\ role[c] = "open"
  /\ announced[c] = {}
  /\ role' = [role EXCEPT ![c] = "viewer"]
  /\ browsers' = browsers \cup {c}
  /\ chips' = [chips EXCEPT ![c] = DOMAIN sources]
  /\ shown' = [shown EXCEPT ![c] = HISTORY]
  /\ UNCHANGED <<HISTORY, sources, sourceRefs, sourceConns, announced, history>>

(* What a purge of the sources S leaves of some events. *)
Keep(events, S) == Only(events, {e \in DOMAIN origin : origin[e] \notin S})

(* Fault: a forward loop that skips the event after one it removed. *)
PurgeForward(events, S) ==
  LET removed[i \in 0 .. Len(events)] ==
        i # 0 /\ origin[events[i]] \in S /\ ~ removed[i - 1]
      kept == {i \in 1 .. Len(events) : ~ removed[i]}
      place(k) == CHOOSE i \in kept : Cardinality({j \in kept : j <= i}) = k
  IN  [k \in 1 .. Cardinality(kept) |-> events[place(k)]]

(* The purge of HISTORY, a splice per event from the newest to the oldest. *)
Purge(events, S) == Keep(events, S)

(* A purge of one source, or of all, for every viewer. *)
Clear(b, S) ==
  /\ b \in browsers
  /\ clears < MaxClears
  /\ clears' = clears + 1
  /\ HISTORY' = Purge(HISTORY, S)
  /\ shown' = [v \in Conns |-> IF v \in browsers THEN Keep(shown[v], S) ELSE shown[v]]
  /\ purged' = purged \cup {e \in DOMAIN origin : origin[e] \in S}
  /\ UNCHANGED <<sources, sourceRefs, sourceConns, browsers, connVars, chips,
                 origin, arrivals, routes>>

Scopes == {{s} : s \in Sources} \cup {Sources}

(* Fault: the replay goes to the connection that announced first. *)
TargetConnFirst(s) == sourceConns[s][1]

(* [...set].at(-1): of the connections of s, the last to announce it. *)
TargetConn(s) == sourceConns[s][Len(sourceConns[s])]

(* A replay of a call of s that the hub forwards; any other it refuses,    *)
(* with an answer to the viewer that asked and no change to anything.      *)
Invoke(b, s) ==
  /\ b \in browsers
  /\ Len(routes) < MaxInvokes
  /\ ConnsOf(s) # <<>>
  /\ s \in DOMAIN sources /\ sources[s]
  /\ routes' = Append(routes, [conn |-> TargetConn(s), source |-> s])
  /\ UNCHANGED <<tables, connVars, viewerVars, origin, purged, clears, arrivals>>

-----------------------------------------------------------------------------
(* The source s of a connection that closed loses one of its connections. *)

(* Fault: any close of a connection of s removes s. *)
LeaveForGood(c, s) ==
  /\ sources' = Without(sources, s)
  /\ sourceRefs' = Without(sourceRefs, s)
  /\ sourceConns' = Without(sourceConns, s)
  /\ chips' = [b \in Conns |-> IF b \in browsers THEN chips[b] \ {s} ELSE chips[b]]

Leave(c, s) ==
  LET rest == Only(ConnsOf(s), Conns \ {c}) IN
  /\ sourceConns' = IF rest = <<>> THEN Without(sourceConns, s)
                                   ELSE With(sourceConns, s, rest)
  /\ IF Refs(s) > 1
       THEN /\ sourceRefs' = With(sourceRefs, s, Refs(s) - 1)
            /\ UNCHANGED <<sources, chips>>
       ELSE /\ sourceRefs' = Without(sourceRefs, s)
            /\ sources' = Without(sources, s)
            /\ chips' = [b \in Conns |-> IF b \in browsers THEN chips[b] \ {s} ELSE chips[b]]

CloseDevice(c) ==
  /\ role[c] = "open"
  /\ role' = [role EXCEPT ![c] = "closed"]
  /\ \/ announced[c] = {} /\ UNCHANGED <<sources, sourceRefs, sourceConns, chips>>
     \/ \E s \in announced[c] : Leave(c, s)
  /\ UNCHANGED <<HISTORY, browsers, announced, shown, history>>

CloseViewer(c) ==
  /\ role[c] = "viewer"
  /\ role' = [role EXCEPT ![c] = "closed"]
  /\ browsers' = browsers \ {c}
  /\ UNCHANGED <<HISTORY, sources, sourceRefs, sourceConns, announced, viewerVars, history>>

Device(c) == CloseDevice(c) \/ \E s \in Sources : Announce(c, s) \/ Event(c, s)

Viewer(c) == \/ Hello(c)
             \/ CloseViewer(c)
             \/ \E S \in Scopes : Clear(c, S)
             \/ \E s \in Sources : Invoke(c, s)

Next == \E c \in Conns : Accept(c) \/ Device(c) \/ Viewer(c)

Spec == Init /\ [][Next]_vars

-----------------------------------------------------------------------------
(* The open connections that announced s. *)
Announcers(s) == {c \in Conns : role[c] = "open" /\ s \in announced[c]}

(* A device is on a viewer's screen exactly while it has a connection, for *)
(* viewers that came before it, between its reconnects, or after it.       *)
ChipsAreLive ==
  \A b \in browsers, s \in Sources : s \in chips[b] <=> Announcers(s) # {}

(* What viewers show differs only in how far back it goes: a viewer that   *)
(* came later shows an end of what one that came earlier shows, and one    *)
(* that comes now will show an end of that, whatever was purged meanwhile. *)
EndsWith(long, short) ==
  /\ Len(short) <= Len(long)
  /\ \A i \in 1 .. Len(short) : short[i] = long[Len(long) - Len(short) + i]

ViewersAgree ==
  \A b \in browsers :
    /\ EndsWith(shown[b], HISTORY)
    /\ \A v \in browsers : EndsWith(shown[b], shown[v]) \/ EndsWith(shown[v], shown[b])

(* A purge sticks: an event the hub had taken when it was purged is shown  *)
(* by no viewer again, neither by one that reconnects nor by a new one.    *)
PurgeSticks ==
  /\ Range(HISTORY) \cap purged = {}
  /\ \A b \in browsers : Range(shown[b]) \cap purged = {}

(* A replay goes to a connection of its device that is open, and of those  *)
(* to the one that announced itself last.                                  *)
ReplayReachesNewest ==
  [][\A r \in Range(routes') : Len(routes') > Len(routes) /\ r = routes'[Len(routes')] =>
       /\ r.conn \in Announcers(r.source)
       /\ \E i \in 1 .. Len(arrivals) :
            /\ arrivals[i] = r
            /\ \A j \in i + 1 .. Len(arrivals) :
                 arrivals[j].source = r.source
                   => arrivals[j].conn \notin Announcers(r.source)]_vars
=============================================================================
