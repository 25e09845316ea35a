--------------------------- MODULE WsReporterProofs --------------------------
(***************************************************************************)
(* The reporter, for any number of events, closing handshakes, failures    *)
(* and constructors that throw, and any limit of its queue: what it sends  *)
(* is announced first and in order, and nothing is lost but by overflow,   *)
(* however many sockets are alive at once.                                 *)
(***************************************************************************)
EXTENDS WsReporter, BoundedProofs, FiniteSetTheorems

USE LimitsAssumption, BoundsAssumption

-----------------------------------------------------------------------------
(* The sockets: made one after the other, and enough of them.              *)
States == {"unmade", "connecting", "open", "closing", "closed"}

LastSocket == 1 + 2 * MaxClosings + MaxDrops

SocketTypes == /\ ws \in Sockets \cup {Null}
               /\ state \in [Sockets -> States]
               /\ ws # Null => state[ws] \in {"connecting", "open", "closing"}
               /\ closings \in 0 .. MaxClosings
               /\ drops \in 0 .. MaxDrops

Closing == {s \in Sockets : state[s] = "closing"}

InUse == IF Usable(ws) THEN 1 ELSE 0

(* Each socket but the one in use was given up for a closing handshake, at *)
(* its start or at its end, or for a failure.                              *)
Made(m) == /\ \A s \in Sockets : state[s] = "unmade" <=> s > m
           /\ closed \/ m + Cardinality(Closing) <= 2 * closings + drops + InUse

SocketInv == SocketTypes /\ \E m \in 0 .. LastSocket : Made(m)

LEMMA ClosingFinite == /\ IsFiniteSet(Closing)
                       /\ Cardinality(Closing) \in Nat
<1>1. Sockets = 1 .. LastSocket /\ LastSocket \in Int
  BY DEF Sockets, LastSocket
<1>2. IsFiniteSet(Sockets)
  BY <1>1, FS_Interval
<1>3. Closing \subseteq Sockets
  BY DEF Closing
<1> QED
  BY <1>2, <1>3, FS_Subset, FS_CardinalityType

(* When a socket is to be made, there is one left to make.                 *)
LEMMA OneLeft ==
  ASSUME SocketInv, ~ closed, ~ Usable(ws)
  PROVE  /\ NextSocket \in Sockets
         /\ state[NextSocket] = "unmade"
         /\ \A t \in 1 .. NextSocket - 1 : state[t] # "unmade"
<1>1. PICK m \in 0 .. LastSocket : Made(m)
  BY DEF SocketInv
<1>2. m < LastSocket
  BY <1>1, ClosingFinite DEF Made, InUse, SocketInv, SocketTypes, LastSocket
<1>3. Sockets = 1 .. LastSocket /\ LastSocket \in Nat
  BY DEF Sockets, LastSocket
<1>4. /\ m + 1 \in Sockets /\ state[m + 1] = "unmade"
      /\ \A t \in 1 .. m + 1 - 1 : state[t] # "unmade"
  BY <1>1, <1>2, <1>3 DEF Made
<1> QED
  BY <1>4 DEF NextSocket

(* What ensure() may do to the sockets.                                    *)
LEMMA EnsureEffect ==
  ASSUME SocketInv, Ensure
  PROVE  \/ (closed \/ Usable(ws)) /\ UNCHANGED <<ws, state>>
         \/ /\ ~ closed /\ ~ Usable(ws)
            /\ ws' \in Sockets /\ state[ws'] = "unmade"
            /\ \A t \in 1 .. ws' - 1 : state[t] # "unmade"
            /\ state' = [state EXCEPT ![ws'] = "connecting"]
         \/ ~ closed /\ ~ Usable(ws) /\ ws' = Null /\ state' = state
<1>1. CASE closed \/ Usable(ws)
  BY <1>1 DEF Ensure
<1>2. CASE ~ (closed \/ Usable(ws)) /\ MakeSocket
  BY <1>2, OneLeft DEF MakeSocket
<1>3. CASE ~ (closed \/ Usable(ws)) /\ ConstructorThrows
  BY <1>3 DEF ConstructorThrows
<1> QED
  BY <1>1, <1>2, <1>3 DEF Ensure

LEMMA EnsureKeepsSockets ==
  ASSUME SocketInv, Ensure, UNCHANGED <<closed, closings, drops>>
  PROVE  SocketInv'
<1>1. PICK m \in 0 .. LastSocket : Made(m)
  BY DEF SocketInv
<1>2. Sockets = 1 .. LastSocket /\ LastSocket \in Nat /\ Null \notin Sockets
  BY DEF Sockets, LastSocket, Null
<1>3. CASE UNCHANGED <<ws, state>>
  <2>1. Made(m)'
    BY <1>1, <1>3 DEF Made, Closing, InUse, Usable
  <2> QED
    BY <1>3, <2>1 DEF SocketInv, SocketTypes
<1>4. CASE ~ Usable(ws) /\ ws' = Null /\ state' = state
  <2>1. InUse = 0 /\ InUse' = 0 /\ Closing' = Closing
    BY <1>4 DEF InUse, Usable, Closing
  <2>2. Made(m)'
    BY <1>1, <1>4, <2>1 DEF Made
  <2> QED
    BY <1>4, <2>2 DEF SocketInv, SocketTypes
<1>5. CASE /\ ~ Usable(ws) /\ ws' \in Sockets /\ state[ws'] = "unmade"
           /\ \A t \in 1 .. ws' - 1 : state[t] # "unmade"
           /\ state' = [state EXCEPT ![ws'] = "connecting"]
  <2>1. ws' = m + 1
    <3>1. ws' > m /\ ws' \in Nat /\ ws' <= LastSocket /\ m \in Nat
      BY <1>1, <1>2, <1>5 DEF Made
    <3>2. ASSUME ws' > m + 1 PROVE FALSE
      <4>1. m + 1 \in 1 .. ws' - 1 /\ m + 1 \in Sockets
        <5>1. \A x \in Nat : x > m + 1 => m + 1 \in 1 .. x - 1
          BY <3>1
        <5>2. m + 1 \in 1 .. LastSocket
          BY <1>2, <3>1, <3>2
        <5> QED
          BY <1>2, <3>1, <3>2, <5>1, <5>2
      <4>2. state[m + 1] = "unmade"
        BY <1>1, <4>1 DEF Made
      <4> QED
        BY <1>5, <4>1, <4>2
    <3> QED
      BY <3>1, <3>2
  <2>2. \A s \in Sockets : state'[s] = IF s = ws' THEN "connecting" ELSE state[s]
    BY <1>5 DEF SocketInv, SocketTypes
  <2>3. Closing' = Closing
    BY <1>5, <2>2 DEF Closing
  <2>4. InUse = 0 /\ InUse' = 1
    BY <1>2, <1>5, <2>2 DEF InUse, Usable
  <2>5. m + 1 \in 0 .. LastSocket /\ \A s \in Sockets : state'[s] = "unmade" <=> s > m + 1
    BY <1>1, <1>2, <1>5, <2>1, <2>2 DEF Made
  <2>6. closed' \/ m + 1 + Cardinality(Closing)' <= 2 * closings' + drops' + InUse'
    BY <1>1, <2>3, <2>4, ClosingFinite DEF Made, SocketInv, SocketTypes
  <2>7. Made(m + 1)'
    BY <2>5, <2>6 DEF Made
  <2>8. SocketTypes'
    BY <1>5, <2>2 DEF SocketInv, SocketTypes, States
  <2> QED
    BY <2>5, <2>7, <2>8 DEF SocketInv
<1> QED
  BY <1>3, <1>4, <1>5, EnsureEffect

LEMMA SocketsStart == Init => SocketInv
<1> SUFFICES ASSUME Init PROVE SocketInv
  OBVIOUS
<1>1. /\ ws = Null /\ closings = 0 /\ drops = 0
      /\ state = [s \in Sockets |-> "unmade"]
  BY DEF Init
<1>2. Closing = {} /\ Cardinality(Closing) = 0
  BY <1>1, FS_EmptySet DEF Closing
<1>3. 0 \in 0 .. LastSocket
  BY DEF LastSocket
<1>4. Made(0)
  BY <1>1, <1>2 DEF Made, InUse, Usable, Sockets
<1>5. SocketTypes
  BY <1>1 DEF SocketTypes, States
<1> QED
  BY <1>3, <1>4, <1>5 DEF SocketInv

(* A socket that changes its state, and may be given up.                   *)
LEMMA NetworkKeepsSockets ==
  ASSUME SocketInv, NEW s \in Sockets, Network(s)
  PROVE  SocketInv'
<1>1. PICK m \in 0 .. LastSocket : Made(m)
  BY DEF SocketInv
<1>2. Null \notin Sockets
  BY DEF Sockets, Null
<1>3. closed' = closed /\ state[s] # "unmade"
  BY DEF Network, Open, Fail, Closed, PeerCloses, OnClose, reporterVars
<1>4. PICK r \in States \ {"unmade"} : state' = [state EXCEPT ![s] = r]
  BY DEF Network, Open, Fail, Closed, PeerCloses, OnClose, States
<1>5. \A t \in Sockets : state'[t] = IF t = s THEN r ELSE state[t]
  BY <1>4 DEF SocketInv, SocketTypes
<1>6. \A t \in Sockets : state'[t] = "unmade" <=> t > m
  BY <1>1, <1>3, <1>4, <1>5 DEF Made
<1>7. InUse \in {0, 1} /\ (ws' = Null => InUse' = 0)
  BY DEF InUse, Usable
<1>8. /\ state[s] # "closing" /\ r # "closing" => Closing' = Closing
      /\ state[s] # "closing" /\ r = "closing"
           => Closing' = Closing \cup {s} /\ s \notin Closing
      /\ state[s] = "closing" /\ r # "closing"
           => Closing' = Closing \ {s} /\ s \in Closing
  BY <1>5 DEF Closing
<1>9. /\ state[s] # "closing" /\ r # "closing" => Cardinality(Closing') = Cardinality(Closing)
      /\ state[s] # "closing" /\ r = "closing" => Cardinality(Closing') = Cardinality(Closing) + 1
      /\ state[s] = "closing" /\ r # "closing" => Cardinality(Closing') = Cardinality(Closing) - 1
  BY <1>8, ClosingFinite, FS_AddElement, FS_RemoveElement
<1>10. m \in Nat /\ closings \in Nat /\ drops \in Nat /\ Cardinality(Closing) \in Nat
  BY ClosingFinite DEF SocketInv, SocketTypes, LastSocket
<1>11. /\ closings' \in 0 .. MaxClosings /\ drops' \in 0 .. MaxDrops
       /\ closed' \/ m + Cardinality(Closing') <= 2 * closings' + drops' + InUse'
       /\ ws' \in {ws, Null}
       /\ ws' # Null => state'[ws'] \in {"connecting", "open", "closing"}
  <2>1. CASE Open(s)
    <3>1. /\ state[s] = "connecting" /\ r = "open" /\ ws' = ws
          /\ UNCHANGED <<closings, drops>>
      BY <1>5, <2>1 DEF Open, faultVars, SocketInv, SocketTypes
    <3>2. InUse' = InUse
      BY <1>2, <1>5, <3>1 DEF InUse, Usable, SocketInv, SocketTypes
    <3> QED
      BY <1>1, <1>2, <1>3, <1>5, <1>9, <3>1, <3>2 DEF Made, SocketInv, SocketTypes
  <2>2. CASE Fail(s)
    <3>1. /\ state[s] \in {"connecting", "open"} /\ r = "closed" /\ ws' = Null
          /\ closings' = closings /\ drops' = drops + 1 /\ drops < MaxDrops
      BY <1>5, <2>2 DEF Fail, OnClose, SocketInv, SocketTypes
    <3> QED
      BY <1>1, <1>3, <1>7, <1>9, <1>10, <3>1 DEF Made, SocketInv, SocketTypes
  <2>3. CASE Closed(s)
    <3>1. /\ state[s] = "closing" /\ r = "closed" /\ ws' = Null
          /\ UNCHANGED <<closings, drops>>
      BY <1>5, <2>3 DEF Closed, OnClose, SocketInv, SocketTypes
    <3> QED
      BY <1>1, <1>3, <1>7, <1>9, <1>10, <3>1 DEF Made, SocketInv, SocketTypes
  <2>4. CASE PeerCloses(s)
    <3>1. /\ state[s] = "open" /\ r = "closing" /\ ws' = ws
          /\ closings' = closings + 1 /\ closings < MaxClosings /\ drops' = drops
      BY <1>5, <2>4 DEF PeerCloses, reporterVars, SocketInv, SocketTypes
    <3>2. InUse' \in {0, 1}
      BY DEF InUse
    <3> QED
      BY <1>1, <1>2, <1>3, <1>5, <1>7, <1>9, <1>10, <3>1, <3>2
      DEF Made, SocketInv, SocketTypes
  <2> QED
    BY <2>1, <2>2, <2>3, <2>4 DEF Network
<1>12. Made(m)'
  BY <1>6, <1>11 DEF Made
<1>13. SocketTypes'
  BY <1>4, <1>11 DEF SocketInv, SocketTypes
<1> QED
  BY <1>12, <1>13 DEF SocketInv

LEMMA SocketStep == SocketInv /\ [Next]_vars => SocketInv'
<1> SUFFICES ASSUME SocketInv, [Next]_vars PROVE SocketInv'
  OBVIOUS
<1>1. CASE UNCHANGED vars
  BY <1>1 DEF vars, reporterVars, faultVars, SocketInv, SocketTypes, Made, Closing, InUse, Usable
<1>2. CASE Export \/ Timer
  <2>1. Ensure /\ UNCHANGED <<closed, closings, drops>>
    BY <1>2 DEF Export, ExportBatch, Timer
  <2> QED
    BY <2>1, EnsureKeepsSockets
<1>3. CASE Close
  <2>1. PICK m \in 0 .. LastSocket : Made(m)
    BY DEF SocketInv
  <2>2. /\ closed' = TRUE /\ ws' = Null /\ UNCHANGED <<closings, drops>>
        /\ state' = [s \in Sockets |-> IF s = ws /\ Usable(s) THEN "closing" ELSE state[s]]
    BY <1>3 DEF Close, faultVars
  <2>3. Made(m)'
    BY <2>1, <2>2 DEF Made, Usable
  <2>4. SocketTypes'
    BY <2>2 DEF SocketInv, SocketTypes, States
  <2> QED
    BY <2>3, <2>4 DEF SocketInv
<1> QED
  BY <1>1, <1>2, <1>3, NetworkKeepsSockets DEF Next
-----------------------------------------------------------------------------
(* The events: what waits, what was sent and in which order.               *)
Transmission == [socket : Sockets, frame : Frames]

Ordered(q) == \A i, j \in 1 .. Len(q) : i < j /\ q[j] # Announce => q[i] < q[j]

(* The socket the reporter uses has opened.                                *)
Connected(s, st) == s # Null /\ st[s] \in {"open", "closing"}

FrameTypes == /\ exported \in Frames
              /\ queue \in Seq(Frames)
              /\ \A x \in Range(queue) : x <= exported
              /\ sent \in Seq(Transmission)
              /\ \A i \in 1 .. Len(sent) : sent[i].frame <= exported

(* Once a connection has opened, only what cannot be sent is left waiting. *)
Drained == Connected(ws, state) => Range(queue) \subseteq Unserializable

(* What waits is in order, and newer than all that was sent.               *)
QueueInOrder ==
  /\ Ordered(queue)
  /\ \A i \in 1 .. Len(sent) : \A x \in Range(queue) \ Unserializable :
       x # Announce => sent[i].frame < x

AnnouncedOn(s) == \E j \in 1 .. Len(sent) : sent[j] = [socket |-> s, frame |-> Announce]

Identified == Connected(ws, state) => AnnouncedOn(ws)

ReporterInv == /\ SocketInv
               /\ FrameTypes
               /\ Drained
               /\ QueueInOrder
               /\ Identified
               /\ AnnouncedFirst
               /\ SentInOrder
               /\ OnlyOverflowLoses

LEMMA FramesAreNumbers == /\ Frames \subseteq Nat
                          /\ Announce \in Frames \ Unserializable
  BY DEF Frames, Announce

LEMMA OrderedConcat ==
  ASSUME NEW a \in Seq(Frames), NEW b \in Seq(Frames), Ordered(a), Ordered(b),
         \A i \in 1 .. Len(a) : \A j \in 1 .. Len(b) : b[j] # Announce => a[i] < b[j]
  PROVE  Ordered(a \o b)
<1> DEFINE c == a \o b
<1>1. /\ Len(c) = Len(a) + Len(b)
      /\ \A i \in 1 .. Len(a) + Len(b) : c[i] = IF i <= Len(a) THEN a[i] ELSE b[i - Len(a)]
  BY ConcatProperties
<1>2. Len(a) \in Nat /\ Len(b) \in Nat
  BY LenProperties
<1> HIDE DEF c
<1>3. ASSUME NEW i \in 1 .. Len(c), NEW j \in 1 .. Len(c), i < j, c[j] # Announce
      PROVE  c[i] < c[j]
  <2>1. CASE j <= Len(a)
    BY <1>1, <1>2, <1>3, <2>1 DEF Ordered
  <2>2. CASE i <= Len(a) /\ ~ (j <= Len(a))
    <3>1. j - Len(a) \in 1 .. Len(b) /\ i \in 1 .. Len(a)
      BY <1>1, <1>2, <2>2
    <3>2. c[i] = a[i] /\ c[j] = b[j - Len(a)]
      BY <1>1, <2>2
    <3> QED
      BY <1>3, <3>1, <3>2
  <2>3. CASE ~ (i <= Len(a))
    <3>1. /\ j - Len(a) \in 1 .. Len(b) /\ i - Len(a) \in 1 .. Len(b)
          /\ i - Len(a) < j - Len(a) /\ ~ (j <= Len(a))
      BY <1>1, <1>2, <1>3, <2>3
    <3>2. c[i] = b[i - Len(a)] /\ c[j] = b[j - Len(a)]
      BY <1>1, <2>3, <3>1
    <3> QED
      BY <1>3, <3>1, <3>2 DEF Ordered
  <2> QED
    BY <2>1, <2>2, <2>3
<1> QED
  BY <1>3 DEF Ordered, c

LEMMA OrderedNewest ==
  ASSUME NEW a \in Seq(Frames), NEW n \in Nat, Ordered(a)
  PROVE  Ordered(Newest(a, n))
<1> DEFINE c == Newest(a, n)
           x == Excess(a, n)
<1>1. c \in Seq(Frames) /\ x \in Nat
  BY NewestBounded
<1>2. \A i \in 1 .. Len(c) : i + x \in 1 .. Len(a) /\ c[i] = a[i + x]
  BY NewestElement
<1> HIDE DEF c, x
<1>3. ASSUME NEW i \in 1 .. Len(c), NEW j \in 1 .. Len(c), i < j, c[j] # Announce
      PROVE  c[i] < c[j]
  <2>1. i + x < j + x
    BY <1>1, <1>3
  <2> QED
    BY <1>2, <1>3, <2>1 DEF Ordered
<1> QED
  BY <1>3 DEF Ordered, c

LEMMA OrderedOnly ==
  ASSUME NEW a \in Seq(Frames), NEW S, Ordered(a)
  PROVE  Ordered(Only(a, S))
<1> DEFINE c == Only(a, S)
<1>1. c \in Seq(Frames) /\ \E pos : OnlyAt(c, a, S, Len(a), pos)
  BY OnlyPlaces
<1> HIDE DEF c
<1>2. PICK pos : OnlyAt(c, a, S, Len(a), pos)
  BY <1>1
<1>3. ASSUME NEW i \in 1 .. Len(c), NEW j \in 1 .. Len(c), i < j, c[j] # Announce
      PROVE  c[i] < c[j]
  <2>1. /\ pos[i] \in 1 .. Len(a) /\ pos[j] \in 1 .. Len(a) /\ pos[i] < pos[j]
        /\ c[i] = a[pos[i]] /\ c[j] = a[pos[j]]
    BY <1>2, <1>3 DEF OnlyAt
  <2> QED
    BY <1>3, <2>1 DEF Ordered
<1> QED
  BY <1>3 DEF Ordered, c

(* What enqueueing does: the queue keeps its order, and what it does not   *)
(* keep has overflowed.                                                    *)
LEMMA EnqueueEffect ==
  ASSUME NEW a \in Seq(Frames), NEW b \in Seq(Frames), Enqueue(a, b)
  PROVE  /\ queue' \in Seq(Frames)
         /\ Range(queue') \subseteq Range(a) \cup Range(b)
         /\ Ordered(a \o b) => Ordered(queue')
         /\ \A x \in Range(a) \cup Range(b) : x \in Range(queue') \/ x \in overflowed'
         /\ overflowed \subseteq overflowed'
<1>1. a \o b \in Seq(Frames) /\ Range(a \o b) = Range(a) \cup Range(b)
  BY ConcatProperties, RangeConcatenation
<1> DEFINE c == a \o b
<1>2. /\ queue' = Newest(c, MaxQueue)
      /\ overflowed' = overflowed \cup (Range(c) \ Range(queue'))
  BY DEF Enqueue
<1> HIDE DEF c
<1>3. c \in Seq(Frames) /\ Range(c) = Range(a) \cup Range(b)
  BY <1>1 DEF c
<1>4. queue' \in Seq(Frames) /\ Range(queue') \subseteq Range(c)
  BY <1>2, <1>3, NewestBounded, RangeNewest
<1>5. Ordered(c) => Ordered(queue')
  BY <1>2, <1>3, OrderedNewest
<1> QED
  BY <1>2, <1>3, <1>4, <1>5 DEF c

-----------------------------------------------------------------------------
(* The history r is the history q and then the frames f, sent on s.        *)
Grown(r, q, s, f) ==
  /\ r \in Seq(Transmission)
  /\ Len(r) = Len(q) + Len(f)
  /\ \A i \in 1 .. Len(q) : r[i] = q[i]
  /\ \A k \in 1 .. Len(f) : r[Len(q) + k] = [socket |-> s, frame |-> f[k]]

LEMMA OnGrows ==
  ASSUME NEW q \in Seq(Transmission), NEW s \in Sockets, NEW f \in Seq(Frames)
  PROVE  Grown(q \o On(s, f), q, s, f)
<1> DEFINE o == On(s, f)
<1>1. Len(f) \in Nat
  BY LenProperties
<1>2. o = [i \in 1 .. Len(f) |-> [socket |-> s, frame |-> f[i]]]
  BY DEF On
<1>3. \A i \in 1 .. Len(f) : f[i] \in Frames
  BY ElementOfSeq
<1>4. o \in [1 .. Len(f) -> Transmission]
  BY <1>2, <1>3 DEF Transmission
<1>5. o \in Seq(Transmission) /\ Len(o) = Len(f)
  BY <1>1, <1>4, LenProperties
<1>6. \A k \in 1 .. Len(o) : o[k] = [socket |-> s, frame |-> f[k]]
  BY <1>2, <1>5
<1>7. Len(q) \in Nat
  BY LenProperties
<1> HIDE DEF o
<1>8. /\ q \o o \in Seq(Transmission) /\ Len(q \o o) = Len(q) + Len(o)
      /\ \A n \in 1 .. Len(q) + Len(o) :
           (q \o o)[n] = IF n <= Len(q) THEN q[n] ELSE o[n - Len(q)]
  BY <1>5, ConcatProperties
<1> DEFINE r == q \o o
<1> HIDE DEF r
<1>9. /\ r \in Seq(Transmission) /\ Len(r) = Len(q) + Len(f)
      /\ \A n \in 1 .. Len(q) + Len(f) : r[n] = IF n <= Len(q) THEN q[n] ELSE o[n - Len(q)]
  BY <1>5, <1>8 DEF r
<1>10. \A n \in 1 .. Len(q) : r[n] = q[n]
  BY <1>1, <1>7, <1>9
<1>11. \A k \in 1 .. Len(f) : r[Len(q) + k] = [socket |-> s, frame |-> f[k]]
  <2> TAKE k \in 1 .. Len(f)
  <2>1. Len(q) + k \in 1 .. Len(q) + Len(f) /\ ~ (Len(q) + k <= Len(q)) /\ Len(q) + k - Len(q) = k
    BY <1>1, <1>7
  <2>2. r[Len(q) + k] = o[Len(q) + k - Len(q)]
    BY <1>9, <2>1
  <2> QED
    BY <1>5, <1>6, <2>1, <2>2
<1>12. Grown(r, q, s, f)
  BY <1>9, <1>10, <1>11 DEF Grown
<1> QED
  BY <1>12 DEF o, r

(* Sending frames that are in order and newer than what was sent, on a     *)
(* connection that is announced or by these frames.                        *)
LEMMA SendEffect ==
  ASSUME FrameTypes, AnnouncedFirst, SentInOrder,
         NEW s \in Sockets, NEW f \in Seq(Frames), Ordered(f),
         \A i \in 1 .. Len(sent) : \A k \in 1 .. Len(f) :
           f[k] # Announce => sent[i].frame < f[k],
         AnnouncedOn(s) \/ (f # <<>> /\ f[1] = Announce),
         sent' = sent \o On(s, f)
  PROVE  /\ sent' \in Seq(Transmission)
         /\ \A i \in 1 .. Len(sent') :
              \/ i \in 1 .. Len(sent) /\ sent'[i] = sent[i]
              \/ \E k \in 1 .. Len(f) : sent'[i].frame = f[k]
         /\ AnnouncedFirst'
         /\ SentInOrder'
         /\ AnnouncedOn(s)'
         /\ \A x : Sent(x) \/ x \in Range(f) => Sent(x)'
<1> DEFINE m == Len(sent)
<1>0. Grown(sent', sent, s, f)
  <2>1. sent \in Seq(Transmission)
    BY DEF FrameTypes
  <2> QED
    BY <2>1, OnGrows
<1>1. Len(f) \in Nat /\ m \in Nat /\ DOMAIN f = 1 .. Len(f)
  BY LenProperties DEF FrameTypes
<1>7. /\ sent' \in Seq(Transmission)
      /\ Len(sent') = m + Len(f)
      /\ \A i \in 1 .. m : sent'[i] = sent[i]
      /\ \A k \in 1 .. Len(f) : sent'[m + k] = [socket |-> s, frame |-> f[k]]
      /\ \A i \in 1 .. m + Len(f) : \/ i \in 1 .. m
                                    \/ \E k \in 1 .. Len(f) : i = m + k
  <2>1. ASSUME NEW i \in 1 .. m + Len(f), i \notin 1 .. m
        PROVE  \E k \in 1 .. Len(f) : i = m + k
    <3>1. i - m \in 1 .. Len(f) /\ i = m + (i - m)
      BY <1>1, <2>1
    <3> QED
      BY <3>1
  <2> QED
    BY <1>0, <2>1 DEF Grown
<1> HIDE DEF m
<1>2. \A k \in 1 .. Len(f) : sent'[m + k].socket = s /\ sent'[m + k].frame = f[k]
  <2> TAKE k \in 1 .. Len(f)
  <2>1. sent'[m + k] = [socket |-> s, frame |-> f[k]]
    BY <1>7, Zenon
  <2> QED
    BY <2>1
<1>3. \A i \in 1 .. Len(sent') : \/ i \in 1 .. m /\ sent'[i] = sent[i]
                                 \/ \E k \in 1 .. Len(f) : i = m + k
  BY <1>7
<1>8. \A i \in 1 .. Len(sent') : \/ i \in 1 .. m /\ sent'[i] = sent[i]
                                 \/ \E k \in 1 .. Len(f) : sent'[i].frame = f[k]
  BY <1>2, <1>3
<1>9. PICK a \in 1 .. m + 1 : /\ a \in 1 .. Len(sent')
                              /\ sent'[a] = [socket |-> s, frame |-> Announce]
  <2>1. CASE AnnouncedOn(s)
    <3>1. PICK j \in 1 .. m : sent[j] = [socket |-> s, frame |-> Announce]
      BY <2>1 DEF AnnouncedOn, m
    <3>2. j \in 1 .. m + 1 /\ j \in 1 .. Len(sent')
      BY <1>1, <1>7 DEF m
    <3> QED
      BY <1>7, <3>1, <3>2
  <2>2. CASE f # <<>> /\ f[1] = Announce
    <3>1. 1 \in 1 .. Len(f) /\ m + 1 \in 1 .. m + 1 /\ m + 1 \in 1 .. Len(sent')
      BY <1>1, <1>7, <2>2, EmptySeq DEF m
    <3> QED
      BY <1>7, <2>2, <3>1
  <2> QED
    BY <2>1, <2>2
<1>10. AnnouncedFirst'
  <2> SUFFICES ASSUME NEW i \in 1 .. Len(sent')
               PROVE  \E j \in 1 .. i : sent'[j] = [socket |-> sent'[i].socket, frame |-> Announce]
    BY DEF AnnouncedFirst
  <2>1. CASE i \in 1 .. m
    <3>1. PICK j \in 1 .. i : sent[j] = [socket |-> sent[i].socket, frame |-> Announce]
      BY <2>1 DEF AnnouncedFirst, m
    <3>2. j \in 1 .. m
      BY <1>1, <2>1 DEF m
    <3> QED
      BY <1>7, <2>1, <3>1, <3>2
  <2>2. CASE \E k \in 1 .. Len(f) : i = m + k
    <3>1. sent'[i].socket = s
      BY <1>2, <2>2
    <3>2. a \in 1 .. i
      BY <1>1, <1>9, <2>2 DEF m
    <3> QED
      BY <1>9, <3>1, <3>2
  <2> QED
    BY <1>7, <2>1, <2>2
<1>11. SentInOrder'
  <2> SUFFICES ASSUME NEW i \in 1 .. Len(sent'), NEW j \in 1 .. Len(sent'),
                      i < j, sent'[j].frame # Announce
               PROVE  sent'[i].frame < sent'[j].frame
    BY DEF SentInOrder
  <2>1. CASE j \in 1 .. m
    <3>1. i \in 1 .. m
      BY <1>1, <2>1 DEF m
    <3> QED
      BY <1>7, <2>1, <3>1 DEF SentInOrder, m
  <2>2. ASSUME NEW k \in 1 .. Len(f), j = m + k PROVE sent'[i].frame < sent'[j].frame
    <3>1. sent'[j].frame = f[k] /\ f[k] # Announce
      BY <1>2, <2>2
    <3>2. CASE i \in 1 .. m
      BY <1>7, <3>1, <3>2 DEF m
    <3>3. ASSUME NEW l \in 1 .. Len(f), i = m + l PROVE sent'[i].frame < sent'[j].frame
      <4>1. sent'[i].frame = f[l] /\ l < k
        BY <1>1, <1>2, <2>2, <3>3 DEF m
      <4> QED
        BY <3>1, <4>1 DEF Ordered
    <3> QED
      BY <1>7, <3>2, <3>3
  <2> QED
    BY <1>7, <2>1, <2>2
<1>12. AnnouncedOn(s)'
  BY <1>9 DEF AnnouncedOn
<1>13. ASSUME NEW x, Sent(x) \/ x \in Range(f) PROVE Sent(x)'
  <2>1. CASE Sent(x)
    <3>1. PICK i \in 1 .. m : sent[i].frame = x
      BY <2>1 DEF Sent, m
    <3>2. i \in 1 .. Len(sent')
      BY <1>1, <1>7 DEF m
    <3> QED
      BY <1>7, <3>1, <3>2 DEF Sent
  <2>2. CASE x \in Range(f)
    <3>1. PICK k \in 1 .. Len(f) : f[k] = x
      BY <1>1, <2>2 DEF Range
    <3>2. m + k \in 1 .. Len(sent')
      BY <1>1, <1>7 DEF m
    <3>3. \E i \in 1 .. Len(sent') : sent'[i].frame = x
      BY <1>2, <3>1, <3>2
    <3> QED
      BY <3>3 DEF Sent
  <2> QED
    BY <1>13, <2>1, <2>2
<1> QED
  BY <1>7, <1>8, <1>10, <1>11, <1>12, <1>13 DEF m

-----------------------------------------------------------------------------
LEMMA ReporterStarts == Init => ReporterInv
<1> SUFFICES ASSUME Init PROVE ReporterInv
  OBVIOUS
<1>1. /\ ws = Null /\ queue = <<>> /\ sent = <<>> /\ exported = 0
  BY DEF Init
<1>2. Range(queue) = {} /\ Len(queue) = 0 /\ Len(sent) = 0 /\ 0 \in Frames
  BY <1>1 DEF Range, Frames
<1>3. FrameTypes
  BY <1>1, <1>2 DEF FrameTypes
<1>4. Drained /\ QueueInOrder /\ Identified
  BY <1>1, <1>2 DEF Drained, QueueInOrder, Identified, Connected, Ordered
<1>5. AnnouncedFirst /\ SentInOrder /\ OnlyOverflowLoses
  BY <1>1, <1>2 DEF AnnouncedFirst, SentInOrder, OnlyOverflowLoses
<1> QED
  BY <1>3, <1>4, <1>5, SocketsStart DEF ReporterInv

(* The steps that neither take nor send an event, and connect nothing.     *)
LEMMA IdleKeeps ==
  ASSUME ReporterInv, SocketInv', UNCHANGED <<queue, historyVars>>,
         Connected(ws', state') => ws' = ws /\ Connected(ws, state)
  PROVE  ReporterInv'
<1>1. FrameTypes' /\ AnnouncedFirst' /\ SentInOrder' /\ OnlyOverflowLoses'
  BY DEF ReporterInv, historyVars, FrameTypes, AnnouncedFirst, SentInOrder, OnlyOverflowLoses, Sent
<1>2. Drained' /\ QueueInOrder' /\ Identified'
  BY DEF ReporterInv, historyVars, Drained, QueueInOrder, Identified, AnnouncedOn
<1> QED
  BY <1>1, <1>2 DEF ReporterInv

(* A step that sends the frames f on ws and enqueues the frames b, which   *)
(* cannot be sent, behind a.                                               *)
LEMMA SendingKeeps ==
  ASSUME ReporterInv, SocketInv', ws' = ws, Connected(ws, state'),
         NEW f \in Seq(Frames), NEW a \in Seq(Frames), NEW b \in Seq(Frames),
         Ordered(f), Ordered(a \o b),
         \A i \in 1 .. Len(sent) : \A x \in Range(f) : x # Announce => sent[i].frame < x,
         AnnouncedOn(ws) \/ (f # <<>> /\ f[1] = Announce),
         sent' = sent \o On(ws, f),
         Enqueue(a, b),
         Range(a) \cup Range(b) \subseteq Unserializable,
         exported' \in Frames, exported <= exported',
         \A x \in Range(f) \cup Range(a) \cup Range(b) : x <= exported',
         \A n \in 1 .. exported' :
           Sent(n) \/ n \in overflowed \/ n \in Range(f) \cup Range(a) \cup Range(b)
  PROVE  ReporterInv'
<1>1. /\ ws \in Sockets /\ exported \in Nat /\ exported' \in Nat
      /\ FrameTypes /\ AnnouncedFirst /\ SentInOrder
  BY FramesAreNumbers DEF ReporterInv, SocketInv, SocketTypes, Connected, FrameTypes
<1>2. DOMAIN f = 1 .. Len(f)
  BY LenProperties
<1>3. \A i \in 1 .. Len(sent) : \A k \in 1 .. Len(f) : f[k] # Announce => sent[i].frame < f[k]
  <2>1. \A k \in 1 .. Len(f) : f[k] \in Range(f)
    BY <1>2 DEF Range
  <2> QED
    BY <2>1, Zenon
<1>4. /\ sent' \in Seq(Transmission)
      /\ \A i \in 1 .. Len(sent') :
           \/ i \in 1 .. Len(sent) /\ sent'[i] = sent[i]
           \/ \E k \in 1 .. Len(f) : sent'[i].frame = f[k]
      /\ AnnouncedFirst' /\ SentInOrder' /\ AnnouncedOn(ws)'
      /\ \A x : Sent(x) \/ x \in Range(f) => Sent(x)'
  BY <1>1, <1>3, SendEffect
<1>5. /\ queue' \in Seq(Frames)
      /\ Range(queue') \subseteq Range(a) \cup Range(b)
      /\ Ordered(queue')
      /\ \A x \in Range(a) \cup Range(b) : x \in Range(queue') \/ x \in overflowed'
      /\ overflowed \subseteq overflowed'
  BY EnqueueEffect
<1>6. Drained' /\ QueueInOrder' /\ Identified'
  BY <1>4, <1>5 DEF Drained, QueueInOrder, Ordered, Identified
<1>7. \A i \in 1 .. Len(sent') : sent'[i].frame <= exported'
  <2> TAKE i \in 1 .. Len(sent')
  <2>1. CASE i \in 1 .. Len(sent) /\ sent'[i] = sent[i]
    <3>1. sent[i] \in Transmission /\ sent[i].frame <= exported
      BY <1>1, <2>1, ElementOfSeq DEF FrameTypes
    <3>2. sent[i].frame \in Nat
      BY <3>1, FramesAreNumbers DEF Transmission
    <3> QED
      BY <1>1, <2>1, <3>1, <3>2
  <2>2. CASE \E k \in 1 .. Len(f) : sent'[i].frame = f[k]
    BY <1>2, <2>2 DEF Range
  <2> QED
    BY <1>4, <2>1, <2>2
<1>8. FrameTypes'
  BY <1>4, <1>5, <1>7 DEF FrameTypes
<1>9. OnlyOverflowLoses'
  BY <1>4, <1>5 DEF OnlyOverflowLoses
<1> QED
  BY <1>4, <1>6, <1>8, <1>9 DEF ReporterInv

(* A step that sends nothing and enqueues frames newer than all that was   *)
(* exported, or the announce frame, while nothing is connected.            *)
LEMMA WaitingKeeps ==
  ASSUME ReporterInv, SocketInv', ~ Connected(ws', state'),
         NEW b \in Seq(Frames), Ordered(b), sent' = sent, Enqueue(queue, b),
         exported' \in Frames, exported <= exported',
         \A x \in Range(b) : x <= exported' /\ (x # Announce => x > exported),
         \A n \in exported + 1 .. exported' : n \in Range(b)
  PROVE  ReporterInv'
<1>1. /\ exported \in Nat /\ exported' \in Nat /\ queue \in Seq(Frames)
      /\ Ordered(queue) /\ sent \in Seq(Transmission)
  BY FramesAreNumbers DEF ReporterInv, FrameTypes, QueueInOrder
<1>2. DOMAIN queue = 1 .. Len(queue) /\ DOMAIN b = 1 .. Len(b)
  BY <1>1, LenProperties
<1>3. \A x \in Range(queue) \cup Range(b) : x \in Nat
  BY <1>1, RangeOfSeq, FramesAreNumbers
<1>4. Ordered(queue \o b)
  <2>1. \A i \in 1 .. Len(queue) : \A j \in 1 .. Len(b) : b[j] # Announce => queue[i] < b[j]
    <3> TAKE i \in 1 .. Len(queue)
    <3> TAKE j \in 1 .. Len(b)
    <3> HAVE b[j] # Announce
    <3>1. queue[i] \in Range(queue) /\ b[j] \in Range(b)
      BY <1>2 DEF Range
    <3>2. queue[i] <= exported /\ b[j] > exported /\ queue[i] \in Nat /\ b[j] \in Nat
      BY <1>3, <3>1 DEF ReporterInv, FrameTypes
    <3> QED
      BY <1>1, <3>2
  <2> QED
    BY <1>1, <2>1, OrderedConcat
<1>5. /\ queue' \in Seq(Frames)
      /\ Range(queue') \subseteq Range(queue) \cup Range(b)
      /\ Ordered(queue')
      /\ \A x \in Range(queue) \cup Range(b) : x \in Range(queue') \/ x \in overflowed'
      /\ overflowed \subseteq overflowed'
  BY <1>1, <1>4, EnqueueEffect
<1>6. \A i \in 1 .. Len(sent) : sent[i].frame <= exported /\ sent[i].frame \in Nat
  <2> TAKE i \in 1 .. Len(sent)
  <2>1. sent[i] \in Transmission
    BY <1>1, ElementOfSeq
  <2> QED
    BY <2>1, FramesAreNumbers DEF Transmission, ReporterInv, FrameTypes
<1>7. QueueInOrder'
  <2>1. ASSUME NEW i \in 1 .. Len(sent), NEW x \in Range(queue') \ Unserializable, x # Announce
        PROVE  sent[i].frame < x
    <3>1. CASE x \in Range(queue)
      BY <2>1, <3>1 DEF ReporterInv, QueueInOrder
    <3>2. CASE x \in Range(b)
      BY <1>1, <1>3, <1>6, <2>1, <3>2
    <3> QED
      BY <1>5, <3>1, <3>2
  <2> QED
    BY <1>5, <2>1 DEF QueueInOrder, Ordered
<1>8. FrameTypes'
  <2>1. \A x \in Range(queue') : x <= exported'
    <3> TAKE x \in Range(queue')
    <3>1. CASE x \in Range(queue)
      <4>1. x <= exported
        BY <3>1 DEF ReporterInv, FrameTypes
      <4> QED
        BY <1>1, <1>3, <3>1, <4>1
    <3> QED
      BY <1>5, <3>1
  <2>2. \A i \in 1 .. Len(sent') : sent'[i].frame <= exported'
    BY <1>1, <1>6
  <2> QED
    BY <1>1, <1>5, <2>1, <2>2 DEF FrameTypes
<1>9. OnlyOverflowLoses'
  <2>1. \A x : Sent(x)' <=> Sent(x)
    BY DEF Sent
  <2>2. \A n \in 1 .. exported' : n \in 1 .. exported \/ n \in exported + 1 .. exported'
    BY <1>1
  <2> QED
    BY <1>5, <2>1, <2>2 DEF ReporterInv, OnlyOverflowLoses
<1>10. AnnouncedFirst' /\ SentInOrder' /\ Drained' /\ Identified'
  BY DEF ReporterInv, AnnouncedFirst, SentInOrder, Drained, Identified
<1> QED
  BY <1>7, <1>8, <1>9, <1>10 DEF ReporterInv

LEMMA OnNothing ==
  ASSUME NEW q \in Seq(Transmission), NEW s
  PROVE  q \o On(s, <<>>) = q
<1>1. On(s, <<>>) = <<>>
  BY DEF On
<1> QED
  BY <1>1, ConcatEmptySeq

-----------------------------------------------------------------------------
(* The events of one export are new, and in order.                         *)
Batch(m, n) == [i \in 1 .. n |-> m + i]

LEMMA BatchIsNew ==
  ASSUME NEW m \in Nat, NEW n \in 1 .. 2, m + n \in Frames
  PROVE  /\ Batch(m, n) \in Seq(Frames)
         /\ Ordered(Batch(m, n))
         /\ \A x \in Range(Batch(m, n)) : x \in Nat /\ m < x /\ x <= m + n
         /\ \A x \in m + 1 .. m + n : x \in Range(Batch(m, n))
<1> DEFINE b == Batch(m, n)
<1>1. b = [i \in 1 .. n |-> m + i]
  BY DEF Batch
<1>2. \A i \in 1 .. n : m + i \in Frames
  BY DEF Frames
<1>3. b \in [1 .. n -> Frames] /\ DOMAIN b = 1 .. n /\ \A i \in 1 .. n : b[i] = m + i
  BY <1>1, <1>2
<1> HIDE DEF b
<1>4. b \in Seq(Frames) /\ Len(b) = n
  BY <1>3, LenProperties
<1>5. Ordered(b)
  BY <1>3, <1>4 DEF Ordered
<1>6. \A x \in Range(b) : x \in Nat /\ m < x /\ x <= m + n
  BY <1>3 DEF Range
<1>7. \A x \in m + 1 .. m + n : x \in Range(b)
  <2> TAKE x \in m + 1 .. m + n
  <2>1. x - m \in 1 .. n /\ b[x - m] = x
    BY <1>3
  <2> QED
    BY <1>3, <2>1 DEF Range
<1> QED
  BY <1>4, <1>5, <1>6, <1>7 DEF b

LEMMA ExportKeeps ==
  ASSUME ReporterInv, SocketInv', Export
  PROVE  ReporterInv'
<1>1. PICK n \in 1 .. 2 : /\ exported + n <= MaxEvents
                          /\ exported' = exported + n
                          /\ ExportBatch(Batch(exported, n))
  BY DEF Export, Batch
<1>2. /\ exported \in Nat /\ exported' \in Frames /\ exported <= exported'
      /\ queue \in Seq(Frames)
  BY <1>1, FramesAreNumbers DEF ReporterInv, FrameTypes, Frames
<1> DEFINE b == Batch(exported, n)
<1>3. /\ b \in Seq(Frames) /\ Ordered(b)
      /\ \A x \in Range(b) : x \in Nat /\ exported < x /\ x <= exported'
      /\ \A x \in exported + 1 .. exported' : x \in Range(b)
  BY <1>1, <1>2, BatchIsNew
<1>4. /\ ~ closed /\ Ensure
      /\ IF WsIs(state, "open") THEN RawSend(state, queue, b)
                                ELSE Enqueue(queue, b) /\ UNCHANGED sent
  BY <1>1 DEF ExportBatch
<1> HIDE DEF b
<1>5. CASE WsIs(state, "open")
  <2>1. ws' = ws /\ state' = state /\ Connected(ws, state)
    BY <1>4, <1>5, EnsureEffect DEF ReporterInv, WsIs, Usable, Connected
  <2> DEFINE f == Serializable(b)
             p == Poison(b)
  <2>2. sent' = sent \o On(ws, f) /\ Enqueue(queue, p)
    BY <1>4, <1>5 DEF RawSend, WsIs
  <2>3. /\ f \in Seq(Frames) /\ Ordered(f) /\ Range(f) = Range(b) \cap (Frames \ Unserializable)
        /\ p \in Seq(Frames) /\ Ordered(p) /\ Range(p) = Range(b) \cap Unserializable
    BY <1>3, OnlyPlaces, OrderedOnly, RangeOnly DEF Serializable, Poison
  <2>4. Range(b) \subseteq Frames
    BY <1>3, RangeOfSeq
  <2> HIDE DEF f, p
  <2>5. \A x \in Range(queue) : x \in Nat /\ x <= exported
    BY <1>2, RangeOfSeq, FramesAreNumbers DEF ReporterInv, FrameTypes
  <2>6. Ordered(queue \o p)
    <3>1. \A i \in 1 .. Len(queue) : queue[i] \in Range(queue)
      BY <1>2, LenProperties DEF Range
    <3>2. \A j \in 1 .. Len(p) : p[j] \in Range(p)
      BY <2>3, LenProperties DEF Range
    <3>3. \A i \in 1 .. Len(queue) : \A j \in 1 .. Len(p) : queue[i] < p[j]
      <4> TAKE i \in 1 .. Len(queue)
      <4> TAKE j \in 1 .. Len(p)
      <4>1. /\ queue[i] \in Nat /\ queue[i] <= exported
            /\ p[j] \in Nat /\ exported < p[j]
        BY <1>3, <2>3, <2>5, <3>1, <3>2
      <4> QED
        BY <1>2, <4>1
    <3>4. Ordered(queue)
      BY DEF ReporterInv, QueueInOrder
    <3> QED
      BY <1>2, <2>3, <3>3, <3>4, OrderedConcat
  <2>7. \A i \in 1 .. Len(sent) : \A x \in Range(f) : x # Announce => sent[i].frame < x
    <3> TAKE i \in 1 .. Len(sent)
    <3>1. sent[i] \in Transmission /\ sent[i].frame <= exported
      BY ElementOfSeq DEF ReporterInv, FrameTypes
    <3>2. sent[i].frame \in Nat
      BY <3>1, FramesAreNumbers DEF Transmission
    <3> QED
      BY <1>2, <1>3, <2>3, <3>1, <3>2
  <2>8. AnnouncedOn(ws) /\ Range(queue) \cup Range(p) \subseteq Unserializable
    BY <2>1, <2>3 DEF ReporterInv, Identified, Drained
  <2>9. \A x \in Range(f) \cup Range(queue) \cup Range(p) : x <= exported'
    BY <1>1, <1>2, <1>3, <2>3, <2>5
  <2>10. \A k \in 1 .. exported' :
           Sent(k) \/ k \in overflowed \/ k \in Range(f) \cup Range(queue) \cup Range(p)
    <3> TAKE k \in 1 .. exported'
    <3>1. CASE k \in 1 .. exported
      BY <3>1 DEF ReporterInv, OnlyOverflowLoses
    <3>2. CASE k \in exported + 1 .. exported'
      BY <1>3, <2>3, <2>4, <3>2
    <3> QED
      BY <1>1, <1>2, <3>1, <3>2
  <2> QED
    BY <1>2, <2>1, <2>2, <2>3, <2>6, <2>7, <2>8, <2>9, <2>10, SendingKeeps
<1>6. CASE ~ WsIs(state, "open")
  <2>1. ~ Connected(ws', state')
    <3>1. SocketTypes
      BY DEF ReporterInv, SocketInv
    <3>2. ws' \in Sockets /\ state' = [state EXCEPT ![ws'] = "connecting"]
            => state'[ws'] = "connecting"
      BY <3>1 DEF SocketTypes
    <3> QED
      BY <1>4, <1>6, <3>2, EnsureEffect DEF ReporterInv, WsIs, Usable, Connected
  <2>2. Enqueue(queue, b) /\ sent' = sent
    BY <1>4, <1>6
  <2>3. \A x \in Range(b) : x <= exported' /\ (x # Announce => x > exported)
    BY <1>2, <1>3
  <2> QED
    BY <1>2, <1>3, <2>1, <2>2, <2>3, WaitingKeeps
<1> QED
  BY <1>5, <1>6

(* The announce frame before what waits. *)
LEMMA AnnouncedQueue ==
  ASSUME NEW q \in Seq(Frames), Ordered(q)
  PROVE  /\ <<Announce>> \o q \in Seq(Frames)
         /\ Ordered(<<Announce>> \o q)
         /\ Range(<<Announce>> \o q) = {Announce} \cup Range(q)
         /\ <<Announce>> \o q # <<>>
         /\ (<<Announce>> \o q)[1] = Announce
<1> DEFINE a == <<Announce>>
<1>1. /\ a \in Seq(Frames) /\ Len(a) = 1 /\ Range(a) = {Announce}
      /\ \A i \in 1 .. Len(a) : a[i] = Announce
  BY FramesAreNumbers DEF Range
<1> HIDE DEF a
<1>2. /\ Ordered(a)
      /\ \A i \in 1 .. Len(a) : \A j \in 1 .. Len(q) : q[j] # Announce => a[i] < q[j]
  <2>1. Ordered(a)
    BY <1>1 DEF Ordered
  <2>2. \A j \in 1 .. Len(q) : q[j] \in Nat
    BY ElementOfSeq, FramesAreNumbers
  <2> QED
    BY <1>1, <2>1, <2>2 DEF Announce
<1>3. Ordered(a \o q)
  BY <1>1, <1>2, OrderedConcat
<1>4. Range(a \o q) = {Announce} \cup Range(q)
  BY <1>1, RangeConcatenation
<1>5. a \o q \in Seq(Frames) /\ Len(a \o q) = Len(a) + Len(q) /\ (a \o q)[1] = Announce
  <2>1. a \in Seq(Frames)
    BY <1>1
  <2>2. /\ a \o q \in Seq(Frames) /\ Len(a \o q) = Len(a) + Len(q)
        /\ \A n \in 1 .. Len(a) : (a \o q)[n] = a[n]
    BY <2>1, ConcatPlaces
  <2>3. 1 \in 1 .. Len(a) /\ a[1] = Announce
    BY <1>1
  <2> QED
    BY <2>2, <2>3, Zenon
<1>6. a \o q # <<>>
  <2>1. Len(q) \in Nat
    BY LenProperties
  <2> QED
    BY <1>1, <1>5, <2>1, EmptySeq
<1> QED
  BY <1>3, <1>4, <1>5, <1>6 DEF a

LEMMA OpenKeeps ==
  ASSUME ReporterInv, SocketInv', NEW s \in Sockets, Open(s)
  PROVE  ReporterInv'
<1>1. /\ state[s] = "connecting" /\ state' = [state EXCEPT ![s] = "open"]
      /\ ws' = ws /\ exported' = exported /\ Drain(state')
  BY DEF Open
<1>2. \A t \in Sockets : state'[t] = IF t = s THEN "open" ELSE state[t]
  BY <1>1 DEF ReporterInv, SocketInv, SocketTypes
<1>3. /\ ws # Null => ws \in Sockets
      /\ queue \in Seq(Frames) /\ Ordered(queue)
      /\ exported \in Frames /\ exported \in Nat
      /\ sent \in Seq(Transmission)
  BY FramesAreNumbers
  DEF ReporterInv, SocketInv, SocketTypes, FrameTypes, QueueInOrder
<1> DEFINE b == <<Announce>> \o queue
<1>4. /\ b \in Seq(Frames) /\ Ordered(b) /\ Range(b) = {Announce} \cup Range(queue)
      /\ b # <<>> /\ b[1] = Announce
  BY <1>3, AnnouncedQueue
<1>5. IF WsIs(state', "open") \/ WsIs(state', "closing")
        THEN RawSend(state', <<>>, b) ELSE RawSend(state', queue, <<Announce>>)
  BY <1>1 DEF Drain
<1> HIDE DEF b
<1> DEFINE f == Serializable(b)
           p == Poison(b)
<1>6. /\ f \in Seq(Frames) /\ Ordered(f) /\ Range(f) = Range(b) \cap (Frames \ Unserializable)
      /\ f # <<>> /\ f[1] = Announce
      /\ p \in Seq(Frames) /\ Ordered(p) /\ Range(p) = Range(b) \cap Unserializable
  BY <1>4, OnlyPlaces, OrderedOnly, RangeOnly, OnlyFirst, FramesAreNumbers
  DEF Serializable, Poison
<1>7. Range(b) \subseteq Frames /\ \A x \in Range(b) : x <= exported
  <2>1. Range(b) \subseteq Frames
    BY <1>4, RangeOfSeq
  <2>2. \A x \in Range(queue) : x <= exported
    BY DEF ReporterInv, FrameTypes
  <2> QED
    BY <1>3, <1>4, <2>1, <2>2 DEF Announce
<1>8. <<>> \in Seq(Frames) /\ Range(<<>>) = {} /\ <<>> \o p = p /\ Ordered(<<>>)
  <2>1. <<>> \o p = p
    BY <1>6, ConcatEmptySeq
  <2> QED
    BY <2>1 DEF Range, Ordered
<1>9. \A n \in 1 .. exported :
        Sent(n) \/ n \in overflowed \/ n \in Range(b)
  BY <1>4 DEF ReporterInv, OnlyOverflowLoses
<1>10. CASE WsIs(state', "open")
  <2>1. sent' = sent \o On(ws, f) /\ Enqueue(<<>>, p)
    BY <1>5, <1>10 DEF RawSend, WsIs
  <2>2. Connected(ws, state')
    BY <1>10 DEF WsIs, Connected
  <2> HIDE DEF f, p
  <2>3. \A i \in 1 .. Len(sent) : \A x \in Range(f) : x # Announce => sent[i].frame < x
    <3>1. \A i \in 1 .. Len(sent) : \A x \in Range(queue) \ Unserializable :
            x # Announce => sent[i].frame < x
      BY DEF ReporterInv, QueueInOrder
    <3>2. \A x \in Range(f) : x # Announce => x \in Range(queue) \ Unserializable
      BY <1>4, <1>6
    <3> QED
      BY <3>1, <3>2
  <2>4. Range(<<>>) \cup Range(p) \subseteq Unserializable
    BY <1>6, <1>8
  <2>5. \A x \in Range(f) \cup Range(<<>>) \cup Range(p) : x <= exported'
    BY <1>1, <1>6, <1>7, <1>8
  <2>6. \A n \in 1 .. exported' :
          Sent(n) \/ n \in overflowed \/ n \in Range(f) \cup Range(<<>>) \cup Range(p)
    BY <1>1, <1>6, <1>7, <1>9
  <2>7. Ordered(<<>> \o p) /\ exported <= exported' /\ exported' \in Frames
    BY <1>1, <1>3, <1>6, <1>8
  <2> QED
    BY <1>1, <1>6, <1>8, <2>1, <2>2, <2>3, <2>4, <2>5, <2>6, <2>7, SendingKeeps
<1>11. CASE WsIs(state', "closing")
  <2>1. sent' = sent /\ Enqueue(<<>>, p)
    BY <1>5, <1>11 DEF RawSend, WsIs
  <2>2. Connected(ws, state) /\ Connected(ws, state')
    BY <1>2, <1>3, <1>11 DEF WsIs, Connected
  <2>3. Range(queue) \subseteq Unserializable /\ AnnouncedOn(ws)
    BY <2>2 DEF ReporterInv, Drained, Identified
  <2>4. sent' = sent \o On(ws, <<>>)
    BY <1>3, <2>1, OnNothing
  <2> HIDE DEF f, p
  <2>5. \A i \in 1 .. Len(sent) : \A x \in Range(<<>>) : x # Announce => sent[i].frame < x
    BY <1>8
  <2>6. Range(<<>>) \cup Range(p) \subseteq Unserializable
    BY <1>6, <1>8
  <2>7. \A x \in Range(<<>>) \cup Range(<<>>) \cup Range(p) : x <= exported'
    BY <1>1, <1>6, <1>7, <1>8
  <2>8. \A n \in 1 .. exported' :
          Sent(n) \/ n \in overflowed \/ n \in Range(<<>>) \cup Range(<<>>) \cup Range(p)
    <3> TAKE n \in 1 .. exported'
    <3>1. n # Announce
      BY <1>1, <1>3 DEF Announce
    <3> QED
      BY <1>1, <1>4, <1>6, <1>9, <2>3, <3>1
  <2>9. Ordered(<<>> \o p) /\ exported <= exported' /\ exported' \in Frames
    BY <1>1, <1>3, <1>6, <1>8
  <2> QED
    BY <1>1, <1>6, <1>8, <2>2, <2>3, <2>4, <2>1, <2>5, <2>6, <2>7, <2>8, <2>9, SendingKeeps
<1>12. CASE ~ WsIs(state', "open") /\ ~ WsIs(state', "closing")
  <2>1. ~ Connected(ws', state')
    BY <1>1, <1>12 DEF WsIs, Connected
  <2>2. Enqueue(queue, <<Announce>>) /\ sent' = sent
    BY <1>5, <1>12 DEF RawSend
  <2>3. /\ <<Announce>> \in Seq(Frames) /\ Ordered(<<Announce>>)
        /\ Range(<<Announce>>) = {Announce}
    BY FramesAreNumbers DEF Range, Ordered
  <2>4. /\ exported' \in Frames /\ exported <= exported'
        /\ \A x \in Range(<<Announce>>) : x <= exported' /\ (x # Announce => x > exported)
        /\ \A n \in exported + 1 .. exported' : n \in Range(<<Announce>>)
    BY <1>1, <1>3, <2>3 DEF Announce
  <2> QED
    BY <2>1, <2>2, <2>3, <2>4, WaitingKeeps
<1> QED
  BY <1>10, <1>11, <1>12

LEMMA ReporterStep == ReporterInv /\ [Next]_vars => ReporterInv'
<1> SUFFICES ASSUME ReporterInv, [Next]_vars PROVE ReporterInv'
  OBVIOUS
<1>1. SocketInv' /\ SocketTypes
  BY SocketStep DEF ReporterInv, SocketInv
<1>2. CASE Export
  BY <1>1, <1>2, ExportKeeps
<1>3. CASE Timer
  <2>1. Ensure /\ UNCHANGED <<queue, historyVars>>
    BY <1>3 DEF Timer
  <2>2. Connected(ws', state') => ws' = ws /\ Connected(ws, state)
    <3>1. ws' \in Sockets /\ state' = [state EXCEPT ![ws'] = "connecting"]
            => state'[ws'] = "connecting"
      BY <1>1 DEF SocketTypes
    <3> QED
      BY <2>1, <3>1, EnsureEffect DEF ReporterInv, Connected
  <2> QED
    BY <1>1, <2>1, <2>2, IdleKeeps
<1>4. CASE Close
  BY <1>1, <1>4, IdleKeeps DEF Close, Connected
<1>5. CASE UNCHANGED vars
  BY <1>1, <1>5, IdleKeeps DEF vars, reporterVars
<1>6. ASSUME NEW s \in Sockets, Open(s) PROVE ReporterInv'
  BY <1>1, <1>6, OpenKeeps
<1>7. ASSUME NEW s \in Sockets, Fail(s) \/ Closed(s) PROVE ReporterInv'
  BY <1>1, <1>7, IdleKeeps DEF Fail, Closed, OnClose, Connected
<1>8. ASSUME NEW s \in Sockets, PeerCloses(s) PROVE ReporterInv'
  <2>1. /\ state[s] = "open" /\ state' = [state EXCEPT ![s] = "closing"]
        /\ ws' = ws /\ UNCHANGED <<queue, historyVars>>
    BY <1>8 DEF PeerCloses, reporterVars
  <2>2. Connected(ws', state') => Connected(ws, state)
    BY <1>1, <2>1 DEF Connected, SocketTypes
  <2> QED
    BY <1>1, <2>1, <2>2, IdleKeeps
<1> QED
  BY <1>2, <1>3, <1>4, <1>5, <1>6, <1>7, <1>8 DEF Next, Network

LEMMA Reporter == Spec => []ReporterInv
  BY ReporterStarts, ReporterStep, PTL DEF Spec

(* The first frame of every connection is the announce frame               *)
(* (reporters.ts, onopen), also when a new socket opens while an older one *)
(* is still closing and the handlers of either act on the shared ws.       *)
THEOREM Announcements == Spec => []AnnouncedFirst
<1>1. ReporterInv => AnnouncedFirst
  BY DEF ReporterInv
<1> QED
  BY <1>1, Reporter, PTL

(* Over all connections, the events are sent in the order export() was     *)
(* given them and none is sent twice: what the queue keeps is newer than   *)
(* all that went out, but for what cannot be serialized.                   *)
THEOREM Order == Spec => []SentInOrder
<1>1. ReporterInv => SentInOrder
  BY DEF ReporterInv
<1> QED
  BY <1>1, Reporter, PTL

(* An event export() was given is sent, waits in the queue, or was pushed  *)
(* out of a full queue: rawSend() gives none to a socket that would        *)
(* discard it.                                                             *)
THEOREM Losses == Spec => []OnlyOverflowLoses
<1>1. ReporterInv => OnlyOverflowLoses
  BY DEF ReporterInv
<1> QED
  BY <1>1, Reporter, PTL

(* ensure() can always make a socket: the reporter replaces one at most    *)
(* twice for a closing handshake and once for a failure, so the model      *)
(* never runs out of the sockets it has.                                   *)
SocketLeft == ~ closed /\ ~ Usable(ws) => \E s \in Sockets : state[s] = "unmade"

THEOREM SocketsSuffice == Spec => []SocketLeft
<1>1. ReporterInv => SocketLeft
  BY OneLeft DEF ReporterInv, SocketLeft
<1> QED
  BY <1>1, Reporter, PTL
=============================================================================
