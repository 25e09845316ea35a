--------------------------- MODULE GuiServerProofs ---------------------------
(***************************************************************************)
(* For any connections and sources, the hub counts the connections of each *)
(* source exactly, so that a source stays on the viewers' screens until    *)
(* the last of its connections closes, however reconnects overlap.         *)
(***************************************************************************)
EXTENDS GuiServer, BoundedProofs, FiniteSetTheorems

Types == /\ role \in [Conns -> {"new", "open", "closed", "viewer"}]
         /\ announced \in [Conns -> SUBSET Sources]
         /\ chips \in [Conns -> SUBSET Sources]
         /\ browsers \subseteq Conns

(* A connection announces after its upgrade, and one source.               *)
OneSource == \A c \in Conns : /\ role[c] = "new" => announced[c] = {}
                              /\ \A s, t \in announced[c] : s = t

(* The table of counts is the number of open connections of each source.   *)
Counted == /\ DOMAIN sourceRefs = {s \in Sources : Announcers(s) # {}}
           /\ \A s \in DOMAIN sourceRefs : sourceRefs[s] = Cardinality(Announcers(s))

(* Sources are listed while they are counted, and viewers know the list.   *)
Listed == /\ DOMAIN sources = DOMAIN sourceRefs
          /\ \A b \in browsers : chips[b] = DOMAIN sources

HubInv == Types /\ OneSource /\ Counted /\ Listed

USE ConnsAssumption

LEMMA AnnouncersFinite == \A s : IsFiniteSet(Announcers(s))
<1> TAKE s
<1>1. Announcers(s) \subseteq Conns
  BY DEF Announcers
<1> QED
  BY <1>1, FS_Subset

LEMMA HubStarts == Init => HubInv
<1> SUFFICES ASSUME Init PROVE HubInv
  OBVIOUS
<1>1. \A s : Announcers(s) = {}
  BY DEF Init, Announcers
<1> QED
  BY <1>1 DEF Init, HubInv, Types, OneSource, Counted, Listed, Nothing

(* Announce is the only step that adds to the connections of a source.     *)
LEMMA AnnounceKeeps == ASSUME HubInv, NEW c \in Conns, NEW s \in Sources, Announce(c, s)
                       PROVE  HubInv'
<1>1. /\ role[c] = "open" /\ role' = role /\ browsers' = browsers
      /\ announced[c] \subseteq {s}
      /\ DOMAIN sources' = DOMAIN sources \cup {s}
      /\ chips' = [b \in Conns |-> IF b \in browsers THEN chips[b] \cup {s} ELSE chips[b]]
  BY DEF Announce, With
<1>2. CASE s \in announced[c]
  <2>1. UNCHANGED <<announced, sourceRefs>>
    BY <1>2 DEF Announce, Join
  <2>2. \A t : Announcers(t)' = Announcers(t)
    BY <1>1, <2>1 DEF Announcers
  <2>3. c \in Announcers(s)
    BY <1>1, <1>2 DEF Announcers
  <2>4. s \in DOMAIN sources
    BY <2>3 DEF HubInv, Counted, Listed
  <2>5. Types' /\ OneSource'
    BY <1>1, <2>1 DEF HubInv, Types, OneSource
  <2>6. Counted'
    BY <2>1, <2>2 DEF HubInv, Counted
  <2>7. Listed'
    BY <1>1, <2>1, <2>4 DEF HubInv, Listed, Types
  <2> QED
    BY <2>5, <2>6, <2>7 DEF HubInv
<1>3. CASE s \notin announced[c]
  <2>1. /\ announced' = [announced EXCEPT ![c] = {s}]
        /\ DOMAIN sourceRefs' = DOMAIN sourceRefs \cup {s}
        /\ sourceRefs'[s] = Refs(s) + 1
        /\ \A t \in DOMAIN sourceRefs \ {s} : sourceRefs'[t] = sourceRefs[t]
    <3>1. announced[c] = {}
      BY <1>1, <1>3
    <3>2. announced' = [announced EXCEPT ![c] = {s}]
      BY <1>3, <3>1 DEF Announce, Join, HubInv, Types
    <3>3. sourceRefs' = With(sourceRefs, s, Refs(s) + 1)
      BY <1>3 DEF Announce, Join
    <3> QED
      BY <3>2, <3>3 DEF With
  <2>2. Announcers(s)' = Announcers(s) \cup {c} /\ c \notin Announcers(s)
    BY <1>1, <1>3, <2>1 DEF Announcers, HubInv, Types
  <2>3. \A t \in Sources \ {s} : Announcers(t)' = Announcers(t)
    BY <1>1, <1>3, <2>1 DEF Announcers, HubInv, Types
  <2>4. Cardinality(Announcers(s)') = Cardinality(Announcers(s)) + 1
    BY <2>2, AnnouncersFinite, FS_AddElement
  <2>5. Refs(s) = Cardinality(Announcers(s))
    <3>1. CASE s \in DOMAIN sourceRefs
      BY <3>1 DEF Refs, HubInv, Counted
    <3>2. CASE s \notin DOMAIN sourceRefs
      <4>1. Announcers(s) = {}
        BY <3>2 DEF HubInv, Counted
      <4> QED
        BY <3>2, <4>1, FS_EmptySet DEF Refs
    <3> QED
      BY <3>1, <3>2
  <2>6. Types' /\ OneSource'
    BY <1>1, <2>1 DEF HubInv, Types, OneSource
  <2>7. Counted'
    <3>1. DOMAIN sourceRefs' = {t \in Sources : Announcers(t)' # {}}
      BY <2>1, <2>2, <2>3 DEF HubInv, Counted
    <3>2. \A t \in DOMAIN sourceRefs' : sourceRefs'[t] = Cardinality(Announcers(t)')
      BY <2>1, <2>3, <2>4, <2>5, <3>1 DEF HubInv, Counted
    <3> QED
      BY <3>1, <3>2 DEF Counted
  <2>8. Listed'
    BY <1>1, <2>1 DEF HubInv, Listed, Types
  <2> QED
    BY <2>6, <2>7, <2>8 DEF HubInv
<1> QED
  BY <1>2, <1>3

(* A close takes a connection from the source it announced, if any.        *)
LEMMA CloseKeeps == ASSUME HubInv, NEW c \in Conns, CloseDevice(c) PROVE HubInv'
<1>1. /\ role[c] = "open" /\ role' = [role EXCEPT ![c] = "closed"]
      /\ UNCHANGED <<browsers, announced>>
  BY DEF CloseDevice
<1>2. \A t : Announcers(t)' = Announcers(t) \ {c}
  BY <1>1 DEF Announcers, HubInv, Types
<1>3. OneSource'
  BY <1>1 DEF HubInv, Types, OneSource
<1>4. CASE announced[c] = {} /\ UNCHANGED <<sources, sourceRefs, sourceConns, chips>>
  <2>1. \A t : Announcers(t)' = Announcers(t)
    BY <1>2, <1>4 DEF Announcers
  <2>2. Types' /\ Listed'
    BY <1>1, <1>4 DEF HubInv, Types, Listed
  <2>3. Counted'
    BY <1>4, <2>1 DEF HubInv, Counted
  <2> QED
    BY <1>3, <2>2, <2>3 DEF HubInv
<1>5. ASSUME NEW s \in announced[c], Leave(c, s) PROVE HubInv'
  <2>1. s \in Sources /\ c \in Announcers(s)
    BY <1>1, <1>5 DEF HubInv, Types, Announcers
  <2>2. \A t \in Sources \ {s} : Announcers(t)' = Announcers(t)
    BY <1>2, <1>5 DEF HubInv, OneSource, Announcers
  <2>3. s \in DOMAIN sourceRefs /\ sourceRefs[s] = Cardinality(Announcers(s))
    BY <2>1 DEF HubInv, Counted
  <2>4. /\ Cardinality(Announcers(s)) \in Nat \ {0}
        /\ Cardinality(Announcers(s)') = Cardinality(Announcers(s)) - 1
        /\ IsFiniteSet(Announcers(s)')
    BY <1>2, <2>1, AnnouncersFinite, FS_RemoveElement, FS_CardinalityType, FS_EmptySet
  <2>5. CASE Refs(s) > 1
    <3>1. /\ DOMAIN sourceRefs' = DOMAIN sourceRefs
          /\ sourceRefs'[s] = sourceRefs[s] - 1
          /\ \A t \in DOMAIN sourceRefs \ {s} : sourceRefs'[t] = sourceRefs[t]
          /\ UNCHANGED <<sources, chips>>
      BY <1>5, <2>3, <2>5 DEF Leave, With, Refs
    <3>2. Announcers(s)' # {}
      BY <2>3, <2>4, <2>5, FS_EmptySet DEF Refs
    <3>3. DOMAIN sourceRefs' = {t \in Sources : Announcers(t)' # {}}
      BY <2>1, <2>2, <2>3, <3>1, <3>2 DEF HubInv, Counted
    <3>4. \A t \in DOMAIN sourceRefs' : sourceRefs'[t] = Cardinality(Announcers(t)')
      BY <2>2, <2>3, <2>4, <3>1, <3>3 DEF HubInv, Counted
    <3>5. Types' /\ Listed'
      BY <1>1, <3>1 DEF HubInv, Types, Listed
    <3> QED
      BY <1>3, <3>3, <3>4, <3>5 DEF HubInv, Counted
  <2>6. CASE ~ (Refs(s) > 1)
    <3>1. /\ DOMAIN sourceRefs' = DOMAIN sourceRefs \ {s}
          /\ \A t \in DOMAIN sourceRefs \ {s} : sourceRefs'[t] = sourceRefs[t]
          /\ DOMAIN sources' = DOMAIN sources \ {s}
          /\ chips' = [b \in Conns |-> IF b \in browsers THEN chips[b] \ {s} ELSE chips[b]]
      BY <1>5, <2>6 DEF Leave, Without
    <3>2. Announcers(s)' = {}
      BY <2>3, <2>4, <2>6, FS_EmptySet DEF Refs
    <3>3. DOMAIN sourceRefs' = {t \in Sources : Announcers(t)' # {}}
      BY <2>1, <2>2, <3>1, <3>2 DEF HubInv, Counted
    <3>4. \A t \in DOMAIN sourceRefs' : sourceRefs'[t] = Cardinality(Announcers(t)')
      BY <2>2, <3>1, <3>3 DEF HubInv, Counted
    <3>5. Types' /\ Listed'
      BY <1>1, <3>1 DEF HubInv, Types, Listed
    <3> QED
      BY <1>3, <3>3, <3>4, <3>5 DEF HubInv, Counted
  <2> QED
    BY <2>5, <2>6
<1> QED
  BY <1>4, <1>5 DEF CloseDevice

(* The other steps leave the open connections of every source as they are. *)
LEMMA OthersKeep == ASSUME HubInv, UNCHANGED <<sources, sourceRefs, announced>>,
                           Types', OneSource',
                           \A s \in Sources : Announcers(s)' = Announcers(s),
                           \A b \in browsers' : chips'[b] = DOMAIN sources
                    PROVE  HubInv'
<1>1. Counted' /\ Listed'
  BY DEF HubInv, Counted, Listed
<1> QED
  BY <1>1 DEF HubInv

LEMMA HubStep == HubInv /\ [Next]_vars => HubInv'
<1> SUFFICES ASSUME HubInv, [Next]_vars PROVE HubInv'
  OBVIOUS
<1>1. CASE UNCHANGED vars
  BY <1>1 DEF vars, tables, connVars, viewerVars, HubInv, Types, OneSource, Counted, Listed, Announcers
<1>2. ASSUME NEW c \in Conns, Accept(c) PROVE HubInv'
  <2>1. Types' /\ OneSource'
    BY <1>2 DEF Accept, tables, viewerVars, HubInv, Types, OneSource
  <2>2. \A s \in Sources : Announcers(s)' = Announcers(s)
    BY <1>2 DEF Accept, HubInv, Types, OneSource, Announcers
  <2>3. UNCHANGED <<sources, sourceRefs, announced, browsers, chips>>
    BY <1>2 DEF Accept, tables, viewerVars
  <2>4. \A b \in browsers' : chips'[b] = DOMAIN sources
    BY <2>3 DEF HubInv, Listed
  <2> QED
    BY <2>1, <2>2, <2>3, <2>4, OthersKeep
<1>3. ASSUME NEW c \in Conns, Hello(c) PROVE HubInv'
  <2>1. Types' /\ OneSource'
    BY <1>3 DEF Hello, HubInv, Types, OneSource, Counted, Listed
  <2>2. \A s \in Sources : Announcers(s)' = Announcers(s)
    BY <1>3 DEF Hello, HubInv, Types, Announcers
  <2>3. UNCHANGED <<sources, sourceRefs, announced>>
    BY <1>3 DEF Hello
  <2>4. \A b \in browsers' : chips'[b] = DOMAIN sources
    BY <1>3 DEF Hello, HubInv, Types, Listed
  <2> QED
    BY <2>1, <2>2, <2>3, <2>4, OthersKeep
<1>4. ASSUME NEW c \in Conns, CloseViewer(c) PROVE HubInv'
  <2>1. Types' /\ OneSource'
    BY <1>4 DEF CloseViewer, viewerVars, HubInv, Types, OneSource
  <2>2. \A s \in Sources : Announcers(s)' = Announcers(s)
    BY <1>4 DEF CloseViewer, HubInv, Types, Announcers
  <2>3. UNCHANGED <<sources, sourceRefs, announced, chips>> /\ browsers' \subseteq browsers
    BY <1>4 DEF CloseViewer, viewerVars
  <2>4. \A b \in browsers' : chips'[b] = DOMAIN sources
    BY <2>3 DEF HubInv, Listed
  <2> QED
    BY <2>1, <2>2, <2>3, <2>4, OthersKeep
<1>5. ASSUME UNCHANGED <<sources, sourceRefs, announced, browsers, role, chips>> PROVE HubInv'
  <2>1. Types' /\ OneSource'
    BY <1>5 DEF HubInv, Types, OneSource
  <2>2. \A s \in Sources : Announcers(s)' = Announcers(s)
    BY <1>5 DEF Announcers
  <2>3. \A b \in browsers' : chips'[b] = DOMAIN sources
    BY <1>5 DEF HubInv, Listed
  <2> QED
    BY <1>5, <2>1, <2>2, <2>3, OthersKeep
<1>6. ASSUME NEW c \in Conns, NEW s, Event(c, s) \/ Invoke(c, s) PROVE HubInv'
  BY <1>5, <1>6 DEF Event, Invoke, tables, connVars, viewerVars
<1>7. ASSUME NEW c \in Conns, NEW S, Clear(c, S) PROVE HubInv'
  BY <1>5, <1>7 DEF Clear, connVars
<1> QED
  BY <1>1, <1>2, <1>3, <1>4, <1>6, <1>7, AnnounceKeeps, CloseKeeps DEF Next, Device, Viewer

(* A device is on a viewer's screen exactly while one of its connections   *)
(* is open: server.mjs counts them by announce and by close.               *)
THEOREM Chips == Spec => []ChipsAreLive
<1>1. HubInv => ChipsAreLive
  BY DEF HubInv, Types, Counted, Listed, ChipsAreLive
<1> QED
  BY <1>1, HubStarts, HubStep, PTL DEF Spec
-----------------------------------------------------------------------------
(* What EndsWith says of two sequences, and that appending to both, cutting *)
(* the shorter and filtering both preserve it.                             *)
LEMMA EndsWithSplit ==
  ASSUME NEW T, NEW a \in Seq(T), NEW b \in Seq(T), EndsWith(a, b)
  PROVE  \E p \in Seq(T) : a = p \o b
<1> DEFINE n == Len(a) - Len(b)
           p == SubSeq(a, 1, n)
<1>1. Len(a) \in Nat /\ Len(b) \in Nat /\ n \in 0 .. Len(a)
  BY LenProperties DEF EndsWith
<1>2. p \in Seq(T) /\ Len(p) = n /\ \A i \in 1 .. n : p[i] = a[i]
  BY <1>1, SubSeqProperties
<1>3. /\ p \o b \in Seq(T)
      /\ Len(p \o b) = Len(p) + Len(b)
      /\ \A i \in 1 .. Len(p) + Len(b) :
           (p \o b)[i] = IF i <= Len(p) THEN p[i] ELSE b[i - Len(p)]
  BY <1>2, ConcatProperties
<1> DEFINE q == p \o b
<1> HIDE DEF n, p, q
<1>4. Len(q) = Len(a)
  BY <1>1, <1>2, <1>3 DEF n, q
<1>5. ASSUME NEW i \in 1 .. Len(a) PROVE q[i] = a[i]
  <2>1. q[i] = IF i <= n THEN p[i] ELSE b[i - n]
    BY <1>2, <1>3, <1>4 DEF q
  <2>2. CASE i <= n
    BY <1>1, <1>2, <2>1, <2>2
  <2>3. CASE ~ (i <= n)
    <3>1. i - n \in 1 .. Len(b) /\ Len(a) - Len(b) + (i - n) = i
      BY <1>1, <2>3 DEF n
    <3>2. b[i - n] = a[Len(a) - Len(b) + (i - n)]
      BY <3>1 DEF EndsWith
    <3> QED
      BY <2>1, <2>3, <3>1, <3>2
  <2> QED
    BY <2>2, <2>3
<1>6. q = a
  BY <1>3, <1>4, <1>5, SeqEqual DEF q
<1> QED
  BY <1>2, <1>6 DEF q

LEMMA EndsWithConcat ==
  ASSUME NEW T, NEW p \in Seq(T), NEW b \in Seq(T)
  PROVE  EndsWith(p \o b, b)
<1> DEFINE q == p \o b
<1>1. /\ Len(q) = Len(p) + Len(b)
      /\ \A i \in 1 .. Len(p) + Len(b) : q[i] = IF i <= Len(p) THEN p[i] ELSE b[i - Len(p)]
  BY ConcatProperties
<1>2. Len(p) \in Nat /\ Len(b) \in Nat
  BY LenProperties
<1> HIDE DEF q
<1>3. ASSUME NEW i \in 1 .. Len(b) PROVE b[i] = q[Len(q) - Len(b) + i]
  <2>1. /\ Len(q) - Len(b) + i = Len(p) + i
        /\ Len(p) + i \in 1 .. Len(p) + Len(b)
        /\ ~ (Len(p) + i <= Len(p)) /\ Len(p) + i - Len(p) = i
    BY <1>1, <1>2
  <2> QED
    BY <1>1, <2>1
<1>4. EndsWith(q, b)
  BY <1>1, <1>2, <1>3 DEF EndsWith
<1> QED
  BY <1>4 DEF q

LEMMA EndsWithOnly ==
  ASSUME NEW T, NEW a \in Seq(T), NEW b \in Seq(T), NEW S, EndsWith(a, b)
  PROVE  EndsWith(Only(a, S), Only(b, S))
<1>1. PICK p \in Seq(T) : a = p \o b
  BY EndsWithSplit
<1>2. Only(a, S) = Only(p, S) \o Only(b, S)
  BY <1>1, OnlyConcat
<1>3. Only(p, S) \in Seq(T) /\ Only(b, S) \in Seq(T)
  BY OnlyPlaces
<1> QED
  BY <1>2, <1>3, EndsWithConcat

LEMMA EndsWithAppend ==
  ASSUME NEW T, NEW a \in Seq(T), NEW b \in Seq(T), NEW e \in T, EndsWith(a, b)
  PROVE  EndsWith(Append(a, e), Append(b, e))
<1> DEFINE c == Append(a, e)
           d == Append(b, e)
<1>1. /\ Len(c) = Len(a) + 1 /\ c[Len(a) + 1] = e /\ \A i \in 1 .. Len(a) : c[i] = a[i]
      /\ Len(d) = Len(b) + 1 /\ d[Len(b) + 1] = e /\ \A i \in 1 .. Len(b) : d[i] = b[i]
  BY AppendProperties
<1>2. Len(a) \in Nat /\ Len(b) \in Nat /\ Len(b) <= Len(a)
  BY LenProperties DEF EndsWith
<1> HIDE DEF c, d
<1>3. ASSUME NEW i \in 1 .. Len(d) PROVE d[i] = c[Len(c) - Len(d) + i]
  <2>1. CASE i \in 1 .. Len(b)
    <3>1. Len(c) - Len(d) + i = Len(a) - Len(b) + i /\ Len(a) - Len(b) + i \in 1 .. Len(a)
      BY <1>1, <1>2, <2>1
    <3>2. b[i] = a[Len(a) - Len(b) + i]
      BY <2>1 DEF EndsWith
    <3> QED
      BY <1>1, <2>1, <3>1, <3>2
  <2>2. CASE i = Len(b) + 1
    <3>1. Len(c) - Len(d) + i = Len(a) + 1
      BY <1>1, <1>2, <2>2
    <3> QED
      BY <1>1, <2>2, <3>1
  <2> QED
    BY <1>1, <1>2, <2>1, <2>2
<1>4. EndsWith(c, d)
  BY <1>1, <1>2, <1>3 DEF EndsWith
<1> QED
  BY <1>4 DEF c, d

LEMMA EndsWithNewest ==
  ASSUME NEW T, NEW a \in Seq(T), NEW b \in Seq(T), NEW n \in Nat, EndsWith(a, b)
  PROVE  EndsWith(a, Newest(b, n))
<1> DEFINE c == Newest(b, n)
<1>1. c \in Seq(T) /\ Excess(b, n) \in Nat /\ Len(c) + Excess(b, n) = Len(b)
  BY NewestBounded
<1>2. \A i \in 1 .. Len(c) : /\ i + Excess(b, n) \in 1 .. Len(b)
                              /\ c[i] = b[i + Excess(b, n)]
  BY NewestElement
<1> HIDE DEF c
<1>3. Len(a) \in Nat /\ Len(b) \in Nat /\ Len(c) \in Nat /\ Len(b) <= Len(a)
  BY <1>1, LenProperties DEF EndsWith
<1>4. ASSUME NEW i \in 1 .. Len(c) PROVE c[i] = a[Len(a) - Len(c) + i]
  <2>1. b[i + Excess(b, n)] = a[Len(a) - Len(b) + (i + Excess(b, n))]
    BY <1>2 DEF EndsWith
  <2>2. \A x \in Nat : Len(c) + x = Len(b) => Len(a) - Len(b) + (i + x) = Len(a) - Len(c) + i
    BY <1>3
  <2> QED
    BY <1>1, <1>2, <2>1, <2>2
<1>5. EndsWith(a, c)
  BY <1>1, <1>3, <1>4 DEF EndsWith
<1> QED
  BY <1>5 DEF c

-----------------------------------------------------------------------------
Taken == 1 .. Len(origin)

(* Screens and the history show events the hub has taken.                  *)
ScreenTypes == /\ origin \in Seq(Sources)
               /\ HISTORY \in Seq(Taken)
               /\ shown \in [Conns -> Seq(Taken)]
               /\ purged \subseteq Taken

ScreenInv == ScreenTypes /\ ViewersAgree /\ PurgeSticks

LEMMA ScreenStarts == Init => ScreenInv
<1> SUFFICES ASSUME Init PROVE ScreenInv
  OBVIOUS
<1>1. /\ origin = <<>> /\ HISTORY = <<>> /\ purged = {} /\ browsers = {}
      /\ shown = [c \in Conns |-> <<>>]
  BY DEF Init
<1>2. <<>> \in Seq(Sources) /\ <<>> \in Seq(Taken)
  OBVIOUS
<1> QED
  BY <1>1, <1>2 DEF ScreenInv, ScreenTypes, ViewersAgree, PurgeSticks

(* A taken event is new to every screen and to the history.                *)
LEMMA EventKeepsScreens ==
  ASSUME HubInv, ScreenInv, NEW c \in Conns, NEW s \in Sources, Event(c, s)
  PROVE  ScreenInv'
<1> DEFINE e == Len(origin) + 1
<1>1. /\ origin' = Append(origin, s) /\ HISTORY' = Newest(Append(HISTORY, e), MaxHistory)
      /\ shown' = [b \in Conns |-> IF b \in browsers THEN Append(shown[b], e) ELSE shown[b]]
      /\ browsers' = browsers /\ purged' = purged
  BY DEF Event, Remember
<1>2. Len(origin) \in Nat /\ Len(origin') = e /\ origin' \in Seq(Sources)
  BY <1>1, AppendProperties, LenProperties DEF ScreenInv, ScreenTypes
<1>3. Taken \subseteq Taken' /\ e \in Taken' /\ e \notin Taken
  BY <1>2 DEF Taken
<1>4. HISTORY \in Seq(Taken') /\ \A b \in Conns : shown[b] \in Seq(Taken')
  BY <1>3, SeqMonotonic DEF ScreenInv, ScreenTypes
<1>5. Append(HISTORY, e) \in Seq(Taken') /\ \A b \in Conns : Append(shown[b], e) \in Seq(Taken')
  BY <1>3, <1>4, AppendProperties
<1>6. HISTORY' \in Seq(Taken')
  BY <1>1, <1>5, NewestBounded, HistoryAssumption
<1>7. ScreenTypes'
  BY <1>1, <1>2, <1>3, <1>4, <1>5, <1>6 DEF ScreenInv, ScreenTypes
<1>8. ViewersAgree'
  <2>1. SUFFICES ASSUME NEW b \in browsers
                 PROVE  /\ EndsWith(shown'[b], HISTORY')
                        /\ \A v \in browsers : \/ EndsWith(shown'[b], shown'[v])
                                               \/ EndsWith(shown'[v], shown'[b])
    BY <1>1 DEF ViewersAgree
  <2>2. \A v \in browsers : v \in Conns /\ shown'[v] = Append(shown[v], e)
    BY <1>1 DEF HubInv, Types
  <2>3. EndsWith(Append(shown[b], e), Append(HISTORY, e))
    BY <1>3, <1>4, <2>2, EndsWithAppend DEF ScreenInv, ViewersAgree
  <2>4. EndsWith(shown'[b], HISTORY')
    BY <1>1, <1>5, <2>2, <2>3, EndsWithNewest, HistoryAssumption
  <2>5. ASSUME NEW v \in browsers
        PROVE  EndsWith(shown'[b], shown'[v]) \/ EndsWith(shown'[v], shown'[b])
    <3>1. EndsWith(shown[b], shown[v]) \/ EndsWith(shown[v], shown[b])
      BY DEF ScreenInv, ViewersAgree
    <3> QED
      BY <1>3, <1>4, <2>2, <3>1, EndsWithAppend
  <2> QED
    BY <2>4, <2>5
<1>9. PurgeSticks'
  <2>1. Range(Append(HISTORY, e)) \cap purged = {}
    BY <1>3, <1>4, RangeAppend DEF ScreenInv, ScreenTypes, PurgeSticks
  <2>2. Range(HISTORY') \subseteq Range(Append(HISTORY, e))
    BY <1>1, <1>5, RangeNewest, HistoryAssumption
  <2>3. \A b \in browsers : Range(shown'[b]) \cap purged = {}
    <3> TAKE b \in browsers
    <3>1. b \in Conns /\ shown'[b] = Append(shown[b], e)
      BY <1>1 DEF HubInv, Types
    <3>2. Range(shown'[b]) = Range(shown[b]) \cup {e}
      BY <1>3, <1>4, <3>1, RangeAppend
    <3> QED
      BY <1>3, <3>2 DEF ScreenInv, ScreenTypes, PurgeSticks
  <2> QED
    BY <1>1, <2>1, <2>2, <2>3 DEF PurgeSticks
<1> QED
  BY <1>7, <1>8, <1>9 DEF ScreenInv

(* A purge filters every screen and the history by the same set.           *)
LEMMA ClearKeepsScreens ==
  ASSUME HubInv, ScreenInv, NEW c \in Conns, NEW S, Clear(c, S)
  PROVE  ScreenInv'
<1> DEFINE L == {e \in DOMAIN origin : origin[e] \notin S}
<1>1. /\ HISTORY' = Only(HISTORY, L)
      /\ shown' = [v \in Conns |-> IF v \in browsers THEN Only(shown[v], L) ELSE shown[v]]
      /\ purged' = purged \cup {e \in DOMAIN origin : origin[e] \in S}
      /\ browsers' = browsers /\ origin' = origin
  BY DEF Clear, Purge, Keep
<1>2. Taken' = Taken /\ DOMAIN origin = Taken
  BY <1>1, LenProperties DEF Taken, ScreenInv, ScreenTypes
<1>3. \A b \in browsers : b \in Conns /\ shown'[b] = Only(shown[b], L) /\ shown[b] \in Seq(Taken)
  BY <1>1 DEF HubInv, Types, ScreenInv, ScreenTypes
<1>4. HISTORY \in Seq(Taken) /\ L \cap purged' = L \cap purged
  BY <1>1 DEF ScreenInv, ScreenTypes
<1> HIDE DEF L
<1>5. ScreenTypes'
  <2>1. HISTORY' \in Seq(Taken)
    BY <1>1, <1>4, OnlyPlaces
  <2>2. \A b \in browsers : Only(shown[b], L) \in Seq(Taken)
    BY <1>3, OnlyPlaces
  <2>3. shown' \in [Conns -> Seq(Taken)]
    BY <1>1, <2>2 DEF ScreenInv, ScreenTypes
  <2> QED
    BY <1>1, <1>2, <2>1, <2>3 DEF ScreenInv, ScreenTypes
<1>6. ViewersAgree'
  <2>1. SUFFICES ASSUME NEW b \in browsers
                 PROVE  /\ EndsWith(shown'[b], HISTORY')
                        /\ \A v \in browsers : \/ EndsWith(shown'[b], shown'[v])
                                               \/ EndsWith(shown'[v], shown'[b])
    BY <1>1 DEF ViewersAgree
  <2>2. EndsWith(shown'[b], HISTORY')
    BY <1>1, <1>3, <1>4, EndsWithOnly DEF ScreenInv, ViewersAgree
  <2>3. ASSUME NEW v \in browsers
        PROVE  EndsWith(shown'[b], shown'[v]) \/ EndsWith(shown'[v], shown'[b])
    <3>1. EndsWith(shown[b], shown[v]) \/ EndsWith(shown[v], shown[b])
      BY DEF ScreenInv, ViewersAgree
    <3> QED
      BY <1>3, <3>1, EndsWithOnly
  <2> QED
    BY <2>2, <2>3
<1>7. PurgeSticks'
  <2>1. Range(HISTORY') \subseteq Range(HISTORY) \cap L
    BY <1>1, <1>4, RangeOnly
  <2>2. \A b \in browsers : Range(shown'[b]) \subseteq Range(shown[b]) \cap L
    BY <1>3, RangeOnly
  <2> QED
    BY <1>1, <1>4, <2>1, <2>2 DEF ScreenInv, PurgeSticks
<1> QED
  BY <1>5, <1>6, <1>7 DEF ScreenInv

LEMMA ScreenStep == HubInv /\ ScreenInv /\ [Next]_vars => ScreenInv'
<1> SUFFICES ASSUME HubInv, ScreenInv, [Next]_vars PROVE ScreenInv'
  OBVIOUS
<1>1. ASSUME UNCHANGED <<HISTORY, shown, origin, purged>>, browsers' \subseteq browsers
      PROVE  ScreenInv'
  BY <1>1 DEF ScreenInv, ScreenTypes, Taken, ViewersAgree, PurgeSticks
<1>2. CASE UNCHANGED vars
  BY <1>1, <1>2 DEF vars, tables, viewerVars, history
<1>3. ASSUME NEW c \in Conns, NEW s, Accept(c) \/ CloseDevice(c) \/ CloseViewer(c)
                                     \/ Announce(c, s) \/ Invoke(c, s)
      PROVE  ScreenInv'
  BY <1>1, <1>3
  DEF Accept, CloseDevice, CloseViewer, Announce, Invoke, tables, viewerVars, history
<1>4. ASSUME NEW c \in Conns, Hello(c) PROVE ScreenInv'
  <2>1. /\ UNCHANGED <<HISTORY, origin, purged>> /\ browsers' = browsers \cup {c}
        /\ shown' = [shown EXCEPT ![c] = HISTORY]
    BY <1>4 DEF Hello, history
  <2>2. ScreenTypes' /\ PurgeSticks'
    BY <2>1 DEF ScreenInv, ScreenTypes, Taken, PurgeSticks
  <2>3. EndsWith(HISTORY, HISTORY)
    <3>1. Len(HISTORY) \in Nat
      BY DEF ScreenInv, ScreenTypes
    <3> QED
      BY <3>1 DEF EndsWith
  <2>4. shown'[c] = HISTORY /\ \A v \in browsers \ {c} : shown'[v] = shown[v]
    BY <2>1 DEF ScreenInv, ScreenTypes, HubInv, Types
  <2>5. \A v \in browsers' : EndsWith(shown'[v], HISTORY)
    BY <2>1, <2>3, <2>4, Zenon DEF ScreenInv, ViewersAgree
  <2>6. ASSUME NEW b \in browsers', NEW v \in browsers'
        PROVE  EndsWith(shown'[b], shown'[v]) \/ EndsWith(shown'[v], shown'[b])
    <3>1. CASE b = c \/ v = c
      BY <2>4, <2>5, <3>1, Zenon
    <3>2. CASE b # c /\ v # c
      <4>1. b \in browsers /\ v \in browsers
        BY <2>1, <3>2
      <4>2. EndsWith(shown[b], shown[v]) \/ EndsWith(shown[v], shown[b])
        BY <4>1, Zenon DEF ScreenInv, ViewersAgree
      <4>3. shown'[b] = shown[b] /\ shown'[v] = shown[v]
        BY <2>4, <3>2, <4>1
      <4> QED
        BY <4>2, <4>3
    <3> QED
      BY <3>1, <3>2
  <2>7. ViewersAgree'
    BY <2>1, <2>5, <2>6, Zenon DEF ViewersAgree
  <2> QED
    BY <2>2, <2>7 DEF ScreenInv
<1> QED
  BY <1>2, <1>3, <1>4, EventKeepsScreens, ClearKeepsScreens DEF Next, Device, Viewer

(* Whenever they come and whatever is purged meanwhile, viewers show the   *)
(* same events but for how far back they go: server.mjs replays its        *)
(* history on hello and sends each event and purge to every viewer.        *)
THEOREM Agreement == Spec => []ViewersAgree
<1> QED
  BY HubStarts, HubStep, ScreenStarts, ScreenStep, PTL DEF Spec, ScreenInv

(* An event that was purged is shown by no viewer again.                   *)
THEOREM Purges == Spec => []PurgeSticks
<1> QED
  BY HubStarts, HubStep, ScreenStarts, ScreenStep, PTL DEF Spec, ScreenInv

-----------------------------------------------------------------------------
Arrival == [conn : Conns, source : Sources]

(* The connections a source has in the hub's list are its open ones, and   *)
(* are listed in the order they first announced it.                        *)
InOrder(list, s, at) ==
  /\ at \in [1 .. Len(list) -> 1 .. Len(arrivals)]
  /\ \A i, j \in 1 .. Len(list) : i < j => at[i] < at[j]
  /\ \A i \in 1 .. Len(list) : arrivals[at[i]] = [conn |-> list[i], source |-> s]

Routed == \A s \in Sources : /\ ConnsOf(s) \in Seq(Conns)
                             /\ Range(ConnsOf(s)) = Announcers(s)
                             /\ \E at : InOrder(ConnsOf(s), s, at)

(* A connection arrives at a source once, and has then announced it.       *)
Arrived == /\ arrivals \in Seq(Arrival)
           /\ IsInjective(arrivals)
           /\ \A i \in 1 .. Len(arrivals) : arrivals[i].source \in announced[arrivals[i].conn]

RouteInv == Routed /\ Arrived /\ routes \in Seq(Arrival)

LEMMA RoutesStart == Init => RouteInv
<1> SUFFICES ASSUME Init PROVE RouteInv
  OBVIOUS
<1>1. /\ arrivals = <<>> /\ routes = <<>> /\ sourceConns = Nothing
      /\ announced = [c \in Conns |-> {}]
  BY DEF Init
<1>2. \A s : ConnsOf(s) = <<>> /\ Announcers(s) = {}
  BY <1>1 DEF ConnsOf, Nothing, Announcers
<1>3. <<>> \in Seq(Conns) /\ <<>> \in Seq(Arrival) /\ Range(<<>>) = {} /\ Len(<<>>) = 0
  BY DEF Range
<1>4. \A s : InOrder(<<>>, s, <<>>)
  BY <1>3 DEF InOrder
<1>5. Routed
  BY <1>2, <1>3, <1>4 DEF Routed
<1>6. Arrived
  BY <1>1, <1>3 DEF Arrived, IsInjective
<1> QED
  BY <1>1, <1>3, <1>5, <1>6 DEF RouteInv

LEMMA SameRoutes ==
  ASSUME Routed, UNCHANGED <<sourceConns, arrivals>>,
         \A s \in Sources : Announcers(s)' = Announcers(s)
  PROVE  Routed'
<1> SUFFICES ASSUME NEW s \in Sources
             PROVE  /\ ConnsOf(s)' \in Seq(Conns)
                    /\ Range(ConnsOf(s)') = Announcers(s)'
                    /\ \E at : InOrder(ConnsOf(s), s, at)'
  BY DEF Routed
<1>1. ConnsOf(s)' = ConnsOf(s)
  BY DEF ConnsOf
<1>2. PICK at : InOrder(ConnsOf(s), s, at)
  BY DEF Routed
<1>3. InOrder(ConnsOf(s), s, at)'
  BY <1>1, <1>2 DEF InOrder
<1> QED
  BY <1>1, <1>3 DEF Routed

LEMMA AnnounceKeepsRoutes ==
  ASSUME HubInv, RouteInv, NEW c \in Conns, NEW s \in Sources, Announce(c, s)
  PROVE  RouteInv'
<1>1. role[c] = "open" /\ role' = role /\ routes' = routes /\ Join(c, s)
  BY DEF Announce
<1>2. CASE s \in announced[c]
  <2>1. UNCHANGED <<announced, sourceConns, arrivals>>
    BY <1>1, <1>2 DEF Join
  <2>2. Arrived'
    BY <2>1 DEF RouteInv, Arrived
  <2>3. \A t \in Sources : Announcers(t)' = Announcers(t)
    BY <1>1, <2>1 DEF Announcers
  <2>4. Routed'
    BY <2>1, <2>3, SameRoutes DEF RouteInv
  <2> QED
    BY <1>1, <2>2, <2>4 DEF RouteInv
<1>3. CASE s \notin announced[c]
  <2> DEFINE a == [conn |-> c, source |-> s]
             n == Len(arrivals)
  <2>1. /\ announced' = [announced EXCEPT ![c] = @ \cup {s}]
        /\ sourceConns' = With(sourceConns, s, Append(ConnsOf(s), c))
        /\ arrivals' = Append(arrivals, a)
    BY <1>1, <1>3 DEF Join
  <2>2. /\ a \in Arrival /\ arrivals \in Seq(Arrival)
        /\ a.source = s /\ a.conn = c
    BY DEF Arrival, RouteInv, Arrived
  <2>3. a \notin Range(arrivals)
    <3>1. \A i \in 1 .. n : arrivals[i].source \in announced[arrivals[i].conn]
      BY DEF RouteInv, Arrived
    <3>2. \A i \in 1 .. n : arrivals[i] # a
      BY <1>3, <3>1
    <3>3. DOMAIN arrivals = 1 .. n
      BY <2>2, LenProperties
    <3> QED
      BY <3>2, <3>3 DEF Range
  <2>4. /\ arrivals' \in Seq(Arrival) /\ Len(arrivals') = n + 1 /\ n \in Nat
        /\ \A i \in 1 .. n : arrivals'[i] = arrivals[i]
        /\ arrivals'[n + 1] = a
    BY <2>1, <2>2, AppendProperties, LenProperties
  <2> HIDE DEF a, n
  <2>5. \A d \in Conns : /\ announced[d] \subseteq announced'[d]
                         /\ s \in announced'[c]
                         /\ d # c => announced'[d] = announced[d]
                         /\ announced'[c] = announced[c] \cup {s}
    BY <2>1 DEF HubInv, Types
  <2>6. Arrived'
    <3>1. IsInjective(arrivals')
      BY <2>1, <2>2, <2>3, AppendFresh DEF RouteInv, Arrived
    <3>2. ASSUME NEW i \in 1 .. n + 1
          PROVE  arrivals'[i].source \in announced'[arrivals'[i].conn]
      <4>1. CASE i \in 1 .. n
        <5>1. arrivals[i].source \in announced[arrivals[i].conn] /\ arrivals[i] \in Arrival
          BY <2>2, <4>1, ElementOfSeq DEF RouteInv, Arrived, n
        <5>2. arrivals[i].conn \in Conns
          BY <5>1 DEF Arrival
        <5> QED
          BY <2>4, <2>5, <4>1, <5>1, <5>2
      <4>2. CASE i = n + 1
        BY <2>2, <2>4, <2>5, <4>2
      <4> QED
        BY <2>4, <4>1, <4>2
    <3> QED
      BY <2>4, <3>1, <3>2 DEF Arrived
  <2>7. ASSUME NEW t \in Sources
        PROVE  /\ ConnsOf(t)' \in Seq(Conns)
               /\ Range(ConnsOf(t)') = Announcers(t)'
               /\ \E at : InOrder(ConnsOf(t), t, at)'
    <3>1. PICK at : InOrder(ConnsOf(t), t, at)
      BY DEF RouteInv, Routed
    <3>2. ConnsOf(t) \in Seq(Conns) /\ Range(ConnsOf(t)) = Announcers(t) /\ Len(ConnsOf(t)) \in Nat
      BY LenProperties DEF RouteInv, Routed
    <3>3. /\ at \in [1 .. Len(ConnsOf(t)) -> 1 .. n]
          /\ \A i, j \in 1 .. Len(ConnsOf(t)) : i < j => at[i] < at[j]
          /\ \A i \in 1 .. Len(ConnsOf(t)) :
               arrivals[at[i]] = [conn |-> ConnsOf(t)[i], source |-> t]
      BY <3>1 DEF InOrder, n
    <3>4. CASE t # s
      <4>1. ConnsOf(t)' = ConnsOf(t)
        BY <2>1, <3>4 DEF ConnsOf, With
      <4>2. Announcers(t)' = Announcers(t)
        BY <1>1, <2>1, <3>4 DEF Announcers, HubInv, Types
      <4>3. InOrder(ConnsOf(t), t, at)'
        <5>1. at \in [1 .. Len(ConnsOf(t)) -> 1 .. n + 1]
          BY <2>4, <3>3
        <5>2. \A i \in 1 .. Len(ConnsOf(t)) : arrivals'[at[i]] = arrivals[at[i]]
          BY <2>4, <3>3
        <5> QED
          BY <2>4, <3>3, <4>1, <5>1, <5>2 DEF InOrder
      <4> QED
        BY <3>2, <4>1, <4>2, <4>3
    <3>5. CASE t = s
      <4> DEFINE l == ConnsOf(t)
                 m == Len(l)
                 r == Append(l, c)
                 to == [i \in 1 .. m + 1 |-> IF i = m + 1 THEN n + 1 ELSE at[i]]
      <4>1. ConnsOf(t)' = r
        BY <2>1, <3>5 DEF ConnsOf, With
      <4>2. Announcers(t)' = Announcers(t) \cup {c}
        BY <1>1, <2>5, <3>5 DEF Announcers
      <4>3. /\ r \in Seq(Conns) /\ Len(r) = m + 1 /\ r[m + 1] = c
            /\ \A i \in 1 .. m : r[i] = l[i]
            /\ Range(r) = Range(l) \cup {c}
        BY <3>2, AppendProperties, RangeAppend
      <4> HIDE DEF l, r
      <4>4. m \in Nat /\ at \in [1 .. m -> 1 .. n]
        BY <3>2, <3>3 DEF l
      <4> HIDE DEF m
      <4>5. /\ to \in [1 .. m + 1 -> 1 .. n + 1] /\ to[m + 1] = n + 1
            /\ \A i \in 1 .. m : to[i] = at[i] /\ to[i] \in 1 .. n
        <5>1. \A i \in 1 .. m : i # m + 1 /\ i \in 1 .. m + 1 /\ at[i] \in 1 .. n
          BY <4>4
        <5>2. m + 1 \in 1 .. m + 1 /\ n + 1 \in 1 .. n + 1 /\ 1 .. n \subseteq 1 .. n + 1
          BY <2>4, <4>4
        <5>3. \A i \in 1 .. m + 1 : i = m + 1 \/ i \in 1 .. m
          BY <4>4
        <5> QED
          BY <5>1, <5>2, <5>3
      <4> HIDE DEF to
      <4>6. \A i, j \in 1 .. m + 1 : i < j => to[i] < to[j]
        <5> TAKE i, j \in 1 .. m + 1
        <5> HAVE i < j
        <5>1. i \in 1 .. m /\ to[i] = at[i] /\ to[i] \in 1 .. n
          BY <4>4, <4>5
        <5>2. CASE j = m + 1
          BY <2>4, <4>5, <5>1, <5>2
        <5>3. CASE j \in 1 .. m
          <6>1. at[i] < at[j]
            BY <3>3, <5>1, <5>3 DEF m, l
          <6> QED
            BY <4>5, <5>1, <5>3, <6>1
        <5> QED
          BY <4>4, <5>2, <5>3
      <4>7. \A i \in 1 .. m + 1 : arrivals'[to[i]] = [conn |-> r[i], source |-> t]
        <5> TAKE i \in 1 .. m + 1
        <5>1. CASE i = m + 1
          BY <2>4, <3>5, <4>3, <4>5, <5>1 DEF a
        <5>2. CASE i \in 1 .. m
          <6>1. arrivals[at[i]] = [conn |-> l[i], source |-> t]
            BY <3>3, <5>2 DEF m, l
          <6> QED
            BY <2>4, <4>3, <4>5, <5>2, <6>1
        <5> QED
          BY <4>4, <5>1, <5>2
      <4>8. PICK x : /\ x \in [1 .. m + 1 -> 1 .. n + 1]
                     /\ \A i, j \in 1 .. m + 1 : i < j => x[i] < x[j]
                     /\ \A i \in 1 .. m + 1 : arrivals'[x[i]] = [conn |-> r[i], source |-> t]
        BY <4>5, <4>6, <4>7
      <4>10. InOrder(ConnsOf(t), t, x)'
        BY <2>4, <4>1, <4>3, <4>8 DEF InOrder
      <4>9. Range(ConnsOf(t)') = Announcers(t)'
        BY <3>2, <4>1, <4>2, <4>3 DEF l
      <4> QED
        BY <4>1, <4>3, <4>9, <4>10
    <3> QED
      BY <3>4, <3>5
  <2>8. Routed'
    BY <2>7 DEF Routed
  <2> QED
    BY <1>1, <2>6, <2>8 DEF RouteInv
<1> QED
  BY <1>2, <1>3

(* A close filters the list of the source the connection announced.        *)
LEMMA CloseKeepsRoutes ==
  ASSUME HubInv, RouteInv, NEW c \in Conns, CloseDevice(c)
  PROVE  RouteInv'
<1>1. /\ role[c] = "open" /\ role' = [role EXCEPT ![c] = "closed"]
      /\ UNCHANGED <<announced, arrivals, routes>>
  BY DEF CloseDevice, history
<1>2. \A t : Announcers(t)' = Announcers(t) \ {c}
  BY <1>1 DEF Announcers, HubInv, Types
<1>3. Arrived' /\ routes' \in Seq(Arrival)
  BY <1>1 DEF RouteInv, Arrived
<1>4. CASE announced[c] = {} /\ UNCHANGED <<sources, sourceRefs, sourceConns, chips>>
  <2>1. \A t \in Sources : Announcers(t)' = Announcers(t)
    BY <1>2, <1>4 DEF Announcers
  <2>2. Routed'
    BY <1>1, <1>4, <2>1, SameRoutes DEF RouteInv
  <2> QED
    BY <1>3, <2>2 DEF RouteInv
<1>5. ASSUME NEW s \in announced[c], Leave(c, s) PROVE RouteInv'
  <2> DEFINE rest == Only(ConnsOf(s), Conns \ {c})
  <2>1. sourceConns' = IF rest = <<>> THEN Without(sourceConns, s)
                                      ELSE With(sourceConns, s, rest)
    BY <1>5 DEF Leave
  <2>2. s \in Sources
    BY <1>5 DEF HubInv, Types
  <2>3. ConnsOf(s) \in Seq(Conns) /\ Range(ConnsOf(s)) = Announcers(s)
    BY <2>2 DEF RouteInv, Routed
  <2>4. /\ rest \in Seq(Conns) /\ Range(rest) = Range(ConnsOf(s)) \cap (Conns \ {c})
        /\ \E pos : OnlyAt(rest, ConnsOf(s), Conns \ {c}, Len(ConnsOf(s)), pos)
    BY <2>3, OnlyPlaces, RangeOnly
  <2> HIDE DEF rest
  <2>5. ConnsOf(s)' = rest
    BY <2>1 DEF ConnsOf, With, Without
  <2>6. \A t \in Sources \ {s} : ConnsOf(t)' = ConnsOf(t)
    BY <2>1 DEF ConnsOf, With, Without
  <2>7. Range(rest) = Announcers(s)'
    BY <1>2, <2>3, <2>4 DEF Announcers
  <2>8. ASSUME NEW t \in Sources \ {s}
        PROVE  /\ ConnsOf(t)' \in Seq(Conns)
               /\ Range(ConnsOf(t)') = Announcers(t)'
               /\ \E at : InOrder(ConnsOf(t), t, at)'
    <3>1. Announcers(t)' = Announcers(t)
      BY <1>2, <1>5, <2>8 DEF HubInv, OneSource, Announcers
    <3>2. PICK at : InOrder(ConnsOf(t), t, at)
      BY DEF RouteInv, Routed
    <3>3. InOrder(ConnsOf(t), t, at)'
      BY <1>1, <2>6, <3>2 DEF InOrder
    <3> QED
      BY <2>6, <3>1, <3>3 DEF RouteInv, Routed
  <2>9. \E at : InOrder(ConnsOf(s), s, at)'
    <3> DEFINE l == ConnsOf(s)
               n == Len(arrivals)
    <3>1. PICK at : InOrder(l, s, at)
      BY <2>2 DEF RouteInv, Routed
    <3>2. PICK pos : OnlyAt(rest, l, Conns \ {c}, Len(l), pos)
      BY <2>4
    <3>3. Len(rest) \in Nat /\ Len(l) \in Nat
      BY <2>3, <2>4, LenProperties
    <3> HIDE DEF l
    <3>4. /\ pos \in [1 .. Len(rest) -> 1 .. Len(l)]
          /\ \A i, j \in 1 .. Len(rest) : i < j => pos[i] < pos[j]
          /\ \A i \in 1 .. Len(rest) : rest[i] = l[pos[i]]
      BY <3>2 DEF OnlyAt
    <3>5. /\ at \in [1 .. Len(l) -> 1 .. n]
          /\ \A i, j \in 1 .. Len(l) : i < j => at[i] < at[j]
          /\ \A i \in 1 .. Len(l) : arrivals[at[i]] = [conn |-> l[i], source |-> s]
      BY <3>1 DEF InOrder
    <3> DEFINE to == [i \in 1 .. Len(rest) |-> at[pos[i]]]
    <3>6. to \in [1 .. Len(rest) -> 1 .. n]
      BY <3>4, <3>5
    <3>7. \A i, j \in 1 .. Len(rest) : i < j => to[i] < to[j]
      BY <3>4, <3>5
    <3>8. \A i \in 1 .. Len(rest) : arrivals[to[i]] = [conn |-> rest[i], source |-> s]
      BY <3>4, <3>5
    <3> HIDE DEF to
    <3>9. PICK x : /\ x \in [1 .. Len(rest) -> 1 .. n]
                   /\ \A i, j \in 1 .. Len(rest) : i < j => x[i] < x[j]
                   /\ \A i \in 1 .. Len(rest) : arrivals[x[i]] = [conn |-> rest[i], source |-> s]
      BY <3>6, <3>7, <3>8
    <3>10. InOrder(ConnsOf(s), s, x)'
      BY <1>1, <2>5, <3>9 DEF InOrder
    <3> QED
      BY <3>10
  <2>10. Routed'
    BY <2>4, <2>5, <2>7, <2>8, <2>9 DEF Routed
  <2> QED
    BY <1>3, <2>10 DEF RouteInv
<1> QED
  BY <1>4, <1>5 DEF CloseDevice

(* A replay that is forwarded, to the last connection of the list.         *)
LEMMA InvokeReaches ==
  ASSUME RouteInv, NEW b \in Conns, NEW s \in Sources, Invoke(b, s)
  PROVE  /\ RouteInv'
         /\ TargetConn(s) \in Announcers(s)
         /\ routes' = Append(routes, [conn |-> TargetConn(s), source |-> s])
         /\ \E i \in 1 .. Len(arrivals) :
              /\ arrivals[i] = [conn |-> TargetConn(s), source |-> s]
              /\ \A j \in i + 1 .. Len(arrivals) :
                   arrivals[j].source = s => arrivals[j].conn \notin Announcers(s)
<1> DEFINE l == ConnsOf(s)
           r == [conn |-> TargetConn(s), source |-> s]
<1>1. /\ l # <<>>
      /\ routes' = Append(routes, r)
      /\ UNCHANGED <<sourceConns, role, announced, arrivals>>
  BY DEF Invoke, tables, connVars
<1>2. l \in Seq(Conns) /\ Range(l) = Announcers(s)
  BY DEF RouteInv, Routed
<1>3. PICK at : InOrder(l, s, at)
  BY DEF RouteInv, Routed
<1>4. TargetConn(s) = l[Len(l)]
  BY <1>1 DEF ConnsOf, TargetConn
<1> HIDE DEF l
<1>5. Len(l) \in 1 .. Len(l) /\ DOMAIN l = 1 .. Len(l) /\ Len(l) \in Nat
  BY <1>1, <1>2, LenProperties, EmptySeq
<1>6. TargetConn(s) \in Announcers(s)
  BY <1>2, <1>4, <1>5 DEF Range
<1>7. r \in Arrival
  BY <1>6 DEF Arrival, Announcers
<1>8. RouteInv'
  <2>1. routes' \in Seq(Arrival)
    BY <1>1, <1>7, AppendProperties DEF RouteInv
  <2>2. \A t \in Sources : Announcers(t)' = Announcers(t)
    BY <1>1 DEF Announcers
  <2>3. Routed'
    BY <1>1, <2>2, SameRoutes DEF RouteInv
  <2>4. Arrived'
    BY <1>1 DEF RouteInv, Arrived
  <2> QED
    BY <2>1, <2>3, <2>4 DEF RouteInv
<1>9. /\ at[Len(l)] \in 1 .. Len(arrivals)
      /\ arrivals[at[Len(l)]] = r
  BY <1>3, <1>4, <1>5 DEF InOrder
<1>10. ASSUME NEW j \in at[Len(l)] + 1 .. Len(arrivals), arrivals[j].source = s,
              arrivals[j].conn \in Announcers(s)
       PROVE  FALSE
  <2>1. Len(arrivals) \in Nat /\ arrivals \in Seq(Arrival) /\ DOMAIN arrivals = 1 .. Len(arrivals)
    BY LenProperties DEF RouteInv, Arrived
  <2>2. j \in 1 .. Len(arrivals) /\ j > at[Len(l)]
    BY <1>9, <2>1
  <2>3. PICK k \in 1 .. Len(l) : l[k] = arrivals[j].conn
    BY <1>2, <1>5, <1>10 DEF Range
  <2>4. at[k] \in 1 .. Len(arrivals) /\ arrivals[at[k]] = [conn |-> l[k], source |-> s]
    BY <1>3 DEF InOrder
  <2>5. arrivals[j] \in Arrival
    BY <2>1, <2>2, ElementOfSeq
  <2>6. arrivals[j] = arrivals[at[k]]
    BY <1>10, <2>3, <2>4, <2>5 DEF Arrival
  <2>7. j = at[k]
    BY <2>1, <2>2, <2>4, <2>6 DEF RouteInv, Arrived, IsInjective
  <2>8. k = Len(l) \/ at[k] < at[Len(l)]
    <3>1. \A x, y \in 1 .. Len(l) : x < y => at[x] < at[y]
      BY <1>3 DEF InOrder
    <3>2. \A n \in Nat : \A x \in 1 .. n : x = n \/ x < n
      OBVIOUS
    <3> QED
      BY <1>5, <3>1, <3>2
  <2> QED
    BY <1>9, <2>2, <2>4, <2>7, <2>8
<1> QED
  BY <1>1, <1>6, <1>8, <1>9, <1>10

LEMMA RouteStep == HubInv /\ RouteInv /\ [Next]_vars => RouteInv'
<1> SUFFICES ASSUME HubInv, RouteInv, [Next]_vars PROVE RouteInv'
  OBVIOUS
<1>1. ASSUME UNCHANGED <<sourceConns, arrivals, announced, routes>>,
             \A s \in Sources : Announcers(s)' = Announcers(s)
      PROVE  RouteInv'
  <2>1. Routed'
    BY <1>1, SameRoutes DEF RouteInv
  <2> QED
    BY <1>1, <2>1 DEF RouteInv, Arrived
<1>2. CASE UNCHANGED vars
  BY <1>1, <1>2 DEF vars, tables, connVars, history, Announcers
<1>3. ASSUME NEW c \in Conns, Accept(c) \/ Hello(c) \/ CloseViewer(c) PROVE RouteInv'
  <2>1. UNCHANGED <<sourceConns, arrivals, announced, routes>>
    BY <1>3 DEF Accept, Hello, CloseViewer, tables, history
  <2>2. \A s \in Sources : Announcers(s)' = Announcers(s)
    BY <1>3 DEF Accept, Hello, CloseViewer, HubInv, Types, OneSource, Announcers
  <2> QED
    BY <1>1, <2>1, <2>2
<1>4. ASSUME NEW c \in Conns, NEW s, Event(c, s) \/ Clear(c, s) PROVE RouteInv'
  BY <1>1, <1>4 DEF Event, Clear, connVars, Announcers
<1> QED
  BY <1>2, <1>3, <1>4, AnnounceKeepsRoutes, CloseKeepsRoutes, InvokeReaches
  DEF Next, Device, Viewer

(* A replay goes to an open connection of its device, and of those to the  *)
(* one that announced itself last: server.mjs keeps the connections of a   *)
(* source in a Set, in the order they joined it, and takes the last.       *)
THEOREM Replays == Spec => ReplayReachesNewest
<1> DEFINE Reaches ==
      \A r \in Range(routes') : Len(routes') > Len(routes) /\ r = routes'[Len(routes')] =>
        /\ r.conn \in Announcers(r.source)
        /\ \E i \in 1 .. Len(arrivals) :
             /\ arrivals[i] = r
             /\ \A j \in i + 1 .. Len(arrivals) :
                  arrivals[j].source = r.source => arrivals[j].conn \notin Announcers(r.source)
<1>1. RouteInv /\ [Next]_vars => [Reaches]_vars
  <2> SUFFICES ASSUME RouteInv, [Next]_vars, NEW r \in Range(routes'),
                      Len(routes') > Len(routes), r = routes'[Len(routes')]
               PROVE  /\ r.conn \in Announcers(r.source)
                      /\ \E i \in 1 .. Len(arrivals) :
                           /\ arrivals[i] = r
                           /\ \A j \in i + 1 .. Len(arrivals) :
                                arrivals[j].source = r.source
                                  => arrivals[j].conn \notin Announcers(r.source)
    OBVIOUS
  <2>1. Len(routes) \in Nat /\ routes \in Seq(Arrival)
    BY LenProperties DEF RouteInv
  <2>2. routes' # routes
    BY <2>1
  <2>3. PICK b \in Conns, s \in Sources : Invoke(b, s)
    BY <2>2 DEF Next, Accept, Device, CloseDevice, Announce, Event, Viewer, Hello, CloseViewer,
                Clear, vars, history
  <2>4. routes' = Append(routes, [conn |-> TargetConn(s), source |-> s])
    BY <2>3, InvokeReaches
  <2>5. TargetConn(s) \in Conns
    BY <2>3, InvokeReaches DEF Announcers
  <2>6. [conn |-> TargetConn(s), source |-> s] \in Arrival
    BY <2>5 DEF Arrival
  <2>7. r = [conn |-> TargetConn(s), source |-> s]
    BY <2>1, <2>4, <2>6, AppendProperties
  <2>8. r.conn = TargetConn(s) /\ r.source = s
    BY <2>7
  <2> QED
    BY <2>3, <2>7, <2>8, InvokeReaches
<1> QED
  BY <1>1, HubStarts, HubStep, RoutesStart, RouteStep, PTL DEF Spec, ReplayReachesNewest

=============================================================================
