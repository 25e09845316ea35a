----------------------------- MODULE ProbeProofs ------------------------------
(***************************************************************************)
(* The package bare-probe: its hybrid logical clocks order events as       *)
(* causality does, for every set of nodes and whatever the wall clocks     *)
(* read; its adapters stay out of the application's way and report what    *)
(* they are there to report, for any probes, any reports and any number of *)
(* polls and sockets; its framer gives back the messages it was given; and *)
(* its offset estimates are as near the truth as their round trips.        *)
(***************************************************************************)
EXTENDS Hlc, Adapters, Framing, Offset, BoundedProofs, FiniteSetTheorems

-----------------------------------------------------------------------------
(* The clocks.  Everything rests on one fact about the counter rules: a    *)
(* node's new stamp is after its own last one and, when it merges a        *)
(* message, after the stamp of the message.  The order being transitive,   *)
(* it is then after everything that either of them is after.               *)

(* The timeline's order is a strict order that leaves no two stamps tied.  *)
LEMMA TimeFields == \A x \in HlcTime : x.l \in Nat /\ x.c \in Nat /\ x.id \in Nat
  BY NodeAssumption DEF HlcTime

LEMMA BeforeTransitive ==
  \A x, y, z \in HlcTime : Before(x, y) /\ Before(y, z) => Before(x, z)
  BY TimeFields DEF Before

LEMMA BeforeTotal ==
  \A x, y \in HlcTime : x # y => Before(x, y) \/ Before(y, x)
<1> SUFFICES ASSUME NEW x \in HlcTime, NEW y \in HlcTime, x # y
             PROVE  Before(x, y) \/ Before(y, x)
  OBVIOUS
<1>1. x.l # y.l \/ x.c # y.c \/ x.id # y.id
  BY DEF HlcTime
<1>2. x.l \in Nat /\ x.c \in Nat /\ x.id \in Nat /\ y.l \in Nat /\ y.c \in Nat /\ y.id \in Nat
  BY TimeFields
<1> QED
  BY <1>1, <1>2 DEF Before

LEMMA BeforeIrreflexive == \A x \in HlcTime : ~ Before(x, x)
  BY TimeFields DEF Before

(* A stamp after the latest of some stamps is the latest of them and itself. *)
LEMMA LaterIsLatest ==
  ASSUME NEW S \in SUBSET HlcTime, NEW x \in HlcTime, NEW y \in HlcTime,
         IsLatest(x, S), Before(x, y)
  PROVE  IsLatest(y, S)
<1> SUFFICES ASSUME NEW s \in S PROVE Before(s, y)
  BY DEF IsLatest
<1>1. s = x \/ Before(s, x)
  BY DEF IsLatest
<1> QED
  BY <1>1, BeforeTransitive

-----------------------------------------------------------------------------
ClockInv == TypeOK /\ OrderFollowsCausality /\ CeilingOfObserved

LEMMA ClockStarts == Init => ClockInv
  BY DEF Init, ClockInv, TypeOK, OrderFollowsCausality, CeilingOfObserved, IsLatest, IsCeiling

(* What a new stamp is to what it was made from. *)
Advances(n, newL, newC) == /\ newL \in Nat /\ newC \in Nat
                           /\ Before(snapshot(n), [l |-> newL, c |-> newC, id |-> n])

LEMMA AdvanceRule ==
  ASSUME TypeOK, NEW n \in Node, NEW pt \in Wall
  PROVE  LET newL == Larger(l[n], pt) IN Advances(n, newL, Counter(n, newL))
<1>1. l[n] \in Nat /\ c[n] \in Nat /\ pt \in Nat
  BY WallAssumption DEF TypeOK
<1> QED
  BY <1>1 DEF Advances, Larger, Counter, Before, snapshot

LEMMA MergeRule ==
  ASSUME TypeOK, NEW n \in Node, NEW pt \in Wall, NEW m \in HlcTime,
         NEW newL, newL = Larger(l[n], Larger(m.l, pt))
  PROVE  /\ Advances(n, newL, MergedCounter(n, m, newL))
         /\ Before(m, [l |-> newL, c |-> MergedCounter(n, m, newL), id |-> n])
<1>1. l[n] \in Nat /\ c[n] \in Nat /\ pt \in Nat /\ m.l \in Nat /\ m.c \in Nat
  BY WallAssumption DEF TypeOK, HlcTime
<1>2. newL \in Nat /\ newL >= l[n] /\ newL >= m.l
  BY <1>1 DEF Larger
<1>3. MergedCounter(n, m, newL) \in Nat
  BY <1>1, <1>2 DEF MergedCounter, Larger
<1>4. newL = l[n] => MergedCounter(n, m, newL) > c[n]
  BY <1>1, <1>2 DEF MergedCounter, Larger
<1>5. newL = m.l => MergedCounter(n, m, newL) > m.c
  BY <1>1, <1>2 DEF MergedCounter, Larger
<1> QED
  BY <1>1, <1>2, <1>3, <1>4, <1>5 DEF Advances, Before, snapshot

-----------------------------------------------------------------------------
(* The effect of a stamp that advances n, and is after all of `causes`.    *)
LEMMA StampKeepsClocks ==
  ASSUME ClockInv, NEW n \in Node, NEW newL, NEW newC,
         NEW causes \in SUBSET HlcTime, NEW clocks \in SUBSET Wall,
         Stamp(n, newL, newC, causes, clocks),
         newL \in Nat, newC \in Nat,
         IsLatest([l |-> newL, c |-> newC, id |-> n], causes),
         IsCeiling(newL, clocks)
  PROVE  /\ l' \in [Node -> Nat] /\ c' \in [Node -> Nat]
         /\ past' \in [Node -> SUBSET HlcTime]
         /\ readings' \in [Node -> SUBSET Wall]
         /\ issued' \in [Node -> Nat]
         /\ snapshot(n)' = [l |-> newL, c |-> newC, id |-> n]
         /\ \A k \in Node : IsLatest(snapshot(k)', past'[k])
         /\ \A k \in Node : IsCeiling(l'[k], readings'[k])
<1> DEFINE new == [l |-> newL, c |-> newC, id |-> n]
<1>1. new \in HlcTime
  BY DEF HlcTime
<1>2. /\ l' = [l EXCEPT ![n] = newL]
      /\ c' = [c EXCEPT ![n] = newC]
      /\ past' = [past EXCEPT ![n] = causes \cup {new}]
      /\ readings' = [readings EXCEPT ![n] = clocks]
      /\ issued' = [issued EXCEPT ![n] = @ + 1]
  BY DEF Stamp
<1>3. /\ l \in [Node -> Nat] /\ c \in [Node -> Nat]
      /\ past \in [Node -> SUBSET HlcTime]
      /\ readings \in [Node -> SUBSET Wall]
      /\ issued \in [Node -> Nat]
  BY DEF ClockInv, TypeOK
<1>4. snapshot(n)' = new
  BY <1>2, <1>3 DEF snapshot
<1>5. \A k \in Node : IsLatest(snapshot(k)', past'[k])
  <2> TAKE k \in Node
  <2>1. CASE k = n
    <3>1. past'[k] = causes \cup {new}
      BY <1>2, <1>3, <2>1
    <3>2. snapshot(k)' = new
      BY <1>4, <2>1
    <3> QED
      BY <3>1, <3>2 DEF IsLatest
  <2>2. CASE k # n
    <3>1. past'[k] = past[k] /\ snapshot(k)' = snapshot(k)
      BY <1>2, <1>3, <2>2 DEF snapshot
    <3> QED
      BY <3>1 DEF ClockInv, OrderFollowsCausality
  <2> QED
    BY <2>1, <2>2
<1>6. \A k \in Node : IsCeiling(l'[k], readings'[k])
  BY <1>2, <1>3 DEF ClockInv, CeilingOfObserved
<1>7. l' \in [Node -> Nat] /\ c' \in [Node -> Nat] /\ issued' \in [Node -> Nat]
  BY <1>2, <1>3
<1>8. past' \in [Node -> SUBSET HlcTime]
  <2>1. causes \cup {new} \in SUBSET HlcTime
    BY <1>1
  <2> HIDE DEF new
  <2> QED
    BY <1>2, <1>3, <2>1
<1>9. readings' \in [Node -> SUBSET Wall]
  BY <1>2, <1>3
<1> QED
  BY <1>4, <1>5, <1>6, <1>7, <1>8, <1>9

(* A local event. *)
LEMMA AdvanceEffect ==
  ASSUME ClockInv, NEW n \in Node, NEW pt \in Wall, Advance(n, pt)
  PROVE  /\ l' \in [Node -> Nat] /\ c' \in [Node -> Nat]
         /\ past' \in [Node -> SUBSET HlcTime]
         /\ readings' \in [Node -> SUBSET Wall]
         /\ issued' \in [Node -> Nat]
         /\ \A k \in Node : IsLatest(snapshot(k)', past'[k])
         /\ \A k \in Node : IsCeiling(l'[k], readings'[k])
<1> DEFINE newL == Larger(l[n], pt)
           newC == Counter(n, newL)
           clocks == readings[n] \cup {pt}
<1>1. Stamp(n, newL, newC, past[n], clocks)
  BY DEF Advance
<1>2. Advances(n, newL, newC)
  BY AdvanceRule DEF ClockInv
<1>3. /\ past[n] \in SUBSET HlcTime /\ clocks \in SUBSET Wall
      /\ snapshot(n) \in HlcTime /\ l[n] \in Nat /\ pt \in Nat
  BY WallAssumption DEF ClockInv, TypeOK, snapshot, HlcTime
<1>4. newL \in Nat /\ newC \in Nat /\ [l |-> newL, c |-> newC, id |-> n] \in HlcTime
  BY <1>2 DEF Advances, HlcTime
<1>5. IsLatest([l |-> newL, c |-> newC, id |-> n], past[n])
  BY <1>2, <1>3, <1>4, LaterIsLatest DEF Advances, ClockInv, OrderFollowsCausality
<1>6. IsCeiling(newL, clocks)
  <2>1. IsCeiling(l[n], readings[n]) /\ readings[n] \subseteq Nat
    BY <1>3, WallAssumption DEF ClockInv, CeilingOfObserved
  <2> QED
    BY <1>3, <2>1 DEF IsCeiling, Larger
<1> HIDE DEF newL, newC, clocks
<1> QED
  BY <1>1, <1>3, <1>4, <1>5, <1>6, StampKeepsClocks

LEMMA SendKeepsClocks ==
  ASSUME ClockInv, NEW n \in Node, send(n)
  PROVE  ClockInv'
<1> DEFINE msg == [stamp |-> snapshot(n)', past |-> past'[n], readings |-> readings'[n]]
<1>1. PICK pt \in Wall : Advance(n, pt)
  BY DEF send
<1>2. messages' = messages \cup {msg}
  BY DEF send
<1>3. /\ l' \in [Node -> Nat] /\ c' \in [Node -> Nat]
      /\ past' \in [Node -> SUBSET HlcTime]
      /\ readings' \in [Node -> SUBSET Wall]
      /\ issued' \in [Node -> Nat]
      /\ \A k \in Node : IsLatest(snapshot(k)', past'[k])
      /\ \A k \in Node : IsCeiling(l'[k], readings'[k])
  BY <1>1, AdvanceEffect
<1>4. /\ msg \in Message
      /\ IsLatest(msg.stamp, msg.past)
      /\ IsCeiling(msg.stamp.l, msg.readings)
  <2>1. snapshot(n)' \in HlcTime /\ snapshot(n)'.l = l'[n]
    BY <1>3 DEF snapshot, HlcTime
  <2> QED
    BY <1>3, <2>1 DEF Message
<1> HIDE DEF msg
<1>5. TypeOK'
  BY <1>2, <1>3, <1>4 DEF ClockInv, TypeOK
<1>6. OrderFollowsCausality'
  BY <1>2, <1>3, <1>4 DEF ClockInv, OrderFollowsCausality, IsLatest, Before
<1>7. CeilingOfObserved'
  BY <1>2, <1>3, <1>4 DEF ClockInv, CeilingOfObserved, IsCeiling
<1> QED
  BY <1>5, <1>6, <1>7 DEF ClockInv

LEMMA UpdateKeepsClocks ==
  ASSUME ClockInv, NEW n \in Node, update(n)
  PROVE  ClockInv'
<1>1. PICK pt \in Wall : Advance(n, pt)
  BY DEF update
<1>2. messages' = messages
  BY DEF update
<1> QED
  BY <1>1, <1>2, AdvanceEffect DEF ClockInv, TypeOK, OrderFollowsCausality, CeilingOfObserved

LEMMA RecvKeepsClocks ==
  ASSUME ClockInv, NEW n \in Node, recv(n)
  PROVE  ClockInv'
<1>1. PICK msg \in messages, pt \in Wall :
        LET newL == Larger(l[n], Larger(msg.stamp.l, pt)) IN
        Stamp(n, newL, MergedCounter(n, msg.stamp, newL), past[n] \cup msg.past,
              readings[n] \cup msg.readings \cup {pt})
  BY DEF recv
<1>2. messages' = messages
  BY DEF recv
<1> DEFINE m == msg.stamp
           newL == Larger(l[n], Larger(m.l, pt))
           newC == MergedCounter(n, m, newL)
           new == [l |-> newL, c |-> newC, id |-> n]
           causes == past[n] \cup msg.past
           clocks == readings[n] \cup msg.readings \cup {pt}
<1>3. Stamp(n, newL, newC, causes, clocks)
  BY <1>1
<1>4. msg \in Message /\ m \in HlcTime /\ msg.past \in SUBSET HlcTime /\ msg.readings \in SUBSET Wall
  BY DEF ClockInv, TypeOK, Message
<1>5. Advances(n, newL, newC) /\ Before(m, new)
  BY <1>4, MergeRule DEF ClockInv
<1>6. /\ past[n] \in SUBSET HlcTime /\ causes \in SUBSET HlcTime /\ clocks \in SUBSET Wall
      /\ snapshot(n) \in HlcTime /\ l[n] \in Nat /\ pt \in Nat /\ m.l \in Nat
  BY <1>4, WallAssumption DEF ClockInv, TypeOK, snapshot, HlcTime
<1>7. newL \in Nat /\ newC \in Nat /\ new \in HlcTime
  BY <1>5 DEF Advances, HlcTime
<1>8. IsLatest(new, causes)
  <2>1. IsLatest(new, past[n])
    BY <1>5, <1>6, <1>7, LaterIsLatest DEF Advances, ClockInv, OrderFollowsCausality
  <2>2. IsLatest(new, msg.past)
    BY <1>4, <1>5, <1>7, LaterIsLatest DEF ClockInv, OrderFollowsCausality
  <2> QED
    BY <2>1, <2>2 DEF IsLatest
<1>9. IsCeiling(newL, clocks)
  <2>1. IsCeiling(l[n], readings[n]) /\ IsCeiling(m.l, msg.readings)
    BY DEF ClockInv, CeilingOfObserved
  <2>2. readings[n] \subseteq Nat /\ msg.readings \subseteq Nat
    BY <1>4, <1>6, WallAssumption
  <2> QED
    BY <1>6, <2>1, <2>2 DEF IsCeiling, Larger
<1> HIDE DEF newL, newC, causes, clocks
<1> QED
  BY <1>2, <1>3, <1>6, <1>7, <1>8, <1>9, StampKeepsClocks
  DEF ClockInv, TypeOK, OrderFollowsCausality, CeilingOfObserved

LEMMA StepKeepsClocks == ClockInv /\ [Next]_vars => ClockInv'
<1> SUFFICES ASSUME ClockInv, [Next]_vars PROVE ClockInv'
  OBVIOUS
<1>1. ASSUME NEW n \in Node, send(n) PROVE ClockInv'
  BY <1>1, SendKeepsClocks
<1>2. ASSUME NEW n \in Node, update(n) PROVE ClockInv'
  BY <1>2, UpdateKeepsClocks
<1>3. ASSUME NEW n \in Node, recv(n) PROVE ClockInv'
  BY <1>3, RecvKeepsClocks
<1>4. CASE UNCHANGED vars
  BY <1>4 DEF vars, ClockInv, TypeOK, OrderFollowsCausality, CeilingOfObserved, snapshot
<1> QED
  BY <1>1, <1>2, <1>3, <1>4 DEF Next

(* The inductive invariant holds in every behaviour. *)
THEOREM ClockInvariance == Spec => []ClockInv
  BY ClockStarts, StepKeepsClocks, PTL DEF Spec

(* Clocks, messages and histories keep their types. *)
THEOREM ClockTypeCorrect == Spec => []TypeOK
<1>1. ClockInv => TypeOK
  BY DEF ClockInv
<1> QED
  BY <1>1, ClockInvariance, PTL

(* The order of the timeline agrees with causality. *)
THEOREM Causality == Spec => []OrderFollowsCausality
<1>1. ClockInv => OrderFollowsCausality
  BY DEF ClockInv
<1> QED
  BY <1>1, ClockInvariance, PTL

(* The physical component is the largest reading a node has heard of.      *)
THEOREM Ceiling == Spec => []CeilingOfObserved
<1>1. ClockInv => CeilingOfObserved
  BY DEF ClockInv
<1> QED
  BY <1>1, ClockInvariance, PTL

-----------------------------------------------------------------------------
(* A stamp is after the one its node issued before. *)
LEMMA StepAdvances ==
  ASSUME ClockInv, [Next]_vars, NEW n \in Node, issued'[n] # issued[n]
  PROVE  Before(snapshot(n), snapshot(n)')
<1>1. ASSUME NEW k \in Node, NEW newL, NEW newC, NEW causes, NEW clocks,
             Stamp(k, newL, newC, causes, clocks), Advances(k, newL, newC)
      PROVE  Before(snapshot(n), snapshot(n)')
  <2>1. /\ l' = [l EXCEPT ![k] = newL] /\ c' = [c EXCEPT ![k] = newC]
        /\ issued' = [issued EXCEPT ![k] = @ + 1]
    BY <1>1 DEF Stamp
  <2>2. l \in [Node -> Nat] /\ c \in [Node -> Nat] /\ issued \in [Node -> Nat]
    BY DEF ClockInv, TypeOK
  <2>3. k = n
    BY <2>1, <2>2
  <2>4. snapshot(n)' = [l |-> newL, c |-> newC, id |-> n]
    BY <2>1, <2>2, <2>3 DEF snapshot
  <2> QED
    BY <1>1, <2>3, <2>4 DEF Advances
<1>2. ASSUME NEW k \in Node, NEW pt \in Wall, Advance(k, pt)
      PROVE  Before(snapshot(n), snapshot(n)')
  BY <1>1, <1>2, AdvanceRule DEF Advance, ClockInv
<1>3. ASSUME NEW k \in Node, recv(k)
      PROVE  Before(snapshot(n), snapshot(n)')
  <2>1. PICK msg \in messages, pt \in Wall :
          LET newL == Larger(l[k], Larger(msg.stamp.l, pt)) IN
          Stamp(k, newL, MergedCounter(k, msg.stamp, newL), past[k] \cup msg.past,
                readings[k] \cup msg.readings \cup {pt})
    BY <1>3 DEF recv
  <2>2. msg.stamp \in HlcTime
    BY DEF ClockInv, TypeOK, Message
  <2> DEFINE newL == Larger(l[k], Larger(msg.stamp.l, pt))
  <2>3. Advances(k, newL, MergedCounter(k, msg.stamp, newL))
    BY <2>2, MergeRule DEF ClockInv
  <2> QED
    BY <1>1, <2>1, <2>3
<1>4. ~ UNCHANGED vars
  BY DEF vars
<1> QED
  BY <1>2, <1>3, <1>4 DEF Next, send, update

(* A clock never rewinds and never issues a stamp twice. *)
THEOREM Monotonic == Spec => NeverRewinds
<1>1. ClockInv /\ [Next]_vars =>
        [\A n \in Node : issued'[n] # issued[n] => Before(snapshot(n), snapshot(n)')]_vars
  BY StepAdvances
<1> QED
  BY <1>1, ClockInvariance, PTL DEF Spec, NeverRewinds

-----------------------------------------------------------------------------
(* Lemmas about stacks: sequences that hold no element twice.              *)
LEMMA Pushed ==
  ASSUME NEW T, NEW s \in Seq(T), NEW x \in T, IsInjective(s), x \notin Range(s)
  PROVE  /\ <<x>> \o s \in Seq(T)
         /\ IsInjective(<<x>> \o s)
         /\ Range(<<x>> \o s) = {x} \cup Range(s)
<1> DEFINE a == <<x>>
<1>1. a \in Seq(T) /\ Len(a) = 1 /\ a[1] = x /\ Range(a) = {x}
  BY DEF Range
<1> HIDE DEF a
<1>2. /\ Len(s) \in Nat /\ a \o s \in Seq(T) /\ Len(a \o s) = Len(a) + Len(s)
      /\ \A n \in 1 .. Len(a) : (a \o s)[n] = a[n]
      /\ \A n \in 1 .. Len(s) : (a \o s)[Len(a) + n] = s[n]
  <2>1. a \in Seq(T)
    BY <1>1
  <2> QED
    BY <2>1, ConcatPlaces
<1>3. Range(a \o s) = {x} \cup Range(s)
  BY <1>1, RangeConcatenation
<1> DEFINE r == a \o s
<1> HIDE DEF r
<1>4. /\ r \in Seq(T) /\ Len(r) = 1 + Len(s) /\ r[1] = x
      /\ \A n \in 1 .. Len(s) : r[1 + n] = s[n]
  <2>1. 1 \in 1 .. Len(a)
    BY <1>1
  <2> QED
    BY <1>1, <1>2, <2>1 DEF r
<1>5. DOMAIN r = 1 .. 1 + Len(s) /\ DOMAIN s = 1 .. Len(s)
  BY <1>4, LenProperties
<1>6. \A i \in 1 .. 1 + Len(s) : i = 1 \/ (i - 1 \in 1 .. Len(s) /\ r[i] = s[i - 1])
  <2> TAKE i \in 1 .. 1 + Len(s)
  <2>1. i = 1 \/ (i - 1 \in 1 .. Len(s) /\ 1 + (i - 1) = i)
    BY <1>2
  <2> QED
    BY <1>4, <2>1
<1>7. \A i \in 1 .. Len(s) : s[i] # x
  BY <1>5 DEF Range
<1>8. IsInjective(r)
  <2> SUFFICES ASSUME NEW i \in 1 .. 1 + Len(s), NEW j \in 1 .. 1 + Len(s), r[i] = r[j]
               PROVE  i = j
    BY <1>5 DEF IsInjective
  <2>1. CASE i = 1 \/ j = 1
    BY <1>4, <1>6, <1>7, <2>1
  <2>2. CASE i # 1 /\ j # 1
    <3>1. i - 1 = j - 1
      BY <1>5, <1>6, <2>2 DEF IsInjective
    <3> QED
      BY <3>1, <1>2
  <2> QED
    BY <2>1, <2>2
<1> QED
  BY <1>3, <1>4, <1>8 DEF r, a

LEMMA OnlyInjective ==
  ASSUME NEW T, NEW s \in Seq(T), NEW S, IsInjective(s)
  PROVE  IsInjective(Only(s, S))
<1> DEFINE r == Only(s, S)
<1>1. r \in Seq(T) /\ \E pos : OnlyAt(r, s, S, Len(s), pos)
  BY OnlyPlaces
<1> HIDE DEF r
<1>2. PICK pos : OnlyAt(r, s, S, Len(s), pos)
  BY <1>1
<1>3. DOMAIN r = 1 .. Len(r) /\ DOMAIN s = 1 .. Len(s) /\ Len(r) \in Nat /\ Len(s) \in Nat
  BY <1>1, LenProperties
<1>4. SUFFICES ASSUME NEW i \in 1 .. Len(r), NEW j \in 1 .. Len(r), r[i] = r[j]
               PROVE  i = j
  BY <1>3 DEF IsInjective, r
<1>5. /\ pos[i] \in 1 .. Len(s) /\ pos[j] \in 1 .. Len(s)
      /\ r[i] = s[pos[i]] /\ r[j] = s[pos[j]]
      /\ i < j => pos[i] < pos[j]
      /\ j < i => pos[j] < pos[i]
  BY <1>2 DEF OnlyAt
<1>6. pos[i] = pos[j]
  BY <1>3, <1>4, <1>5 DEF IsInjective
<1> QED
  BY <1>3, <1>5, <1>6

(* The first element that is in a set. *)
LEMMA FirstOf ==
  ASSUME NEW T, NEW s \in Seq(T), NEW S, Range(s) \cap S # {}
  PROVE  First(s, S) \in Range(s) \cap S
<1> DEFINE r == Only(s, S)
<1>1. r \in Seq(T) /\ Range(r) = Range(s) \cap S
  BY OnlyPlaces, RangeOnly
<1>2. First(s, S) = Head(r)
  BY DEF First
<1> HIDE DEF r
<1>3. Len(r) \in Nat /\ DOMAIN r = 1 .. Len(r)
  BY <1>1, LenProperties
<1>4. Len(r) # 0
  BY <1>1, <1>3 DEF Range
<1>5. r[1] \in Range(r) /\ r # <<>>
  BY <1>3, <1>4 DEF Range
<1>6. Head(r) = r[1]
  BY <1>1, <1>5, HeadTailProperties
<1> QED
  BY <1>1, <1>2, <1>5, <1>6

-----------------------------------------------------------------------------
(* The peer connection: its polls.                                         *)
PeerInv == /\ tap \in {"off", "on", "disabled", "restored"}
           /\ tap = "restored" /\ removable => ~ attached
           /\ asked \in 0 .. MaxPolls
           /\ pending \subseteq 1 .. asked
           /\ answers \in [1 .. MaxPolls -> {0, 1}]
           /\ \A n \in 1 .. MaxPolls : n \in pending \/ n > asked => answers[n] = 0
           /\ tap = "restored" => askedBefore = asked
           /\ RestoreEndsReports
           /\ StatsTellThePair

LEMMA PeerStarts == PeerInit => PeerInv
  BY MaxPollsAssumption
  DEF PeerInit, PeerInv, RestoreEndsReports, StatsTellThePair, Silent

LEMMA PickedPair ==
  ASSUME NEW T, NEW pairs \in Seq(T), pairs # <<>>
  PROVE  /\ pickCandidatePair(pairs) \in Range(pairs)
         /\ \A other \in Range(pairs) : Rank(other) <= Rank(pickCandidatePair(pairs))
<1>1. CASE Selected(pairs) # {}
  <2>1. First(pairs, Selected(pairs)) \in Selected(pairs)
    BY <1>1, FirstOf DEF Selected
  <2>2. pickCandidatePair(pairs) = First(pairs, Selected(pairs))
    BY <1>1 DEF pickCandidatePair
  <2> DEFINE p == pickCandidatePair(pairs)
  <2>3. p \in Range(pairs) /\ p.selected
    BY <2>1, <2>2 DEF Selected
  <2> HIDE DEF p
  <2>4. Rank(p) = 2 /\ \A other \in Range(pairs) : Rank(other) <= 2
    BY <2>3 DEF Rank
  <2> QED
    BY <2>3, <2>4 DEF p
<1>2. CASE Selected(pairs) = {} /\ Succeeded(pairs) # {}
  <2>1. First(pairs, Succeeded(pairs)) \in Succeeded(pairs)
    BY <1>2, FirstOf DEF Succeeded
  <2>2. pickCandidatePair(pairs) = First(pairs, Succeeded(pairs))
    BY <1>2 DEF pickCandidatePair
  <2> QED
    BY <1>2, <2>1, <2>2 DEF Selected, Succeeded, Rank
<1>3. CASE Selected(pairs) = {} /\ Succeeded(pairs) = {}
  <2>1. pickCandidatePair(pairs) = Head(pairs)
    BY <1>3 DEF pickCandidatePair
  <2>2. Head(pairs) = pairs[1] /\ 1 \in DOMAIN pairs
    BY HeadTailProperties, LenProperties, EmptySeq
  <2>3. pairs[1] \in Range(pairs)
    BY <2>2 DEF Range
  <2>4. \A other \in Range(pairs) : Rank(other) = 0
    BY <1>3 DEF Selected, Succeeded, Rank
  <2> QED
    BY <2>1, <2>2, <2>3, <2>4
<1> QED
  BY <1>1, <1>2, <1>3

LEMMA StatsTell ==
  ASSUME NEW report \in Reports, report.container # "null"
  PROVE  LET pairs == OfType(report.entries, "candidate-pair")
             stats == extractRelevant(report) IN
         IF pairs = {} THEN stats.pair = None /\ ~ stats.relayed
         ELSE \E pair \in pairs :
                /\ pair.name = stats.pair
                /\ \A other \in pairs : Rank(other) <= Rank(pair)
                /\ stats.relayed \in {word = "relay" : word \in Words(report, pair)}
<1> DEFINE entries == report.entries
           all == OfType(entries, "candidate-pair")
           pairs == Only(entries, all)
           pair == pickCandidatePair(pairs)
           local == CandidateType(entries, "local-candidate", pair.localId, pair.localType)
           stats == extractRelevant(report)
<1>1. entries \in Seq(Range(entries)) /\ toEntries(report).entries = entries
  BY ReportsAssumption DEF toEntries
<1>2. /\ stats.pair = IF pairs = <<>> THEN None ELSE pair.name
      /\ stats.relayed = (pairs # <<>> /\ local = "relay")
  BY <1>1 DEF extractRelevant
<1>3. pairs \in Seq(Range(entries)) /\ Range(pairs) = all
  <2>1. all \subseteq Range(entries)
    BY DEF OfType
  <2>2. entries \in Seq(Range(entries))
    BY <1>1
  <2> HIDE DEF all, entries
  <2>3. pairs \in Seq(Range(entries)) /\ Range(pairs) = Range(entries) \cap all
    BY <2>2, OnlyPlaces, RangeOnly
  <2> QED
    BY <2>1, <2>3
<1> HIDE DEF pairs, stats
<1>4. (pairs = <<>>) <=> (all = {})
  <2>1. DOMAIN pairs = 1 .. Len(pairs) /\ Len(pairs) \in Nat
    BY <1>3, LenProperties
  <2>2. Range(pairs) = {} <=> Len(pairs) = 0
    <3>1. Range(pairs) = {pairs[i] : i \in 1 .. Len(pairs)}
      BY <2>1 DEF Range
    <3>2. CASE Len(pairs) = 0
      BY <3>1, <3>2
    <3>3. CASE Len(pairs) # 0
      <4>1. 1 \in 1 .. Len(pairs)
        BY <2>1, <3>3
      <4> QED
        BY <3>1, <3>3, <4>1
    <3> QED
      BY <3>2, <3>3
  <2> QED
    BY <1>3, <2>2, EmptySeq
<1>5. CASE all = {}
  BY <1>2, <1>4, <1>5 DEF stats
<1>6. CASE all # {}
  <2>1. pair \in all /\ \A other \in all : Rank(other) <= Rank(pair)
    BY <1>3, <1>4, <1>6, PickedPair
  <2> HIDE DEF pair, all
  <2>2. local \in Words(report, pair)
    <3> DEFINE locals == {e \in OfType(entries, "local-candidate") : e.id = pair.localId}
               first == First(entries, locals)
    <3>1. local = IF locals # {} /\ first.candidateType # None
                    THEN first.candidateType ELSE pair.localType
      BY DEF CandidateType
    <3>2. Words(report, pair) =
            IF locals = {} THEN {pair.localType}
            ELSE {IF e.candidateType # None THEN e.candidateType ELSE pair.localType : e \in locals}
      BY DEF Words
    <3>3. locals # {} => first \in locals
      <4>1. Range(entries) \cap locals = locals
        BY DEF OfType
      <4> QED
        BY <1>1, <4>1, FirstOf
    <3> HIDE DEF locals, first, local
    <3> QED
      BY <3>1, <3>2, <3>3
  <2> HIDE DEF local
  <2>3. stats.relayed \in {word = "relay" : word \in Words(report, pair)}
    BY <1>2, <1>4, <1>6, <2>2
  <2> QED
    BY <1>2, <1>4, <1>6, <2>1, <2>3 DEF stats, all
<1> QED
  BY <1>5, <1>6

(* An event that is not an answer of a report tells nothing of a pair.     *)
LEMMA SilentTells ==
  ASSUME seen'.type # "conn.stats"
  PROVE  StatsTellThePair'
  BY DEF StatsTellThePair

LEMMA AnswerKeeps ==
  ASSUME PeerInv, NEW n \in pending, NEW event, Answered(n, event),
         \/ event = Silent
         \/ event.type \in {"conn.stats", "send.error"} /\ event.poll = n,
         StatsTellThePair'
  PROVE  PeerInv'
<1>1. /\ n \in pending /\ pending' = pending \ {n}
      /\ answers' = IF event = Silent THEN answers ELSE [answers EXCEPT ![n] = @ + 1]
      /\ seen' = event /\ UNCHANGED <<transport, removable, tap, attached, asked, askedBefore>>
  BY DEF Answered, target
<1>2. /\ n \in 1 .. asked /\ asked \in 0 .. MaxPolls /\ n \in 1 .. MaxPolls /\ answers[n] = 0
      /\ answers \in [1 .. MaxPolls -> {0, 1}]
  BY MaxPollsAssumption DEF PeerInv
<1>3. /\ answers' \in [1 .. MaxPolls -> {0, 1}]
      /\ \A m \in 1 .. MaxPolls : m # n => answers'[m] = answers[m]
  BY <1>1, <1>2
<1>4. \A m \in 1 .. MaxPolls : m \in pending' \/ m > asked' => answers'[m] = 0
  <2> TAKE m \in 1 .. MaxPolls
  <2> HAVE m \in pending' \/ m > asked'
  <2>1. m # n /\ (m \in pending \/ m > asked)
    BY <1>1, <1>2
  <2> QED
    BY <1>3, <2>1 DEF PeerInv
<1>5. RestoreEndsReports'
  <2>1. \A m \in 1 .. MaxPolls : answers'[m] <= 1
    BY <1>3
  <2>2. tap' = "restored" => askedBefore' = asked /\ pending' \subseteq 1 .. asked
    BY <1>1 DEF PeerInv
  <2>3. seen'.type \in {"conn.stats", "send.error"} => seen'.poll = n
    BY <1>1 DEF Silent
  <2>4. seen'.type # "conn.state"
    BY <1>1 DEF Silent
  <2> QED
    BY <1>1, <1>2, <2>1, <2>2, <2>3, <2>4 DEF RestoreEndsReports
<1> QED
  BY <1>1, <1>3, <1>4, <1>5 DEF PeerInv

LEMMA ErrorAnswers ==
  ASSUME PeerInv, NEW n \in pending, NEW clock, Answered(n, StatsError(n, clock))
  PROVE  PeerInv'
<1> DEFINE event == StatsError(n, clock)
<1>1. event = Silent \/ (event.type = "send.error" /\ event.poll = n)
  BY DEF StatsError
<1> HIDE DEF event
<1>2. seen' = event /\ Answered(n, event)
  BY DEF Answered, event
<1>3. StatsTellThePair'
  BY <1>1, <1>2, SilentTells DEF Silent
<1> QED
  BY <1>1, <1>2, <1>3, AnswerKeeps

LEMMA SilentAnswers ==
  ASSUME PeerInv, NEW n \in pending, Answered(n, Silent)
  PROVE  PeerInv'
<1>1. StatsTellThePair'
  BY SilentTells DEF Answered, Silent
<1> QED
  BY <1>1, AnswerKeeps

LEMMA PeerStep == PeerInv /\ [PeerNext]_peerVars => PeerInv'
<1> SUFFICES ASSUME PeerInv, [PeerNext]_peerVars PROVE PeerInv'
  OBVIOUS
<1> USE MaxPollsAssumption DEF target
<1>1. CASE UNCHANGED peerVars
  BY <1>1 DEF peerVars, PeerInv, RestoreEndsReports, StatsTellThePair
<1>2. ASSUME NEW enabled \in BOOLEAN, instrumentPeerConnection(enabled) PROVE PeerInv'
  <2>1. StatsTellThePair'
    BY <1>2, SilentTells DEF instrumentPeerConnection, Silent
  <2>2. RestoreEndsReports'
    BY <1>2 DEF instrumentPeerConnection, Silent, PeerInv, RestoreEndsReports
  <2> QED
    BY <1>2, <2>1, <2>2 DEF instrumentPeerConnection, PeerInv
<1>3. ASSUME NEW clock \in Clock, StateChange(clock) PROVE PeerInv'
  <2>1. StatsTellThePair'
    BY <1>3, SilentTells DEF StateChange, Silent
  <2>2. seen'.type \in {"conn.state", "none"} /\ (seen'.type = "conn.state" => attached)
    BY <1>3 DEF StateChange, Silent
  <2>3. RestoreEndsReports'
    BY <1>3, <2>2 DEF StateChange, PeerInv, RestoreEndsReports
  <2> QED
    BY <1>3, <2>1, <2>3 DEF StateChange, PeerInv
<1>4. CASE RestorePeer
  <2>1. StatsTellThePair'
    BY <1>4, SilentTells DEF RestorePeer, Silent
  <2>2. tap' = "restored" /\ removable' => ~ attached'
    BY <1>4 DEF RestorePeer
  <2>3. RestoreEndsReports'
    BY <1>4 DEF RestorePeer, Silent, PeerInv, RestoreEndsReports
  <2> QED
    BY <1>4, <2>1, <2>2, <2>3 DEF RestorePeer, PeerInv
<1>5. ASSUME NEW throws \in BOOLEAN, Poll(throws) PROVE PeerInv'
  <2>1. StatsTellThePair'
    BY <1>5, SilentTells DEF Poll, Silent
  <2>2. RestoreEndsReports'
    BY <1>5 DEF Poll, Polls, PeerInv, RestoreEndsReports
  <2> QED
    BY <1>5, <2>1, <2>2 DEF Poll, Polls, PeerInv
<1>6. ASSUME NEW n \in pending, NEW clock \in Clock, Rejected(n, clock) PROVE PeerInv'
  BY <1>6, ErrorAnswers DEF Rejected
<1>7. ASSUME NEW n \in pending, NEW report \in Reports, NEW clock \in Clock,
             Resolved(n, report, clock)
      PROVE  PeerInv'
  <2>1. CASE Malformed(report)
    <3>1. Answered(n, StatsError(n, clock))
      BY <1>7, <2>1 DEF Resolved
    <3> QED
      BY <3>1, ErrorAnswers
  <2>2. CASE ~ Malformed(report) /\ clock = "works"
    <3> DEFINE event == [type |-> "conn.stats", poll |-> n, report |-> report,
                         stats |-> extractRelevant(report)]
    <3>1. Answered(n, event) /\ seen' = event
      BY <1>7, <2>2 DEF Resolved, Answered
    <3>2. StatsTellThePair'
      <4>1. CASE report.container = "null"
        BY <3>1, <4>1 DEF StatsTellThePair
      <4>2. CASE report.container # "null"
        BY <3>1, <4>2, StatsTell DEF StatsTellThePair
      <4> QED
        BY <4>1, <4>2
    <3> QED
      BY <3>1, <3>2, AnswerKeeps
  <2>3. CASE ~ Malformed(report) /\ clock = "fails once"
    <3>1. Answered(n, StatsError(n, "works"))
      BY <1>7, <2>3 DEF Resolved
    <3> QED
      BY <3>1, ErrorAnswers
  <2>4. CASE ~ Malformed(report) /\ clock \notin {"works", "fails once"}
    <3>1. Answered(n, Silent)
      BY <1>7, <2>4 DEF Resolved
    <3> QED
      BY <3>1, SilentAnswers
  <2> QED
    BY <2>1, <2>2, <2>3, <2>4
<1> QED
  BY <1>1, <1>2, <1>3, <1>4, <1>5, <1>6, <1>7 DEF PeerNext

-----------------------------------------------------------------------------
(* The channel: which probes its method goes through, and which listen.    *)
Unwired(p) == /\ p \notin Range(method) /\ p \notin Range(listening)
            /\ \A q \in Probes : p \notin Range(origSend[q])

WiringInv == /\ method \in Seq(Probes) /\ IsInjective(method)
             /\ listening \in Seq(Probes) /\ IsInjective(listening)
             /\ probe \in [Probes -> {"off", "on", "disabled", "restored"}]
             /\ origSend \in [Probes -> Seq(Probes)]
             /\ \A p \in Probes : IsInjective(origSend[p]) /\ p \notin Range(origSend[p])
             /\ \A p \in Probes : probe[p] = "off" => Unwired(p)
             /\ On \subseteq Range(listening)
             /\ removable => Range(listening) = On
             /\ nested => Range(method) = On

LEMMA WiringStarts == ChannelInit => WiringInv
<1> SUFFICES ASSUME ChannelInit PROVE WiringInv
  OBVIOUS
<1>1. <<>> \in Seq(Probes) /\ IsInjective(<<>>) /\ Range(<<>>) = {}
  BY DEF IsInjective, Range
<1>2. /\ method = <<>> /\ listening = <<>> /\ origSend = [p \in Probes |-> <<>>]
      /\ probe = [p \in Probes |-> "off"]
  BY DEF ChannelInit
<1> QED
  BY <1>1, <1>2 DEF WiringInv, Unwired, On

LEMMA InstrumentKeeps ==
  ASSUME WiringInv, NEW p \in Probes, NEW enabled, NEW dev, NEW production,
         InstrumentChannel(p, enabled, dev, production)
  PROVE  WiringInv'
<1>1. /\ probe[p] = "off" /\ Unwired(p)
      /\ nested' = nested /\ removable' = removable
  BY DEF InstrumentChannel, WiringInv
<1>2. CASE UNCHANGED <<method, origSend, listening>> /\ probe' = [probe EXCEPT ![p] = "disabled"]
  <2>1. On' = On
    BY <1>1, <1>2 DEF On, WiringInv
  <2> QED
    BY <1>1, <1>2, <2>1 DEF WiringInv, Unwired
<1>3. CASE /\ probe' = [probe EXCEPT ![p] = "on"]
           /\ origSend' = [origSend EXCEPT ![p] = method]
           /\ method' = <<p>> \o method
           /\ listening' = Append(listening, p)
  <2>1. /\ method \in Seq(Probes) /\ IsInjective(method) /\ p \notin Range(method)
        /\ listening \in Seq(Probes) /\ IsInjective(listening) /\ p \notin Range(listening)
    BY <1>1 DEF WiringInv, Unwired
  <2>2. /\ method' \in Seq(Probes) /\ IsInjective(method')
        /\ Range(method') = {p} \cup Range(method)
    BY <1>3, <2>1, Pushed
  <2>3. /\ listening' \in Seq(Probes) /\ IsInjective(listening')
        /\ Range(listening') = Range(listening) \cup {p}
    BY <1>3, <2>1, AppendFresh, RangeAppend, AppendProperties
  <2>4. /\ \A q \in Probes : q # p => origSend'[q] = origSend[q] /\ probe'[q] = probe[q]
        /\ origSend'[p] = method /\ probe'[p] = "on"
        /\ probe' \in [Probes -> {"off", "on", "disabled", "restored"}]
        /\ origSend' \in [Probes -> Seq(Probes)]
    BY <1>3, <2>1 DEF WiringInv
  <2>5. On' = On \cup {p}
    BY <2>4 DEF On
  <2>6. \A q \in Probes : IsInjective(origSend'[q]) /\ q \notin Range(origSend'[q])
    <3> TAKE q \in Probes
    <3> QED
      BY <2>1, <2>4 DEF WiringInv
  <2>7. ASSUME NEW q \in Probes, probe'[q] = "off" PROVE Unwired(q)'
    <3>1. q # p /\ Unwired(q)
      BY <2>4, <2>7 DEF WiringInv
    <3>2. ASSUME NEW r \in Probes PROVE q \notin Range(origSend'[r])
      BY <2>4, <3>1 DEF Unwired
    <3> QED
      BY <2>2, <2>3, <3>1, <3>2 DEF Unwired
  <2> QED
    BY <1>1, <2>2, <2>3, <2>4, <2>5, <2>6, <2>7 DEF WiringInv
<1> QED
  BY <1>2, <1>3 DEF InstrumentChannel

LEMMA RestoreKeeps ==
  ASSUME WiringInv, NEW p \in Probes, RestoreChannel(p)
  PROVE  WiringInv'
<1>1. /\ probe[p] \in {"on", "restored"} /\ probe' = [probe EXCEPT ![p] = "restored"]
      /\ method' = origSend[p] /\ origSend' = origSend
      /\ listening' = IF removable THEN Others(p) ELSE listening
      /\ removable' = removable
      /\ nested' = (nested /\ method \in {origSend[p], <<p>> \o origSend[p]})
  BY DEF RestoreChannel
<1>2. /\ probe' \in [Probes -> {"off", "on", "disabled", "restored"}]
      /\ \A q \in Probes : q # p => probe'[q] = probe[q]
      /\ probe'[p] = "restored"
  BY <1>1 DEF WiringInv
<1>3. On' = On \ {p}
  BY <1>2 DEF On
<1>4. method' \in Seq(Probes) /\ IsInjective(method')
  BY <1>1 DEF WiringInv
<1>5. /\ listening' \in Seq(Probes) /\ IsInjective(listening')
      /\ Range(listening') \subseteq Range(listening)
      /\ Range(listening) \ {p} \subseteq Range(listening')
      /\ removable => Range(listening') = Range(listening) \ {p}
  <2>1. CASE removable
    <3>1. listening \in Seq(Probes) /\ IsInjective(listening)
      BY DEF WiringInv
    <3>2. listening' = Only(listening, Probes \ {p})
      BY <1>1, <2>1 DEF Others
    <3>3. listening' \in Seq(Probes) /\ Range(listening') = Range(listening) \cap (Probes \ {p})
      BY <3>1, <3>2, OnlyPlaces, RangeOnly
    <3>4. IsInjective(listening') /\ Range(listening) \subseteq Probes
      BY <3>1, <3>2, OnlyInjective, RangeOfSeq
    <3> QED
      BY <3>3, <3>4
  <2>2. CASE ~ removable
    BY <1>1, <2>2 DEF WiringInv
  <2> QED
    BY <2>1, <2>2
<1>6. nested' => Range(method') = On'
  <2> SUFFICES ASSUME nested' PROVE Range(method') = On'
    OBVIOUS
  <2>1. Range(method) = On /\ p \notin Range(origSend[p])
    BY <1>1 DEF WiringInv
  <2>2. CASE method = origSend[p]
    BY <1>1, <1>3, <2>1, <2>2
  <2>3. CASE method = <<p>> \o origSend[p]
    <3>1. Range(method) = {p} \cup Range(origSend[p])
      BY <2>1, <2>3, Pushed DEF WiringInv
    <3> QED
      BY <1>1, <1>3, <2>1, <3>1
  <2> QED
    BY <1>1, <2>2, <2>3
<1>7. ASSUME NEW q \in Probes, probe'[q] = "off" PROVE Unwired(q)'
  <2>1. q # p /\ Unwired(q)
    BY <1>2, <1>7 DEF WiringInv
  <2> QED
    BY <1>1, <1>5, <2>1 DEF Unwired
<1> QED
  BY <1>1, <1>2, <1>3, <1>4, <1>5, <1>6, <1>7 DEF WiringInv

-----------------------------------------------------------------------------
(* The steps of the recursive function that defines Through.               *)
Start(outcome) == [result |-> outcome, events |-> <<>>]

Inner(n) == method[Len(method) + 1 - n]

Passed(f, m, outcome, kind, clocks) ==
  f = [n \in 0 .. m |-> IF n = 0 THEN Start(outcome)
                        ELSE Wrapped(Inner(n), f[n - 1], kind, clocks[Inner(n)])]

IsCall(f, call, outcome, kind, clocks) ==
  /\ f[0] = Start(outcome)
  /\ \A n \in 1 .. Len(method) : f[n] = Wrapped(Inner(n), f[n - 1], kind, clocks[Inner(n)])
  /\ call = f[Len(method)]

LEMMA ThroughSteps ==
  ASSUME Len(method) \in Nat, NEW outcome, NEW kind, NEW clocks
  PROVE  \E f : IsCall(f, Through(outcome, kind, clocks), outcome, kind, clocks)
<1> DEFINE Bad == {n \in 0 .. Len(method) : ~ \E f : Passed(f, n, outcome, kind, clocks)}
<1>1. Bad = {}
  <2>1. SUFFICES ASSUME Bad # {} PROVE FALSE
    OBVIOUS
  <2>2. Bad \in SUBSET Nat
    OBVIOUS
  <2>3. PICK n \in Bad : \A m \in Bad : n <= m
    BY <2>1, <2>2, LeastElement
  <2>4. n \in 0 .. Len(method) /\ ~ \E f : Passed(f, n, outcome, kind, clocks)
    OBVIOUS
  <2>5. n # 0
    <3>1. Passed([i \in 0 .. 0 |-> Start(outcome)], 0, outcome, kind, clocks)
      BY DEF Passed
    <3> QED
      BY <2>4, <3>1
  <2>6. n - 1 \in 0 .. Len(method) /\ n - 1 \notin Bad
    BY <2>3, <2>4, <2>5
  <2>7. PICK f : Passed(f, n - 1, outcome, kind, clocks)
    BY <2>6
  <2>8. Passed([i \in 0 .. n |-> IF i = n THEN Wrapped(Inner(n), f[n - 1], kind, clocks[Inner(n)])
                                 ELSE f[i]], n, outcome, kind, clocks)
    BY <2>4, <2>5, <2>7 DEF Passed
  <2> QED
    BY <2>4, <2>8
<1> DEFINE call == CHOOSE f : Passed(f, Len(method), outcome, kind, clocks)
<1>2. Passed(call, Len(method), outcome, kind, clocks)
  BY <1>1
<1>3. Through(outcome, kind, clocks) = call[Len(method)]
  BY DEF Through, Passed, Start, Inner
<1> HIDE DEF call
<1>4. /\ call[0] = Start(outcome)
      /\ \A n \in 1 .. Len(method) :
           call[n] = Wrapped(Inner(n), call[n - 1], kind, clocks[Inner(n)])
  BY <1>2 DEF Passed
<1> QED
  BY <1>3, <1>4 DEF IsCall

SendTypes == {"request.start", "message.out", "send.error"}
SendEvents(level) == [probe : Probes, type : SendTypes, level : {level}]

CallsOf(outcome) == [result : {outcome, "clock"}, events : Seq(SendEvents(buffered))]

(* A call that has come out of the n innermost wrappers.                   *)
CameOut(call, n, outcome, clocks) ==
  /\ call \in CallsOf(outcome)
  /\ call.result # outcome => call.result = "clock" /\ \E k \in 1 .. n : Inner(k) \in Faulty(clocks)
  /\ \A i, j \in 1 .. Len(call.events) : call.events[i].probe = call.events[j].probe => i = j
  /\ \A i \in 1 .. Len(call.events) : \E k \in 1 .. n : call.events[i].probe = Inner(k)
  /\ (\A k \in 1 .. n : Inner(k) \notin Faulty(clocks)) =>
       \A k \in 1 .. n : \E i \in 1 .. Len(call.events) : call.events[i].probe = Inner(k)

(* What one wrapper does, by its clock: it reports or it does not, and     *)
(* what it reports and what it throws are its own.                         *)
WrapsTo(next, p, call, r, clocks) ==
  /\ r = call.result \/ (r = "clock" /\ p \in Faulty(clocks))
  /\ \/ p \in Faulty(clocks) /\ next = [result |-> r, events |-> call.events]
     \/ \E type \in SendTypes :
          next = [result |-> r, events |-> Append(call.events, Emit(p, type, buffered))]

LEMMA WrapperEffect ==
  ASSUME NEW p \in Probes, NEW outcome \in {"ok", "refused"}, NEW kind, NEW clocks \in Clocks,
         NEW call \in CallsOf(outcome)
  PROVE  \E r \in {outcome, "clock"} :
           WrapsTo(Wrapped(p, call, kind, clocks[p]), p, call, r, clocks)
<1> DEFINE next == Wrapped(p, call, kind, clocks[p])
           Said(type) == Append(call.events, Emit(p, type, buffered))
<1>1. /\ call = [result |-> call.result, events |-> call.events]
      /\ call.result \in {outcome, "clock"}
  BY DEF CallsOf
<1>2. Out(kind) \in SendTypes /\ "send.error" \in SendTypes
  BY DEF Out, SendTypes
<1>3. clocks[p] # "works" => p \in Faulty(clocks)
  BY DEF Faulty
<1>4. CASE call.result = "ok" /\ clocks[p] = "works"
  <2>1. next = [result |-> call.result, events |-> Said(Out(kind))]
    BY <1>1, <1>4 DEF Wrapped
  <2> HIDE DEF next, Said
  <2>2. \E type \in SendTypes : next = [result |-> call.result, events |-> Said(type)]
    BY <1>2, <2>1
  <2> QED
    BY <1>1, <2>2 DEF next, Said, WrapsTo
<1>5. CASE call.result = "ok" /\ clocks[p] = "fails once" /\ transport = "webrtc-dc"
  <2>1. next = [result |-> "clock", events |-> Said("send.error")]
    BY <1>5 DEF Wrapped
  <2> HIDE DEF next, Said
  <2>2. \E type \in SendTypes : next = [result |-> "clock", events |-> Said(type)]
    BY <1>2, <2>1
  <2> QED
    BY <1>3, <1>5, <2>2 DEF next, Said, WrapsTo
<1>6. CASE call.result # "ok" /\ clocks[p] = "works"
  <2>1. next = [result |-> call.result, events |-> Said("send.error")]
    BY <1>1, <1>6 DEF Wrapped
  <2> HIDE DEF next, Said
  <2>2. \E type \in SendTypes : next = [result |-> call.result, events |-> Said(type)]
    BY <1>2, <2>1
  <2> QED
    BY <1>1, <2>2 DEF next, Said, WrapsTo
<1>7. CASE clocks[p] # "works" /\ ~ (call.result = "ok" /\ clocks[p] = "fails once" /\ transport = "webrtc-dc")
  <2>1. next = [result |-> "clock", events |-> call.events]
    BY <1>1, <1>7 DEF Wrapped
  <2> QED
    BY <1>3, <1>7, <2>1 DEF WrapsTo
<1> QED
  BY <1>4, <1>5, <1>6, <1>7

LEMMA ComesOut ==
  ASSUME method \in Seq(Probes), IsInjective(method),
         NEW outcome \in {"ok", "refused"}, NEW kind, NEW clocks \in Clocks,
         NEW n \in 1 .. Len(method), NEW call, CameOut(call, n - 1, outcome, clocks)
  PROVE  CameOut(Wrapped(Inner(n), call, kind, clocks[Inner(n)]), n, outcome, clocks)
<1> DEFINE p == Inner(n)
           events == call.events
           next == Wrapped(p, call, kind, clocks[p])
<1>1. Len(method) \in Nat /\ DOMAIN method = 1 .. Len(method)
  BY LenProperties
<1>2. p \in Probes /\ \A k \in 1 .. n - 1 : Inner(k) # p
  <2>1. \A k \in 1 .. n : Len(method) + 1 - k \in 1 .. Len(method)
    BY <1>1
  <2>2. \A k \in 1 .. n - 1 : Len(method) + 1 - k # Len(method) + 1 - n
    BY <1>1
  <2>3. n \in 1 .. n /\ \A k \in 1 .. n - 1 : k \in 1 .. n
    BY <1>1
  <2>4. \A i \in 1 .. Len(method) : method[i] \in Probes
    BY ElementOfSeq
  <2> QED
    BY <1>1, <2>1, <2>2, <2>3, <2>4 DEF Inner, IsInjective
<1>3. /\ call \in CallsOf(outcome)
      /\ call.result # outcome => call.result = "clock" /\ \E k \in 1 .. n - 1 : Inner(k) \in Faulty(clocks)
      /\ \A i, j \in 1 .. Len(events) : events[i].probe = events[j].probe => i = j
      /\ \A i \in 1 .. Len(events) : \E k \in 1 .. n - 1 : events[i].probe = Inner(k)
      /\ (\A k \in 1 .. n - 1 : Inner(k) \notin Faulty(clocks)) =>
           \A k \in 1 .. n - 1 : \E i \in 1 .. Len(events) : events[i].probe = Inner(k)
  BY DEF CameOut
<1>4. \A k \in 1 .. n : k \in 1 .. n - 1 \/ k = n
  BY <1>1
<1>5. n \in 1 .. n /\ \A k \in 1 .. n - 1 : k \in 1 .. n
  BY <1>1
<1>6. PICK r \in {outcome, "clock"} :
        /\ r = call.result \/ (r = "clock" /\ p \in Faulty(clocks))
        /\ \/ p \in Faulty(clocks) /\ next = [result |-> r, events |-> events]
           \/ \E type \in SendTypes :
                next = [result |-> r, events |-> Append(events, Emit(p, type, buffered))]
  <2>1. p \in Probes /\ call \in CallsOf(outcome)
    BY <1>2, <1>3
  <2> HIDE DEF p
  <2>2. \E r \in {outcome, "clock"} : WrapsTo(next, p, call, r, clocks)
    BY <2>1, WrapperEffect
  <2> QED
    BY <2>2 DEF WrapsTo
<1>7. r # outcome => r = "clock" /\ \E k \in 1 .. n : Inner(k) \in Faulty(clocks)
  BY <1>3, <1>5, <1>6
<1> HIDE DEF next
<1>8. ASSUME p \in Faulty(clocks), next = [result |-> r, events |-> events]
      PROVE  CameOut(next, n, outcome, clocks)
  <2>1. next.result = r /\ next.events = events
    BY <1>8
  <2>2. next \in CallsOf(outcome)
    BY <1>3, <1>8 DEF CallsOf
  <2>3. \A i \in 1 .. Len(events) : \E k \in 1 .. n : events[i].probe = Inner(k)
    BY <1>3, <1>5
  <2>4. ~ \A k \in 1 .. n : Inner(k) \notin Faulty(clocks)
    BY <1>5, <1>8
  <2> QED
    BY <1>3, <1>7, <2>1, <2>2, <2>3, <2>4 DEF CameOut
<1>9. ASSUME NEW type \in SendTypes,
             next = [result |-> r, events |-> Append(events, Emit(p, type, buffered))]
      PROVE  CameOut(next, n, outcome, clocks)
  <2> DEFINE said == Append(events, Emit(p, type, buffered))
             m == Len(events)
  <2>1. Emit(p, type, buffered) \in SendEvents(buffered) /\ Emit(p, type, buffered).probe = p
    BY <1>2 DEF Emit, SendEvents
  <2>2. /\ said \in Seq(SendEvents(buffered)) /\ Len(said) = m + 1 /\ m \in Nat
        /\ \A i \in 1 .. m : said[i] = events[i]
        /\ said[m + 1].probe = p
    BY <1>3, <2>1, AppendProperties, LenProperties DEF CallsOf
  <2> HIDE DEF said
  <2>3. next.result = r /\ next.events = said
    BY <1>9 DEF said
  <2>4. next \in CallsOf(outcome)
    BY <1>9, <2>2 DEF said, CallsOf
  <2>5. /\ \A i \in 1 .. Len(said) : i \in 1 .. m \/ i = m + 1
        /\ \A i \in 1 .. m : i \in 1 .. Len(said)
        /\ m + 1 \in 1 .. Len(said)
    BY <2>2
  <2> HIDE DEF m
  <2>6. \A i \in 1 .. m : \E k \in 1 .. n - 1 : said[i].probe = Inner(k)
    <3> TAKE i \in 1 .. m
    <3>1. said[i] = events[i]
      BY <2>2
    <3>2. \E k \in 1 .. n - 1 : events[i].probe = Inner(k)
      BY <1>3 DEF m
    <3> QED
      BY <3>1, <3>2
  <2>7. \A i, j \in 1 .. Len(said) : said[i].probe = said[j].probe => i = j
    <3>1. \A i, j \in 1 .. m : said[i].probe = said[j].probe => i = j
      BY <1>3, <2>2 DEF m
    <3>2. \A i \in 1 .. m : said[i].probe # said[m + 1].probe
      BY <1>2, <2>2, <2>6
    <3> QED
      BY <2>5, <3>1, <3>2
  <2>8. \A i \in 1 .. Len(said) : \E k \in 1 .. n : said[i].probe = Inner(k)
    BY <1>5, <2>2, <2>5, <2>6
  <2>9. ASSUME \A k \in 1 .. n : Inner(k) \notin Faulty(clocks)
        PROVE  \A k \in 1 .. n : \E i \in 1 .. Len(said) : said[i].probe = Inner(k)
    <3>1. \A k \in 1 .. n - 1 : \E i \in 1 .. m : said[i].probe = Inner(k)
      BY <1>3, <1>5, <2>2, <2>9 DEF m
    <3> QED
      BY <1>4, <2>2, <2>5, <3>1
  <2> QED
    BY <1>7, <2>3, <2>4, <2>7, <2>8, <2>9 DEF CameOut
<1>10. CameOut(next, n, outcome, clocks)
  <2>1. p \in Faulty(clocks) /\ next = [result |-> r, events |-> events]
          => CameOut(next, n, outcome, clocks)
    BY <1>8
  <2> HIDE DEF events, p
  <2> QED
    BY <1>6, <1>9, <2>1
<1> QED
  BY <1>10 DEF next

LEMMA ThroughCameOut ==
  ASSUME method \in Seq(Probes), IsInjective(method),
         NEW outcome \in {"ok", "refused"}, NEW kind, NEW clocks \in Clocks
  PROVE  CameOut(Through(outcome, kind, clocks), Len(method), outcome, clocks)
<1>1. Len(method) \in Nat
  BY LenProperties
<1>0. PICK f : IsCall(f, Through(outcome, kind, clocks), outcome, kind, clocks)
  BY <1>1, ThroughSteps
<1>2. /\ f[0] = Start(outcome)
      /\ \A n \in 1 .. Len(method) :
           f[n] = Wrapped(Inner(n), f[n - 1], kind, clocks[Inner(n)])
      /\ Through(outcome, kind, clocks) = f[Len(method)]
  BY <1>0 DEF IsCall
<1> DEFINE Bad == {n \in 0 .. Len(method) : ~ CameOut(f[n], n, outcome, clocks)}
<1>3. Bad = {}
  <2>1. SUFFICES ASSUME Bad # {} PROVE FALSE
    OBVIOUS
  <2>2. Bad \in SUBSET Nat
    BY <1>1
  <2>3. PICK n \in Bad : \A m \in Bad : n <= m
    BY <2>1, <2>2, LeastElement
  <2>4. n \in 0 .. Len(method) /\ ~ CameOut(f[n], n, outcome, clocks)
    OBVIOUS
  <2>5. CameOut(f[0], 0, outcome, clocks)
    <3>1. <<>> \in Seq(SendEvents(buffered)) /\ Len(<<>>) = 0
      OBVIOUS
    <3> QED
      BY <1>2, <3>1 DEF CameOut, Start, CallsOf
  <2>6. n # 0
    BY <2>4, <2>5
  <2>7. n - 1 \in 0 .. Len(method) /\ n \in 1 .. Len(method) /\ n - 1 \notin Bad
    BY <1>1, <2>3, <2>4, <2>6
  <2>8. CameOut(f[n - 1], n - 1, outcome, clocks)
    BY <2>7
  <2>9. f[n] = Wrapped(Inner(n), f[n - 1], kind, clocks[Inner(n)])
    BY <1>2, <2>7
  <2> QED
    BY <2>4, <2>7, <2>8, <2>9, ComesOut
<1> QED
  BY <1>1, <1>2, <1>3

-----------------------------------------------------------------------------
ChannelInv == WiringInv /\ AppLearnsTheTruth /\ ProbesSeeTraffic

(* Of events by different probes there are as many as there are reporters. *)
LEMMA ReportersCounted ==
  ASSUME NEW T, NEW e \in Seq(T),
         \A i, j \in 1 .. Len(e) : e[i].probe = e[j].probe => i = j
  PROVE  Cardinality({e[i].probe : i \in DOMAIN e}) = Len(e)
<1> DEFINE n == Len(e)
           S == {e[i].probe : i \in DOMAIN e}
           f == [i \in 1 .. n |-> e[i].probe]
<1>1. n \in Nat /\ DOMAIN e = 1 .. n
  BY LenProperties
<1>2. f \in [1 .. n -> S] /\ \A i \in 1 .. n : f[i] = e[i].probe
  BY <1>1
<1>3. \A x \in S : \E i \in 1 .. n : f[i] = x
  BY <1>1
<1>4. IsInjective(f)
  BY <1>2 DEF IsInjective
<1> HIDE DEF f, S
<1>5. f \in Injection(1 .. n, S) /\ f \in Surjection(1 .. n, S)
  BY <1>2, <1>3, <1>4 DEF Injection, Surjection, IsInjective
<1>6. ExistsBijection(1 .. n, S)
  BY <1>5 DEF ExistsBijection, Bijection
<1>7. IsFiniteSet(1 .. n) /\ Cardinality(1 .. n) = n
  BY <1>1, FS_Interval
<1> QED
  BY <1>6, <1>7, FS_Bijection DEF S

LEMMA QuietKeeps ==
  ASSUME did' = Nothing, emitted' = <<>>
  PROVE  AppLearnsTheTruth' /\ ProbesSeeTraffic'
<1>1. Reporting' = {} /\ Cardinality({}) = 0
  BY FS_EmptySet DEF Reporting
<1> QED
  BY <1>1 DEF Nothing, AppLearnsTheTruth, ProbesSeeTraffic

(* What a call reports: the probes it went through, each at most once.     *)
LEMMA SendTells ==
  ASSUME WiringInv, NEW kind, NEW outcome \in {"ok", "refused"}, NEW clocks \in Clocks,
         ChannelSend(kind, outcome, clocks)
  PROVE  AppLearnsTheTruth' /\ ProbesSeeTraffic'
<1> DEFINE call == Through(outcome, kind, clocks)
           events == call.events
<1>1. /\ did' = [op |-> "send", outcome |-> outcome, result |-> call.result,
                 level |-> buffered, faulty |-> Faulty(clocks)]
      /\ emitted' = events
      /\ UNCHANGED <<method, probe, nested>>
  BY DEF ChannelSend, wiring
<1>2. CameOut(call, Len(method), outcome, clocks)
  BY ThroughCameOut DEF WiringInv
<1> HIDE DEF call
<1>3. Len(method) \in Nat /\ DOMAIN method = 1 .. Len(method)
  BY LenProperties DEF WiringInv
<1>4. Range(method) = {Inner(k) : k \in 1 .. Len(method)}
  <2>1. \A k \in 1 .. Len(method) : Len(method) + 1 - k \in 1 .. Len(method)
    BY <1>3
  <2>2. \A i \in 1 .. Len(method) : /\ Len(method) + 1 - i \in 1 .. Len(method)
                                    /\ Len(method) + 1 - (Len(method) + 1 - i) = i
    BY <1>3
  <2>3. \A k \in 1 .. Len(method) : Inner(k) \in Range(method)
    BY <1>3, <2>1 DEF Range, Inner
  <2>4. \A i \in 1 .. Len(method) : \E k \in 1 .. Len(method) : Inner(k) = method[i]
    <3> TAKE i \in 1 .. Len(method)
    <3>1. Inner(Len(method) + 1 - i) = method[i]
      BY <2>2 DEF Inner
    <3> QED
      BY <2>2, <3>1
  <2> QED
    BY <1>3, <2>3, <2>4 DEF Range
<1>5. /\ events \in Seq(SendEvents(buffered))
      /\ call.result # outcome =>
           call.result = "clock" /\ \E k \in 1 .. Len(method) : Inner(k) \in Faulty(clocks)
      /\ \A i, j \in 1 .. Len(events) : events[i].probe = events[j].probe => i = j
      /\ \A i \in 1 .. Len(events) : \E k \in 1 .. Len(method) : events[i].probe = Inner(k)
      /\ (\A k \in 1 .. Len(method) : Inner(k) \notin Faulty(clocks)) =>
           \A k \in 1 .. Len(method) : \E i \in 1 .. Len(events) : events[i].probe = Inner(k)
  BY <1>2 DEF CameOut, CallsOf
<1> HIDE DEF events
<1>6. DOMAIN events = 1 .. Len(events)
  BY <1>5, LenProperties
<1>7. AppLearnsTheTruth'
  <2> SUFFICES ASSUME call.result # outcome
               PROVE  call.result = "clock" /\ \E i \in DOMAIN method : method[i] \in Faulty(clocks)
    BY <1>1 DEF AppLearnsTheTruth
  <2>1. PICK k \in 1 .. Len(method) : Inner(k) \in Faulty(clocks)
    BY <1>5
  <2>2. Inner(k) \in Range(method)
    BY <1>4
  <2> QED
    BY <1>5, <2>1, <2>2 DEF Range
<1>8. Reporting' = {events[i].probe : i \in DOMAIN events}
  BY <1>1 DEF Reporting
<1>9. Cardinality(Reporting') = Len(emitted')
  BY <1>1, <1>5, <1>8, ReportersCounted
<1>10. \A i \in DOMAIN emitted' : emitted'[i].level = did'.level
  <2>1. \A i \in DOMAIN events : events[i] \in SendEvents(buffered)
    BY <1>5, <1>6, ElementOfSeq
  <2> QED
    BY <1>1, <2>1 DEF SendEvents
<1>11. Reporting' \subseteq Range(method)
  BY <1>4, <1>5, <1>6, <1>8
<1>12. Range(method) \cap Faulty(clocks) = {} => Range(method) \subseteq Reporting'
  <2> HAVE Range(method) \cap Faulty(clocks) = {}
  <2>1. \A k \in 1 .. Len(method) : Inner(k) \notin Faulty(clocks)
    BY <1>4
  <2>2. \A k \in 1 .. Len(method) : \E i \in 1 .. Len(events) : events[i].probe = Inner(k)
    BY <1>5, <2>1
  <2>3. \A k \in 1 .. Len(method) : Inner(k) \in Reporting'
    BY <1>6, <1>8, <2>2
  <2> QED
    BY <1>4, <2>3
<1>13. nested' => Range(method) = On'
  BY <1>1 DEF WiringInv, On
<1> QED
  BY <1>1, <1>7, <1>9, <1>10, <1>11, <1>12, <1>13 DEF ProbesSeeTraffic

(* What arrives is reported once by each listener that is told.            *)
LEMMA ArrivalTells ==
  ASSUME NEW op, NEW type, NEW s \in Seq(Probes), IsInjective(s), NEW clocks,
         Arrive(op, type, s, clocks)
  PROVE  /\ did' = [op |-> op, faulty |-> Faulty(clocks)]
         /\ Reporting' = Range(s)
         /\ Cardinality(Reporting') = Len(emitted')
<1>1. /\ did' = [op |-> op, faulty |-> Faulty(clocks)]
      /\ emitted' = [i \in DOMAIN s |-> Emit(s[i], type, buffered)]
  BY DEF Arrive
<1>2. DOMAIN s = 1 .. Len(s) /\ Len(s) \in Nat
  BY LenProperties
<1> DEFINE e == emitted'
           T == {Emit(p, type, buffered) : p \in Probes}
<1>3. e \in [1 .. Len(s) -> T] /\ \A i \in 1 .. Len(s) : e[i].probe = s[i]
  <2>1. \A i \in 1 .. Len(s) : s[i] \in Probes
    BY ElementOfSeq
  <2> QED
    BY <1>1, <1>2, <2>1 DEF Emit
<1> HIDE DEF e, T
<1>4. e \in Seq(T) /\ Len(e) = Len(s) /\ DOMAIN e = 1 .. Len(s)
  BY <1>2, <1>3, LenProperties
<1>5. \A i, j \in 1 .. Len(e) : e[i].probe = e[j].probe => i = j
  BY <1>2, <1>3, <1>4 DEF IsInjective
<1>6. Cardinality({e[i].probe : i \in DOMAIN e}) = Len(e)
  BY <1>4, <1>5, ReportersCounted
<1>7. Reporting' = {e[i].probe : i \in DOMAIN e}
  BY DEF Reporting, e
<1>8. Reporting' = Range(s)
  BY <1>2, <1>3, <1>4, <1>7 DEF Range
<1> QED
  BY <1>1, <1>6, <1>7, <1>8 DEF e

LEMMA WorkingListeners ==
  ASSUME WiringInv, NEW clocks
  PROVE  /\ Working(clocks) \in Seq(Probes) /\ IsInjective(Working(clocks))
         /\ On \ Faulty(clocks) \subseteq Range(Working(clocks))
         /\ removable => Range(Working(clocks)) = On \ Faulty(clocks)
<1>1. listening \in Seq(Probes) /\ IsInjective(listening)
  BY DEF WiringInv
<1>2. /\ Working(clocks) \in Seq(Probes) /\ IsInjective(Working(clocks))
      /\ Range(Working(clocks)) = Range(listening) \cap (Probes \ Faulty(clocks))
  BY <1>1, OnlyPlaces, OnlyInjective, RangeOnly DEF Working
<1> QED
  BY <1>2 DEF WiringInv, On

LEMMA CloseTells ==
  ASSUME WiringInv, NEW clocks, NEW n \in 0 .. Len(listening),
         n < Len(listening) => clocks[listening[n + 1]] # "works",
         Arrive("close", "conn.state", SubSeq(listening, 1, n), clocks)
  PROVE  AppLearnsTheTruth' /\ ProbesSeeTraffic'
<1> DEFINE s == SubSeq(listening, 1, n)
<1>1. listening \in Seq(Probes) /\ IsInjective(listening) /\ Len(listening) \in Nat
  BY LenProperties DEF WiringInv
<1>2. s \in Seq(Probes) /\ Len(s) = n /\ \A i \in 1 .. n : s[i] = listening[i]
  <2>1. \A i \in 1 .. n : listening[i] \in Probes
    BY <1>1, ElementOfSeq
  <2> QED
    BY <1>1, <2>1, SubSeqProperties
<1> HIDE DEF s
<1>3. DOMAIN s = 1 .. n /\ DOMAIN listening = 1 .. Len(listening)
  BY <1>1, <1>2, LenProperties
<1>4. IsInjective(s) /\ Range(s) \subseteq Range(listening)
  <2>1. \A i \in 1 .. n : i \in 1 .. Len(listening)
    BY <1>1
  <2> QED
    BY <1>1, <1>2, <1>3, <2>1 DEF IsInjective, Range
<1>5. /\ did' = [op |-> "close", faulty |-> Faulty(clocks)]
      /\ Reporting' = Range(s) /\ Cardinality(Reporting') = Len(emitted')
  BY <1>2, <1>4, ArrivalTells DEF s
<1>6. On' = On /\ removable' = removable
  BY DEF Arrive, wiring, On
<1>7. removable => /\ Range(s) \subseteq On
                   /\ On \cap Faulty(clocks) = {} => Range(s) = On
  <2> SUFFICES ASSUME removable
               PROVE  /\ Range(s) \subseteq On
                      /\ On \cap Faulty(clocks) = {} => Range(s) = On
    OBVIOUS
  <2>1. Range(listening) = On
    BY DEF WiringInv
  <2>2. CASE n < Len(listening)
    <3>1. n + 1 \in DOMAIN listening /\ listening[n + 1] \in Range(listening)
      BY <1>1, <1>3, <2>2 DEF Range
    <3>2. listening[n + 1] \in On \cap Faulty(clocks)
      BY <2>1, <2>2, <3>1 DEF Faulty, On
    <3> QED
      BY <1>4, <2>1, <3>2
  <2>3. CASE n = Len(listening)
    <3>1. Range(s) = Range(listening)
      BY <1>2, <1>3, <2>3 DEF Range
    <3> QED
      BY <2>1, <3>1
  <2> QED
    BY <1>1, <2>2, <2>3
<1> QED
  BY <1>5, <1>6, <1>7 DEF AppLearnsTheTruth, ProbesSeeTraffic

LEMMA ChannelStep == ChannelInv /\ [ChannelNext]_channelVars => ChannelInv'
<1> SUFFICES ASSUME ChannelInv, [ChannelNext]_channelVars PROVE ChannelInv'
  OBVIOUS
<1>1. WiringInv
  BY DEF ChannelInv
<1>2. CASE UNCHANGED channelVars
  BY <1>2 DEF channelVars, ChannelInv, WiringInv, Unwired, AppLearnsTheTruth, ProbesSeeTraffic,
              On, Reporting
<1>3. UNCHANGED wiring => WiringInv'
  BY <1>1 DEF wiring, WiringInv, Unwired, On
<1>4. ASSUME NEW p \in Probes, RestoreChannel(p) PROVE ChannelInv'
  BY <1>1, <1>4, RestoreKeeps, QuietKeeps DEF ChannelInv, RestoreChannel, Quiet
<1>5. ASSUME NEW p \in Probes, NEW enabled \in BOOLEAN, NEW dev \in BOOLEAN,
             NEW production \in BOOLEAN, InstrumentChannel(p, enabled, dev, production)
      PROVE  ChannelInv'
  BY <1>1, <1>5, InstrumentKeeps, QuietKeeps DEF ChannelInv, InstrumentChannel, Quiet
<1>6. ASSUME NEW clocks \in Clocks, NEW op \in {"message", "low"}, NEW type,
             Arrive(op, type, Working(clocks), clocks)
      PROVE  ChannelInv'
  <2>1. UNCHANGED wiring
    BY <1>6 DEF Arrive
  <2>2. /\ did' = [op |-> op, faulty |-> Faulty(clocks)]
        /\ Reporting' = Range(Working(clocks))
        /\ Cardinality(Reporting') = Len(emitted')
    BY <1>1, <1>6, WorkingListeners, ArrivalTells
  <2>3. /\ On' = On /\ removable' = removable
        /\ On \ Faulty(clocks) \subseteq Reporting'
        /\ removable => Reporting' = On \ Faulty(clocks)
    BY <1>1, <2>1, <2>2, WorkingListeners DEF On, wiring
  <2> QED
    BY <1>3, <2>1, <2>2, <2>3 DEF ChannelInv, AppLearnsTheTruth, ProbesSeeTraffic
<1>7. ASSUME NEW clocks \in Clocks, NEW kind \in {"res", "other"}, ChannelMessage(kind, clocks)
      PROVE  ChannelInv'
  BY <1>6, <1>7 DEF ChannelMessage
<1>8. ASSUME NEW clocks \in Clocks, BufferedAmountLow(clocks) PROVE ChannelInv'
  BY <1>6, <1>8 DEF BufferedAmountLow
<1>9. ASSUME NEW clocks \in Clocks, NEW kind \in {"req", "other"},
             NEW outcome \in {"ok", "refused"}, ChannelSend(kind, outcome, clocks)
      PROVE  ChannelInv'
  BY <1>1, <1>3, <1>9, SendTells DEF ChannelInv, ChannelSend
<1>10. ASSUME NEW clocks \in Clocks, ChannelClose(clocks) PROVE ChannelInv'
  <2>1. PICK n \in 0 .. Len(listening) :
          /\ n < Len(listening) => clocks[listening[n + 1]] # "works"
          /\ Arrive("close", "conn.state", SubSeq(listening, 1, n), clocks)
    BY <1>10 DEF ChannelClose
  <2>2. UNCHANGED wiring
    BY <2>1 DEF Arrive
  <2> QED
    BY <1>1, <1>3, <2>1, <2>2, CloseTells DEF ChannelInv
<1>11. CASE ChannelDrain
  BY <1>3, <1>11, QuietKeeps DEF ChannelDrain, ChannelInv
<1> QED
  BY <1>2, <1>4, <1>5, <1>7, <1>8, <1>9, <1>10, <1>11 DEF ChannelNext

-----------------------------------------------------------------------------
(* The class, and what the probes of each socket tell.                     *)
Unused(p) == p \notin Range(class) /\ \A q \in Layers : p \notin Range(original[q])
OnClass == {p \in Layers : layer[p] = "on"}

ClassInv == /\ class \in Seq(Layers) /\ IsInjective(class)
            /\ original \in [Layers -> Seq(Layers)]
            /\ \A p \in Layers : IsInjective(original[p]) /\ p \notin Range(original[p])
            /\ layer \in [Layers -> {"off", "on", "disabled", "restored"}]
            /\ \A p \in Layers : layer[p] = "off" => Unused(p)
            /\ tidy \in BOOLEAN
            /\ tidy => Range(class) = OnClass

Socket == [probes : Seq(Layers), owned : BOOLEAN,
           phase : {"connecting", "open", "failed", "closed"},
           orderly : BOOLEAN, audience : SUBSET Layers]

(* The probes of a socket are those it was made for.                       *)
Audible(socket) ==
  /\ IsInjective(socket.probes)
  /\ socket.orderly => Range(socket.probes) \subseteq socket.audience
  /\ socket.orderly /\ socket.owned => Range(socket.probes) = socket.audience

SocketsInv == /\ ClassInv
              /\ sockets \in Seq(Socket)
              /\ \A s \in DOMAIN sockets : Audible(sockets[s])
              /\ SocketsToldTruly

LEMMA SocketsStart == SocketInit => SocketsInv
<1> SUFFICES ASSUME SocketInit PROVE SocketsInv
  OBVIOUS
<1>1. <<>> \in Seq(Layers) /\ IsInjective(<<>>) /\ Range(<<>>) = {} /\ <<>> \in Seq(Socket)
  BY DEF IsInjective, Range
<1>2. /\ class = <<>> /\ original = [p \in Layers |-> <<>>]
      /\ layer = [p \in Layers |-> "off"] /\ sockets = <<>> /\ tidy = TRUE
  BY DEF SocketInit
<1>3. ClassInv
  BY <1>1, <1>2 DEF ClassInv, Unused, OnClass
<1>4. SocketsToldTruly
  BY DEF SocketInit, NoAct, SocketsToldTruly
<1> QED
  BY <1>1, <1>2, <1>3, <1>4 DEF SocketsInv

LEMMA InstrumentClassKeeps ==
  ASSUME ClassInv, NEW p \in Layers, NEW enabled, instrumentWebSocket(p, enabled)
  PROVE  ClassInv'
<1>1. layer[p] = "off" /\ Unused(p) /\ tidy' = tidy
  BY DEF instrumentWebSocket, ClassInv
<1>2. CASE layer' = [layer EXCEPT ![p] = "disabled"] /\ UNCHANGED <<class, original>>
  <2>1. OnClass' = OnClass
    BY <1>1, <1>2 DEF OnClass, ClassInv
  <2> QED
    BY <1>1, <1>2, <2>1 DEF ClassInv, Unused
<1>3. CASE /\ layer' = [layer EXCEPT ![p] = "on"]
           /\ original' = [original EXCEPT ![p] = class]
           /\ class' = <<p>> \o class
  <2>1. class \in Seq(Layers) /\ IsInjective(class) /\ p \notin Range(class)
    BY <1>1 DEF ClassInv, Unused
  <2>2. /\ class' \in Seq(Layers) /\ IsInjective(class')
        /\ Range(class') = {p} \cup Range(class)
    BY <1>3, <2>1, Pushed
  <2>3. /\ \A q \in Layers : q # p => original'[q] = original[q] /\ layer'[q] = layer[q]
        /\ original'[p] = class /\ layer'[p] = "on"
        /\ layer' \in [Layers -> {"off", "on", "disabled", "restored"}]
        /\ original' \in [Layers -> Seq(Layers)]
    BY <1>3, <2>1 DEF ClassInv
  <2>4. \A q \in Layers : IsInjective(original'[q]) /\ q \notin Range(original'[q])
    <3> TAKE q \in Layers
    <3> QED
      BY <2>1, <2>3 DEF ClassInv
  <2>5. ASSUME NEW q \in Layers, layer'[q] = "off" PROVE Unused(q)'
    <3>1. q # p /\ Unused(q)
      BY <2>3, <2>5 DEF ClassInv
    <3>2. ASSUME NEW r \in Layers PROVE q \notin Range(original'[r])
      BY <2>3, <3>1 DEF Unused
    <3> QED
      BY <2>2, <3>1, <3>2 DEF Unused
  <2>6. OnClass' = OnClass \cup {p}
    BY <2>3 DEF OnClass
  <2> QED
    BY <1>1, <2>2, <2>3, <2>4, <2>5, <2>6 DEF ClassInv
<1> QED
  BY <1>2, <1>3 DEF instrumentWebSocket

LEMMA RestoreClassKeeps ==
  ASSUME ClassInv, NEW p \in Layers, RestoreClass(p)
  PROVE  ClassInv'
<1>1. /\ layer[p] \in {"on", "restored"} /\ layer' = [layer EXCEPT ![p] = "restored"]
      /\ class' = original[p] /\ original' = original
      /\ tidy' = (tidy /\ class \in {original[p], <<p>> \o original[p]})
  BY DEF RestoreClass
<1>2. /\ layer' \in [Layers -> {"off", "on", "disabled", "restored"}]
      /\ \A q \in Layers : q # p => layer'[q] = layer[q]
      /\ layer'[p] = "restored"
  BY <1>1 DEF ClassInv
<1>3. class' \in Seq(Layers) /\ IsInjective(class') /\ tidy' \in BOOLEAN
  BY <1>1 DEF ClassInv
<1>4. ASSUME NEW q \in Layers, layer'[q] = "off" PROVE Unused(q)'
  BY <1>1, <1>2, <1>4 DEF ClassInv, Unused
<1>5. OnClass' = OnClass \ {p}
  BY <1>2 DEF OnClass
<1>6. tidy' => Range(class') = OnClass'
  <2> SUFFICES ASSUME tidy' PROVE Range(class') = OnClass'
    OBVIOUS
  <2>1. Range(class) = OnClass /\ p \notin Range(original[p])
    BY <1>1 DEF ClassInv
  <2>2. CASE class = original[p]
    BY <1>1, <1>5, <2>1, <2>2
  <2>3. CASE class = <<p>> \o original[p]
    <3>1. Range(class) = {p} \cup Range(original[p])
      BY <2>1, <2>3, Pushed DEF ClassInv
    <3> QED
      BY <1>1, <1>5, <2>1, <3>1
  <2> QED
    BY <1>1, <2>2, <2>3
<1> QED
  BY <1>1, <1>2, <1>3, <1>4, <1>6 DEF ClassInv

(* The probes that tell of something are those whose clocks work.          *)
LEMMA TellingProbes ==
  ASSUME NEW probes \in Seq(Layers), IsInjective(probes), NEW clocks
  PROVE  /\ Telling(probes, clocks) \in Seq(Layers) /\ IsInjective(Telling(probes, clocks))
         /\ Range(Telling(probes, clocks)) = Range(probes) \ Failing(clocks)
<1>1. /\ Telling(probes, clocks) \in Seq(Layers) /\ IsInjective(Telling(probes, clocks))
      /\ Range(Telling(probes, clocks)) = Range(probes) \cap (Layers \ Failing(clocks))
  BY OnlyPlaces, OnlyInjective, RangeOnly DEF Telling
<1>2. Range(probes) \subseteq Layers
  BY RangeOfSeq
<1> QED
  BY <1>1, <1>2

LEMMA ToldOnce ==
  ASSUME NEW probes \in Seq(Layers), IsInjective(probes), NEW type,
         told' = Tagged(probes, type)
  PROVE  Tellers' = Range(probes) /\ Cardinality(Tellers') = Len(told')
<1>1. DOMAIN probes = 1 .. Len(probes) /\ Len(probes) \in Nat
  BY LenProperties
<1> DEFINE e == told'
           T == [probe : Layers, type : {type}]
<1>2. e \in [1 .. Len(probes) -> T] /\ \A i \in 1 .. Len(probes) : e[i].probe = probes[i]
  <2>1. \A i \in 1 .. Len(probes) : probes[i] \in Layers
    BY ElementOfSeq
  <2> QED
    BY <1>1, <2>1 DEF Tagged
<1> HIDE DEF e, T
<1>3. e \in Seq(T) /\ Len(e) = Len(probes) /\ DOMAIN e = 1 .. Len(e)
  BY <1>1, <1>2, LenProperties
<1>4. \A i, j \in 1 .. Len(e) : e[i].probe = e[j].probe => i = j
  BY <1>1, <1>2, <1>3 DEF IsInjective
<1>5. Cardinality({e[i].probe : i \in DOMAIN e}) = Len(e)
  BY <1>3, <1>4, ReportersCounted
<1>6. Tellers' = {e[i].probe : i \in DOMAIN e}
  BY DEF Tellers, e
<1>7. Tellers' = Range(probes)
  BY <1>1, <1>2, <1>3, <1>6 DEF Range
<1> QED
  BY <1>5, <1>6, <1>7 DEF e

(* Something happens to a socket.                                          *)
LEMMA HappensKeeps ==
  ASSUME SocketsInv, NEW s \in DOMAIN sockets, NEW op, op \notin {"none", "send"},
         NEW phase \in {"connecting", "open", "failed", "closed"}, NEW type, NEW clocks,
         Happens(s, op, phase, type, clocks)
  PROVE  SocketsInv'
<1> DEFINE old == sockets[s]
           new == [old EXCEPT !.phase = phase]
<1>1. /\ sockets' = [sockets EXCEPT ![s] = new]
      /\ act' = [op |-> op, socket |-> s, faulty |-> Failing(clocks)]
      /\ told' = Tagged(Telling(old.probes, clocks), type)
      /\ UNCHANGED classVars
  BY DEF Happens
<1>2. sockets \in Seq(Socket) /\ DOMAIN sockets = 1 .. Len(sockets) /\ Len(sockets) \in Nat
  BY LenProperties DEF SocketsInv
<1>3. old \in Socket /\ Audible(old)
  BY <1>2, ElementOfSeq DEF SocketsInv
<1> HIDE DEF old
<1>4. /\ new \in Socket /\ new.probes = old.probes /\ new.owned = old.owned
      /\ new.orderly = old.orderly /\ new.audience = old.audience
  BY <1>3 DEF Socket
<1>5. Audible(new)
  BY <1>3, <1>4 DEF Audible
<1> HIDE DEF new
<1>6. sockets' \in Seq(Socket) /\ DOMAIN sockets' = DOMAIN sockets
  <2>1. sockets' \in [1 .. Len(sockets) -> Socket]
    <3>1. \A k \in 1 .. Len(sockets) : sockets[k] \in Socket
      BY <1>2, ElementOfSeq
    <3> QED
      BY <1>1, <1>2, <1>4, <3>1
  <2> QED
    BY <1>1, <1>2, <2>1, LenProperties
<1>7. \A k \in DOMAIN sockets : sockets'[k] = IF k = s THEN new ELSE sockets[k]
  BY <1>1, <1>2
<1>8. \A k \in DOMAIN sockets' : Audible(sockets'[k])
  BY <1>5, <1>6, <1>7 DEF SocketsInv
<1>9. /\ Tellers' = Range(old.probes) \ Failing(clocks)
      /\ Cardinality(Tellers') = Len(told')
  <2>1. old.probes \in Seq(Layers) /\ IsInjective(old.probes)
    BY <1>3 DEF Socket, Audible
  <2>2. /\ Telling(old.probes, clocks) \in Seq(Layers) /\ IsInjective(Telling(old.probes, clocks))
        /\ Range(Telling(old.probes, clocks)) = Range(old.probes) \ Failing(clocks)
    BY <2>1, TellingProbes
  <2> QED
    BY <1>1, <2>2, ToldOnce
<1>10. act'.op = op /\ act'.socket = s /\ act'.faulty = Failing(clocks) /\ sockets'[act'.socket] = new
  BY <1>1, <1>7
<1>11. HeardByItsProbes(sockets[act.socket])'
  BY <1>3, <1>4, <1>9, <1>10 DEF HeardByItsProbes, Audible
<1>12. SocketsToldTruly'
  BY <1>10, <1>11 DEF SocketsToldTruly
<1>13. ClassInv'
  BY <1>1 DEF SocketsInv, ClassInv, Unused, OnClass, classVars
<1> QED
  BY <1>6, <1>8, <1>12, <1>13 DEF SocketsInv

(* A new socket, with the probes whose constructors had the time.          *)
LEMMA WiredProbes ==
  ASSUME ClassInv, NEW k \in 1 .. Len(class) + 1, NEW clocks
  PROVE  /\ Wired(k, clocks) \in Seq(Layers) /\ IsInjective(Wired(k, clocks))
         /\ Range(Wired(k, clocks)) \subseteq Range(class) \ Failing(clocks)
         /\ k > Len(class) => Range(Wired(k, clocks)) = Range(class) \ Failing(clocks)
<1> DEFINE inner == [i \in 1 .. k - 1 |-> class[Len(class) + 1 - i]]
<1>1. /\ class \in Seq(Layers) /\ IsInjective(class)
      /\ DOMAIN class = 1 .. Len(class) /\ Len(class) \in Nat
  BY LenProperties DEF ClassInv
<1>2. \A i \in 1 .. k - 1 : /\ inner[i] = class[Len(class) + 1 - i]
                           /\ Len(class) + 1 - i \in 1 .. Len(class)
                           /\ inner[i] \in Layers
  <2> TAKE i \in 1 .. k - 1
  <2>1. Len(class) + 1 - i \in 1 .. Len(class)
    BY <1>1
  <2> QED
    BY <1>1, <2>1, ElementOfSeq
<1>3. inner \in [1 .. k - 1 -> Layers]
  BY <1>2
<1>4. inner \in Seq(Layers) /\ DOMAIN inner = 1 .. k - 1
  BY <1>1, <1>3, LenProperties
<1> HIDE DEF inner
<1>5. IsInjective(inner)
  <2> SUFFICES ASSUME NEW i \in 1 .. k - 1, NEW j \in 1 .. k - 1, inner[i] = inner[j]
               PROVE  i = j
    BY <1>4 DEF IsInjective
  <2>1. Len(class) + 1 - i = Len(class) + 1 - j
    BY <1>1, <1>2 DEF IsInjective
  <2> QED
    BY <1>1, <2>1
<1>6. Range(inner) \subseteq Range(class)
  BY <1>1, <1>2, <1>4 DEF Range
<1>7. k > Len(class) => Range(class) \subseteq Range(inner)
  <2> SUFFICES ASSUME k > Len(class), NEW i \in 1 .. Len(class)
               PROVE  class[i] \in Range(inner)
    BY <1>1 DEF Range
  <2>1. /\ Len(class) + 1 - i \in 1 .. k - 1
        /\ Len(class) + 1 - (Len(class) + 1 - i) = i
    BY <1>1
  <2>2. inner[Len(class) + 1 - i] = class[i]
    BY <1>2, <2>1
  <2> QED
    BY <1>4, <2>1, <2>2 DEF Range
<1>8. Wired(k, clocks) = Telling(inner, clocks)
  BY DEF Wired, inner
<1> QED
  BY <1>4, <1>5, <1>6, <1>7, <1>8, TellingProbes

LEMMA ConstructKeeps ==
  ASSUME SocketsInv, NEW k, NEW clocks, Construct(k, clocks)
  PROVE  SocketsInv'
<1> DEFINE probes == Wired(k, clocks)
           audience == OnClass \ Failing(clocks)
           new == [probes |-> probes, owned |-> k > Len(class), phase |-> "connecting",
                   orderly |-> tidy, audience |-> audience]
<1>1. /\ k \in 1 .. Len(class) + 1 /\ sockets' = Append(sockets, new)
      /\ act' = [op |-> "construct", socket |-> Len(sockets) + 1, faulty |-> Failing(clocks)]
      /\ told' = Tagged(probes, "ws.open.attempt")
      /\ UNCHANGED classVars
  BY DEF Construct, OnClass
<1>2. /\ probes \in Seq(Layers) /\ IsInjective(probes)
      /\ Range(probes) \subseteq Range(class) \ Failing(clocks)
      /\ k > Len(class) => Range(probes) = Range(class) \ Failing(clocks)
  BY <1>1, WiredProbes DEF SocketsInv
<1>3. Len(class) \in Nat /\ tidy \in BOOLEAN /\ (tidy => Range(class) = OnClass)
  BY LenProperties DEF SocketsInv, ClassInv
<1> HIDE DEF probes
<1>4. audience \subseteq Layers
  BY DEF OnClass
<1> HIDE DEF audience
<1>5. new \in Socket
  BY <1>2, <1>3, <1>4 DEF Socket
<1>6. /\ new.probes = probes /\ new.orderly = tidy /\ new.audience = audience
      /\ new.owned => k > Len(class)
  OBVIOUS
<1>7. Audible(new)
  BY <1>2, <1>3, <1>6 DEF Audible, audience
<1> HIDE DEF new
<1>8. sockets \in Seq(Socket) /\ DOMAIN sockets = 1 .. Len(sockets) /\ Len(sockets) \in Nat
  BY LenProperties DEF SocketsInv
<1>9. /\ sockets' \in Seq(Socket) /\ Len(sockets') = Len(sockets) + 1
      /\ \A i \in 1 .. Len(sockets) : sockets'[i] = sockets[i]
      /\ sockets'[Len(sockets) + 1] = new
  BY <1>1, <1>5, <1>8, AppendProperties
<1>10. DOMAIN sockets' = 1 .. Len(sockets) + 1
  BY <1>8, <1>9, LenProperties
<1>11. \A s \in DOMAIN sockets' : Audible(sockets'[s])
  <2> TAKE s \in DOMAIN sockets'
  <2>1. s \in 1 .. Len(sockets) \/ s = Len(sockets) + 1
    BY <1>8, <1>10
  <2> QED
    BY <1>7, <1>8, <1>9, <2>1 DEF SocketsInv
<1>12. Tellers' = Range(probes) /\ Cardinality(Tellers') = Len(told')
  BY <1>1, <1>2, ToldOnce
<1>13. act'.op = "construct" /\ act'.faulty = Failing(clocks) /\ sockets'[act'.socket] = new
  BY <1>1, <1>9
<1>14. HeardByItsProbes(sockets[act.socket])'
  BY <1>2, <1>6, <1>7, <1>12, <1>13 DEF HeardByItsProbes, Audible
<1>15. SocketsToldTruly'
  BY <1>13, <1>14 DEF SocketsToldTruly
<1>16. ClassInv'
  BY <1>1 DEF SocketsInv, ClassInv, Unused, OnClass, classVars
<1> QED
  BY <1>9, <1>11, <1>15, <1>16 DEF SocketsInv

-----------------------------------------------------------------------------
(* A send of a socket: the steps of the function that defines SentThrough. *)
Begun(outcome) == [result |-> outcome, told |-> <<>>]

Returned(f, m, probes, outcome, clocks) ==
  f = [n \in 0 .. m |-> IF n = 0 THEN Begun(outcome)
                        ELSE Rewrapped(probes[n], f[n - 1], clocks[probes[n]])]

IsSend(f, call, probes, outcome, clocks) ==
  /\ f[0] = Begun(outcome)
  /\ \A n \in 1 .. Len(probes) : f[n] = Rewrapped(probes[n], f[n - 1], clocks[probes[n]])
  /\ call = f[Len(probes)]

LEMMA SentSteps ==
  ASSUME NEW probes, Len(probes) \in Nat, NEW outcome, NEW clocks
  PROVE  \E f : IsSend(f, SentThrough(probes, outcome, clocks), probes, outcome, clocks)
<1> DEFINE Bad == {n \in 0 .. Len(probes) : ~ \E f : Returned(f, n, probes, outcome, clocks)}
<1>1. Bad = {}
  <2>1. SUFFICES ASSUME Bad # {} PROVE FALSE
    OBVIOUS
  <2>2. Bad \in SUBSET Nat
    OBVIOUS
  <2>3. PICK n \in Bad : \A m \in Bad : n <= m
    BY <2>1, <2>2, LeastElement
  <2>4. n \in 0 .. Len(probes) /\ ~ \E f : Returned(f, n, probes, outcome, clocks)
    OBVIOUS
  <2>5. n # 0
    <3>1. Returned([i \in 0 .. 0 |-> Begun(outcome)], 0, probes, outcome, clocks)
      BY DEF Returned
    <3> QED
      BY <2>4, <3>1
  <2>6. n - 1 \in 0 .. Len(probes) /\ n - 1 \notin Bad
    BY <2>3, <2>4, <2>5
  <2>7. PICK f : Returned(f, n - 1, probes, outcome, clocks)
    BY <2>6
  <2>8. Returned([i \in 0 .. n |-> IF i = n THEN Rewrapped(probes[n], f[n - 1], clocks[probes[n]])
                                  ELSE f[i]], n, probes, outcome, clocks)
    BY <2>4, <2>5, <2>7 DEF Returned
  <2> QED
    BY <2>4, <2>8
<1> DEFINE call == CHOOSE f : Returned(f, Len(probes), probes, outcome, clocks)
<1>2. Returned(call, Len(probes), probes, outcome, clocks)
  BY <1>1
<1>3. SentThrough(probes, outcome, clocks) = call[Len(probes)]
  BY DEF SentThrough, Returned, Begun
<1> HIDE DEF call
<1>4. /\ call[0] = Begun(outcome)
      /\ \A n \in 1 .. Len(probes) : call[n] = Rewrapped(probes[n], call[n - 1], clocks[probes[n]])
  BY <1>2 DEF Returned
<1> QED
  BY <1>3, <1>4 DEF IsSend

SocketEvents == [probe : Layers, type : {"ws.message.out", "send.error"}]

(* What one of the n innermost probes says of a send is true: it went out  *)
(* and no clock up to the probe's failed, or it did not or one of them did.*)
SaysTruly(event, n, probes, outcome, clocks) ==
  IF event.type = "ws.message.out"
    THEN /\ outcome = "ok"
         /\ \A j, m \in 1 .. n : j <= m /\ probes[m] = event.probe => probes[j] \notin Failing(clocks)
    ELSE \/ outcome # "ok"
         \/ \E j, m \in 1 .. n : j <= m /\ probes[m] = event.probe /\ probes[j] \in Failing(clocks)

(* A send that has come out of the n innermost wrappers.                   *)
SentOut(call, n, probes, outcome, clocks) ==
  /\ call \in [result : {outcome, "clock"}, told : Seq(SocketEvents)]
  /\ call.result = "ok" => \A k \in 1 .. n : probes[k] \notin Failing(clocks)
  /\ call.result # outcome =>
       call.result = "clock" /\ \E k \in 1 .. n : probes[k] \in Failing(clocks)
  /\ \A i, j \in 1 .. Len(call.told) : call.told[i].probe = call.told[j].probe => i = j
  /\ \A i \in 1 .. Len(call.told) :
       /\ \E k \in 1 .. n : call.told[i].probe = probes[k]
       /\ SaysTruly(call.told[i], n, probes, outcome, clocks)
  /\ \A k \in 1 .. n : probes[k] \notin Failing(clocks) =>
       \E i \in 1 .. Len(call.told) : call.told[i].probe = probes[k]

(* What is true of the n - 1 innermost probes is true among n.             *)
LEMMA TrulyMore ==
  ASSUME NEW probes \in Seq(Layers), IsInjective(probes), NEW outcome, NEW clocks,
         NEW n \in 1 .. Len(probes), NEW event, NEW k \in 1 .. n - 1, event.probe = probes[k],
         SaysTruly(event, n - 1, probes, outcome, clocks)
  PROVE  SaysTruly(event, n, probes, outcome, clocks)
<1>1. Len(probes) \in Nat /\ DOMAIN probes = 1 .. Len(probes)
  BY LenProperties
<1>2. \A m \in 1 .. n : probes[m] = event.probe => m = k
  BY <1>1 DEF IsInjective
<1>3. CASE event.type = "ws.message.out"
  <2> SUFFICES ASSUME NEW j \in 1 .. n, NEW m \in 1 .. n, j <= m, probes[m] = event.probe
               PROVE  probes[j] \notin Failing(clocks)
    BY <1>3 DEF SaysTruly
  <2>1. m = k /\ j \in 1 .. n - 1 /\ m \in 1 .. n - 1
    BY <1>1, <1>2
  <2> QED
    BY <1>3, <2>1 DEF SaysTruly
<1>4. CASE event.type # "ws.message.out"
  <2>1. \A j \in 1 .. n - 1 : j \in 1 .. n
    BY <1>1
  <2> QED
    BY <1>4, <2>1 DEF SaysTruly
<1> QED
  BY <1>3, <1>4

(* One wrapper says something that is true, or its clock failed.           *)
RewrapsTo(next, n, call, r, probes, outcome, clocks) ==
  /\ r = "ok" => call.result = "ok" /\ probes[n] \notin Failing(clocks)
  /\ r = call.result \/ (r = "clock" /\ probes[n] \in Failing(clocks))
  /\ \/ probes[n] \in Failing(clocks) /\ next = [result |-> r, told |-> call.told]
     \/ \E event \in SocketEvents :
          /\ event.probe = probes[n]
          /\ SaysTruly(event, n, probes, outcome, clocks)
          /\ next = [result |-> r, told |-> Append(call.told, event)]

LEMMA RewrapEffect ==
  ASSUME NEW probes \in Seq(Layers), NEW outcome \in {"ok", "refused"},
         NEW clocks \in SocketClocks, NEW n \in 1 .. Len(probes), NEW call,
         SentOut(call, n - 1, probes, outcome, clocks)
  PROVE  \E r \in {outcome, "clock"} :
           RewrapsTo(Rewrapped(probes[n], call, clocks[probes[n]]), n, call, r, probes, outcome, clocks)
<1> DEFINE p == probes[n]
           next == Rewrapped(p, call, clocks[p])
           Event(type) == [probe |-> p, type |-> type]
<1>1. Len(probes) \in Nat /\ DOMAIN probes = 1 .. Len(probes)
  BY LenProperties
<1>2. p \in Layers
  BY <1>1, ElementOfSeq
<1>3. /\ call = [result |-> call.result, told |-> call.told] /\ call.result \in {outcome, "clock"}
      /\ call.result = "ok" => \A k \in 1 .. n - 1 : probes[k] \notin Failing(clocks)
      /\ call.result # outcome => \E k \in 1 .. n - 1 : probes[k] \in Failing(clocks)
  BY DEF SentOut
<1>4. clocks[p] \in Clock /\ (p \in Failing(clocks) <=> clocks[p] # "works")
  BY <1>2 DEF SocketClocks, Failing
<1>5. n \in 1 .. n /\ \A k \in 1 .. n - 1 : k \in 1 .. n /\ k <= n
  BY <1>1
<1>6. Event("ws.message.out") \in SocketEvents /\ Event("send.error") \in SocketEvents
  BY <1>2 DEF SocketEvents
<1>7. ASSUME p \in Failing(clocks) \/ outcome # "ok" \/ \E k \in 1 .. n - 1 : probes[k] \in Failing(clocks)
      PROVE  SaysTruly(Event("send.error"), n, probes, outcome, clocks)
  BY <1>5, <1>7 DEF SaysTruly
<1>8. CASE call.result = "ok" /\ clocks[p] = "works"
  <2>1. next = [result |-> "ok", told |-> Append(call.told, Event("ws.message.out"))]
    BY <1>3, <1>8 DEF Rewrapped
  <2>2. \A k \in 1 .. n : probes[k] \notin Failing(clocks)
    <3> TAKE k \in 1 .. n
    <3>1. k = n \/ k \in 1 .. n - 1
      BY <1>1
    <3> QED
      BY <1>3, <1>4, <1>8, <3>1
  <2>3. SaysTruly(Event("ws.message.out"), n, probes, outcome, clocks)
    BY <1>3, <1>8, <2>2 DEF SaysTruly
  <2> HIDE DEF next
  <2> QED
    BY <1>3, <1>4, <1>6, <1>8, <2>1, <2>3 DEF next, RewrapsTo
<1>9. CASE call.result = "ok" /\ clocks[p] = "fails once"
  <2>1. next = [result |-> "clock", told |-> Append(call.told, Event("send.error"))]
    BY <1>9 DEF Rewrapped
  <2> HIDE DEF next
  <2> QED
    BY <1>4, <1>6, <1>7, <1>9, <2>1 DEF next, RewrapsTo
<1>10. CASE call.result # "ok" /\ clocks[p] = "works"
  <2>1. next = [result |-> call.result, told |-> Append(call.told, Event("send.error"))]
    BY <1>3, <1>10 DEF Rewrapped
  <2>2. SaysTruly(Event("send.error"), n, probes, outcome, clocks)
    BY <1>3, <1>7, <1>10
  <2> HIDE DEF next
  <2> QED
    BY <1>3, <1>4, <1>6, <1>10, <2>1, <2>2 DEF next, RewrapsTo
<1>11. CASE clocks[p] # "works" /\ ~ (call.result = "ok" /\ clocks[p] = "fails once")
  <2>1. next = [result |-> "clock", told |-> call.told]
    BY <1>3, <1>11 DEF Rewrapped
  <2> HIDE DEF next
  <2> QED
    BY <1>4, <1>11, <2>1 DEF next, RewrapsTo
<1> QED
  BY <1>8, <1>9, <1>10, <1>11

LEMMA SentComesOut ==
  ASSUME NEW probes \in Seq(Layers), IsInjective(probes), NEW outcome \in {"ok", "refused"},
         NEW clocks \in SocketClocks, NEW n \in 1 .. Len(probes), NEW call,
         SentOut(call, n - 1, probes, outcome, clocks)
  PROVE  SentOut(Rewrapped(probes[n], call, clocks[probes[n]]), n, probes, outcome, clocks)
<1> DEFINE p == probes[n]
           next == Rewrapped(p, call, clocks[p])
           failing == p \in Failing(clocks)
           events == call.told
<1>1. Len(probes) \in Nat /\ DOMAIN probes = 1 .. Len(probes)
  BY LenProperties
<1>2. PICK r \in {outcome, "clock"} :
        /\ r = "ok" => call.result = "ok" /\ ~ failing
        /\ r = call.result \/ (r = "clock" /\ failing)
        /\ \/ failing /\ next = [result |-> r, told |-> events]
           \/ \E event \in SocketEvents :
                /\ event.probe = p
                /\ SaysTruly(event, n, probes, outcome, clocks)
                /\ next = [result |-> r, told |-> Append(events, event)]
  <2>1. PICK r \in {outcome, "clock"} : RewrapsTo(next, n, call, r, probes, outcome, clocks)
    BY RewrapEffect
  <2> QED
    BY <2>1 DEF RewrapsTo
<1>3. /\ events \in Seq(SocketEvents) /\ Len(events) \in Nat
      /\ call.result = "ok" => \A k \in 1 .. n - 1 : probes[k] \notin Failing(clocks)
      /\ call.result # outcome =>
           call.result = "clock" /\ \E k \in 1 .. n - 1 : probes[k] \in Failing(clocks)
      /\ \A i, j \in 1 .. Len(events) : events[i].probe = events[j].probe => i = j
      /\ \A k \in 1 .. n - 1 : probes[k] \notin Failing(clocks) =>
           \E i \in 1 .. Len(events) : events[i].probe = probes[k]
  BY LenProperties DEF SentOut
<1>4. \A k \in 1 .. n : k = n \/ k \in 1 .. n - 1
  BY <1>1
<1>5. n \in 1 .. n /\ \A k \in 1 .. n - 1 : k \in 1 .. n /\ probes[k] # p
  BY <1>1 DEF IsInjective
<1>6. \A i \in 1 .. Len(events) : /\ events[i].probe # p
                                  /\ \E k \in 1 .. n : events[i].probe = probes[k]
                                  /\ SaysTruly(events[i], n, probes, outcome, clocks)
  <2> TAKE i \in 1 .. Len(events)
  <2>1. PICK k \in 1 .. n - 1 : events[i].probe = probes[k]
    BY DEF SentOut
  <2>2. SaysTruly(events[i], n - 1, probes, outcome, clocks)
    BY DEF SentOut
  <2> QED
    BY <1>5, <2>1, <2>2, TrulyMore
<1> HIDE DEF next, failing, events, p
<1>7. /\ r = "ok" => \A k \in 1 .. n : probes[k] \notin Failing(clocks)
      /\ r # outcome => r = "clock" /\ \E k \in 1 .. n : probes[k] \in Failing(clocks)
  BY <1>2, <1>3, <1>4, <1>5 DEF failing, p
<1>8. ASSUME failing, next = [result |-> r, told |-> events]
      PROVE  SentOut(next, n, probes, outcome, clocks)
  <2>1. next.result = r /\ next.told = events /\ next \in [result : {outcome, "clock"}, told : Seq(SocketEvents)]
    BY <1>3, <1>8
  <2>2. \A k \in 1 .. n : probes[k] \notin Failing(clocks) =>
          \E i \in 1 .. Len(events) : events[i].probe = probes[k]
    BY <1>3, <1>4, <1>8 DEF failing, p
  <2> QED
    BY <1>3, <1>6, <1>7, <2>1, <2>2 DEF SentOut
<1>9. ASSUME NEW event \in SocketEvents, event.probe = p,
             SaysTruly(event, n, probes, outcome, clocks),
             next = [result |-> r, told |-> Append(events, event)]
      PROVE  SentOut(next, n, probes, outcome, clocks)
  <2> DEFINE said == Append(events, event)
  <2>1. /\ said \in Seq(SocketEvents) /\ Len(said) = Len(events) + 1
        /\ \A i \in 1 .. Len(events) : said[i] = events[i]
        /\ said[Len(events) + 1] = event
    BY <1>3, AppendProperties
  <2> HIDE DEF said
  <2>2. next.result = r /\ next.told = said /\ next \in [result : {outcome, "clock"}, told : Seq(SocketEvents)]
    BY <1>9, <2>1 DEF said
  <2>3. \A i \in 1 .. Len(said) : i \in 1 .. Len(events) \/ i = Len(events) + 1
    BY <1>3, <2>1
  <2>4. ASSUME NEW i \in 1 .. Len(said), NEW j \in 1 .. Len(said), said[i].probe = said[j].probe
        PROVE  i = j
    <3>1. event.probe = p /\ \A k \in 1 .. Len(events) : said[k].probe = events[k].probe /\ events[k].probe # p
      BY <1>6, <1>9, <2>1
    <3>2. CASE i \in 1 .. Len(events) /\ j \in 1 .. Len(events)
      BY <1>3, <2>4, <3>1, <3>2
    <3>3. CASE i = Len(events) + 1 \/ j = Len(events) + 1
      BY <2>1, <2>3, <2>4, <3>1, <3>3
    <3> QED
      BY <2>3, <3>2, <3>3
  <2>5. \A i \in 1 .. Len(said) : /\ \E k \in 1 .. n : said[i].probe = probes[k]
                                  /\ SaysTruly(said[i], n, probes, outcome, clocks)
    BY <1>5, <1>6, <1>9, <2>1, <2>3 DEF p
  <2>6. \A k \in 1 .. n : probes[k] \notin Failing(clocks) =>
          \E i \in 1 .. Len(said) : said[i].probe = probes[k]
    <3> TAKE k \in 1 .. n
    <3> HAVE probes[k] \notin Failing(clocks)
    <3>1. CASE k = n
      <4>1. Len(events) + 1 \in 1 .. Len(said)
        BY <1>3, <2>1
      <4> QED
        BY <1>9, <2>1, <3>1, <4>1 DEF p
    <3>2. CASE k \in 1 .. n - 1
      <4>1. PICK i \in 1 .. Len(events) : events[i].probe = probes[k]
        BY <1>3, <3>2
      <4>2. i \in 1 .. Len(said) /\ said[i] = events[i]
        BY <1>3, <2>1
      <4> QED
        BY <4>1, <4>2
    <3> QED
      BY <1>4, <3>1, <3>2
  <2> QED
    BY <1>7, <2>2, <2>4, <2>5, <2>6 DEF SentOut
<1> QED
  BY <1>2, <1>8, <1>9 DEF next, p

LEMMA SentThroughOut ==
  ASSUME NEW probes \in Seq(Layers), IsInjective(probes), NEW outcome \in {"ok", "refused"},
         NEW clocks \in SocketClocks
  PROVE  SentOut(SentThrough(probes, outcome, clocks), Len(probes), probes, outcome, clocks)
<1>1. Len(probes) \in Nat
  BY LenProperties
<1>2. PICK f : IsSend(f, SentThrough(probes, outcome, clocks), probes, outcome, clocks)
  BY <1>1, SentSteps
<1>3. /\ f[0] = Begun(outcome)
      /\ \A n \in 1 .. Len(probes) : f[n] = Rewrapped(probes[n], f[n - 1], clocks[probes[n]])
      /\ SentThrough(probes, outcome, clocks) = f[Len(probes)]
  BY <1>2 DEF IsSend
<1> DEFINE Bad == {n \in 0 .. Len(probes) : ~ SentOut(f[n], n, probes, outcome, clocks)}
<1>4. Bad = {}
  <2>1. SUFFICES ASSUME Bad # {} PROVE FALSE
    OBVIOUS
  <2>2. Bad \in SUBSET Nat
    BY <1>1
  <2>3. PICK n \in Bad : \A m \in Bad : n <= m
    BY <2>1, <2>2, LeastElement
  <2>4. n \in 0 .. Len(probes) /\ ~ SentOut(f[n], n, probes, outcome, clocks)
    OBVIOUS
  <2>5. SentOut(f[0], 0, probes, outcome, clocks)
    <3>1. <<>> \in Seq(SocketEvents) /\ Len(<<>>) = 0
      OBVIOUS
    <3> QED
      BY <1>3, <3>1 DEF SentOut, Begun
  <2>6. n # 0
    BY <2>4, <2>5
  <2>7. n - 1 \in 0 .. Len(probes) /\ n \in 1 .. Len(probes) /\ n - 1 \notin Bad
    BY <1>1, <2>3, <2>4, <2>6
  <2>8. SentOut(f[n - 1], n - 1, probes, outcome, clocks)
    BY <2>7
  <2>9. f[n] = Rewrapped(probes[n], f[n - 1], clocks[probes[n]])
    BY <1>3, <2>7
  <2> QED
    BY <2>4, <2>7, <2>8, <2>9, SentComesOut
<1> QED
  BY <1>1, <1>3, <1>4

LEMMA SocketSendKeeps ==
  ASSUME SocketsInv, NEW s \in DOMAIN sockets, NEW clocks \in SocketClocks, SocketSend(s, clocks)
  PROVE  SocketsInv'
<1> DEFINE socket == sockets[s]
           probes == socket.probes
           outcome == IF socket.phase = "connecting" THEN "refused" ELSE "ok"
           call == SentThrough(probes, outcome, clocks)
           n == Len(probes)
<1>1. /\ act' = [op |-> "send", socket |-> s, outcome |-> outcome,
                 result |-> call.result, faulty |-> Failing(clocks)]
      /\ told' = call.told
      /\ UNCHANGED <<classVars, sockets>>
  BY DEF SocketSend
<1>2. sockets \in Seq(Socket) /\ socket \in Socket /\ Audible(socket)
  <2>1. sockets \in Seq(Socket) /\ DOMAIN sockets = 1 .. Len(sockets)
    BY LenProperties DEF SocketsInv
  <2> QED
    BY <2>1, ElementOfSeq DEF SocketsInv
<1>3. probes \in Seq(Layers) /\ IsInjective(probes) /\ outcome \in {"ok", "refused"}
  BY <1>2 DEF Socket, Audible
<1> HIDE DEF outcome
<1>4. SentOut(call, n, probes, outcome, clocks)
  BY <1>3, SentThroughOut
<1> DEFINE events == call.told
           result == call.result
<1>5. /\ events \in Seq(SocketEvents) /\ DOMAIN events = 1 .. Len(events)
      /\ result # outcome => result = "clock" /\ \E k \in 1 .. n : probes[k] \in Failing(clocks)
      /\ \A i, j \in 1 .. Len(events) : events[i].probe = events[j].probe => i = j
      /\ \A i \in 1 .. Len(events) :
           /\ \E k \in 1 .. n : events[i].probe = probes[k]
           /\ SaysTruly(events[i], n, probes, outcome, clocks)
      /\ \A k \in 1 .. n : probes[k] \notin Failing(clocks) =>
           \E i \in 1 .. Len(events) : events[i].probe = probes[k]
  BY <1>4, LenProperties DEF SentOut
<1>6. /\ act'.op = "send" /\ act'.socket = s /\ act'.outcome = outcome /\ act'.result = result
      /\ act'.faulty = Failing(clocks) /\ told' = events /\ sockets'[act'.socket] = socket
  BY <1>1
<1> HIDE DEF events, result, call
<1>7. DOMAIN probes = 1 .. n
  BY <1>3, LenProperties
<1> HIDE DEF n, probes, socket
<1>8. Tellers' = {events[i].probe : i \in 1 .. Len(events)}
  BY <1>5, <1>6 DEF Tellers
<1>9. Cardinality(Tellers') = Len(told')
  BY <1>5, <1>6, <1>8, ReportersCounted
<1>10. /\ Tellers' \subseteq Range(probes)
       /\ Range(probes) \ Failing(clocks) \subseteq Tellers'
  <2>1. Range(probes) = {probes[k] : k \in 1 .. n}
    BY <1>7 DEF Range
  <2>2. \A i \in 1 .. Len(events) : \E k \in 1 .. n : events[i].probe = probes[k]
    BY <1>5
  <2>3. \A k \in 1 .. n : probes[k] \notin Failing(clocks) =>
          \E i \in 1 .. Len(events) : events[i].probe = probes[k]
    BY <1>5
  <2> QED
    BY <1>8, <2>1, <2>2, <2>3
<1>11. HeardByItsProbes(sockets[act.socket])'
  BY <1>2, <1>6, <1>9, <1>10 DEF HeardByItsProbes, Audible, probes
<1>12. SentTruly(sockets[act.socket])'
  <2> DEFINE failed == {i \in 1 .. n : probes[i] \in Failing(clocks)}
             Inside(i) == {j \in failed : \E m \in 1 .. n : j <= m /\ probes[m] = events[i].probe}
  <2>1. result # outcome => result = "clock" /\ failed # {}
    BY <1>5
  <2>2. \A i \in DOMAIN events : IF events[i].type = "ws.message.out"
                                   THEN outcome = "ok" /\ Inside(i) = {}
                                   ELSE outcome # "ok" \/ Inside(i) # {}
    <3> TAKE i \in DOMAIN events
    <3>1. SaysTruly(events[i], n, probes, outcome, clocks)
      BY <1>5
    <3>2. CASE events[i].type = "ws.message.out"
      BY <3>1, <3>2 DEF SaysTruly
    <3>3. CASE events[i].type # "ws.message.out"
      BY <3>1, <3>3 DEF SaysTruly
    <3> QED
      BY <3>2, <3>3
  <2> QED
    BY <1>6, <1>7, <2>1, <2>2 DEF SentTruly, probes
<1>13. SocketsToldTruly'
  BY <1>11, <1>12 DEF SocketsToldTruly
<1>14. ClassInv'
  BY <1>1 DEF SocketsInv, ClassInv, Unused, OnClass, classVars
<1> QED
  BY <1>1, <1>2, <1>13, <1>14 DEF SocketsInv

LEMMA SocketsStep == SocketsInv /\ [SocketNext]_socketVars => SocketsInv'
<1> SUFFICES ASSUME SocketsInv, [SocketNext]_socketVars PROVE SocketsInv'
  OBVIOUS
<1>1. Untold => SocketsToldTruly'
  BY DEF Untold, NoAct, SocketsToldTruly
<1>2. ASSUME NEW p \in Layers, RestoreClass(p) PROVE SocketsInv'
  BY <1>1, <1>2, RestoreClassKeeps DEF SocketsInv, RestoreClass, Untold
<1>3. ASSUME NEW p \in Layers, NEW enabled \in BOOLEAN, instrumentWebSocket(p, enabled)
      PROVE  SocketsInv'
  BY <1>1, <1>3, InstrumentClassKeeps DEF SocketsInv, instrumentWebSocket, Untold
<1>4. ASSUME NEW clocks \in SocketClocks, NEW k \in 1 .. Cardinality(Layers) + 1,
             Construct(k, clocks)
      PROVE  SocketsInv'
  BY <1>4, ConstructKeeps
<1>5. ASSUME NEW clocks \in SocketClocks, NEW s \in DOMAIN sockets,
             \/ SocketOpen(s, clocks) \/ SocketMessage(s, clocks)
             \/ SocketError(s, clocks) \/ SocketClose(s, clocks)
      PROVE  SocketsInv'
  <2>1. CASE SocketOpen(s, clocks)
    BY <2>1, HappensKeeps DEF SocketOpen
  <2>2. CASE SocketMessage(s, clocks)
    BY <2>2, HappensKeeps DEF SocketMessage
  <2>3. CASE SocketError(s, clocks)
    BY <2>3, HappensKeeps DEF SocketError
  <2>4. CASE SocketClose(s, clocks)
    BY <2>4, HappensKeeps DEF SocketClose
  <2> QED
    BY <1>5, <2>1, <2>2, <2>3, <2>4
<1>6. ASSUME NEW clocks \in SocketClocks, NEW s \in DOMAIN sockets, SocketSend(s, clocks)
      PROVE  SocketsInv'
  BY <1>6, SocketSendKeeps
<1>7. CASE UNCHANGED socketVars
  BY <1>7 DEF socketVars, classVars, SocketsInv, ClassInv, Unused, OnClass, SocketsToldTruly,
              HeardByItsProbes, SentTruly, Tellers
<1> QED
  BY <1>2, <1>3, <1>4, <1>5, <1>6, <1>7 DEF SocketNext

-----------------------------------------------------------------------------
(* The adapters together: one of them moves, the others stand still.       *)
AdaptersInv == PeerInv /\ ChannelInv /\ SocketsInv

LEMMA ChannelStarts == ChannelInit => ChannelInv
<1> SUFFICES ASSUME ChannelInit PROVE ChannelInv
  OBVIOUS
<1>1. did = Nothing /\ emitted = <<>>
  BY DEF ChannelInit
<1>2. Reporting = {} /\ Cardinality({}) = 0
  BY <1>1, FS_EmptySet DEF Reporting
<1>3. AppLearnsTheTruth /\ ProbesSeeTraffic
  BY <1>1, <1>2 DEF Nothing, AppLearnsTheTruth, ProbesSeeTraffic
<1> QED
  BY <1>3, WiringStarts DEF ChannelInv

LEMMA AdaptersStep == AdaptersInv /\ [AdaptersNext]_adapterVars => AdaptersInv'
<1> SUFFICES ASSUME AdaptersInv, [AdaptersNext]_adapterVars PROVE AdaptersInv'
  OBVIOUS
<1>1. [PeerNext]_peerVars /\ [ChannelNext]_channelVars /\ [SocketNext]_socketVars
  BY DEF AdaptersNext, adapterVars
<1> QED
  BY <1>1, PeerStep, ChannelStep, SocketsStep DEF AdaptersInv

THEOREM AdaptersInvariance == AdaptersSpec => []AdaptersInv
<1>1. AdaptersInit => AdaptersInv
  BY PeerStarts, ChannelStarts, SocketsStart DEF AdaptersInit, AdaptersInv
<1> QED
  BY <1>1, AdaptersStep, PTL DEF AdaptersSpec

(* Probes stacked on a channel's send are transparent: the application     *)
(* learns what the transport made of its call (send wrappers of webrtc.ts  *)
(* and hyperswarm.ts).                                                     *)
THEOREM Transparency == AdaptersSpec => []AppLearnsTheTruth
<1>1. AdaptersInv => AppLearnsTheTruth
  BY DEF AdaptersInv, ChannelInv
<1> QED
  BY <1>1, AdaptersInvariance, PTL

(* The probes on a channel report each send and each arrival once, and     *)
(* those that came off none (the restores of webrtc.ts and hyperswarm.ts). *)
THEOREM Reporters == AdaptersSpec => []ProbesSeeTraffic
<1>1. AdaptersInv => ProbesSeeTraffic
  BY DEF AdaptersInv, ChannelInv
<1> QED
  BY <1>1, AdaptersInvariance, PTL

(* A peer connection's probe falls silent with its restore, but for the    *)
(* answers to the polls then under way and for listeners the connection    *)
(* cannot take off (the getStats poll and restore() of webrtc.ts).         *)
THEOREM Silence == AdaptersSpec => []RestoreEndsReports
<1>1. AdaptersInv => RestoreEndsReports
  BY DEF AdaptersInv, PeerInv
<1> QED
  BY <1>1, AdaptersInvariance, PTL

(* The statistics it reports are those of the pair that ranks first, for   *)
(* any report (pickCandidatePair and extractRelevant of webrtc.ts).        *)
THEOREM Statistics == AdaptersSpec => []StatsTellThePair
<1>1. AdaptersInv => StatsTellThePair
  BY DEF AdaptersInv, PeerInv
<1> QED
  BY <1>1, AdaptersInvariance, PTL

(* Whatever became of the class since a WebSocket was made, its probes are *)
(* heard, and what they tell of a send is true (websocket.ts).             *)
THEOREM SocketTruths == AdaptersSpec => []SocketsToldTruly
<1>1. AdaptersInv => SocketsToldTruly
  BY DEF AdaptersInv, SocketsInv
<1> QED
  BY <1>1, AdaptersInvariance, PTL

-----------------------------------------------------------------------------
(* Frames.  The prefix of a length, read digit by digit, is the length. *)
LEMMA LengthRead ==
  ASSUME NEW bytes \in Seq(Bytes), Len(bytes) >= PrefixLength,
         NEW n \in Nat, Fits(n, Base, PrefixLength),
         \A i \in 1 .. PrefixLength : bytes[i] = Prefix(n)[i]
  PROVE  LengthOf(bytes) = n
<1>0. PrefixLength \in Nat /\ Base \in Nat \ {0} /\ Len(bytes) \in Nat
  BY PrefixAssumption, LenProperties
<1> DEFINE prefix == SubSeq(bytes, 1, PrefixLength)
           digits == Digits(n, Base, PrefixLength)
<1>1. digits \in Seq(0 .. Base - 1) /\ Len(digits) = PrefixLength
  BY <1>0, DigitsTyped
<1>2. /\ prefix \in Seq(Bytes) /\ Len(prefix) = PrefixLength
      /\ \A i \in 1 .. PrefixLength : prefix[i] = bytes[i]
  <2>1. 1 \in 1 .. Len(bytes) + 1 /\ PrefixLength \in 0 .. Len(bytes) /\ PrefixLength - 1 + 1 = PrefixLength
    BY <1>0
  <2>2. \A i \in 1 .. PrefixLength : 1 + i - 1 = i
    BY <1>0
  <2> QED
    BY <1>0, <2>1, <2>2, SubSeqProperties
<1>3. \A i \in 1 .. PrefixLength : bytes[i] = digits[i]
  BY DEF Prefix
<1> HIDE DEF prefix, digits
<1>4. prefix = digits
  BY <1>1, <1>2, <1>3, SeqEqual
<1>5. Number(digits, Base) = n
  BY <1>0, NumberOfDigits DEF digits
<1> QED
  BY <1>4, <1>5 DEF LengthOf, prefix

-----------------------------------------------------------------------------
Frame(i) == encodeFrame(Payloads[i])

(* The bytes are the frames of the messages n + 1 to m, which end at pos. *)
LaidAt(bytes, n, m, pos) ==
  /\ pos \in [n .. m -> Nat]
  /\ pos[n] = 0 /\ pos[m] = Len(bytes)
  /\ \A i, j \in n .. m : i <= j => pos[i] <= pos[j]
  /\ \A i \in n + 1 .. m : /\ pos[i] = pos[i - 1] + Len(Frame(i))
                           /\ \A k \in 1 .. Len(Frame(i)) : bytes[pos[i - 1] + k] = Frame(i)[k]

Laid(bytes, n, m) == \E pos : LaidAt(bytes, n, m, pos)

LEMMA FrameParts ==
  ASSUME NEW i \in 1 .. Len(Payloads)
  PROVE  /\ Frame(i) \in Seq(Bytes)
         /\ Len(Frame(i)) = PrefixLength + Len(Payloads[i])
         /\ \A k \in 1 .. PrefixLength : Frame(i)[k] = Prefix(Len(Payloads[i]))[k]
         /\ \A k \in 1 .. Len(Payloads[i]) : Frame(i)[PrefixLength + k] = Payloads[i][k]
<1> DEFINE p == Payloads[i]
           head == Prefix(Len(p))
<1>0. PrefixLength \in Nat /\ Base \in Nat \ {0, 1}
  BY PrefixAssumption
<1>1. p \in Seq(Bytes) /\ Len(p) \in Nat
  BY PayloadsAssumption, ElementOfSeq, LenProperties
<1>5. head \in Seq(Bytes) /\ Len(head) = PrefixLength
  <2>1. Base \in Nat \ {0} /\ 0 .. Base - 1 = Bytes
    BY <1>0 DEF Bytes
  <2> HIDE DEF p
  <2>2. Digits(Len(p), Base, PrefixLength) \in Seq(Bytes) /\ Len(Digits(Len(p), Base, PrefixLength)) = PrefixLength
    BY <1>0, <1>1, <2>1, DigitsTyped
  <2> QED
    BY <2>2 DEF Prefix
<1>6. Frame(i) = head \o p
  BY DEF Frame, encodeFrame
<1> HIDE DEF p, head
<1>7. /\ head \o p \in Seq(Bytes) /\ Len(head \o p) = Len(head) + Len(p)
      /\ \A k \in 1 .. Len(head) : (head \o p)[k] = head[k]
      /\ \A k \in 1 .. Len(p) : (head \o p)[Len(head) + k] = p[k]
  BY <1>1, <1>5
<1> QED
  BY <1>5, <1>6, <1>7 DEF p, head

(* One more frame at the end. *)
LEMMA LaidMore ==
  ASSUME NEW bytes \in Seq(Bytes), NEW n \in Nat, NEW m \in Nat, n <= m,
         m + 1 \in 1 .. Len(Payloads), Laid(bytes, n, m)
  PROVE  Laid(bytes \o Frame(m + 1), n, m + 1)
<1>1. PICK pos : LaidAt(bytes, n, m, pos)
  BY DEF Laid
<1> DEFINE f == Frame(m + 1)
           more == bytes \o f
           end == [i \in n .. m + 1 |-> IF i = m + 1 THEN pos[m] + Len(f) ELSE pos[i]]
<1>2. f \in Seq(Bytes) /\ Len(f) \in Nat
  BY FrameParts, LenProperties
<1> HIDE DEF f
<1>3. /\ Len(more) = Len(bytes) + Len(f) /\ Len(bytes) \in Nat
      /\ \A k \in 1 .. Len(bytes) : more[k] = bytes[k]
      /\ \A k \in 1 .. Len(f) : more[Len(bytes) + k] = f[k]
  BY <1>2
<1> HIDE DEF more
<1>4. /\ pos \in [n .. m -> Nat]
      /\ pos[n] = 0 /\ pos[m] = Len(bytes)
      /\ \A i, j \in n .. m : i <= j => pos[i] <= pos[j]
  BY <1>1 DEF LaidAt
<1>5. \A i \in n .. m + 1 : i = m + 1 \/ (i \in n .. m /\ i # m + 1)
  OBVIOUS
<1>6. \A i \in n .. m : end[i] = pos[i] /\ pos[i] \in Nat /\ i <= m
  BY <1>4, <1>5
<1>7. m + 1 \in n .. m + 1 /\ m \in n .. m /\ n \in n .. m
  OBVIOUS
<1>8. end[m + 1] = pos[m] + Len(f) /\ end[m] = pos[m]
  BY <1>6, <1>7
<1>9. end \in [n .. m + 1 -> Nat]
  BY <1>2, <1>4, <1>5, <1>7
<1> HIDE DEF end
<1>10. end[n] = 0 /\ end[m + 1] = Len(more)
  BY <1>3, <1>4, <1>6, <1>7, <1>8
<1>11. \A i, j \in n .. m + 1 : i <= j => end[i] <= end[j]
  <2> TAKE i, j \in n .. m + 1
  <2> HAVE i <= j
  <2>1. CASE j = m + 1
    <3>1. CASE i = m + 1
      BY <1>9, <2>1, <3>1
    <3>2. CASE i \in n .. m
      <4>1. end[i] = pos[i] /\ pos[i] <= pos[m] /\ pos[i] \in Nat /\ pos[m] \in Nat
        BY <1>4, <1>6, <1>7, <3>2
      <4> QED
        BY <1>2, <1>8, <2>1, <4>1
    <3> QED
      BY <1>5, <3>1, <3>2
  <2>2. CASE j \in n .. m
    <3>1. i \in n .. m
      BY <2>2
    <3> QED
      BY <1>4, <1>6, <2>2, <3>1
  <2> QED
    BY <1>5, <2>1, <2>2
<1>12. \A i \in n + 1 .. m + 1 :
         /\ end[i] = end[i - 1] + Len(Frame(i))
         /\ \A k \in 1 .. Len(Frame(i)) : more[end[i - 1] + k] = Frame(i)[k]
  <2> TAKE i \in n + 1 .. m + 1
  <2>1. CASE i = m + 1
    <3>1. i - 1 = m /\ Frame(i) = f
      BY <2>1 DEF f
    <3>2. end[i - 1] = Len(bytes) /\ end[i] = Len(bytes) + Len(f)
      BY <1>4, <1>8, <2>1, <3>1
    <3>3. \A k \in 1 .. Len(f) : more[end[i - 1] + k] = f[k]
      BY <1>3, <3>2
    <3> QED
      BY <3>1, <3>2, <3>3
  <2>2. CASE i # m + 1
    <3>1. i \in n + 1 .. m /\ i \in n .. m /\ i - 1 \in n .. m
      BY <2>2
    <3>2. /\ pos[i] = pos[i - 1] + Len(Frame(i))
          /\ \A k \in 1 .. Len(Frame(i)) : bytes[pos[i - 1] + k] = Frame(i)[k]
      BY <1>1, <3>1 DEF LaidAt
    <3>3. end[i] = pos[i] /\ end[i - 1] = pos[i - 1] /\ pos[i] \in Nat /\ pos[i - 1] \in Nat
      BY <1>6, <3>1
    <3>4. pos[i] <= Len(bytes)
      BY <1>4, <1>6, <1>7, <3>1
    <3>5. i \in 1 .. Len(Payloads)
      BY PayloadsAssumption, LenProperties, <3>1
    <3>6. Len(Frame(i)) \in Nat
      BY <3>5, FrameParts, LenProperties
    <3>7. \A k \in 1 .. Len(Frame(i)) : pos[i - 1] + k \in 1 .. Len(bytes)
      BY <1>3, <3>2, <3>3, <3>4, <3>6
    <3> QED
      BY <1>3, <3>2, <3>3, <3>7
  <2> QED
    BY <2>1, <2>2
<1>13. LaidAt(more, n, m + 1, end)
  BY <1>9, <1>10, <1>11, <1>12 DEF LaidAt
<1> QED
  BY <1>13 DEF Laid, more, f

(* A buffer that begins with a whole frame begins with the next message's: *)
(* the loop cuts that message off and leaves the frames behind it.         *)
LEMMA LaidCut ==
  ASSUME NEW b \in Seq(Bytes), NEW w \in Seq(Bytes), NEW n \in Nat, NEW m \in Nat, n <= m,
         m <= Len(Payloads), Laid(b \o w, n, m), Whole(b)
  PROVE  LET total == PrefixLength + LengthOf(b) IN
         /\ n + 1 <= m
         /\ SubSeq(b, PrefixLength + 1, total) = Payloads[n + 1]
         /\ SubSeq(b, total + 1, Len(b)) \in Seq(Bytes)
         /\ Laid(SubSeq(b, total + 1, Len(b)) \o w, n + 1, m)
<1>1. PICK pos : LaidAt(b \o w, n, m, pos)
  BY DEF Laid
<1>0. /\ PrefixLength \in Nat \ {0} /\ Len(Payloads) \in Nat
      /\ Len(b) \in Nat /\ Len(w) \in Nat
  BY PrefixAssumption, PayloadsAssumption, LenProperties
<1> DEFINE all == b \o w
<1>2. /\ Len(all) = Len(b) + Len(w)
      /\ \A k \in 1 .. Len(b) : all[k] = b[k]
      /\ \A k \in 1 .. Len(w) : all[Len(b) + k] = w[k]
  OBVIOUS
<1>3. LaidAt(all, n, m, pos)
  BY <1>1
<1> HIDE DEF all
<1>4. /\ pos \in [n .. m -> Nat] /\ pos[n] = 0 /\ pos[m] = Len(all)
      /\ \A i, j \in n .. m : i <= j => pos[i] <= pos[j]
  BY <1>3 DEF LaidAt
<1>5. \A i \in n + 1 .. m : /\ pos[i] = pos[i - 1] + Len(Frame(i))
                            /\ \A k \in 1 .. Len(Frame(i)) : all[pos[i - 1] + k] = Frame(i)[k]
  BY <1>3 DEF LaidAt
<1>6. PrefixLength <= Len(b) /\ PrefixLength + LengthOf(b) <= Len(b)
  BY <1>0 DEF Whole
<1>7. n + 1 <= m /\ n + 1 \in n .. m /\ n + 1 \in n + 1 .. m /\ n + 1 \in 1 .. Len(Payloads)
  <2>1. n # m
    BY <1>0, <1>2, <1>4, <1>6
  <2> QED
    BY <1>0, <2>1
<1> DEFINE p == Payloads[n + 1]
           f == Frame(n + 1)
           total == PrefixLength + LengthOf(b)
<1>8. p \in Seq(Bytes) /\ Len(p) \in Nat /\ Fits(Len(p), Base, PrefixLength)
  BY <1>7, PayloadsAssumption, ElementOfSeq, LenProperties
<1>9. /\ Len(f) = PrefixLength + Len(p)
      /\ \A k \in 1 .. PrefixLength : f[k] = Prefix(Len(p))[k]
      /\ \A k \in 1 .. Len(p) : f[PrefixLength + k] = p[k]
  BY <1>7, FrameParts
<1>10. pos[n + 1] = Len(f) /\ \A k \in 1 .. Len(f) : all[k] = f[k]
  <2>1. n + 1 - 1 = n /\ \A k \in 1 .. Len(f) : 0 + k = k
    OBVIOUS
  <2>2. Len(f) \in Nat
    BY <1>0, <1>8, <1>9
  <2>3. /\ pos[n + 1] = pos[n + 1 - 1] + Len(f)
        /\ \A k \in 1 .. Len(f) : all[pos[n + 1 - 1] + k] = f[k]
    BY <1>5, <1>7
  <2>4. pos[n + 1 - 1] = 0
    BY <1>4, <2>1
  <2> HIDE DEF f
  <2>5. \A k \in 1 .. Len(f) : all[0 + k] = f[k]
    BY <2>3, <2>4
  <2> QED
    BY <2>1, <2>2, <2>3, <2>4, <2>5
<1> HIDE DEF p, f
<1>11. LengthOf(b) = Len(p)
  <2>1. \A k \in 1 .. PrefixLength : k \in 1 .. Len(b) /\ k \in 1 .. Len(f)
    BY <1>0, <1>6, <1>8, <1>9
  <2>2. \A k \in 1 .. PrefixLength : b[k] = Prefix(Len(p))[k]
    BY <1>2, <1>9, <1>10, <2>1
  <2>3. b \in Seq(Bytes)
    BY <1>0
  <2> QED
    BY <1>6, <1>8, <2>2, <2>3, LengthRead
<1>12. total = Len(f) /\ total \in Nat /\ total <= Len(b)
  BY <1>0, <1>6, <1>8, <1>9, <1>11
<1> HIDE DEF total
<1> DEFINE message == SubSeq(b, PrefixLength + 1, total)
           rest == SubSeq(b, total + 1, Len(b))
<1>13. message = p
  <2>1. /\ PrefixLength + 1 \in 1 .. Len(b) + 1 /\ total \in 0 .. Len(b)
        /\ PrefixLength <= total /\ total - PrefixLength = Len(p)
    BY <1>0, <1>8, <1>9, <1>12
  <2>2. /\ message \in Seq(Bytes) /\ Len(message) = Len(p)
        /\ \A k \in 1 .. Len(p) : message[k] = b[PrefixLength + k]
    <3> DEFINE from == PrefixLength + 1
    <3>1. from \in 1 .. Len(b) + 1 /\ total \in from - 1 .. Len(b) /\ total - from + 1 = Len(p)
      BY <1>0, <1>8, <2>1
    <3>2. \A k \in 1 .. Len(p) : from + k - 1 = PrefixLength + k
      BY <1>0, <1>8
    <3> HIDE DEF from
    <3>3. /\ SubSeq(b, from, total) \in Seq(Bytes)
          /\ Len(SubSeq(b, from, total)) = total - from + 1
          /\ \A k \in 1 .. total - from + 1 : SubSeq(b, from, total)[k] = b[from + k - 1]
      BY <3>1, SubSeqProperties
    <3>4. \A k \in 1 .. Len(p) : SubSeq(b, from, total)[k] = b[PrefixLength + k]
      BY <3>1, <3>2, <3>3
    <3> QED
      BY <3>1, <3>3, <3>4 DEF from
  <2> HIDE DEF message
  <2>3. \A k \in 1 .. Len(p) : PrefixLength + k \in 1 .. Len(b) /\ PrefixLength + k \in 1 .. Len(f)
    BY <1>0, <1>8, <1>9, <2>1
  <2>4. \A k \in 1 .. Len(p) : message[k] = p[k]
    BY <1>2, <1>9, <1>10, <2>2, <2>3
  <2> QED
    BY <1>8, <2>2, <2>4, SeqEqual
<1>14. /\ rest \in Seq(Bytes) /\ Len(rest) = Len(b) - total
       /\ \A k \in 1 .. Len(b) - total : rest[k] = b[total + k]
  BY <1>0, <1>12
<1> HIDE DEF message, rest
<1> DEFINE d == rest \o w
           end == [i \in n + 1 .. m |-> pos[i] - total]
<1>15. Len(d) = Len(all) - total
  <2>1. Len(d) = Len(rest) + Len(w)
    BY <1>14
  <2> HIDE DEF d
  <2> QED
    BY <1>0, <1>2, <1>12, <1>14, <2>1
<1>16. \A k \in 1 .. Len(d) : d[k] = all[total + k]
  <2>1. /\ \A k \in 1 .. Len(rest) : d[k] = rest[k]
        /\ \A k \in 1 .. Len(w) : d[Len(rest) + k] = w[k]
    BY <1>14
  <2> HIDE DEF d
  <2> TAKE k \in 1 .. Len(d)
  <2>2. CASE k <= Len(rest)
    <3>1. k \in 1 .. Len(rest) /\ total + k \in 1 .. Len(b)
      BY <1>0, <1>2, <1>12, <1>14, <1>15, <2>2
    <3> QED
      BY <1>2, <1>14, <2>1, <3>1
  <2>3. CASE ~ (k <= Len(rest))
    <3>1. /\ k - Len(rest) \in 1 .. Len(w)
          /\ Len(rest) + (k - Len(rest)) = k
          /\ Len(b) + (k - Len(rest)) = total + k
      BY <1>0, <1>2, <1>12, <1>14, <1>15, <2>3
    <3> QED
      BY <1>2, <2>1, <3>1
  <2> QED
    BY <2>2, <2>3
<1> HIDE DEF d
<1>17. \A i \in n + 1 .. m : i \in n .. m /\ pos[i] \in Nat /\ total <= pos[i] /\ pos[i] <= Len(all)
  <2> TAKE i \in n + 1 .. m
  <2>1. i \in n .. m /\ m \in n .. m /\ n + 1 <= i /\ i <= m
    OBVIOUS
  <2> QED
    BY <1>4, <1>7, <1>10, <1>12, <2>1
<1>18. \A i \in n + 1 .. m : end[i] = pos[i] - total /\ end[i] \in Nat
  BY <1>12, <1>17
<1>19. end \in [n + 1 .. m -> Nat]
  BY <1>18
<1> HIDE DEF end
<1>20. end[n + 1] = 0 /\ end[m] = Len(d)
  <2>1. m \in n + 1 .. m
    BY <1>7
  <2> QED
    <3>1. end[n + 1] = pos[n + 1] - total /\ end[m] = pos[m] - total
      BY <1>7, <1>18, <2>1
    <3>2. pos[n + 1] - total = 0
      BY <1>10, <1>12
    <3>3. pos[m] - total = Len(d)
      BY <1>4, <1>15
    <3> QED
      BY <3>1, <3>2, <3>3
<1>21. \A i, j \in n + 1 .. m : i <= j => end[i] <= end[j]
  <2> TAKE i, j \in n + 1 .. m
  <2> HAVE i <= j
  <2>1. pos[i] <= pos[j]
    BY <1>4, <1>17
  <2> QED
    BY <1>12, <1>17, <1>18, <2>1
<1>22. \A i \in n + 1 + 1 .. m :
         /\ end[i] = end[i - 1] + Len(Frame(i))
         /\ \A k \in 1 .. Len(Frame(i)) : d[end[i - 1] + k] = Frame(i)[k]
  <2> TAKE i \in n + 1 + 1 .. m
  <2>1. i \in n + 1 .. m /\ i - 1 \in n + 1 .. m /\ i \in 1 .. Len(Payloads)
    BY <1>0
  <2>2. Len(Frame(i)) \in Nat
    BY <2>1, FrameParts, LenProperties
  <2>3. /\ pos[i] = pos[i - 1] + Len(Frame(i))
        /\ \A k \in 1 .. Len(Frame(i)) : all[pos[i - 1] + k] = Frame(i)[k]
    BY <1>5, <2>1
  <2>4. /\ pos[i - 1] \in Nat /\ pos[i] \in Nat /\ total <= pos[i - 1]
        /\ end[i] = pos[i] - total /\ end[i - 1] = pos[i - 1] - total /\ pos[i] <= Len(all)
    BY <1>17, <1>18, <2>1
  <2>5. end[i] = end[i - 1] + Len(Frame(i))
    BY <1>12, <2>2, <2>3, <2>4
  <2>6. \A k \in 1 .. Len(Frame(i)) : end[i - 1] + k \in 1 .. Len(d) /\ total + (end[i - 1] + k) = pos[i - 1] + k
    <3>1. Len(all) \in Nat
      BY <1>0, <1>2
    <3> DEFINE x == pos[i - 1]
               y == Len(Frame(i))
               z == Len(all)
    <3>2. /\ x \in Nat /\ y \in Nat /\ z \in Nat /\ total \in Nat /\ total <= x
          /\ x + y <= z
      BY <1>12, <2>2, <2>3, <2>4, <3>1
    <3>3. end[i - 1] = x - total /\ Len(d) = z - total
      BY <1>15, <2>4
    <3> HIDE DEF x, y, z
    <3>4. \A k \in 1 .. y : x - total + k \in 1 .. z - total /\ total + (x - total + k) = x + k
      BY <3>2
    <3> QED
      BY <3>3, <3>4 DEF x, y
  <2> QED
    BY <1>16, <2>3, <2>5, <2>6
<1>23. Laid(d, n + 1, m)
  <2>1. LaidAt(d, n + 1, m, end)
    BY <1>19, <1>20, <1>21, <1>22 DEF LaidAt
  <2> QED
    BY <2>1 DEF Laid
<1> QED
  BY <1>7, <1>13, <1>14, <1>23 DEF total, message, rest, d, p

(* A chunk moves from the wire to the buffer. *)
LEMMA ChunkMoves ==
  ASSUME NEW b \in Seq(Bytes), NEW w \in Seq(Bytes), NEW size \in 1 .. Len(w)
  PROVE  /\ b \o SubSeq(w, 1, size) \in Seq(Bytes)
         /\ SubSeq(w, size + 1, Len(w)) \in Seq(Bytes)
         /\ (b \o SubSeq(w, 1, size)) \o SubSeq(w, size + 1, Len(w)) = b \o w
<1> DEFINE front == SubSeq(w, 1, size)
           back == SubSeq(w, size + 1, Len(w))
<1>0. Len(w) \in Nat
  BY LenProperties
<1>1. front \in Seq(Bytes) /\ Len(front) = size /\ \A k \in 1 .. size : front[k] = w[k]
  BY <1>0
<1>2. /\ back \in Seq(Bytes) /\ Len(back) = Len(w) - size
      /\ \A k \in 1 .. Len(w) - size : back[k] = w[size + k]
  BY <1>0
<1> HIDE DEF front, back
<1>3. front \o back = w
  <2> DEFINE both == front \o back
  <2>1. /\ both \in Seq(Bytes) /\ Len(both) = size + (Len(w) - size)
        /\ \A k \in 1 .. size : both[k] = front[k]
        /\ \A k \in 1 .. Len(w) - size : both[size + k] = back[k]
    <3>1. /\ both \in Seq(Bytes) /\ Len(both) = Len(front) + Len(back)
          /\ \A k \in 1 .. Len(front) : both[k] = front[k]
          /\ \A k \in 1 .. Len(back) : both[Len(front) + k] = back[k]
      <4>1. front \in Seq(Bytes)
        BY <1>1
      <4>2. back \in Seq(Bytes)
        BY <1>2
      <4>3. Concatenates(front \o back, front, back, Bytes)
        BY <4>1, <4>2, ConcatParts
      <4> QED
        BY <4>3 DEF Concatenates
    <3> HIDE DEF both
    <3> QED
      BY <1>1, <1>2, <3>1
  <2> HIDE DEF both
  <2>2. \A k \in 1 .. Len(w) : both[k] = w[k]
    <3> TAKE k \in 1 .. Len(w)
    <3>1. CASE k <= size
      <4>1. k \in 1 .. size
        BY <3>1
      <4> QED
        BY <1>1, <2>1, <4>1
    <3>2. CASE ~ (k <= size)
      <4>1. k - size \in 1 .. Len(w) - size /\ size + (k - size) = k
        BY <1>0, <3>2
      <4> QED
        BY <1>2, <2>1, <4>1
    <3> QED
      BY <3>1, <3>2
  <2>3. Len(both) = Len(w)
    BY <1>0, <2>1
  <2> QED
    BY <2>1, <2>2, <2>3, SeqEqual DEF both
<1>4. front \in Seq(Bytes)
  BY <1>1
<1>5. back \in Seq(Bytes)
  BY <1>2
<1>6. (b \o front) \o back = b \o (front \o back)
  <2>1. b \in Seq(Bytes)
    OBVIOUS
  <2> QED
    <3>1. Regroups(b, front, back)
      BY <1>4, <1>5, <2>1, Regrouped
    <3> QED
      BY <3>1 DEF Regroups
<1>7. b \o front \in Seq(Bytes)
  BY <1>4
<1> QED
  BY <1>3, <1>5, <1>6, <1>7, Zenon DEF front, back

(* What was handed over are the first messages, and the bytes that the     *)
(* receiver holds and those on their way are the frames of the others.     *)
FramingInv ==
  /\ sent \in 0 .. Len(Payloads)
  /\ handed \in Seq(Seq(Bytes)) /\ Len(handed) <= sent
  /\ \A i \in 1 .. Len(handed) : handed[i] = Payloads[i]
  /\ wire \in Seq(Bytes) /\ buffer \in Seq(Bytes)
  /\ Laid(buffer \o wire, Len(handed), sent)

LEMMA FramingStarts == FramingInit => FramingInv
<1> SUFFICES ASSUME FramingInit PROVE FramingInv
  OBVIOUS
<1>1. Len(Payloads) \in Nat
  BY PayloadsAssumption, LenProperties
<1>2. /\ sent = 0 /\ wire = <<>> /\ buffer = <<>> /\ handed = <<>>
  BY DEF FramingInit
<1>3. <<>> \in Seq(Bytes) /\ <<>> \o <<>> = <<>> /\ Len(<<>>) = 0 /\ <<>> \in Seq(Seq(Bytes))
  OBVIOUS
<1>4. LaidAt(<<>>, 0, 0, [i \in 0 .. 0 |-> 0])
  BY <1>3 DEF LaidAt
<1>5. Laid(buffer \o wire, Len(handed), sent)
  BY <1>2, <1>3, <1>4 DEF Laid
<1> QED
  BY <1>1, <1>2, <1>3, <1>5 DEF FramingInv

LEMMA FramingSteps == FramingInv /\ [FramingNext]_framingVars => FramingInv'
<1> SUFFICES ASSUME FramingInv, [FramingNext]_framingVars PROVE FramingInv'
  OBVIOUS
<1>0. /\ sent \in 0 .. Len(Payloads)
      /\ handed \in Seq(Seq(Bytes)) /\ Len(handed) <= sent
      /\ \A i \in 1 .. Len(handed) : handed[i] = Payloads[i]
      /\ wire \in Seq(Bytes) /\ buffer \in Seq(Bytes)
      /\ Laid(buffer \o wire, Len(handed), sent)
      /\ Len(Payloads) \in Nat /\ Len(handed) \in Nat /\ sent \in Nat
  BY PayloadsAssumption, LenProperties DEF FramingInv
<1>1. CASE Send
  <2> DEFINE f == Frame(sent + 1)
  <2>1. /\ sent + 1 \in 1 .. Len(Payloads) /\ sent' = sent + 1
        /\ wire' = wire \o f /\ buffer' = buffer /\ handed' = handed
    BY <1>0, <1>1 DEF Send, Frame
  <2>2. f \in Seq(Bytes)
    BY <2>1, FrameParts
  <2> HIDE DEF f
  <2>3. wire' \in Seq(Bytes)
    <3>1. wire \in Seq(Bytes)
      BY <1>0
    <3>2. Concatenates(wire \o f, wire, f, Bytes)
      BY <2>2, <3>1, ConcatParts
    <3> QED
      BY <2>1, <3>2 DEF Concatenates
  <2>4. buffer' \o wire' = (buffer \o wire) \o f
    <3>1. buffer \in Seq(Bytes)
      BY <1>0
    <3>2. wire \in Seq(Bytes)
      BY <1>0
    <3>3. Regroups(buffer, wire, f)
      BY <2>2, <3>1, <3>2, Regrouped
    <3> QED
      BY <2>1, <3>3 DEF Regroups
  <2>5. Laid((buffer \o wire) \o f, Len(handed), sent + 1)
    <3>1. buffer \o wire \in Seq(Bytes)
      <4>1. buffer \in Seq(Bytes)
        BY <1>0
      <4>2. wire \in Seq(Bytes)
        BY <1>0
      <4>3. Concatenates(buffer \o wire, buffer, wire, Bytes)
        BY <4>1, <4>2, ConcatParts
      <4> QED
        BY <4>3 DEF Concatenates
    <3>2. Len(handed) \in Nat
      BY <1>0
    <3>3. sent \in Nat
      BY <1>0
    <3>4. Len(handed) <= sent
      BY <1>0
    <3>5. sent + 1 \in 1 .. Len(Payloads)
      BY <2>1
    <3>6. Laid(buffer \o wire, Len(handed), sent)
      BY <1>0
    <3> QED
      BY <3>1, <3>2, <3>3, <3>4, <3>5, <3>6, LaidMore DEF f
  <2>6. Laid(buffer' \o wire', Len(handed'), sent')
    BY <2>1, <2>4, <2>5
  <2> QED
    BY <1>0, <2>1, <2>3, <2>6 DEF FramingInv
<1>2. CASE Chunk
  <2>1. PICK size \in 1 .. Len(wire) : PushChunk(size)
    BY <1>2 DEF Chunk
  <2>2. /\ buffer' = buffer \o SubSeq(wire, 1, size)
        /\ wire' = SubSeq(wire, size + 1, Len(wire))
        /\ sent' = sent /\ handed' = handed
    BY <2>1 DEF PushChunk
  <2>3. /\ buffer' \in Seq(Bytes) /\ wire' \in Seq(Bytes)
        /\ buffer' \o wire' = buffer \o wire
    <3>1. buffer \in Seq(Bytes)
      BY <1>0
    <3>2. wire \in Seq(Bytes)
      BY <1>0
    <3>3. /\ buffer \o SubSeq(wire, 1, size) \in Seq(Bytes)
          /\ SubSeq(wire, size + 1, Len(wire)) \in Seq(Bytes)
          /\ (buffer \o SubSeq(wire, 1, size)) \o SubSeq(wire, size + 1, Len(wire)) = buffer \o wire
      BY <3>1, <3>2, ChunkMoves
    <3> QED
      BY <2>2, <3>3, Zenon
  <2>4. Laid(buffer' \o wire', Len(handed'), sent')
    BY <1>0, <2>2, <2>3
  <2> QED
    BY <1>0, <2>2, <2>3, <2>4 DEF FramingInv
<1>3. CASE HandOver
  <2> DEFINE total == PrefixLength + LengthOf(buffer)
             message == SubSeq(buffer, PrefixLength + 1, total)
             n == Len(handed)
  <2>1. /\ Whole(buffer) /\ handed' = Append(handed, message)
        /\ buffer' = SubSeq(buffer, total + 1, Len(buffer))
        /\ sent' = sent /\ wire' = wire
    BY <1>3 DEF HandOver
  <2>2. /\ n + 1 <= sent /\ message = Payloads[n + 1]
        /\ buffer' \in Seq(Bytes) /\ Laid(buffer' \o wire, n + 1, sent)
    <3>1. buffer \in Seq(Bytes)
      BY <1>0
    <3>2. wire \in Seq(Bytes)
      BY <1>0
    <3>3. n \in Nat
      BY <1>0
    <3>4. sent \in Nat
      BY <1>0
    <3>5. n <= sent
      BY <1>0
    <3>6. sent <= Len(Payloads)
      BY <1>0
    <3>7. Laid(buffer \o wire, n, sent)
      BY <1>0
    <3>8. Whole(buffer)
      BY <2>1
    <3> HIDE DEF n
    <3>9. LET t == PrefixLength + LengthOf(buffer) IN
          /\ n + 1 <= sent
          /\ SubSeq(buffer, PrefixLength + 1, t) = Payloads[n + 1]
          /\ SubSeq(buffer, t + 1, Len(buffer)) \in Seq(Bytes)
          /\ Laid(SubSeq(buffer, t + 1, Len(buffer)) \o wire, n + 1, sent)
      BY <3>1, <3>2, <3>3, <3>4, <3>5, <3>6, <3>7, <3>8, LaidCut
    <3> QED
      BY <2>1, <3>9
  <2>3. Payloads[n + 1] \in Seq(Bytes)
    <3>1. n + 1 \in 1 .. Len(Payloads)
      BY <1>0, <2>2
    <3> QED
      BY <3>1, PayloadsAssumption, ElementOfSeq
  <2> HIDE DEF message
  <2>4. /\ handed' \in Seq(Seq(Bytes)) /\ Len(handed') = n + 1
        /\ \A i \in 1 .. n : handed'[i] = handed[i]
        /\ handed'[n + 1] = Payloads[n + 1]
    <3>1. handed \in Seq(Seq(Bytes))
      BY <1>0
    <3>2. message \in Seq(Bytes)
      BY <2>2, <2>3
    <3> QED
      BY <2>1, <2>2, <3>1, <3>2, AppendProperties
  <2>5. \A i \in 1 .. Len(handed') : handed'[i] = Payloads[i]
    <3>1. \A i \in 1 .. n + 1 : i = n + 1 \/ i \in 1 .. n
      BY <1>0
    <3> QED
      BY <1>0, <2>4, <3>1
  <2>6. Laid(buffer' \o wire', Len(handed'), sent')
    BY <2>1, <2>2, <2>4
  <2> QED
    BY <1>0, <2>1, <2>2, <2>4, <2>5, <2>6 DEF FramingInv
<1>4. CASE Wait
  <2>1. sent' = sent /\ wire' = wire /\ buffer' = buffer /\ handed' = handed
    BY <1>4 DEF Wait
  <2> QED
    BY <1>0, <2>1 DEF FramingInv
<1>5. CASE UNCHANGED framingVars
  <2>1. sent' = sent /\ wire' = wire /\ buffer' = buffer /\ handed' = handed
    BY <1>5 DEF framingVars
  <2> QED
    BY <1>0, <2>1 DEF FramingInv
<1> QED
  BY <1>1, <1>2, <1>3, <1>4, <1>5 DEF FramingNext

(* StreamFramer.push gives the handler the messages of encodeFrame, whole, *)
(* in order and each once, wherever the chunks end, for any alphabet, any  *)
(* width of the prefix and any messages whose lengths it can state.        *)
THEOREM WholeMessages == FramingSpec => []MessagesWhole
<1>1. FramingInv => MessagesWhole
  <2> SUFFICES ASSUME FramingInv PROVE MessagesWhole
    OBVIOUS
  <2> DEFINE n == Len(handed)
             first == SubSeq(Payloads, 1, n)
  <2>1. /\ handed \in Seq(Seq(Bytes)) /\ n \in Nat /\ n <= sent /\ sent <= Len(Payloads)
        /\ \A i \in 1 .. n : handed[i] = Payloads[i]
        /\ Payloads \in Seq(Seq(Bytes)) /\ Len(Payloads) \in Nat /\ sent \in Nat
    BY PayloadsAssumption, LenProperties DEF FramingInv
  <2> HIDE DEF n
  <2>2. first \in Seq(Seq(Bytes)) /\ Len(first) = n /\ \A i \in 1 .. n : first[i] = Payloads[i]
    BY <2>1
  <2>3. handed = first
    <3>1. handed \in Seq(Seq(Bytes))
      BY <2>1
    <3>2. first \in Seq(Seq(Bytes))
      BY <2>2
    <3>3. Len(handed) = Len(first)
      BY <2>2 DEF n
    <3>4. \A i \in 1 .. Len(handed) : handed[i] = first[i]
      BY <2>1, <2>2 DEF n
    <3> HIDE DEF first
    <3> QED
      BY <3>1, <3>2, <3>3, <3>4, SeqEqual
  <2> QED
    BY <2>1, <2>3 DEF MessagesWhole, n
<1> QED
  BY <1>1, FramingStarts, FramingSteps, PTL DEF FramingSpec

-----------------------------------------------------------------------------
(* Ranks.  A value's rank in a sequence is the number of places that hold  *)
(* nothing larger; it orders the values, so that there are a least and a   *)
(* largest.                                                                *)
Count(xs, x) == Cardinality(AtMost(xs, x))

LEMMA PlacesCounted ==
  ASSUME NEW n \in Nat
  PROVE  IsFiniteSet(1 .. n) /\ Cardinality(1 .. n) = n
  BY FS_Interval

LEMMA Counts ==
  ASSUME NEW xs \in Seq(Int), NEW x
  PROVE  /\ AtMost(xs, x) \in SUBSET (1 .. Len(xs))
         /\ IsFiniteSet(AtMost(xs, x))
         /\ Count(xs, x) \in 0 .. Len(xs)
<1>1. Len(xs) \in Nat /\ DOMAIN xs = 1 .. Len(xs)
  BY LenProperties
<1>2. AtMost(xs, x) \in SUBSET (1 .. Len(xs))
  BY <1>1 DEF AtMost
<1>3. IsFiniteSet(1 .. Len(xs)) /\ Cardinality(1 .. Len(xs)) = Len(xs)
  BY <1>1, PlacesCounted
<1>4. IsFiniteSet(AtMost(xs, x)) /\ Cardinality(AtMost(xs, x)) <= Len(xs)
  BY <1>2, <1>3, FS_Subset
<1>5. Cardinality(AtMost(xs, x)) \in Nat
  BY <1>4, FS_CardinalityType
<1> QED
  BY <1>1, <1>2, <1>4, <1>5 DEF Count

LEMMA CountsOrder ==
  ASSUME NEW xs \in Seq(Int), NEW x \in Int, NEW y \in Range(xs), x < y
  PROVE  Count(xs, x) < Count(xs, y)
<1>1. Len(xs) \in Nat /\ DOMAIN xs = 1 .. Len(xs) /\ \A i \in 1 .. Len(xs) : xs[i] \in Int
  BY LenProperties, ElementOfSeq
<1>2. PICK i \in 1 .. Len(xs) : y = xs[i]
  BY <1>1 DEF Range
<1>3. y \in Int
  BY <1>1, <1>2
<1>4. AtMost(xs, x) \in SUBSET AtMost(xs, y)
  BY <1>1, <1>3 DEF AtMost
<1>5. i \in AtMost(xs, y) /\ i \notin AtMost(xs, x)
  BY <1>1, <1>2, <1>3 DEF AtMost
<1>6. IsFiniteSet(AtMost(xs, y)) /\ Count(xs, x) \in Nat /\ Count(xs, y) \in Nat
  BY Counts
<1>7. Count(xs, x) <= Count(xs, y) /\ Count(xs, x) # Count(xs, y)
  BY <1>4, <1>5, <1>6, FS_Subset DEF Count
<1> QED
  BY <1>6, <1>7

LEMMA ValuesInt ==
  ASSUME NEW xs \in Seq(Int)
  PROVE  Range(xs) \in SUBSET Int /\ (xs # <<>> => Range(xs) # {})
<1>1. Len(xs) \in Nat /\ DOMAIN xs = 1 .. Len(xs) /\ \A i \in 1 .. Len(xs) : xs[i] \in Int
  BY LenProperties, ElementOfSeq
<1>2. xs # <<>> => 1 \in 1 .. Len(xs)
  BY <1>1, EmptySeq
<1> QED
  BY <1>1, <1>2 DEF Range

LEMMA MinOfValues ==
  ASSUME NEW xs \in Seq(Int), NEW S \in SUBSET Range(xs), S # {}
  PROVE  Min(S) \in S /\ \A y \in S : Min(S) <= y
<1> DEFINE counts == {Count(xs, x) : x \in S}
<1>1. counts \in SUBSET Nat /\ counts # {}
  BY Counts
<1>2. PICK k \in counts : \A d \in counts : k <= d
  BY <1>1, LeastElement
<1>3. PICK x \in S : k = Count(xs, x)
  OBVIOUS
<1>4. S \in SUBSET Int
  BY ValuesInt
<1>5. \A y \in S : x <= y
  <2> TAKE y \in S
  <2>1. Count(xs, x) <= Count(xs, y) /\ Count(xs, x) \in Nat /\ Count(xs, y) \in Nat
    BY <1>2, <1>3, Counts
  <2>2. y < x => Count(xs, y) < Count(xs, x)
    <3>1. y \in Int /\ x \in Range(xs)
      BY <1>4
    <3> QED
      BY <3>1, CountsOrder
  <2> QED
    BY <1>4, <2>1, <2>2
<1> QED
  BY <1>5 DEF Min

LEMMA MaxOfValues ==
  ASSUME NEW xs \in Seq(Int), NEW S \in SUBSET Range(xs), S # {}
  PROVE  Max(S) \in S /\ \A y \in S : Max(S) >= y
<1> DEFINE counts == {Len(xs) - Count(xs, x) : x \in S}
<1>0. Len(xs) \in Nat
  BY LenProperties
<1>1. counts \in SUBSET Nat /\ counts # {}
  <2>1. \A x \in S : Count(xs, x) \in 0 .. Len(xs)
    BY Counts
  <2> QED
    BY <1>0, <2>1
<1>2. PICK k \in counts : \A d \in counts : k <= d
  BY <1>1, LeastElement
<1>3. PICK x \in S : k = Len(xs) - Count(xs, x)
  OBVIOUS
<1>4. S \in SUBSET Int
  BY ValuesInt
<1>5. \A y \in S : x >= y
  <2> TAKE y \in S
  <2>1. Len(xs) - Count(xs, x) <= Len(xs) - Count(xs, y)
    BY <1>2, <1>3
  <2>2. Count(xs, x) \in 0 .. Len(xs) /\ Count(xs, y) \in 0 .. Len(xs)
    BY Counts
  <2>3. x < y => Count(xs, x) < Count(xs, y)
    <3>1. x \in Int /\ y \in Range(xs)
      BY <1>4
    <3> QED
      BY <3>1, CountsOrder
  <2> QED
    BY <1>0, <1>4, <2>1, <2>2, <2>3
<1> QED
  BY <1>5 DEF Max

(* Ranked picks a value of the sequence with that rank or more. *)
LEMMA RankedValue ==
  ASSUME NEW xs \in Seq(Int), NEW k \in 1 .. Len(xs)
  PROVE  /\ Ranked(xs, k) \in Range(xs) /\ Ranked(xs, k) \in Int
         /\ Count(xs, Ranked(xs, k)) >= k
         /\ \A x \in Range(xs) : Count(xs, x) >= k => Ranked(xs, k) <= x
<1> DEFINE S == {x \in Range(xs) : Cardinality(AtMost(xs, x)) >= k}
<1>0. /\ Len(xs) \in Nat /\ DOMAIN xs = 1 .. Len(xs) /\ Range(xs) \in SUBSET Int
      /\ xs # <<>> /\ Range(xs) # {}
  <2>1. Len(xs) \in Nat /\ DOMAIN xs = 1 .. Len(xs)
    BY LenProperties
  <2>2. xs # <<>>
    BY <2>1, EmptySeq
  <2> QED
    BY <2>1, <2>2, ValuesInt
<1>1. Max(Range(xs)) \in Range(xs) /\ \A y \in Range(xs) : Max(Range(xs)) >= y
  BY <1>0, MaxOfValues
<1>2. AtMost(xs, Max(Range(xs))) = 1 .. Len(xs)
  BY <1>0, <1>1 DEF AtMost, Range
<1>3. Cardinality(1 .. Len(xs)) = Len(xs)
  BY <1>0, PlacesCounted
<1>4. Max(Range(xs)) \in S
  BY <1>0, <1>1, <1>2, <1>3
<1>5. S \in SUBSET Range(xs) /\ S # {}
  BY <1>4
<1>6. Min(S) \in S /\ \A y \in S : Min(S) <= y
  <2> HIDE DEF S
  <2> QED
    BY <1>5, MinOfValues
<1>7. Ranked(xs, k) = Min(S)
  BY DEF Ranked
<1> QED
  BY <1>0, <1>6, <1>7 DEF Count

(* Whatever k places are at most, is at least what is ranked k. *)
LEMMA RankedLeast ==
  ASSUME NEW xs \in Seq(Int), NEW k \in 1 .. Len(xs), NEW x \in Int, Count(xs, x) >= k
  PROVE  Ranked(xs, k) <= x
<1> DEFINE S == {y \in Range(xs) : y <= x}
<1>0. Len(xs) \in Nat /\ DOMAIN xs = 1 .. Len(xs) /\ Range(xs) \in SUBSET Int
  BY LenProperties, ValuesInt
<1>1. S # {}
  <2>1. SUFFICES ASSUME S = {} PROVE FALSE
    OBVIOUS
  <2>2. AtMost(xs, x) = {}
    BY <1>0, <2>1 DEF AtMost, Range
  <2>3. Count(xs, x) = 0
    BY <2>2, FS_EmptySet DEF Count
  <2> QED
    BY <2>3
<1>2. S \in SUBSET Range(xs)
  OBVIOUS
<1>3. Max(S) \in S /\ \A y \in S : Max(S) >= y
  <2> HIDE DEF S
  <2> QED
    BY <1>1, <1>2, MaxOfValues
<1> DEFINE z == Max(S)
<1>4. z \in Range(xs) /\ z \in Int /\ z <= x /\ \A y \in Range(xs) : y <= x => y <= z
  BY <1>0, <1>3
<1> HIDE DEF z
<1>5. AtMost(xs, z) = AtMost(xs, x)
  <2>1. \A i \in 1 .. Len(xs) : xs[i] \in Int /\ xs[i] \in Range(xs)
    BY <1>0 DEF Range
  <2>2. \A i \in 1 .. Len(xs) : xs[i] <= z <=> xs[i] <= x
    BY <1>4, <2>1
  <2> QED
    BY <1>0, <2>2 DEF AtMost
<1>6. Ranked(xs, k) <= z /\ Ranked(xs, k) \in Int
  BY <1>4, <1>5, RankedValue DEF Count
<1> QED
  BY <1>4, <1>6

(* Of two sequences the smaller at each place is the smaller at each rank. *)
LEMMA RanksFollow ==
  ASSUME NEW xs \in Seq(Int), NEW ys \in Seq(Int), Len(xs) = Len(ys), NEW t \in Int,
         \A i \in 1 .. Len(xs) : xs[i] - t <= ys[i], NEW k \in 1 .. Len(xs)
  PROVE  Ranked(xs, k) - t <= Ranked(ys, k)
<1>0. /\ Len(xs) \in Nat /\ DOMAIN xs = 1 .. Len(xs) /\ DOMAIN ys = 1 .. Len(xs)
      /\ \A i \in 1 .. Len(xs) : xs[i] \in Int /\ ys[i] \in Int
      /\ k \in 1 .. Len(ys)
  BY LenProperties, ElementOfSeq
<1> DEFINE R == Ranked(ys, k)
<1>1. R \in Int /\ Count(ys, R) >= k
  BY <1>0, RankedValue
<1> HIDE DEF R
<1>2. R + t \in Int
  BY <1>1
<1>3. AtMost(ys, R) \in SUBSET AtMost(xs, R + t)
  BY <1>0, <1>1 DEF AtMost
<1>4. Count(ys, R) <= Count(xs, R + t)
  BY <1>3, Counts, FS_Subset DEF Count
<1>5. Count(xs, R + t) \in Nat /\ Count(ys, R) \in Nat
  BY Counts
<1>6. Count(xs, R + t) >= k
  BY <1>1, <1>4, <1>5
<1>7. Ranked(xs, k) <= R + t
  BY <1>2, <1>6, RankedLeast
<1>8. Ranked(xs, k) \in Int
  BY RankedValue
<1> QED
  BY <1>1, <1>7, <1>8 DEF R

(* And what is at least t - y at each place is so at opposite ranks. *)
LEMMA RanksOppose ==
  ASSUME NEW xs \in Seq(Int), NEW ys \in Seq(Int), Len(xs) = Len(ys), NEW t \in Int,
         \A i \in 1 .. Len(xs) : t - xs[i] <= ys[i], NEW k \in 1 .. Len(xs)
  PROVE  t - Ranked(xs, k) <= Ranked(ys, Len(xs) + 1 - k)
<1>0. /\ Len(xs) \in Nat /\ DOMAIN xs = 1 .. Len(xs) /\ DOMAIN ys = 1 .. Len(xs)
      /\ \A i \in 1 .. Len(xs) : xs[i] \in Int /\ ys[i] \in Int
      /\ Len(xs) + 1 - k \in 1 .. Len(ys)
  BY LenProperties, ElementOfSeq
<1> DEFINE n == Len(xs)
           O == Ranked(xs, k)
           R == Ranked(ys, n + 1 - k)
           A == AtMost(xs, O)
           B == AtMost(ys, R)
<1>1. R \in Int /\ Count(ys, R) >= n + 1 - k
  BY <1>0, RankedValue
<1>2. O \in Int /\ Count(xs, O) >= k
  BY RankedValue
<1> HIDE DEF O, R
<1>3. SUFFICES ASSUME ~ (t - O <= R) PROVE FALSE
  BY DEF O, R
<1>4. A \cap B = {}
  <2>1. SUFFICES ASSUME NEW i \in A \cap B PROVE FALSE
    OBVIOUS
  <2>2. i \in 1 .. n /\ xs[i] <= O /\ ys[i] <= R
    BY <1>0 DEF AtMost
  <2>3. xs[i] \in Int /\ ys[i] \in Int /\ t - xs[i] <= ys[i]
    BY <1>0, <2>2
  <2> QED
    BY <1>1, <1>2, <1>3, <2>2, <2>3
<1>5. A \in SUBSET (1 .. n) /\ B \in SUBSET (1 .. n) /\ IsFiniteSet(A) /\ IsFiniteSet(B)
  BY Counts
<1>6. Cardinality(A) \in Nat /\ Cardinality(B) \in Nat
  BY <1>5, FS_CardinalityType
<1>7. Cardinality(A) + Cardinality(B) > n
  BY <1>0, <1>1, <1>2, <1>6 DEF Count
<1>8. IsFiniteSet(1 .. n) /\ Cardinality(1 .. n) = n
  BY <1>0, PlacesCounted
<1> HIDE DEF A, B, n
<1>9. Cardinality(A) + Cardinality(B) > Cardinality(1 .. n)
  BY <1>7, <1>8
<1> QED
  BY <1>4, <1>5, <1>8, <1>9, FS_MajoritiesIntersect

-----------------------------------------------------------------------------
(* Medians. *)
Near(x, r) == x <= r /\ - x <= r

Even(x) == \E y \in Int : x = 2 * y

LEMMA MedianNear ==
  ASSUME NEW os \in Seq(Int), NEW rs \in Seq(Int), Len(os) = Len(rs), os # <<>>, NEW t \in Int,
         \A i \in 1 .. Len(os) : Even(os[i]) /\ Even(rs[i]) /\ Near(os[i] - t, rs[i])
  PROVE  /\ median(os) \in Int /\ median(rs) \in Int
         /\ Near(median(os) - t, median(rs))
         /\ Min(Range(os)) <= median(os) /\ median(os) <= Max(Range(os))
<1> DEFINE n == Len(os)
           m == n \div 2
<1>0. /\ n \in Nat \ {0} /\ m \in Nat /\ (n % 2 = 1 => n = 2 * m + 1) /\ (n % 2 # 1 => n = 2 * m)
      /\ DOMAIN os = 1 .. n /\ DOMAIN rs = 1 .. n
      /\ \A i \in 1 .. n : os[i] \in Int /\ rs[i] \in Int
  <2>1. n \in Nat \ {0} /\ DOMAIN os = 1 .. n /\ DOMAIN rs = 1 .. n
    BY LenProperties, EmptySeq
  <2>2. \A i \in 1 .. n : os[i] \in Int /\ rs[i] \in Int
    BY ElementOfSeq
  <2> HIDE DEF n
  <2>3. m \in Nat /\ (n % 2 = 1 => n = 2 * m + 1) /\ (n % 2 # 1 => n = 2 * m)
    BY <2>1
  <2> QED
    BY <2>1, <2>2, <2>3
<1>1. \A k \in 1 .. n : /\ Ranked(os, k) - t <= Ranked(rs, k)
                        /\ t - Ranked(os, k) <= Ranked(rs, n + 1 - k)
                        /\ Ranked(os, k) \in Int /\ Ranked(rs, k) \in Int
                        /\ Ranked(os, k) \in Range(os) /\ Ranked(rs, k) \in Range(rs)
  <2> TAKE k \in 1 .. n
  <2>1. \A i \in 1 .. n : os[i] - t <= rs[i] /\ t - os[i] <= rs[i]
    <3> TAKE i \in 1 .. n
    <3>1. os[i] \in Int /\ rs[i] \in Int /\ os[i] - t <= rs[i] /\ - (os[i] - t) <= rs[i]
      BY <1>0 DEF Near
    <3>2. \A x, r \in Int : - (x - t) <= r => t - x <= r
      OBVIOUS
    <3> QED
      BY <3>1, <3>2
  <2>2. Ranked(os, k) - t <= Ranked(rs, k)
    BY <2>1, RanksFollow
  <2>3. t - Ranked(os, k) <= Ranked(rs, n + 1 - k)
    BY <2>1, RanksOppose
  <2>4. Ranked(os, k) \in Int /\ Ranked(os, k) \in Range(os)
    BY RankedValue
  <2>5. Ranked(rs, k) \in Int /\ Ranked(rs, k) \in Range(rs)
    BY RankedValue
  <2> QED
    BY <2>2, <2>3, <2>4, <2>5
<1>2. \A k \in 1 .. n : Even(Ranked(os, k)) /\ Even(Ranked(rs, k))
  BY <1>0, <1>1 DEF Range
<1>3. \A k \in 1 .. n : Min(Range(os)) <= Ranked(os, k) /\ Ranked(os, k) <= Max(Range(os))
  <2>1. Range(os) # {} /\ Range(os) \in SUBSET Range(os) /\ Range(os) \in SUBSET Int
    BY ValuesInt
  <2>2. Min(Range(os)) \in Range(os) /\ \A y \in Range(os) : Min(Range(os)) <= y
    BY <2>1, MinOfValues
  <2>3. Max(Range(os)) \in Range(os) /\ \A y \in Range(os) : Max(Range(os)) >= y
    BY <2>1, MaxOfValues
  <2> QED
    BY <1>1, <2>1, <2>2, <2>3
<1>4. Min(Range(os)) \in Int /\ Max(Range(os)) \in Int
  <2>1. Range(os) # {} /\ Range(os) \in SUBSET Range(os) /\ Range(os) \in SUBSET Int
    BY ValuesInt
  <2> QED
    BY <2>1, MinOfValues, MaxOfValues
<1> DEFINE lo == Min(Range(os))
           hi == Max(Range(os))
<1> HIDE DEF n, m, lo, hi
<1>5. CASE n % 2 = 1
  <2> DEFINE o == Ranked(os, m + 1)
             r == Ranked(rs, m + 1)
  <2>1. m + 1 \in 1 .. n /\ n + 1 - (m + 1) = m + 1
    BY <1>0, <1>5
  <2>2. median(os) = o /\ median(rs) = r
    BY <1>5 DEF median, n, m
  <2>3. /\ o - t <= r /\ t - o <= r /\ o \in Int /\ r \in Int
        /\ lo <= o /\ o <= hi
    BY <1>1, <1>3, <2>1 DEF lo, hi
  <2> HIDE DEF o, r
  <2>4. Near(o - t, r)
    BY <2>3 DEF Near
  <2> QED
    BY <2>2, <2>3, <2>4 DEF lo, hi
<1>6. CASE n % 2 # 1
  <2> DEFINE o1 == Ranked(os, m)
             o2 == Ranked(os, m + 1)
             r1 == Ranked(rs, m)
             r2 == Ranked(rs, m + 1)
  <2>1. m \in 1 .. n /\ m + 1 \in 1 .. n /\ n + 1 - (m + 1) = m /\ n + 1 - m = m + 1
    BY <1>0, <1>6
  <2>2. median(os) = (o1 + o2) \div 2 /\ median(rs) = (r1 + r2) \div 2
    BY <1>6 DEF median, n, m
  <2>3. /\ o1 - t <= r1 /\ t - o1 <= r2 /\ o2 - t <= r2 /\ t - o2 <= r1
        /\ o1 \in Int /\ o2 \in Int /\ r1 \in Int /\ r2 \in Int
    BY <1>1, <2>1
  <2>4. lo <= o1 /\ o1 <= hi /\ lo <= o2 /\ o2 <= hi /\ lo \in Int /\ hi \in Int
    BY <1>3, <1>4, <2>1 DEF lo, hi
  <2>5. Even(o1) /\ Even(o2) /\ Even(r1) /\ Even(r2)
    BY <1>2, <2>1
  <2> HIDE DEF o1, o2, r1, r2
  <2>6. PICK a1 \in Int, a2 \in Int, b1 \in Int, b2 \in Int :
          o1 = 2 * a1 /\ o2 = 2 * a2 /\ r1 = 2 * b1 /\ r2 = 2 * b2
    BY <2>5 DEF Even
  <2>7. (o1 + o2) \div 2 = a1 + a2 /\ (r1 + r2) \div 2 = b1 + b2
    BY <2>6
  <2>8. a1 + a2 - t <= b1 + b2 /\ - (a1 + a2 - t) <= b1 + b2
    BY <2>3, <2>6
  <2>9. lo <= a1 + a2 /\ a1 + a2 <= hi
    BY <2>4, <2>6
  <2> QED
    BY <2>2, <2>6, <2>7, <2>8, <2>9 DEF Near, lo, hi
<1> QED
  BY <1>5, <1>6

-----------------------------------------------------------------------------
(* The estimator.  A probe is off by no more than half its round trip. *)
Sample == {s \in [offset : Int, rtt : Int] :
             Even(s.offset) /\ Even(s.rtt) /\ Near(s.offset - 4 * TrueOffset, s.rtt)}

OffsetsOf(w) == [i \in DOMAIN w |-> w[i].offset]
RttsOf(w) == [i \in DOMAIN w |-> w[i].rtt]
Lowest(w) == Min(Range(OffsetsOf(w)))
Highest(w) == Max(Range(OffsetsOf(w)))
SpreadOf(w) == IF Len(w) > 1 THEN (Highest(w) - Lowest(w)) \div 2 ELSE 0

LEMMA SampleFields ==
  ASSUME NEW s \in Sample
  PROVE  /\ s.offset \in Int /\ s.rtt \in Int /\ Even(s.offset) /\ Even(s.rtt)
         /\ Near(s.offset - 4 * TrueOffset, s.rtt)
  BY DEF Sample

LEMMA WindowParts ==
  ASSUME NEW w \in Seq(Sample), w # <<>>
  PROVE  /\ Len(w) \in Nat \ {0} /\ DOMAIN w = 1 .. Len(w)
         /\ \A i \in 1 .. Len(w) : w[i] \in Sample
         /\ OffsetsOf(w) \in Seq(Int) /\ Len(OffsetsOf(w)) = Len(w) /\ OffsetsOf(w) # <<>>
         /\ RttsOf(w) \in Seq(Int) /\ Len(RttsOf(w)) = Len(w) /\ RttsOf(w) # <<>>
         /\ \A i \in 1 .. Len(w) : OffsetsOf(w)[i] = w[i].offset /\ RttsOf(w)[i] = w[i].rtt
<1>1. Len(w) \in Nat \ {0} /\ DOMAIN w = 1 .. Len(w)
  BY LenProperties, EmptySeq
<1>2. \A i \in 1 .. Len(w) : w[i] \in Sample
  BY ElementOfSeq
<1>3. \A i \in 1 .. Len(w) : w[i].offset \in Int /\ w[i].rtt \in Int
  BY <1>2, SampleFields
<1>4. OffsetsOf(w) \in [1 .. Len(w) -> Int] /\ RttsOf(w) \in [1 .. Len(w) -> Int]
  BY <1>1, <1>3 DEF OffsetsOf, RttsOf
<1>5. \A i \in 1 .. Len(w) : OffsetsOf(w)[i] = w[i].offset /\ RttsOf(w)[i] = w[i].rtt
  BY <1>1 DEF OffsetsOf, RttsOf
<1>6. \A f \in [1 .. Len(w) -> Int] : f \in Seq(Int) /\ Len(f) = Len(w) /\ f # <<>>
  <2> TAKE f \in [1 .. Len(w) -> Int]
  <2>1. f \in Seq(Int) /\ Len(f) = Len(w)
    BY <1>1
  <2>2. f # <<>>
    BY <1>1, <2>1, EmptySeq
  <2> QED
    BY <2>1, <2>2
<1> QED
  BY <1>1, <1>2, <1>4, <1>5, <1>6

(* The offsets of a window lie between two that are twice the spread apart. *)
LEMMA Spreads ==
  ASSUME NEW w \in Seq(Sample), w # <<>>
  PROVE  /\ Lowest(w) \in Int /\ Highest(w) \in Int /\ SpreadOf(w) \in Nat
         /\ Highest(w) - Lowest(w) = 2 * SpreadOf(w)
         /\ \A i \in 1 .. Len(w) : Lowest(w) <= w[i].offset /\ w[i].offset <= Highest(w)
<1> DEFINE os == OffsetsOf(w)
           lo == Lowest(w)
           hi == Highest(w)
<1>1. /\ Len(w) \in Nat \ {0} /\ \A i \in 1 .. Len(w) : w[i] \in Sample /\ os[i] = w[i].offset
      /\ os \in Seq(Int) /\ Len(os) = Len(w) /\ os # <<>>
  BY WindowParts
<1>2. lo = Min(Range(os)) /\ hi = Max(Range(os))
  BY DEF Lowest, Highest
<1> HIDE DEF os, lo, hi
<1>3. Range(os) # {} /\ Range(os) \in SUBSET Range(os) /\ Range(os) \in SUBSET Int
  BY <1>1, ValuesInt
<1>4. lo \in Range(os) /\ \A y \in Range(os) : lo <= y
  BY <1>1, <1>2, <1>3, MinOfValues
<1>5. hi \in Range(os) /\ \A y \in Range(os) : hi >= y
  BY <1>1, <1>2, <1>3, MaxOfValues
<1>6. DOMAIN os = 1 .. Len(w)
  BY <1>1, LenProperties
<1>7. \A i \in 1 .. Len(w) : os[i] \in Range(os)
  BY <1>6 DEF Range
<1>8. lo \in Int /\ hi \in Int /\ lo <= hi
  BY <1>3, <1>4, <1>5
<1>9. Even(lo) /\ Even(hi)
  <2>1. \A y \in Range(os) : Even(y)
    <3> TAKE y \in Range(os)
    <3>1. PICK i \in 1 .. Len(w) : y = os[i]
      BY <1>6 DEF Range
    <3> QED
      BY <1>1, <3>1, SampleFields
  <2> QED
    BY <1>4, <1>5, <2>1
<1>10. SpreadOf(w) \in Nat /\ hi - lo = 2 * SpreadOf(w)
  <2>1. SpreadOf(w) = IF Len(w) > 1 THEN (hi - lo) \div 2 ELSE 0
    BY DEF SpreadOf, hi, lo
  <2>2. CASE Len(w) > 1
    <3>1. PICK a \in Int, b \in Int : lo = 2 * a /\ hi = 2 * b
      BY <1>9 DEF Even
    <3>2. (hi - lo) \div 2 = b - a /\ a <= b
      BY <1>8, <3>1
    <3> QED
      BY <2>1, <2>2, <3>1, <3>2
  <2>3. CASE ~ (Len(w) > 1)
    <3>1. Len(w) = 1
      BY <1>1, <2>3
    <3>2. lo = hi
      BY <1>4, <1>5, <1>6, <3>1 DEF Range
    <3> QED
      BY <1>8, <2>1, <2>3, <3>2
  <2> QED
    BY <2>2, <2>3
<1>11. \A i \in 1 .. Len(w) : lo <= w[i].offset /\ w[i].offset <= hi
  BY <1>1, <1>3, <1>4, <1>5, <1>7, <1>8
<1> QED
  BY <1>8, <1>10, <1>11 DEF lo, hi

(* The best sample is one of the window, and none has a smaller round trip. *)
LEMMA BestSample ==
  ASSUME samples \in Seq(Sample), samples # <<>>
  PROVE  \E i \in 1 .. Len(samples) :
           /\ Best = samples[i] /\ Best \in Sample
           /\ Best.rtt = Min(Range(RttsOf(samples)))
<1> DEFINE rs == RttsOf(samples)
           I == {i \in DOMAIN samples : \A j \in DOMAIN samples : Rtts[i] <= Rtts[j]}
<1>1. /\ Len(samples) \in Nat \ {0} /\ DOMAIN samples = 1 .. Len(samples)
      /\ \A i \in 1 .. Len(samples) : samples[i] \in Sample /\ rs[i] = samples[i].rtt
      /\ rs \in Seq(Int) /\ Len(rs) = Len(samples) /\ rs # <<>>
  BY WindowParts
<1>2. Rtts = rs
  BY DEF Rtts, RttsOf
<1> HIDE DEF rs
<1>3. DOMAIN rs = 1 .. Len(samples) /\ \A i \in 1 .. Len(samples) : rs[i] \in Int
  BY <1>1, LenProperties, ElementOfSeq
<1>4. Min(Range(rs)) \in Range(rs) /\ \A y \in Range(rs) : Min(Range(rs)) <= y
  <2>1. Range(rs) # {} /\ Range(rs) \in SUBSET Range(rs)
    BY <1>1, ValuesInt
  <2> QED
    BY <1>1, <2>1, MinOfValues
<1>5. I # {}
  <2>1. PICK i \in 1 .. Len(samples) : rs[i] = Min(Range(rs))
    BY <1>3, <1>4 DEF Range
  <2>2. \A j \in 1 .. Len(samples) : rs[i] <= rs[j]
    BY <1>3, <1>4, <2>1 DEF Range
  <2> QED
    BY <1>1, <1>2, <2>1, <2>2
<1>6. I \in SUBSET Nat
  BY <1>1
<1>7. Best = samples[Min(I)]
  BY DEF Best
<1>8. Min(I) \in I
  <2> HIDE DEF I
  <2>1. PICK n \in I : \A m \in I : n <= m
    BY <1>5, <1>6, LeastElement
  <2> QED
    BY <2>1 DEF Min
<1>9. PICK i \in I : i = Min(I)
  BY <1>8
<1>10. i \in 1 .. Len(samples) /\ \A j \in 1 .. Len(samples) : rs[i] <= rs[j]
  BY <1>1, <1>2
<1>11. rs[i] = Min(Range(rs))
  <2>1. PICK j \in 1 .. Len(samples) : rs[j] = Min(Range(rs))
    BY <1>3, <1>4 DEF Range
  <2>2. rs[i] \in Range(rs)
    BY <1>3, <1>10 DEF Range
  <2>3. rs[i] <= Min(Range(rs)) /\ Min(Range(rs)) <= rs[i] /\ Min(Range(rs)) \in Int
    BY <1>3, <1>4, <1>10, <2>1, <2>2
  <2>4. rs[i] \in Int
    BY <1>3, <1>10
  <2> QED
    BY <2>3, <2>4
<1>12. Best = samples[i] /\ samples[i] \in Sample /\ samples[i].rtt = rs[i]
  BY <1>1, <1>7, <1>9, <1>10
<1> QED
  BY <1>10, <1>11, <1>12 DEF rs

(* An estimate is as near as its own round trip says, and as near as the   *)
(* interval around it says for the window it was made from.                *)
IntervalOf(by, w) ==
  Min(Range(RttsOf(w))) + SpreadOf(w) + (IF by = "median" THEN SpreadOf(w) ELSE 0)

Sound(e) == /\ e.offset \in Int /\ e.rttMs \in Int
            /\ Near(e.offset - 4 * TrueOffset, e.rttMs)
            /\ e.window \in Seq(Sample) /\ e.window # <<>>
            /\ Near(e.offset - 4 * TrueOffset, IntervalOf(e.method, e.window))

OffsetInv == /\ now \in Nat
             /\ samples \in Seq(Sample)
             /\ cached = NoEstimate \/ Sound(cached)

LEMMA ProbeSamples ==
  ASSUME NEW out \in Delays, NEW back \in Delays, NEW t \in Nat
  PROVE  offsetFromTimestamps(t - out - back, t - back + TrueOffset, t - back + TrueOffset, t) \in Sample
<1> DEFINE o == 2 * (((t - back + TrueOffset) - (t - out - back)) + ((t - back + TrueOffset) - t))
           r == 2 * ((t - (t - out - back)) - ((t - back + TrueOffset) - (t - back + TrueOffset)))
           s == [offset |-> o, rtt |-> r]
<1>0. out \in Nat /\ back \in Nat /\ TrueOffset \in Int
  BY OffsetAssumption
<1>1. o = 2 * (2 * TrueOffset + out - back) /\ r = 2 * (out + back)
  BY <1>0
<1>2. s = offsetFromTimestamps(t - out - back, t - back + TrueOffset, t - back + TrueOffset, t)
  BY DEF offsetFromTimestamps
<1> HIDE DEF o, r
<1>3. Even(o) /\ Even(r) /\ o \in Int /\ r \in Int
  <2>1. 2 * TrueOffset + out - back \in Int /\ out + back \in Int
    BY <1>0
  <2>2. \A x \in Int : 2 * x \in Int
    OBVIOUS
  <2> QED
    BY <1>1, <2>1, <2>2 DEF Even
<1>4. Near(o - 4 * TrueOffset, r)
  BY <1>0, <1>1 DEF Near
<1>5. s \in Sample
  BY <1>3, <1>4 DEF Sample
<1> QED
  BY <1>2, <1>5

LEMMA FreshSound ==
  ASSUME samples \in Seq(Sample), samples # <<>>
  PROVE  Sound(Fresh)
<1> DEFINE w == samples
           os == OffsetsOf(w)
           rs == RttsOf(w)
           t == 4 * TrueOffset
           least == Min(Range(rs))
           sp == SpreadOf(w)
<1>0. t \in Int
  BY OffsetAssumption
<1>1. /\ Len(w) \in Nat \ {0} /\ \A i \in 1 .. Len(w) : w[i] \in Sample
      /\ os \in Seq(Int) /\ Len(os) = Len(w) /\ os # <<>>
      /\ rs \in Seq(Int) /\ Len(rs) = Len(w)
      /\ \A i \in 1 .. Len(w) : os[i] = w[i].offset /\ rs[i] = w[i].rtt
  BY WindowParts
<1>2. PICK i \in 1 .. Len(w) : Best = w[i] /\ Best \in Sample /\ Best.rtt = least
  BY BestSample
<1>3. Offsets = os /\ Rtts = rs
  BY DEF Offsets, Rtts, OffsetsOf, RttsOf
<1>4. /\ sp \in Nat /\ Lowest(w) \in Int /\ Highest(w) \in Int
      /\ Highest(w) - Lowest(w) = 2 * sp
      /\ Lowest(w) <= Best.offset /\ Best.offset <= Highest(w)
  BY <1>2, Spreads
<1>5. Lowest(w) = Min(Range(os)) /\ Highest(w) = Max(Range(os))
  BY DEF Lowest, Highest
<1>6. Best.offset \in Int /\ least \in Int /\ Near(Best.offset - t, least)
  BY <1>2, SampleFields
<1>7. CASE StddevAtMost(Rtts, 2 * rttStddevThresholdMs)
  <2> DEFINE m == median(os)
             r == median(rs)
  <2>1. Fresh = [method |-> "median", offset |-> m, rttMs |-> r, computedAt |-> now, window |-> w]
    BY <1>3, <1>7 DEF Fresh, Estimated
  <2>2. /\ m \in Int /\ r \in Int /\ Near(m - t, r)
        /\ Lowest(w) <= m /\ m <= Highest(w)
    <3>1. \A j \in 1 .. Len(os) : Even(os[j]) /\ Even(rs[j]) /\ Near(os[j] - t, rs[j])
      BY <1>1, SampleFields
    <3>2. os \in Seq(Int)
      BY <1>1
    <3>3. rs \in Seq(Int)
      BY <1>1
    <3>4. Len(os) = Len(rs)
      BY <1>1
    <3>5. os # <<>>
      BY <1>1
    <3> HIDE DEF os, rs, t
    <3>6. /\ median(os) \in Int /\ median(rs) \in Int
          /\ Near(median(os) - t, median(rs))
          /\ Min(Range(os)) <= median(os) /\ median(os) <= Max(Range(os))
      BY <1>0, <3>1, <3>2, <3>3, <3>4, <3>5, MedianNear
    <3> QED
      BY <1>5, <3>6
  <2> HIDE DEF m, r, t, least, sp
  <2>3. Near(m - t, least + sp + sp)
    <3> DEFINE b == Best.offset
               lo == Lowest(w)
               hi == Highest(w)
    <3>1. /\ b - t <= least /\ - (b - t) <= least /\ b \in Int /\ least \in Int /\ t \in Int
          /\ lo <= b /\ b <= hi /\ lo <= m /\ m <= hi /\ lo \in Int /\ hi \in Int /\ m \in Int
          /\ hi - lo = 2 * sp /\ sp \in Nat
      BY <1>0, <1>4, <1>6, <2>2 DEF Near
    <3> HIDE DEF b, lo, hi
    <3> QED
      BY <3>1 DEF Near
  <2>4. Fresh.method = "median" /\ Fresh.offset = m /\ Fresh.rttMs = r /\ Fresh.window = w
    BY <2>1
  <2>5. IntervalOf(Fresh.method, Fresh.window) = least + sp + sp
    BY <2>4 DEF IntervalOf, least, sp
  <2> QED
    BY <2>2, <2>3, <2>4, <2>5 DEF Sound, t
<1>8. CASE ~ StddevAtMost(Rtts, 2 * rttStddevThresholdMs)
  <2>1. Fresh = [method |-> "lowest-rtt", offset |-> Best.offset, rttMs |-> Best.rtt,
                 computedAt |-> now, window |-> w]
    BY <1>8 DEF Fresh, Estimated
  <2>2. /\ Fresh.method = "lowest-rtt" /\ Fresh.offset = Best.offset
        /\ Fresh.rttMs = least /\ Fresh.window = w
    BY <1>2, <2>1
  <2>3. IntervalOf(Fresh.method, Fresh.window) = least + sp + 0
    BY <2>2 DEF IntervalOf
  <2>4. Near(Best.offset - t, least + sp + 0)
    <3> DEFINE x == Best.offset - t
    <3>1. x <= least /\ - x <= least /\ x \in Int
      BY <1>0, <1>6 DEF Near
    <3> HIDE DEF x, least, sp
    <3> QED
      BY <1>4, <1>6, <3>1 DEF Near, x
  <2> QED
    BY <1>6, <2>2, <2>3, <2>4 DEF Sound
<1> QED
  BY <1>7, <1>8

LEMMA OffsetStarts == OffsetInit => OffsetInv
  BY DEF OffsetInit, OffsetInv

LEMMA OffsetSteps == OffsetInv /\ [OffsetNext]_offsetVars => OffsetInv'
<1> SUFFICES ASSUME OffsetInv, [OffsetNext]_offsetVars PROVE OffsetInv'
  OBVIOUS
<1>0. now \in Nat /\ samples \in Seq(Sample) /\ (cached = NoEstimate \/ Sound(cached))
  BY DEF OffsetInv
<1>1. CASE Probe
  <2>1. PICK out \in Delays, back \in Delays :
          /\ addSample(offsetFromTimestamps(now - out - back, now - back + TrueOffset,
                                            now - back + TrueOffset, now))
          /\ cached' = cached /\ now' = now
    BY <1>1 DEF Probe
  <2> DEFINE s == offsetFromTimestamps(now - out - back, now - back + TrueOffset,
                                       now - back + TrueOffset, now)
  <2>2. s \in Sample
    BY <1>0, ProbeSamples
  <2>3. addSample(s)
    BY <2>1
  <2> HIDE DEF s
  <2>4. samples' \in Seq(Sample)
    <3>1. CASE samples' = Append(samples, s)
      BY <1>0, <2>2, <3>1, AppendProperties
    <3>2. CASE Len(samples) = windowN /\ samples' = Append(Tail(samples), s)
      <4>1. samples # <<>>
        BY <3>2, OffsetAssumption, EmptySeq
      <4>2. Tail(samples) \in Seq(Sample)
        BY <1>0, <4>1
      <4> QED
        BY <2>2, <3>2, <4>2, AppendProperties
    <3> QED
      BY <2>3, <3>1, <3>2 DEF addSample
  <2>5. cached' = NoEstimate \/ Sound(cached')
    BY <1>0, <2>1
  <2> QED
    BY <1>0, <2>1, <2>4, <2>5 DEF OffsetInv, Sound, NoEstimate
<1>2. CASE Reestimate \/ estimate
  <2>1. samples # <<>> /\ cached' = Fresh /\ samples' = samples /\ now' = now
    BY <1>2 DEF Reestimate, estimate
  <2>2. Sound(cached')
    BY <1>0, <2>1, FreshSound
  <2> QED
    BY <1>0, <2>1, <2>2 DEF OffsetInv, Sound
<1>3. CASE Pass
  <2>1. now' = now + 1 /\ samples' = samples /\ cached' = cached
    BY <1>3 DEF Pass
  <2> QED
    BY <1>0, <2>1 DEF OffsetInv, Sound, NoEstimate
<1>4. CASE UNCHANGED offsetVars
  <2>1. now' = now /\ samples' = samples /\ cached' = cached
    BY <1>4 DEF offsetVars
  <2> QED
    BY <1>0, <2>1 DEF OffsetInv, Sound, NoEstimate
<1> QED
  BY <1>1, <1>2, <1>3, <1>4 DEF OffsetNext

(* PeerOffsetEstimator.normalize places an event within half of the round  *)
(* trip its estimate rests on, and skewConfidence's interval holds the     *)
(* truth for the window the estimate was made from, a median's if widened  *)
(* by the spread: for any delays, window, threshold and cadence.           *)
THEOREM Accuracy == OffsetSpec => []TruthIsNear
<1>1. OffsetInv => TruthIsNear
  <2> SUFFICES ASSUME OffsetInv, cached # NoEstimate
               PROVE  /\ Away(normalize(now + TrueOffset), 4 * now) <= cached.rttMs
                      /\ cached.window = samples =>
                           Away(normalize(now + TrueOffset), 4 * now)
                             <= ciHalfWidth + (IF cached.method = "median" THEN Spread ELSE 0)
    BY DEF TruthIsNear
  <2>1. now \in Nat /\ TrueOffset \in Int /\ Sound(cached)
    BY OffsetAssumption DEF OffsetInv
  <2> DEFINE o == cached.offset
             x == 4 * (now + TrueOffset) - o
  <2>2. o \in Int /\ normalize(now + TrueOffset) = x
    BY <2>1 DEF Sound, normalize
  <2>3. \A r : Near(o - 4 * TrueOffset, r) /\ r \in Int => Away(x, 4 * now) <= r
    <3> TAKE r
    <3> HAVE Near(o - 4 * TrueOffset, r) /\ r \in Int
    <3>1. o - 4 * TrueOffset <= r /\ - (o - 4 * TrueOffset) <= r /\ r \in Int
      BY DEF Near
    <3> HIDE DEF o
    <3> QED
      BY <2>1, <2>2, <3>1 DEF Away
  <2>4. Away(x, 4 * now) <= cached.rttMs
    BY <2>1, <2>3 DEF Sound
  <2>5. ASSUME cached.window = samples
        PROVE  Away(x, 4 * now) <= ciHalfWidth + (IF cached.method = "median" THEN Spread ELSE 0)
    <3>1. samples \in Seq(Sample) /\ samples # <<>>
      BY <2>1, <2>5 DEF Sound
    <3>2. Offsets = OffsetsOf(samples) /\ Rtts = RttsOf(samples)
      BY DEF Offsets, Rtts, OffsetsOf, RttsOf
    <3>3. Spread = SpreadOf(samples)
      BY <3>2 DEF Spread, SpreadOf, Highest, Lowest
    <3>4. ciHalfWidth = Min(Range(RttsOf(samples))) + SpreadOf(samples)
      BY <3>1, <3>2, <3>3 DEF ciHalfWidth
    <3>5. IntervalOf(cached.method, samples) =
            ciHalfWidth + (IF cached.method = "median" THEN Spread ELSE 0)
      BY <3>3, <3>4 DEF IntervalOf
    <3>6. IntervalOf(cached.method, samples) \in Int
      <4>1. Min(Range(RttsOf(samples))) \in Int
        <5>1. Best \in Sample /\ Best.rtt = Min(Range(RttsOf(samples)))
          BY <3>1, BestSample
        <5> QED
          BY <5>1, SampleFields
      <4>2. SpreadOf(samples) \in Nat
        BY <3>1, Spreads
      <4> QED
        BY <4>1, <4>2 DEF IntervalOf
    <3>7. Near(o - 4 * TrueOffset, IntervalOf(cached.method, samples))
      BY <2>1, <2>5 DEF Sound
    <3> QED
      BY <2>3, <3>5, <3>6, <3>7
  <2> QED
    BY <2>2, <2>4, <2>5
<1> QED
  BY <1>1, OffsetStarts, OffsetSteps, PTL DEF OffsetSpec
===============================================================================
