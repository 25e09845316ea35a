--------------------------------- MODULE Hlc ---------------------------------
(***************************************************************************)
(* packages/bare-probe/clock/hlc.ts: hybrid logical clocks, the ordering   *)
(* authority of the timeline that merges several peers.  The wall clock a  *)
(* node reads may jump in either direction between two readings; messages  *)
(* may be lost, duplicated and reordered.  Node ids are numbers, in the    *)
(* order of the strings they stand for; a message carries the decomposed   *)
(* time, so that its wire form is left out.                                *)
(***************************************************************************)
EXTENDS Naturals

CONSTANTS Node,         \* node ids
          Wall,         \* readings of the wall clocks
          MaxStamps     \* bound: stamps a node issues

ASSUME NodeAssumption == Node \subseteq Nat
ASSUME WallAssumption == Wall \subseteq Nat
ASSUME BoundAssumption == MaxStamps \in Nat

VARIABLES l, c,         \* the clock of each node
          messages,     \* messages sent, with the history of their senders
          past,         \* history: stamps that causally precede a node's next
          readings,     \* history: wall clock readings among their causes
          issued        \* history: how many stamps a node has issued

vars == <<l, c, messages, past, readings, issued>>

HlcTime == [l : Nat, c : Nat, id : Node]
Message == [stamp : HlcTime, past : SUBSET HlcTime, readings : SUBSET Wall]

TypeOK == /\ l \in [Node -> Nat]
          /\ c \in [Node -> Nat]
          /\ messages \subseteq Message
          /\ past \in [Node -> SUBSET HlcTime]
          /\ readings \in [Node -> SUBSET Wall]
          /\ issued \in [Node -> Nat]

Init == /\ l = [n \in Node |-> 0]
        /\ c = [n \in Node |-> 0]
        /\ messages = {}
        /\ past = [n \in Node |-> {}]
        /\ readings = [n \in Node |-> {}]
        /\ issued = [n \in Node |-> 0]

-----------------------------------------------------------------------------
Larger(a, b) == IF a >= b THEN a ELSE b

(* compareHlc(x, y) < 0: the order of the timeline. *)
Before(x, y) == \/ x.l < y.l
                \/ x.l = y.l /\ x.c < y.c
                \/ x.l = y.l /\ x.c = y.c /\ x.id < y.id

snapshot(n) == [l |-> l[n], c |-> c[n], id |-> n]

(* Node n moves to (newL, newC) and stamps an event with it. *)
Stamp(n, newL, newC, causes, clocks) ==
  /\ issued[n] < MaxStamps
  /\ issued' = [issued EXCEPT ![n] = @ + 1]
  /\ l' = [l EXCEPT ![n] = newL]
  /\ c' = [c EXCEPT ![n] = newC]
  /\ past' = [past EXCEPT ![n] = causes \cup {[l |-> newL, c |-> newC, id |-> n]}]
  /\ readings' = [readings EXCEPT ![n] = clocks]

(* Fault: the counter restarts whatever the physical component does. *)
CounterRestarting(n, newL) == 0

(* The counter of a local event that moves n to newL. *)
Counter(n, newL) == IF newL = l[n] THEN c[n] + 1 ELSE 0

(* The rule of send() and update(), on reading pt. *)
Advance(n, pt) ==
  LET newL == Larger(l[n], pt) IN
  Stamp(n, newL, Counter(n, newL), past[n], readings[n] \cup {pt})

send(n) == \E pt \in Wall :
  /\ Advance(n, pt)
  /\ messages' = messages \cup {[stamp |-> snapshot(n)', past |-> past'[n],
                                 readings |-> readings'[n]]}

update(n) == \E pt \in Wall : Advance(n, pt) /\ UNCHANGED messages

(* Fault: on a tie of all clocks the local counter alone is advanced. *)
MergedCounterLocal(n, m, newL) ==
  IF newL = l[n] THEN c[n] + 1
  ELSE IF newL = m.l THEN m.c + 1 ELSE 0

(* The counter after merging m, by whose physical component is the largest. *)
MergedCounter(n, m, newL) ==
  CASE newL = l[n] /\ newL = m.l -> Larger(c[n], m.c) + 1
    [] newL = l[n] /\ newL # m.l -> c[n] + 1
    [] newL # l[n] /\ newL = m.l -> m.c + 1
    [] newL # l[n] /\ newL # m.l -> 0

recv(n) == \E msg \in messages, pt \in Wall :
  LET m == msg.stamp
      newL == Larger(l[n], Larger(m.l, pt))
  IN  /\ Stamp(n, newL, MergedCounter(n, m, newL), past[n] \cup msg.past,
               readings[n] \cup msg.readings \cup {pt})
      /\ UNCHANGED messages

Next == \E n \in Node : send(n) \/ update(n) \/ recv(n)

Spec == Init /\ [][Next]_vars

-----------------------------------------------------------------------------
IsLatest(stamp, stamps) == \A s \in stamps : s = stamp \/ Before(s, stamp)

(* Order follows causality: an event's stamp is after the stamp of every   *)
(* event that happened before it, at its node or behind a message it       *)
(* received, whatever the wall clocks read.                                *)
OrderFollowsCausality ==
  /\ \A n \in Node : IsLatest(snapshot(n), past[n])
  /\ \A m \in messages : IsLatest(m.stamp, m.past)

(* A clock never rewinds and never issues a stamp twice.                   *)
NeverRewinds ==
  [][\A n \in Node : issued'[n] # issued[n] => Before(snapshot(n), snapshot(n)')]_vars

(* The physical component is a ceiling over observed clocks, and over      *)
(* nothing else: it is the largest reading among the causes of the node's  *)
(* state, so a node never runs ahead of every clock it has heard of.       *)
IsCeiling(time, observed) == /\ time \in observed \cup {0}
                             /\ \A t \in observed : t <= time

CeilingOfObserved == /\ \A n \in Node : IsCeiling(l[n], readings[n])
                     /\ \A m \in messages : IsCeiling(m.stamp.l, m.readings)
=============================================================================
