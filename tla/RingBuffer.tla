----------------------------- MODULE RingBuffer ------------------------------
(***************************************************************************)
(* packages/bare-probe/core/ring-buffer.ts: the fixed-size ring in which   *)
(* the collector keeps its rows.  The n-th push pushes the number n, which *)
(* makes the order and the identity of items visible to the properties.    *)
(*                                                                         *)
(* The iterator is a generator: between two next() calls its consumer may  *)
(* push, drain or clear, and the generator reads head and count afresh.    *)
(***************************************************************************)
EXTENDS Naturals, Sequences

CONSTANTS Capacity,     \* constructor argument
          MaxPushes,    \* bound: pushes explored
          Undefined     \* an empty slot of the backing array

ASSUME CapacityAssumption == Capacity \in Nat \ {0}
ASSUME MaxPushesAssumption == MaxPushes \in Nat
ASSUME UndefinedAssumption == Undefined \notin Nat

VARIABLES buf,          \* the backing array, indexed from 0
          head,         \* index of the oldest live item
          count,        \* number of live items
          dropped,      \* evictions so far
          pushes,       \* history: items pushed so far
          drained,      \* the array the last drain() returned
          cursor,       \* the loop variable i of the open iterator, or Undefined
          yielded       \* history: items the open iterator has yielded

ringVars == <<buf, head, count, dropped, pushes, drained>>
iterVars == <<cursor, yielded>>
vars == <<ringVars, iterVars>>

Slots == 0 .. Capacity - 1
Items == 1 .. MaxPushes

(* The slot of the i-th live item, counting from 0. *)
SlotOf(i) == (head + i) % Capacity

TypeOK == /\ buf \in [Slots -> Items \cup {Undefined}]
          /\ head \in Slots
          /\ count \in 0 .. Capacity
          /\ dropped \in 0 .. MaxPushes
          /\ pushes \in 0 .. MaxPushes
          /\ drained \in Seq(Items)
          /\ cursor \in Nat \cup {Undefined}
          /\ yielded \in Seq(Items)

Init == /\ buf = [s \in Slots |-> Undefined]
        /\ head = 0
        /\ count = 0
        /\ dropped = 0
        /\ pushes = 0
        /\ drained = <<>>
        /\ cursor = Undefined
        /\ yielded = <<>>

-----------------------------------------------------------------------------
ToArray == [i \in 1 .. count |-> buf[SlotOf(i - 1)]]

(* Fault: the oldest item stays the head of a full ring. *)
NextHeadStuck == head

(* The index a push onto a full ring leaves as the oldest. *)
NextHead == (head + 1) % Capacity

PushFull == /\ count = Capacity
            /\ buf' = [buf EXCEPT ![head] = pushes + 1]
            /\ head' = NextHead
            /\ dropped' = dropped + 1
            /\ UNCHANGED count

PushFree == /\ count # Capacity
            /\ buf' = [buf EXCEPT ![SlotOf(count)] = pushes + 1]
            /\ count' = count + 1
            /\ UNCHANGED <<head, dropped>>

Push == /\ pushes < MaxPushes
        /\ pushes' = pushes + 1
        /\ PushFull \/ PushFree
        /\ UNCHANGED <<drained, iterVars>>

(* Fault: clear() stops one slot early. *)
VacateAllButOne == [s \in Slots |-> IF \E i \in 0 .. count - 2 : s = SlotOf(i)
                                     THEN Undefined
                                     ELSE buf[s]]

(* clear() forgets the live slots, and them only. *)
Vacate == [s \in Slots |-> IF \E i \in 0 .. count - 1 : s = SlotOf(i)
                             THEN Undefined
                             ELSE buf[s]]

Clear == /\ buf' = Vacate
         /\ head' = 0
         /\ count' = 0
         /\ UNCHANGED <<dropped, pushes, drained, iterVars>>

Drain == /\ drained' = ToArray
         /\ buf' = Vacate
         /\ head' = 0
         /\ count' = 0
         /\ UNCHANGED <<dropped, pushes, iterVars>>

(* for (const item of ring): one call of the generator's next(). *)
IterOpen == /\ cursor = Undefined
            /\ cursor' = 0
            /\ yielded' = <<>>
            /\ UNCHANGED ringVars

IterNext == /\ cursor # Undefined
            /\ cursor < count
            /\ cursor' = cursor + 1
            /\ yielded' = Append(yielded, buf[SlotOf(cursor)])
            /\ UNCHANGED ringVars

IterDone == /\ cursor # Undefined
            /\ cursor >= count
            /\ cursor' = Undefined
            /\ UNCHANGED <<ringVars, yielded>>

Next == Push \/ Clear \/ Drain \/ IterOpen \/ IterNext \/ IterDone

Spec == Init /\ [][Next]_vars

-----------------------------------------------------------------------------
(* The ring implements the bounded queue: after any wrap-around, clear or  *)
(* drain, toArray() is the newest items in push order and `dropped` counts *)
(* exactly the evictions.                                                  *)
Abstract == INSTANCE BoundedFifo WITH contents <- ToArray
RingIsBoundedFifo == Abstract!Spec

(* A slot that holds no live item holds nothing: the ring never keeps an   *)
(* evicted or drained row reachable.                                       *)
NoStaleSlot ==
  \A s \in Slots : buf[s] # Undefined => \E i \in 0 .. count - 1 : s = SlotOf(i)

(* Whatever its consumer does to the ring between two next() calls, an     *)
(* iteration never yields an empty slot and never goes back: the items it  *)
(* yields are real and strictly newer one after the other.                 *)
IterationMovesForward ==
  \A i, j \in 1 .. Len(yielded) :
    /\ yielded[i] \in Items
    /\ i < j => yielded[i] < yielded[j]
=============================================================================
