----------------------------- MODULE BoundedFifo -----------------------------
(***************************************************************************)
(* What a bounded event store promises its readers: it holds the newest    *)
(* Capacity items in the order they were pushed, and it counts every item  *)
(* it evicted to make room.  RingBuffer implements it over a fixed array.  *)
(***************************************************************************)
EXTENDS Naturals, Sequences, Bounded

CONSTANTS Capacity,     \* the most items the store holds
          MaxPushes     \* bound: pushes explored (the n-th push pushes n)

VARIABLES contents,     \* the live items, oldest first
          dropped,      \* items evicted so far
          pushes,       \* items pushed so far
          drained       \* the array the last drain handed out

vars == <<contents, dropped, pushes, drained>>

Init == /\ contents = <<>>
        /\ dropped = 0
        /\ pushes = 0
        /\ drained = <<>>

Push == /\ pushes < MaxPushes
        /\ pushes' = pushes + 1
        /\ contents' = Newest(Append(contents, pushes + 1), Capacity)
        /\ dropped' = dropped + Excess(Append(contents, pushes + 1), Capacity)
        /\ UNCHANGED drained

Drain == /\ drained' = contents
         /\ contents' = <<>>
         /\ UNCHANGED <<dropped, pushes>>

Clear == /\ contents' = <<>>
         /\ UNCHANGED <<dropped, pushes, drained>>

Next == Push \/ Drain \/ Clear

Spec == Init /\ [][Next]_vars
=============================================================================
