--------------------------- MODULE CollectorProofs ---------------------------
(***************************************************************************)
(* The collector, for every set of ids and peers and every limit: its      *)
(* tables are bounded, its counters account for every request and row, its *)
(* timeout rows are true to the rows above them, and nothing about a       *)
(* request is shown after its timeout.  The sink drives the collector only *)
(* into states the collector's own invariant allows, and never reuses the  *)
(* id of a live request, so that behind it the public counters alone       *)
(* account for every request.                                              *)
(***************************************************************************)
EXTENDS CollectorSink, BoundedProofs, FiniteSetTheorems

USE LimitsAssumption, BoundsAssumption

(* The settled sets: distinct ids, as a Set of JavaScript holds them. *)
IdLists == {s \in Seq(CorrIds) : IsInjective(s)}

-----------------------------------------------------------------------------
LEMMA MarkSettledType ==
  ASSUME NEW s \in IdLists, NEW c \in CorrIds
  PROVE  /\ MarkSettled(s, c) \in IdLists
         /\ Len(MarkSettled(s, c)) <= MaxSettled
<1> DEFINE t == IF c \in Range(s) THEN s ELSE Append(s, c)
<1>1. t \in Seq(CorrIds) /\ IsInjective(t)
  <2>1. CASE c \in Range(s)
    BY <2>1 DEF IdLists
  <2>2. CASE c \notin Range(s)
    BY <2>2, AppendProperties, AppendFresh DEF IdLists
  <2> QED
    BY <2>1, <2>2
<1>2. MarkSettled(s, c) = Newest(t, MaxSettled)
  BY DEF MarkSettled
<1> HIDE DEF t
<1> QED
  BY <1>1, <1>2, NewestBounded, NewestInjective DEF IdLists

(* Marking the ids of a sweep one after the other: the recursive function  *)
(* exists and each of its values is a list within the limit.               *)
LEMMA MarkAllSettledType ==
  ASSUME NEW s \in IdLists, NEW ids \in Seq(CorrIds), Len(s) <= MaxSettled
  PROVE  /\ MarkAllSettled(s, ids) \in IdLists
         /\ Len(MarkAllSettled(s, ids)) <= MaxSettled
<1> DEFINE Marks(f, n) == f = [i \in 0 .. n |->
                                 IF i = 0 THEN s ELSE MarkSettled(f[i - 1], ids[i])]
           Bad == {n \in 0 .. Len(ids) : ~ \E f : Marks(f, n)}
<1>0. Len(ids) \in Nat
  BY LenProperties
<1> HIDE DEF Marks
<1>1. Bad = {}
  <2>1. SUFFICES ASSUME Bad # {} PROVE FALSE
    OBVIOUS
  <2>2. Bad \in SUBSET Nat
    BY <1>0
  <2>3. PICK n \in Bad : \A m \in Bad : n <= m
    BY <2>1, <2>2, LeastElement
  <2>4. n \in 0 .. Len(ids) /\ ~ \E f : Marks(f, n)
    OBVIOUS
  <2>5. n # 0
    <3>1. Marks([i \in 0 .. 0 |-> s], 0)
      BY DEF Marks
    <3> QED
      BY <2>4, <3>1
  <2>6. n - 1 \in 0 .. Len(ids) /\ n - 1 \notin Bad
    BY <1>0, <2>3, <2>4, <2>5
  <2>7. PICK f : Marks(f, n - 1)
    BY <2>6
  <2>8. Marks([i \in 0 .. n |-> IF i = n THEN MarkSettled(f[n - 1], ids[n]) ELSE f[i]], n)
    BY <1>0, <2>4, <2>5, <2>7 DEF Marks
  <2> QED
    BY <2>4, <2>8
<1> DEFINE mark == CHOOSE f : Marks(f, Len(ids))
<1>2. Marks(mark, Len(ids))
  BY <1>0, <1>1
<1>3. MarkAllSettled(s, ids) = mark[Len(ids)]
  BY DEF MarkAllSettled, Marks
<1> HIDE DEF mark
<1> DEFINE Wrong == {n \in 0 .. Len(ids) : ~ (/\ mark[n] \in IdLists
                                              /\ Len(mark[n]) <= MaxSettled)}
<1>4. Wrong = {}
  <2>1. SUFFICES ASSUME Wrong # {} PROVE FALSE
    OBVIOUS
  <2>2. Wrong \in SUBSET Nat
    BY <1>0
  <2>3. PICK n \in Wrong : \A m \in Wrong : n <= m
    BY <2>1, <2>2, LeastElement
  <2>4. n # 0
    BY <1>0, <1>2 DEF Marks
  <2>5. n - 1 \in 0 .. Len(ids) /\ n - 1 \notin Wrong
    BY <1>0, <2>3, <2>4
  <2>6. mark[n] = MarkSettled(mark[n - 1], ids[n])
    BY <1>0, <1>2, <2>4 DEF Marks
  <2>7. ids[n] \in CorrIds
    BY <1>0, <2>4, ElementOfSeq
  <2> QED
    BY <2>5, <2>6, <2>7, MarkSettledType
<1> QED
  BY <1>0, <1>3, <1>4

-----------------------------------------------------------------------------
(* What pushing rows does to the ring: the limit holds and every row is    *)
(* either kept or counted.                                                 *)
LEMMA EmitEffect ==
  ASSUME NEW rows \in Seq(Row), events \in Seq(Row), dropped \in Nat, Emit(rows)
  PROVE  /\ events' \in Seq(Row)
         /\ Len(events') <= MaxEvents
         /\ dropped' \in Nat
         /\ Len(events') + dropped' = Len(events) + dropped + Len(rows)
<1>1. /\ events \o rows \in Seq(Row)
      /\ Len(events \o rows) = Len(events) + Len(rows)
  BY ConcatProperties
<1>2. /\ Newest(events \o rows, MaxEvents) \in Seq(Row)
      /\ Len(Newest(events \o rows, MaxEvents)) <= MaxEvents
      /\ Excess(events \o rows, MaxEvents) \in Nat
      /\ Len(Newest(events \o rows, MaxEvents)) + Excess(events \o rows, MaxEvents)
           = Len(events \o rows)
  BY <1>1, NewestBounded
<1>3. /\ Len(events) \in Nat /\ Len(rows) \in Nat
      /\ Len(Newest(events \o rows, MaxEvents)) \in Nat
  BY <1>2, LenProperties
<1>4. /\ events' = Newest(events \o rows, MaxEvents)
      /\ dropped' = dropped + Excess(events \o rows, MaxEvents)
  BY DEF Emit
<1> DEFINE kept == Newest(events \o rows, MaxEvents)
           lost == Excess(events \o rows, MaxEvents)
<1>5. Len(kept) + lost = Len(events) + Len(rows)
  BY <1>1, <1>2
<1> HIDE DEF kept, lost
<1>6. dropped + lost \in Nat /\ Len(kept) + (dropped + lost) = Len(events) + dropped + Len(rows)
  <2>1. Len(kept) \in Nat /\ lost \in Nat
    BY <1>2, <1>3 DEF kept, lost
  <2> QED
    BY <1>3, <1>5, <2>1
<1> QED
  BY <1>2, <1>4, <1>6 DEF kept, lost

(* A non-empty table has an oldest entry. *)
LEMMA OldestIsThere ==
  ASSUME NEW table, \A c \in DOMAIN table : table[c] \in Entry, DOMAIN table # {}
  PROVE  Oldest(table) \in DOMAIN table
<1> DEFINE Births == {table[c].born : c \in DOMAIN table}
<1>1. Births \in SUBSET Nat /\ Births # {}
  BY DEF Entry
<1>2. PICK n \in Births : \A m \in Births : n <= m
  BY <1>1, LeastElement
<1>3. PICK o \in DOMAIN table : table[o].born = n
  BY <1>2
<1>4. \A d \in DOMAIN table : table[o].born <= table[d].born
  BY <1>2, <1>3
<1> QED
  BY <1>4 DEF Oldest

(* Sets of ids are finite. *)
LEMMA IdsFinite ==
  ASSUME NEW S \in SUBSET CorrIds
  PROVE  IsFiniteSet(S) /\ Cardinality(S) \in Nat
BY CorrIdsAssumption, FS_Subset, FS_CardinalityType

LEMMA LiveFinite ==
  ASSUME TypeOK
  PROVE  IsFiniteSet(Live) /\ Cardinality(Live) \in Nat
BY IdsFinite DEF TypeOK

-----------------------------------------------------------------------------
(* The table after request(): within its limit, and the request either     *)
(* took a new entry, took the entry of its own id, or took the entry of an *)
(* evicted request that was counted.                                       *)
LEMMA RequestTable ==
  ASSUME TypeOK, MemoryBounded,
         NEW c \in CorrIds, NEW P \in SUBSET Peers, Request(c, P)
  PROVE  /\ Live' \subseteq CorrIds
         /\ pending' \in [Live' -> Entry]
         /\ Cardinality(Live') <= MaxPending
         /\ superseded' \in Nat /\ pendingDropped' \in Nat
         /\ Cardinality(Live') + pendingDropped' + superseded'
              = Cardinality(Live) + pendingDropped + superseded + 1
<1> DEFINE table == WithRequest(c, P)
<1>1. /\ DOMAIN table = Live \cup {c}
      /\ \A d \in DOMAIN table : table[d] \in Entry
      /\ table \in [DOMAIN table -> Entry]
  <2>1. c \in Live => pending[c].born \in Nat
    BY DEF TypeOK, Entry
  <2>2. started + 1 \in Nat
    BY DEF TypeOK
  <2>3. 0 \in 0 .. TimeoutMs + 1
    OBVIOUS
  <2> QED
    BY <2>1, <2>2, <2>3 DEF WithRequest, TypeOK, Entry, Live
<1>2. /\ IsFiniteSet(Live) /\ Cardinality(Live) \in Nat
      /\ IsFiniteSet(Live \cup {c})
      /\ Cardinality(Live \cup {c})
           = IF c \in Live THEN Cardinality(Live) ELSE Cardinality(Live) + 1
  BY LiveFinite, FS_AddElement
<1>3. /\ superseded' = superseded + (IF c \in Live THEN 1 ELSE 0)
      /\ pending' = IF Overfull(table) THEN Without(table, {Oldest(table)}) ELSE table
      /\ pendingDropped' = pendingDropped + (IF Overfull(table) THEN 1 ELSE 0)
      /\ superseded \in Nat /\ pendingDropped \in Nat
  BY DEF Request, TypeOK
<1> HIDE DEF table
<1>4. CASE Overfull(table)
  <2>1. Oldest(table) \in Live \cup {c}
    BY <1>1, OldestIsThere
  <2>2. /\ Live' = (Live \cup {c}) \ {Oldest(table)}
        /\ pending' \in [Live' -> Entry]
    BY <1>1, <1>3, <1>4 DEF Without, Live
  <2>3. Cardinality(Live') = Cardinality(Live \cup {c}) - 1
    BY <1>2, <2>1, <2>2, FS_RemoveElement
  <2>4. Cardinality(Live) <= MaxPending
    BY DEF MemoryBounded
  <2>5. Live' \subseteq CorrIds
    BY <2>2 DEF TypeOK
  <2>6. /\ superseded' = superseded + (IF c \in Live THEN 1 ELSE 0)
        /\ pendingDropped' = pendingDropped + 1
    BY <1>3, <1>4
  <2>7. Cardinality(Live') <= MaxPending
    BY <1>2, <2>3, <2>4
  <2>8. Cardinality(Live') + pendingDropped' + superseded'
          = Cardinality(Live) + pendingDropped + superseded + 1
    BY <1>2, <1>3, <2>3, <2>6
  <2> QED
    BY <1>3, <2>2, <2>5, <2>6, <2>7, <2>8
<1>5. CASE ~ Overfull(table)
  <2>1. pending' = table /\ Live' = Live \cup {c}
    BY <1>1, <1>3, <1>5 DEF Live
  <2>2. Cardinality(Live') <= MaxPending
    BY <1>1, <1>2, <1>5, <2>1 DEF Overfull
  <2>3. Live' \subseteq CorrIds
    BY <2>1 DEF TypeOK
  <2> QED
    BY <1>1, <1>2, <1>3, <1>5, <2>1, <2>2, <2>3
<1> QED
  BY <1>4, <1>5

(* Taking entries out of the table. *)
LEMMA WithoutTable ==
  ASSUME TypeOK, NEW S \in SUBSET Live, pending' = Without(pending, S)
  PROVE  /\ Live' \subseteq CorrIds
         /\ pending' \in [Live' -> Entry]
         /\ Cardinality(S) \in Nat
         /\ Cardinality(Live') = Cardinality(Live) - Cardinality(S)
<1>1. Live' = Live \ S
  BY DEF Without, Live
<1>2. pending' \in [Live' -> Entry] /\ Live' \subseteq CorrIds
  BY <1>1 DEF Without, Live, TypeOK
<1>3. IsFiniteSet(Live) /\ Cardinality(Live) \in Nat
  BY LiveFinite
<1>4. IsFiniteSet(S) /\ Cardinality(S) \in Nat
  BY <1>3, FS_Subset, FS_CardinalityType
<1>5. Live \cap S = S
  OBVIOUS
<1> QED
  BY <1>1, <1>2, <1>3, <1>4, <1>5, FS_Difference

-----------------------------------------------------------------------------
(* The inductive invariant.  The bounds need the types, the accounts need  *)
(* the bounds (a full table is what makes request() evict exactly one).    *)
IInv == TypeOK /\ MemoryBounded /\ RequestsAccounted /\ RowsAccounted

LEMMA InitIInv == Init => IInv
<1> SUFFICES ASSUME Init PROVE IInv
  OBVIOUS
<1>1. Live = {} /\ Cardinality(Live) = 0
  BY FS_EmptySet DEF Init, Live
<1>2. settled = <<>> /\ events = <<>> /\ Len(settled) = 0 /\ Len(events) = 0
  BY DEF Init
<1>3. IsInjective(settled) /\ settled \in Seq(CorrIds) /\ events \in Seq(Row)
  BY <1>2 DEF IsInjective
<1>4. TypeOK
  BY <1>1, <1>3 DEF Init, TypeOK, Live
<1> QED
  BY <1>1, <1>2, <1>4 DEF Init, IInv, MemoryBounded, RequestsAccounted, RowsAccounted

LEMMA RequestKeepsIInv ==
  ASSUME IInv, NEW c \in CorrIds, NEW P \in SUBSET Peers, Request(c, P)
  PROVE  IInv'
<1>1. /\ Live' \subseteq CorrIds
      /\ pending' \in [Live' -> Entry]
      /\ Cardinality(Live') <= MaxPending
      /\ superseded' \in Nat /\ pendingDropped' \in Nat
      /\ Cardinality(Live') + pendingDropped' + superseded'
           = Cardinality(Live) + pendingDropped + superseded + 1
  BY RequestTable DEF IInv
<1>2. <<ReqRow(c, P)>> \in Seq(Row) /\ Len(<<ReqRow(c, P)>>) = 1
  BY DEF ReqRow, Row
<1>3. events \in Seq(Row) /\ dropped \in Nat /\ Emit(<<ReqRow(c, P)>>)
  BY DEF IInv, TypeOK, Request
<1>4. /\ events' \in Seq(Row)
      /\ Len(events') <= MaxEvents
      /\ dropped' \in Nat
      /\ Len(events') + dropped' = Len(events) + dropped + 1
  BY <1>2, <1>3, EmitEffect
<1>5. /\ started' = started + 1
      /\ UNCHANGED <<settled, timedOut, lateAfterTimeout, completed, accepted>>
  BY DEF Request
<1>6. TypeOK'
  <2>1. /\ settled \in Seq(CorrIds) /\ IsInjective(settled)
        /\ \A n \in {started, timedOut, lateAfterTimeout, completed, accepted} : n \in Nat
    BY DEF IInv, TypeOK
  <2>2. settled' \in Seq(CorrIds) /\ IsInjective(settled')
    BY <1>5, <2>1
  <2>3. \A n \in {started', timedOut', lateAfterTimeout', completed', accepted'} : n \in Nat
    BY <1>5, <2>1
  <2> QED
    BY <1>1, <1>4, <2>2, <2>3 DEF TypeOK
<1>7. MemoryBounded'
  BY <1>1, <1>4, <1>5 DEF IInv, MemoryBounded
<1>8. /\ Cardinality(Live) \in Nat /\ Cardinality(Live') \in Nat
      /\ Len(events) \in Nat /\ Len(events') \in Nat
  BY <1>1, <1>3, <1>4, LiveFinite, IdsFinite, LenProperties DEF IInv
<1>9. RequestsAccounted'
  <2>1. /\ completed \in Nat /\ timedOut \in Nat /\ started \in Nat
        /\ pendingDropped \in Nat /\ superseded \in Nat
    BY DEF IInv, TypeOK
  <2>2. started = Cardinality(Live) + completed + timedOut + pendingDropped + superseded
    BY DEF IInv, RequestsAccounted
  <2>3. started' = Cardinality(Live') + completed' + timedOut' + pendingDropped' + superseded'
    <3>1. completed' = completed /\ timedOut' = timedOut /\ started' = started + 1
      BY <1>5
    <3>2. /\ Cardinality(Live') + pendingDropped' + superseded'
               = Cardinality(Live) + pendingDropped + superseded + 1
          /\ superseded' \in Nat /\ pendingDropped' \in Nat
      BY <1>1
    <3>3. Cardinality(Live) \in Nat /\ Cardinality(Live') \in Nat
      BY <1>8
    <3>4. started' = (Cardinality(Live) + pendingDropped + superseded + 1) + completed + timedOut
      BY <2>1, <2>2, <3>1, <3>3
    <3> QED
      BY <2>1, <3>1, <3>2, <3>3, <3>4
  <2> QED
    BY <2>3 DEF RequestsAccounted
<1>10. RowsAccounted'
  <2>1. started \in Nat /\ accepted \in Nat /\ timedOut \in Nat
    BY DEF IInv, TypeOK
  <2>2. Len(events) + dropped = started + accepted + timedOut
    BY DEF IInv, RowsAccounted
  <2>3. Len(events') + dropped' = started' + accepted' + timedOut'
    BY <1>3, <1>4, <1>5, <1>8, <2>1, <2>2
  <2> QED
    BY <2>3 DEF RowsAccounted
<1> QED
  BY <1>6, <1>7, <1>9, <1>10 DEF IInv

LEMMA ResponseUnmatchedKeepsIInv ==
  ASSUME IInv, NEW c \in CorrIds, ResponseUnmatched(c)
  PROVE  IInv'
<1>1. lateAfterTimeout' \in Nat
  BY DEF IInv, TypeOK, ResponseUnmatched
<1>2. UNCHANGED <<tables, pendingDropped, timedOut, history>> /\ Live' = Live
  BY DEF ResponseUnmatched, Live, tables
<1>3. TypeOK'
  BY <1>1, <1>2 DEF IInv, TypeOK, tables, history
<1> QED
  BY <1>2, <1>3
  DEF IInv, MemoryBounded, RequestsAccounted, RowsAccounted, tables, history

LEMMA ResponsePartialKeepsIInv ==
  ASSUME IInv, NEW c \in CorrIds, NEW p \in Peers, ResponsePartial(c, p)
  PROVE  IInv'
<1>1. /\ c \in Live
      /\ pending' = [pending EXCEPT ![c].awaiting = @ \ {p}, ![c].responses = @ + 1]
      /\ accepted' = accepted + 1
      /\ Emit(<<ResRow(c, p)>>)
      /\ UNCHANGED <<settled, counters, started, superseded, completed>>
  BY DEF ResponsePartial
<1>2. Live' = Live /\ pending' \in [Live' -> Entry]
  <2>1. pending \in [Live -> Entry] /\ pending[c] \in Entry
    BY <1>1 DEF IInv, TypeOK
  <2>2. [pending[c] EXCEPT !.awaiting = @ \ {p}, !.responses = @ + 1] \in Entry
    <3>1. \A e \in Entry : /\ e.awaiting \ {p} \in SUBSET Peers
                           /\ e.responses + 1 \in Nat
      BY DEF Entry
    <3>2. \A e \in Entry, Q \in SUBSET Peers, n \in Nat :
            [e EXCEPT !.awaiting = Q, !.responses = n] \in Entry
      BY DEF Entry
    <3> QED
      BY <2>1, <3>1, <3>2
  <2>3. pending' = [pending EXCEPT ![c] =
                      [pending[c] EXCEPT !.awaiting = @ \ {p}, !.responses = @ + 1]]
    BY <1>1, <2>1
  <2> QED
    BY <1>1, <2>1, <2>2, <2>3 DEF Live
<1>3. <<ResRow(c, p)>> \in Seq(Row) /\ Len(<<ResRow(c, p)>>) = 1
  BY DEF ResRow, Row
<1>4. events \in Seq(Row) /\ dropped \in Nat
  BY DEF IInv, TypeOK
<1>5. /\ events' \in Seq(Row)
      /\ Len(events') <= MaxEvents
      /\ dropped' \in Nat
      /\ Len(events') + dropped' = Len(events) + dropped + 1
  BY <1>1, <1>3, <1>4, EmitEffect
<1>6. TypeOK'
  <2>1. /\ Live \subseteq CorrIds /\ settled \in Seq(CorrIds) /\ IsInjective(settled)
        /\ \A n \in {pendingDropped, timedOut, lateAfterTimeout,
                      started, superseded, completed, accepted} : n \in Nat
    BY DEF IInv, TypeOK
  <2>2. /\ settled' = settled /\ accepted' \in Nat
        /\ UNCHANGED <<pendingDropped, timedOut, lateAfterTimeout,
                       started, superseded, completed>>
    BY <1>1, <2>1 DEF counters
  <2> QED
    BY <1>2, <1>5, <2>1, <2>2 DEF TypeOK
<1>7. MemoryBounded' /\ RequestsAccounted'
  BY <1>1, <1>2, <1>5 DEF IInv, MemoryBounded, RequestsAccounted, counters
<1>8. RowsAccounted'
  <2>1. started \in Nat /\ accepted \in Nat /\ timedOut \in Nat
        /\ Len(events) \in Nat /\ Len(events') \in Nat
    BY <1>4, <1>5, LenProperties DEF IInv, TypeOK
  <2>2. Len(events) + dropped = started + accepted + timedOut
    BY DEF IInv, RowsAccounted
  <2>3. started' = started /\ accepted' = accepted + 1 /\ timedOut' = timedOut
    BY <1>1 DEF counters
  <2> QED
    BY <1>4, <1>5, <2>1, <2>2, <2>3 DEF RowsAccounted
<1> QED
  BY <1>6, <1>7, <1>8 DEF IInv

LEMMA ResponseFinalKeepsIInv ==
  ASSUME IInv, NEW c \in CorrIds, NEW p \in Peers, ResponseFinal(c, p)
  PROVE  IInv'
<1>1. /\ c \in Live
      /\ pending' = Without(pending, {c})
      /\ settled' = MarkSettled(settled, c)
      /\ accepted' = accepted + 1
      /\ completed' = completed + 1
      /\ Emit(<<ResRow(c, p)>>)
      /\ UNCHANGED <<counters, started, superseded>>
  BY DEF ResponseFinal
<1>2. /\ Live' \subseteq CorrIds
      /\ pending' \in [Live' -> Entry]
      /\ Cardinality(Live') = Cardinality(Live) - 1
  <2>1. TypeOK /\ {c} \in SUBSET Live /\ Cardinality({c}) = 1
    BY <1>1, FS_Singleton DEF IInv
  <2> QED
    BY <1>1, <2>1, WithoutTable
<1>3. <<ResRow(c, p)>> \in Seq(Row) /\ Len(<<ResRow(c, p)>>) = 1
  BY DEF ResRow, Row
<1>4. events \in Seq(Row) /\ dropped \in Nat /\ settled \in IdLists
  BY DEF IInv, TypeOK, IdLists
<1>5. /\ events' \in Seq(Row)
      /\ Len(events') <= MaxEvents
      /\ dropped' \in Nat
      /\ Len(events') + dropped' = Len(events) + dropped + 1
  BY <1>1, <1>3, <1>4, EmitEffect
<1>6. settled' \in IdLists /\ Len(settled') <= MaxSettled
  BY <1>1, <1>4, MarkSettledType
<1>7. TypeOK'
  <2>1. \A n \in {pendingDropped, timedOut, lateAfterTimeout,
                  started, superseded, completed, accepted} : n \in Nat
    BY DEF IInv, TypeOK
  <2>2. /\ accepted' \in Nat /\ completed' \in Nat
        /\ UNCHANGED <<pendingDropped, timedOut, lateAfterTimeout, started, superseded>>
    BY <1>1, <2>1 DEF counters
  <2> QED
    BY <1>2, <1>5, <1>6, <2>1, <2>2 DEF TypeOK, IdLists
<1>8. Cardinality(Live) \in Nat /\ Cardinality(Live') \in Nat
  BY <1>2, LiveFinite, IdsFinite DEF IInv
<1>9. MemoryBounded'
  BY <1>2, <1>5, <1>6, <1>8 DEF IInv, MemoryBounded
<1>10. RequestsAccounted'
  <2>1. /\ completed \in Nat /\ timedOut \in Nat /\ started \in Nat
        /\ pendingDropped \in Nat /\ superseded \in Nat
    BY DEF IInv, TypeOK
  <2>2. started = Cardinality(Live) + completed + timedOut + pendingDropped + superseded
    BY DEF IInv, RequestsAccounted
  <2>3. /\ started' = started /\ completed' = completed + 1 /\ timedOut' = timedOut
        /\ pendingDropped' = pendingDropped /\ superseded' = superseded
    BY <1>1 DEF counters
  <2> QED
    BY <1>2, <1>8, <2>1, <2>2, <2>3 DEF RequestsAccounted
<1>11. RowsAccounted'
  <2>1. started \in Nat /\ accepted \in Nat /\ timedOut \in Nat
        /\ Len(events) \in Nat /\ Len(events') \in Nat
    BY <1>4, <1>5, LenProperties DEF IInv, TypeOK
  <2>2. Len(events) + dropped = started + accepted + timedOut
    BY DEF IInv, RowsAccounted
  <2>3. started' = started /\ accepted' = accepted + 1 /\ timedOut' = timedOut
    BY <1>1 DEF counters
  <2> QED
    BY <1>4, <1>5, <2>1, <2>2, <2>3 DEF RowsAccounted
<1> QED
  BY <1>7, <1>9, <1>10, <1>11 DEF IInv

LEMMA SweepKeepsIInv ==
  ASSUME IInv, Sweep
  PROVE  IInv'
<1> DEFINE rows(ids) == [i \in 1 .. Len(ids) |-> TimeoutRow(ids[i])]
<1>1. PICK ids \in MapOrders(Expired) : /\ Emit(rows(ids))
                                        /\ settled' = MarkAllSettled(settled, ids)
  BY DEF Sweep
<1>2. /\ pending' = Without(pending, Expired)
      /\ timedOut' = timedOut + Cardinality(Expired)
      /\ UNCHANGED <<pendingDropped, lateAfterTimeout, history>>
  BY DEF Sweep
<1>3. /\ Expired \in SUBSET Live
      /\ Live' \subseteq CorrIds
      /\ pending' \in [Live' -> Entry]
      /\ Cardinality(Expired) \in Nat
      /\ Cardinality(Live') = Cardinality(Live) - Cardinality(Expired)
  BY <1>2, WithoutTable DEF Expired, IInv
<1>4. ids \in Seq(CorrIds) /\ Len(ids) = Cardinality(Expired) /\ ids \in Seq(Expired)
  <2>1. ids \in [1 .. Cardinality(Expired) -> Expired]
    BY <1>1 DEF MapOrders
  <2>2. Expired \subseteq CorrIds
    BY <1>3 DEF IInv, TypeOK
  <2> QED
    BY <1>3, <2>1, <2>2
<1>5. \A c \in Live : TimeoutRow(c) \in Row
  BY DEF TimeoutRow, Row, Entry, IInv, TypeOK
<1> DEFINE shown == rows(ids)
<1>6. shown \in Seq(Row) /\ Len(shown) = Cardinality(Expired)
  BY <1>3, <1>4, <1>5
<1>6a. Emit(shown)
  BY <1>1
<1> HIDE DEF shown
<1>7. events \in Seq(Row) /\ dropped \in Nat /\ settled \in IdLists /\ Len(settled) <= MaxSettled
  BY DEF IInv, TypeOK, MemoryBounded, IdLists
<1>8. /\ events' \in Seq(Row)
      /\ Len(events') <= MaxEvents
      /\ dropped' \in Nat
      /\ Len(events') + dropped' = Len(events) + dropped + Cardinality(Expired)
  <2>1. shown \in Seq(Row) /\ events \in Seq(Row) /\ dropped \in Nat
    BY <1>6, <1>7
  <2>2. /\ events' \in Seq(Row)
        /\ Len(events') <= MaxEvents
        /\ dropped' \in Nat
        /\ Len(events') + dropped' = Len(events) + dropped + Len(shown)
    BY ONLY <1>6a, <2>1, EmitEffect
  <2> QED
    BY <1>6, <2>2
<1>9. settled' \in IdLists /\ Len(settled') <= MaxSettled
  BY <1>1, <1>4, <1>7, MarkAllSettledType
<1>10. TypeOK'
  <2>1. \A n \in {pendingDropped, timedOut, lateAfterTimeout,
                  started, superseded, completed, accepted} : n \in Nat
    BY DEF IInv, TypeOK
  <2>2. /\ timedOut' \in Nat
        /\ UNCHANGED <<pendingDropped, lateAfterTimeout,
                       started, superseded, completed, accepted>>
    BY <1>2, <1>3, <2>1 DEF history
  <2> QED
    BY <1>3, <1>8, <1>9, <2>1, <2>2 DEF TypeOK, IdLists
<1>11. Cardinality(Live) \in Nat /\ Cardinality(Live') \in Nat
  BY <1>3, LiveFinite, IdsFinite DEF IInv
<1>12. MemoryBounded'
  BY <1>3, <1>8, <1>9, <1>11 DEF IInv, MemoryBounded
<1>13. RequestsAccounted'
  <2>1. /\ completed \in Nat /\ timedOut \in Nat /\ started \in Nat
        /\ pendingDropped \in Nat /\ superseded \in Nat
    BY DEF IInv, TypeOK
  <2>2. started = Cardinality(Live) + completed + timedOut + pendingDropped + superseded
    BY DEF IInv, RequestsAccounted
  <2>3. /\ started' = started /\ completed' = completed
        /\ timedOut' = timedOut + Cardinality(Expired)
        /\ pendingDropped' = pendingDropped /\ superseded' = superseded
    BY <1>2 DEF history
  <2> QED
    BY <1>3, <1>11, <2>1, <2>2, <2>3 DEF RequestsAccounted
<1>14. RowsAccounted'
  <2>1. started \in Nat /\ accepted \in Nat /\ timedOut \in Nat
        /\ Len(events) \in Nat /\ Len(events') \in Nat
    BY <1>7, <1>8, LenProperties DEF IInv, TypeOK
  <2>2. Len(events) + dropped = started + accepted + timedOut
    BY DEF IInv, RowsAccounted
  <2>3. /\ started' = started /\ accepted' = accepted
        /\ timedOut' = timedOut + Cardinality(Expired)
    BY <1>2 DEF history
  <2>4. /\ Cardinality(Expired) \in Nat /\ dropped \in Nat /\ dropped' \in Nat
        /\ Len(events') + dropped' = Len(events) + dropped + Cardinality(Expired)
    BY <1>3, <1>7, <1>8
  <2>5. Len(events') + dropped' = started' + accepted' + timedOut'
    BY ONLY <2>1, <2>2, <2>3, <2>4
  <2> QED
    BY <2>5 DEF RowsAccounted
<1> QED
  BY <1>10, <1>12, <1>13, <1>14 DEF IInv

LEMMA TickKeepsIInv ==
  ASSUME IInv, Tick
  PROVE  IInv'
<1>1. /\ pending' = [c \in Live |-> [pending[c] EXCEPT !.age = Older(@)]]
      /\ UNCHANGED <<settled, events, dropped, counters, history>>
  BY DEF Tick
<1>2. \A c \in Live : [pending[c] EXCEPT !.age = Older(@)] \in Entry
  <2>1. \A c \in Live : pending[c] \in Entry
    BY DEF IInv, TypeOK
  <2>2. \A a \in 0 .. TimeoutMs + 1 : Older(a) \in 0 .. TimeoutMs + 1
    BY DEF Older
  <2>3. \A e \in Entry, a \in 0 .. TimeoutMs + 1 : [e EXCEPT !.age = a] \in Entry
    BY DEF Entry
  <2>4. \A e \in Entry : e.age \in 0 .. TimeoutMs + 1
    BY DEF Entry
  <2> QED
    BY <2>1, <2>2, <2>3, <2>4
<1>3. Live' = Live /\ pending' \in [Live' -> Entry]
  BY <1>1, <1>2 DEF Live
<1>4. TypeOK'
  BY <1>1, <1>3 DEF IInv, TypeOK, counters, history
<1> QED
  BY <1>1, <1>3, <1>4
  DEF IInv, MemoryBounded, RequestsAccounted, RowsAccounted, counters, history

LEMMA StutterKeepsIInv ==
  ASSUME IInv, UNCHANGED vars
  PROVE  IInv'
BY DEF IInv, TypeOK, MemoryBounded, RequestsAccounted, RowsAccounted,
       vars, tables, counters, history, Live

-----------------------------------------------------------------------------
(* The inductive invariant holds in every state the exported class can be  *)
(* driven to.                                                              *)
THEOREM Invariance == Spec => []IInv
<1>1. Init => IInv
  BY InitIInv
<1>2. IInv /\ [Next]_vars => IInv'
  <2> SUFFICES ASSUME IInv, [Next]_vars PROVE IInv'
    OBVIOUS
  <2>1. ASSUME NEW c \in CorrIds, NEW P \in SUBSET Peers, Request(c, P) PROVE IInv'
    BY <2>1, RequestKeepsIInv
  <2>2. ASSUME NEW c \in CorrIds, NEW p \in Peers, Response(c, p) PROVE IInv'
    BY <2>2, ResponseUnmatchedKeepsIInv, ResponsePartialKeepsIInv, ResponseFinalKeepsIInv
    DEF Response
  <2>3. CASE Sweep
    BY <2>3, SweepKeepsIInv
  <2>4. CASE Tick
    BY <2>4, TickKeepsIInv
  <2>5. CASE UNCHANGED vars
    BY <2>5, StutterKeepsIInv
  <2> QED
    BY <2>1, <2>2, <2>3, <2>4, <2>5 DEF Next
<1> QED
  BY <1>1, <1>2, PTL DEF Spec

(* The tables, the ring and the counters always have their types; the      *)
(* settled set never holds an id twice.                                    *)
THEOREM TypeCorrect == Spec => []TypeOK
<1>1. IInv => TypeOK
  BY DEF IInv
<1> QED
  BY <1>1, Invariance, PTL

(* Memory is bounded for any limits and any sequence of calls.             *)
THEOREM MemoryIsBounded == Spec => []MemoryBounded
<1>1. IInv => MemoryBounded
  BY DEF IInv
<1> QED
  BY <1>1, Invariance, PTL

(* No request and no row is lost without being counted.                    *)
THEOREM Accounts == Spec => [](RequestsAccounted /\ RowsAccounted)
<1>1. IInv => RequestsAccounted /\ RowsAccounted
  BY DEF IInv
<1> QED
  BY <1>1, Invariance, PTL

-----------------------------------------------------------------------------
(* No request comes back: the rows below a timeout, and the table.         *)
Again(rows, i, j) == \E k \in i + 1 .. j : rows[k].kind = "req" /\ rows[k].corrId = rows[i].corrId

NeverBack(rows) ==
  \A i, j \in 1 .. Len(rows) :
    i < j /\ rows[i].kind = "timeout" /\ rows[j].corrId = rows[i].corrId => Again(rows, i, j)

Gone(rows, live) ==
  \A i \in 1 .. Len(rows) :
    rows[i].kind = "timeout" /\ rows[i].corrId \in live => Again(rows, i, Len(rows))

(* Rows that leave the ring take nothing with them that those above need.  *)
LEMMA NewestQuiet ==
  ASSUME NEW rows \in Seq(Row), NEW live, NEW n \in Nat, NeverBack(rows), Gone(rows, live)
  PROVE  NeverBack(Newest(rows, n)) /\ Gone(Newest(rows, n), live)
<1> DEFINE kept == Newest(rows, n)
           off == Excess(rows, n)
<1>1. /\ kept \in Seq(Row) /\ off \in Nat /\ Len(kept) \in Nat
      /\ Len(kept) + off = Len(rows)
  BY NewestBounded, LenProperties
<1>2. \A i \in 1 .. Len(kept) : i + off \in 1 .. Len(rows) /\ kept[i] = rows[i + off]
  BY NewestElement
<1> HIDE DEF kept, off
<1>3. ASSUME NEW i \in 1 .. Len(kept), NEW j \in 1 .. Len(kept), Again(rows, i + off, j + off)
      PROVE  Again(kept, i, j)
  <2>1. PICK k \in i + off + 1 .. j + off :
          rows[k].kind = "req" /\ rows[k].corrId = rows[i + off].corrId
    BY <1>3 DEF Again
  <2>2. k - off \in i + 1 .. j /\ k - off \in 1 .. Len(kept) /\ (k - off) + off = k
    BY <1>1, <2>1
  <2>3. kept[k - off] = rows[k] /\ kept[i] = rows[i + off]
    BY <1>2, <2>2
  <2> QED
    BY <2>1, <2>2, <2>3 DEF Again
<1>4. NeverBack(kept)
  <2> SUFFICES ASSUME NEW i \in 1 .. Len(kept), NEW j \in 1 .. Len(kept), i < j,
                      kept[i].kind = "timeout", kept[j].corrId = kept[i].corrId
               PROVE  Again(kept, i, j)
    BY DEF NeverBack
  <2>1. /\ i + off \in 1 .. Len(rows) /\ j + off \in 1 .. Len(rows) /\ i + off < j + off
        /\ kept[i] = rows[i + off] /\ kept[j] = rows[j + off]
    BY <1>1, <1>2
  <2>2. Again(rows, i + off, j + off)
    BY <2>1 DEF NeverBack
  <2> QED
    BY <1>3, <2>2
<1>5. Gone(kept, live)
  <2> SUFFICES ASSUME NEW i \in 1 .. Len(kept), kept[i].kind = "timeout", kept[i].corrId \in live
               PROVE  Again(kept, i, Len(kept))
    BY DEF Gone
  <2>1. Again(rows, i + off, Len(kept) + off)
    BY <1>1, <1>2 DEF Gone
  <2>2. Len(kept) \in 1 .. Len(kept)
    BY <1>1
  <2> QED
    BY <1>3, <2>1, <2>2
<1> QED
  BY <1>4, <1>5 DEF kept

(* New rows are about requests in flight, or open them; a timeout closes   *)
(* one that no later of them is about.                                     *)
LEMMA EmitQuiet ==
  ASSUME events \in Seq(Row), NeverBack(events), Gone(events, Live), NEW live,
         NEW rows \in Seq(Row), Emit(rows),
         \A j \in 1 .. Len(rows) : rows[j].kind = "req" \/ rows[j].corrId \in Live,
         \A i, j \in 1 .. Len(rows) :
           i < j /\ rows[i].kind = "timeout" => rows[j].corrId # rows[i].corrId,
         \A c \in live \ Live : \E k \in 1 .. Len(rows) : rows[k].kind = "req" /\ rows[k].corrId = c,
         \A i \in 1 .. Len(rows) : rows[i].kind = "timeout" => rows[i].corrId \notin live
  PROVE  NeverBack(events') /\ Gone(events', live)
<1> DEFINE all == events \o rows
           n == Len(events)
<1>1. /\ all \in Seq(Row) /\ Len(all) = n + Len(rows) /\ n \in Nat /\ Len(rows) \in Nat
      /\ \A i \in 1 .. n + Len(rows) : all[i] = IF i <= n THEN events[i] ELSE rows[i - n]
  BY ConcatProperties, LenProperties
<1>2. events' = Newest(all, MaxEvents)
  BY DEF Emit
<1> HIDE DEF all, n
<1>3. \A i \in 1 .. n : i \in 1 .. Len(all) /\ all[i] = events[i]
  BY <1>1
<1>4. \A i \in 1 .. Len(rows) : n + i \in 1 .. Len(all) /\ all[n + i] = rows[i]
  BY <1>1
<1>5. \A i \in 1 .. Len(all) : i \in 1 .. n \/ (i - n \in 1 .. Len(rows) /\ all[i] = rows[i - n])
  BY <1>1
<1>6. ASSUME NEW i \in 1 .. n, NEW j \in 1 .. Len(all), Again(events, i, n), n <= j
      PROVE  Again(all, i, j)
  <2>1. PICK k \in i + 1 .. n : events[k].kind = "req" /\ events[k].corrId = events[i].corrId
    BY <1>6 DEF Again
  <2>2. k \in 1 .. n /\ k \in i + 1 .. j
    BY <1>1, <1>6, <2>1
  <2> QED
    BY <1>3, <2>1, <2>2 DEF Again
<1>7. NeverBack(all)
  <2> SUFFICES ASSUME NEW i \in 1 .. Len(all), NEW j \in 1 .. Len(all), i < j,
                      all[i].kind = "timeout", all[j].corrId = all[i].corrId
               PROVE  Again(all, i, j)
    BY DEF NeverBack
  <2>1. CASE j \in 1 .. n
    <3>1. i \in 1 .. n
      BY <1>1, <2>1
    <3>2. Again(events, i, j)
      BY <1>3, <2>1, <3>1 DEF NeverBack, n
    <3>3. PICK k \in i + 1 .. j : events[k].kind = "req" /\ events[k].corrId = events[i].corrId
      BY <3>2 DEF Again
    <3>4. k \in 1 .. n
      BY <1>1, <2>1, <3>1, <3>3
    <3> QED
      BY <1>3, <3>1, <3>3, <3>4 DEF Again
  <2>2. CASE j \notin 1 .. n
    <3>1. j - n \in 1 .. Len(rows) /\ all[j] = rows[j - n] /\ n <= j
      BY <1>1, <1>5, <2>2
    <3>2. CASE rows[j - n].kind = "req"
      <4>1. j \in i + 1 .. j
        OBVIOUS
      <4> QED
        BY <3>1, <3>2, <4>1 DEF Again
    <3>3. CASE rows[j - n].kind # "req" /\ i \in 1 .. n
      <4>1. events[i].kind = "timeout" /\ events[i].corrId \in Live
        BY <1>3, <3>1, <3>3
      <4>2. Again(events, i, n)
        BY <3>3, <4>1 DEF Gone, n
      <4> QED
        BY <1>6, <3>1, <3>3, <4>2
    <3>4. CASE i \notin 1 .. n
      <4>1. i - n \in 1 .. Len(rows) /\ all[i] = rows[i - n] /\ i - n < j - n
        BY <1>1, <1>5, <3>1, <3>4
      <4> QED
        BY <3>1, <4>1
    <3> QED
      BY <3>2, <3>3, <3>4
  <2> QED
    BY <2>1, <2>2
<1>8. Gone(all, live)
  <2> SUFFICES ASSUME NEW i \in 1 .. Len(all), all[i].kind = "timeout", all[i].corrId \in live
               PROVE  Again(all, i, Len(all))
    BY DEF Gone
  <2>1. i \in 1 .. n
    BY <1>5
  <2>2. CASE all[i].corrId \in Live
    <3>1. Again(events, i, n)
      BY <1>3, <2>1, <2>2 DEF Gone, n
    <3>2. Len(all) \in 1 .. Len(all) /\ n <= Len(all)
      BY <1>1, <2>1
    <3> QED
      BY <1>6, <2>1, <3>1, <3>2
  <2>3. CASE all[i].corrId \notin Live
    <3>1. PICK k \in 1 .. Len(rows) : rows[k].kind = "req" /\ rows[k].corrId = all[i].corrId
      BY <2>3
    <3>2. n + k \in i + 1 .. Len(all) /\ all[n + k] = rows[k]
      BY <1>1, <1>4, <2>1
    <3> QED
      BY <3>1, <3>2 DEF Again
  <2> QED
    BY <2>2, <2>3
<1> QED
  BY <1>1, <1>2, <1>7, <1>8, NewestQuiet

Quiet == NeverBack(events) /\ Gone(events, Live)

LEMMA QuietStep == ASSUME IInv, Quiet, [Next]_vars PROVE Quiet'
<1>1. events \in Seq(Row) /\ Live \subseteq CorrIds
  BY DEF IInv, TypeOK
<1>2. ASSUME UNCHANGED events, Live' \subseteq Live PROVE Quiet'
  BY <1>2 DEF Quiet, Gone, NeverBack, Again
<1>3. ASSUME NEW row \in Row, Emit(<<row>>), row.kind = "req" \/ row.corrId \in Live,
             row.kind # "timeout",
             \A c \in Live' \ Live : row.kind = "req" /\ row.corrId = c
      PROVE  Quiet'
  <2> DEFINE rows == <<row>>
  <2>1. rows \in Seq(Row) /\ Len(rows) = 1 /\ rows[1] = row
    OBVIOUS
  <2>2. Emit(rows)
    BY <1>3
  <2> HIDE DEF rows
  <2>3. \A j \in 1 .. Len(rows) : rows[j].kind = "req" \/ rows[j].corrId \in Live
    BY <1>3, <2>1
  <2>4. \A i, j \in 1 .. Len(rows) :
          i < j /\ rows[i].kind = "timeout" => rows[j].corrId # rows[i].corrId
    BY <2>1
  <2>5. \A i \in 1 .. Len(rows) : rows[i].kind = "timeout" => rows[i].corrId \notin Live'
    BY <1>3, <2>1
  <2>6. \A c \in Live' \ Live :
          \E k \in 1 .. Len(rows) : rows[k].kind = "req" /\ rows[k].corrId = c
    BY <1>3, <2>1
  <2>7. NeverBack(events') /\ Gone(events', Live')
    BY <1>1, <2>1, <2>2, <2>3, <2>4, <2>5, <2>6, EmitQuiet DEF Quiet
  <2> QED
    BY <2>7 DEF Quiet
<1>4. ASSUME NEW c \in CorrIds, NEW P \in SUBSET Peers, Request(c, P) PROVE Quiet'
  <2>1. Live' \subseteq Live \cup {c}
    <3>1. DOMAIN WithRequest(c, P) = Live \cup {c}
      BY DEF WithRequest
    <3>2. DOMAIN Without(WithRequest(c, P), {Oldest(WithRequest(c, P))}) \subseteq Live \cup {c}
      BY <3>1 DEF Without
    <3> QED
      BY <1>4, <3>1, <3>2 DEF Request, Live
  <2>2. ReqRow(c, P) \in Row /\ ReqRow(c, P).kind = "req" /\ ReqRow(c, P).corrId = c
    BY DEF ReqRow, Row
  <2>3. Emit(<<ReqRow(c, P)>>)
    BY <1>4 DEF Request
  <2> QED
    BY <1>3, <2>1, <2>2, <2>3
<1>5. ASSUME NEW c \in CorrIds, NEW p \in Peers, Response(c, p) PROVE Quiet'
  <2>1. CASE ResponseUnmatched(c)
    BY <1>2, <2>1 DEF ResponseUnmatched, tables, Live
  <2>2. CASE ResponsePartial(c, p) \/ ResponseFinal(c, p)
    <3>1. Live' \subseteq Live
      BY <2>2 DEF ResponsePartial, ResponseFinal, Without, Live
    <3>2. ResRow(c, p) \in Row /\ ResRow(c, p).kind = "res" /\ ResRow(c, p).corrId = c
      BY DEF ResRow, Row
    <3>3. Emit(<<ResRow(c, p)>>) /\ c \in Live
      BY <2>2 DEF ResponsePartial, ResponseFinal
    <3> QED
      BY <1>3, <3>1, <3>2, <3>3
  <2> QED
    BY <1>5, <2>1, <2>2 DEF Response
<1>6. CASE Sweep
  <2>1. PICK ids \in MapOrders(Expired) : Emit([i \in 1 .. Len(ids) |-> TimeoutRow(ids[i])])
    BY <1>6 DEF Sweep
  <2>2. Live' = Live \ Expired /\ Expired \subseteq Live
    BY <1>6 DEF Sweep, Without, Live, Expired
  <2>3. IsFiniteSet(Expired) /\ Cardinality(Expired) \in Nat
    BY <1>1, <2>2, IdsFinite
  <2>4. /\ ids \in [1 .. Cardinality(Expired) -> Expired]
        /\ \A i, j \in DOMAIN ids : i < j => pending[ids[i]].born < pending[ids[j]].born
    BY <2>1 DEF MapOrders
  <2>5. ids \in Seq(Expired) /\ DOMAIN ids = 1 .. Len(ids) /\ Len(ids) \in Nat
    BY <2>3, <2>4
  <2>6. \A c \in Expired : /\ TimeoutRow(c) \in Row /\ TimeoutRow(c).kind = "timeout"
                           /\ TimeoutRow(c).corrId = c
    BY <2>2 DEF TimeoutRow, Row, Entry, IInv, TypeOK
  <2> DEFINE rows == [i \in 1 .. Len(ids) |-> TimeoutRow(ids[i])]
  <2>7. /\ rows \in Seq(Row) /\ Len(rows) = Len(ids)
        /\ \A i \in 1 .. Len(ids) : rows[i].kind = "timeout" /\ rows[i].corrId = ids[i]
                                    /\ ids[i] \in Expired
    BY <2>5, <2>6
  <2>8. Emit(rows)
    BY <2>1
  <2> HIDE DEF rows
  <2>9. \A i, j \in 1 .. Len(ids) : i < j => ids[j] # ids[i]
    <3>1. \A c \in Expired : pending[c].born \in Nat
      BY <2>2 DEF IInv, TypeOK, Entry
    <3> QED
      BY <2>4, <2>5, <2>7, <3>1
  <2>10. NeverBack(events') /\ Gone(events', Live')
    <3>1. \A j \in 1 .. Len(rows) : rows[j].kind = "req" \/ rows[j].corrId \in Live
      BY <2>2, <2>7
    <3>2. \A i, j \in 1 .. Len(rows) :
            i < j /\ rows[i].kind = "timeout" => rows[j].corrId # rows[i].corrId
      BY <2>7, <2>9
    <3>3. \A i \in 1 .. Len(rows) : rows[i].kind = "timeout" => rows[i].corrId \notin Live'
      BY <2>2, <2>7
    <3>4. Live' \ Live = {}
      BY <2>2
    <3> QED
      BY <1>1, <2>7, <2>8, <3>1, <3>2, <3>3, <3>4, EmitQuiet DEF Quiet
  <2> QED
    BY <2>10 DEF Quiet
<1>7. CASE Tick
  BY <1>2, <1>7 DEF Tick, Live
<1>8. CASE UNCHANGED vars
  BY <1>2, <1>8 DEF vars, tables, Live
<1> QED
  BY <1>4, <1>5, <1>6, <1>7, <1>8 DEF Next

(* correlator.ts, onResponse(): whatever answers arrive late, twice or     *)
(* from strangers, nothing about a request is shown after its timeout.     *)
THEOREM Finality == Spec => []NoResurrection
<1>1. Init => Quiet
  BY DEF Init, Quiet, NeverBack, Gone
<1>2. IInv /\ Quiet /\ [Next]_vars => Quiet'
  BY QuietStep
<1>3. Quiet => NoResurrection
  BY DEF Quiet, NeverBack, Again, NoResurrection
<1> QED
  BY <1>1, <1>2, <1>3, Invariance, PTL DEF Spec
-----------------------------------------------------------------------------
(* Timeout rows are true to the rows above them.  For a request of id c in *)
(* row k: it is the one asked about at place j; the replies to it above j; *)
(* what they leave missing, and how many they are.                         *)
Asked(rows, k, j, c) ==
  /\ k < j
  /\ rows[k].kind = "req" /\ rows[k].corrId = c
  /\ \A m \in k + 1 .. j - 1 : ~ (rows[m].kind = "req" /\ rows[m].corrId = c)

Replies(rows, k, j, c) == {m \in k + 1 .. j - 1 : rows[m].kind = "res" /\ rows[m].corrId = c}

Tells(rows, k, j, c, missing, count) ==
  /\ missing = rows[k].peers \ UNION {rows[m].peers : m \in Replies(rows, k, j, c)}
  /\ count = Cardinality(Replies(rows, k, j, c))

RowsTrue(rows) ==
  \A k, j \in 1 .. Len(rows) :
    rows[j].kind = "timeout" /\ Asked(rows, k, j, rows[j].corrId)
      => Tells(rows, k, j, rows[j].corrId, rows[j].peers, rows[j].partial)

(* The table knows of a request in flight what a timeout row would say.    *)
TableTrue(rows, table) ==
  \A c \in DOMAIN table, k \in 1 .. Len(rows) :
    Asked(rows, k, Len(rows) + 1, c)
      => Tells(rows, k, Len(rows) + 1, c, table[c].awaiting, table[c].responses)

LEMMA RepliesFinite ==
  ASSUME NEW rows, NEW k \in Nat, NEW j \in Nat, NEW c
  PROVE  IsFiniteSet(Replies(rows, k, j, c))
<1>1. IsFiniteSet(k + 1 .. j - 1)
  BY FS_Interval
<1>2. Replies(rows, k, j, c) \subseteq k + 1 .. j - 1
  BY DEF Replies
<1> QED
  BY <1>1, <1>2, FS_Subset

(* The peers told of in some replies are no more than the replies.         *)
LEMMA FewerThanReplies ==
  ASSUME NEW rows, NEW k \in Nat, NEW j \in Nat, NEW c, NEW S
  PROVE  LET R == Replies(rows, k, j, c) IN
         Cardinality({rows[m].peers : m \in R} \cap S) <= Cardinality(R)
<1> DEFINE R == Replies(rows, k, j, c)
           told == {rows[m].peers : m \in R}
           f == [m \in R |-> rows[m].peers]
<1>1. IsFiniteSet(R)
  BY RepliesFinite
<1> HIDE DEF R
<1>2. f \in Surjection(R, told)
  BY DEF Surjection
<1>3. IsFiniteSet(told) /\ Cardinality(told) <= Cardinality(R)
  BY <1>1, <1>2, FS_Surjection
<1>4. told \cap S \in SUBSET told
  OBVIOUS
<1> HIDE DEF told
<1>5. Cardinality(told \cap S) <= Cardinality(told) /\ IsFiniteSet(told \cap S)
  BY <1>3, <1>4, FS_Subset
<1>6. Cardinality(R) \in Nat /\ Cardinality(told) \in Nat /\ Cardinality(told \cap S) \in Nat
  BY <1>1, <1>3, <1>5, FS_CardinalityType
<1>7. Cardinality(told \cap S) <= Cardinality(R)
  BY <1>3, <1>5, <1>6
<1> QED
  BY <1>7 DEF R, told

(* Places that move down together keep what they tell.                     *)
LEMMA ShiftTells ==
  ASSUME NEW rows, NEW kept, NEW off \in Nat, NEW len \in Nat,
         \A i \in 1 .. len : kept[i] = rows[i + off],
         NEW k \in 1 .. len, NEW j \in 1 .. len + 1, NEW c, NEW missing, NEW count,
         Asked(kept, k, j, c)
  PROVE  /\ Asked(rows, k + off, j + off, c)
         /\ Tells(rows, k + off, j + off, c, missing, count) => Tells(kept, k, j, c, missing, count)
<1> DEFINE R == Replies(kept, k, j, c)
           S == Replies(rows, k + off, j + off, c)
           f == [m \in R |-> m + off]
<1>1. \A m \in k + off + 1 .. j + off - 1 :
        m - off \in k + 1 .. j - 1 /\ m - off \in 1 .. len /\ (m - off) + off = m
  OBVIOUS
<1>2. \A m \in k + 1 .. j - 1 : m \in 1 .. len /\ m + off \in k + off + 1 .. j + off - 1
  OBVIOUS
<1>3. Asked(rows, k + off, j + off, c)
  <2>1. \A m \in k + off + 1 .. j + off - 1 : rows[m] = kept[m - off]
    BY <1>1
  <2> QED
    BY <1>1, <2>1 DEF Asked
<1>4. \A m \in R : m + off \in S /\ rows[m + off] = kept[m]
  BY <1>2 DEF Replies
<1>5. \A m \in S : m - off \in R /\ (m - off) + off = m /\ kept[m - off] = rows[m]
  BY <1>1 DEF Replies
<1>6. R \subseteq Nat
  BY DEF Replies
<1>7. IsFiniteSet(R)
  BY RepliesFinite
<1>8. Cardinality(S) = Cardinality(R)
  <2> HIDE DEF R, S
  <2>1. f \in [R -> S]
    BY <1>4
  <2>2. \A a, b \in R : f[a] = f[b] => a = b
    BY <1>6
  <2>3. \A t \in S : \E s \in R : f[s] = t
    BY <1>5
  <2> HIDE DEF f
  <2>4. f \in Injection(R, S) /\ f \in Surjection(R, S)
    BY <2>1, <2>2, <2>3 DEF Injection, Surjection, IsInjective
  <2>5. ExistsBijection(R, S)
    BY <2>4 DEF ExistsBijection, Bijection
  <2> QED
    BY <1>7, <2>5, FS_Bijection
<1>9. {kept[m].peers : m \in R} = {rows[m].peers : m \in S}
  <2> HIDE DEF R, S
  <2>1. ASSUME NEW m \in R PROVE kept[m].peers \in {rows[i].peers : i \in S}
    BY <1>4
  <2>2. ASSUME NEW m \in S PROVE rows[m].peers \in {kept[i].peers : i \in R}
    BY <1>5
  <2> QED
    BY <2>1, <2>2
<1>10. kept[k] = rows[k + off]
  OBVIOUS
<1> QED
  BY <1>3, <1>8, <1>9, <1>10 DEF Tells

(* What is told of a place depends on the rows above it only.              *)
LEMMA SameAbove ==
  ASSUME NEW rows, NEW all, NEW n \in Nat, \A i \in 1 .. n : all[i] = rows[i],
         NEW k \in 1 .. n, NEW j \in 1 .. n + 1, NEW c
  PROVE  /\ Asked(all, k, j, c) <=> Asked(rows, k, j, c)
         /\ \A missing, count :
              Tells(all, k, j, c, missing, count) <=> Tells(rows, k, j, c, missing, count)
<1>1. \A m \in k + 1 .. j - 1 : all[m] = rows[m]
  OBVIOUS
<1>2. Replies(all, k, j, c) = Replies(rows, k, j, c)
  BY <1>1 DEF Replies
<1>3. {all[m].peers : m \in Replies(all, k, j, c)} = {rows[m].peers : m \in Replies(rows, k, j, c)}
  <2>1. \A m \in Replies(rows, k, j, c) : all[m] = rows[m]
    BY <1>1 DEF Replies
  <2> QED
    BY <1>2, <2>1
<1>4. Asked(all, k, j, c) <=> Asked(rows, k, j, c)
  BY <1>1 DEF Asked
<1>5. all[k] = rows[k]
  OBVIOUS
<1> QED
  BY <1>2, <1>3, <1>4, <1>5 DEF Tells

(* Rows between that neither ask for c nor reply to it change nothing.     *)
LEMMA SkipOthers ==
  ASSUME NEW rows, NEW k \in Nat, NEW i \in Nat, NEW j \in Nat, NEW c, i <= j, k < j,
         \A m \in i .. j - 1 : rows[m].corrId # c \/ rows[m].kind = "timeout",
         Asked(rows, k, j, c)
  PROVE  /\ Asked(rows, k, i, c)
         /\ \A missing, count :
              Tells(rows, k, i, c, missing, count) <=> Tells(rows, k, j, c, missing, count)
<1>1. k < i
  <2>1. k \notin i .. j - 1
    BY DEF Asked
  <2> QED
    BY <2>1
<1>2. Asked(rows, k, i, c)
  <2>1. \A m \in k + 1 .. i - 1 : m \in k + 1 .. j - 1
    OBVIOUS
  <2> QED
    BY <1>1, <2>1 DEF Asked
<1>3. Replies(rows, k, i, c) = Replies(rows, k, j, c)
  <2>1. \A m \in k + 1 .. j - 1 : m \in k + 1 .. i - 1 \/ m \in i .. j - 1
    OBVIOUS
  <2>2. \A m \in k + 1 .. i - 1 : m \in k + 1 .. j - 1
    OBVIOUS
  <2>3. Replies(rows, k, i, c) \subseteq Replies(rows, k, j, c)
    BY <2>2 DEF Replies
  <2>4. Replies(rows, k, j, c) \subseteq Replies(rows, k, i, c)
    BY <2>1 DEF Replies
  <2> QED
    BY <2>3, <2>4
<1> QED
  BY <1>2, <1>3 DEF Tells

LEMMA NewestTrue ==
  ASSUME NEW rows \in Seq(Row), NEW table, NEW n \in Nat, RowsTrue(rows), TableTrue(rows, table)
  PROVE  RowsTrue(Newest(rows, n)) /\ TableTrue(Newest(rows, n), table)
<1> DEFINE kept == Newest(rows, n)
           off == Excess(rows, n)
<1>1. /\ kept \in Seq(Row) /\ off \in Nat /\ Len(kept) \in Nat
      /\ Len(kept) + off = Len(rows)
  BY NewestBounded, LenProperties
<1>2. \A i \in 1 .. Len(kept) : i + off \in 1 .. Len(rows) /\ kept[i] = rows[i + off]
  BY NewestElement
<1> HIDE DEF kept, off
<1>3. \A k \in 1 .. Len(kept), j \in 1 .. Len(kept) + 1 : \A c :
        Asked(kept, k, j, c) =>
          /\ Asked(rows, k + off, j + off, c)
          /\ \A missing, count : Tells(rows, k + off, j + off, c, missing, count)
                                   => Tells(kept, k, j, c, missing, count)
  BY <1>1, <1>2, ShiftTells
<1>4. RowsTrue(kept)
  <2> SUFFICES ASSUME NEW k \in 1 .. Len(kept), NEW j \in 1 .. Len(kept), kept[j].kind = "timeout",
                      Asked(kept, k, j, kept[j].corrId)
               PROVE  Tells(kept, k, j, kept[j].corrId, kept[j].peers, kept[j].partial)
    BY DEF RowsTrue
  <2>1. /\ k + off \in 1 .. Len(rows) /\ j + off \in 1 .. Len(rows) /\ kept[j] = rows[j + off]
        /\ j \in 1 .. Len(kept) + 1
    BY <1>1, <1>2
  <2>2. Asked(rows, k + off, j + off, kept[j].corrId)
    BY <1>3, <2>1
  <2>3. Tells(rows, k + off, j + off, kept[j].corrId, kept[j].peers, kept[j].partial)
    BY <2>1, <2>2 DEF RowsTrue
  <2> QED
    BY <1>3, <2>1, <2>3
<1>5. TableTrue(kept, table)
  <2> SUFFICES ASSUME NEW c \in DOMAIN table, NEW k \in 1 .. Len(kept),
                      Asked(kept, k, Len(kept) + 1, c)
               PROVE  Tells(kept, k, Len(kept) + 1, c, table[c].awaiting, table[c].responses)
    BY DEF TableTrue
  <2>1. /\ Len(kept) + 1 \in 1 .. Len(kept) + 1
        /\ (Len(kept) + 1) + off = Len(rows) + 1
    BY <1>1
  <2> k + off \in 1 .. Len(rows)
    BY <1>2
  <2>2. Asked(rows, k + off, Len(rows) + 1, c)
    BY <1>3, <2>1
  <2>3. Tells(rows, k + off, Len(rows) + 1, c, table[c].awaiting, table[c].responses)
    BY <2>1, <2>2 DEF TableTrue
  <2> QED
    BY <1>3, <2>1, <2>3
<1> QED
  BY <1>4, <1>5 DEF kept

(* Rows emitted below those that are there leave what is told above.       *)
LEMMA EmitAbove ==
  ASSUME events \in Seq(Row), NEW rows \in Seq(Row)
  PROVE  LET all == events \o rows
             n == Len(events)
         IN  /\ all \in Seq(Row) /\ n \in Nat /\ Len(all) = n + Len(rows) /\ Len(rows) \in Nat
             /\ \A i \in 1 .. n : all[i] = events[i]
             /\ \A i \in 1 .. Len(rows) : all[n + i] = rows[i]
             /\ \A k \in 1 .. n, j \in 1 .. n + 1 : \A c :
                  /\ Asked(all, k, j, c) <=> Asked(events, k, j, c)
                  /\ \A missing, count : Tells(all, k, j, c, missing, count)
                                           <=> Tells(events, k, j, c, missing, count)
<1> DEFINE all == events \o rows
           n == Len(events)
<1>1. /\ all \in Seq(Row) /\ Len(all) = n + Len(rows) /\ n \in Nat /\ Len(rows) \in Nat
      /\ \A i \in 1 .. n + Len(rows) : all[i] = IF i <= n THEN events[i] ELSE rows[i - n]
  BY ConcatProperties, LenProperties
<1> HIDE DEF all, n
<1>2. \A i \in 1 .. n : all[i] = events[i]
  BY <1>1
<1>3. \A i \in 1 .. Len(rows) : all[n + i] = rows[i]
  BY <1>1
<1>4. \A k \in 1 .. n, j \in 1 .. n + 1 : \A c :
        /\ Asked(all, k, j, c) <=> Asked(events, k, j, c)
        /\ \A missing, count : Tells(all, k, j, c, missing, count)
                                 <=> Tells(events, k, j, c, missing, count)
  BY <1>1, <1>2, SameAbove
<1> QED
  BY <1>1, <1>2, <1>3, <1>4 DEF all, n

(* A request or an answer is emitted as it is entered in the table.        *)
LEMMA EmitRowTrue ==
  ASSUME events \in Seq(Row), RowsTrue(events), TableTrue(events, pending),
         NEW row \in Row, row.kind \in {"req", "res"}, Emit(<<row>>), NEW table,
         \A c \in DOMAIN table \ {row.corrId} :
           /\ c \in Live /\ table[c].awaiting = pending[c].awaiting
           /\ table[c].responses = pending[c].responses,
         row.corrId \in DOMAIN table =>
           IF row.kind = "req"
             THEN /\ table[row.corrId].awaiting = row.peers
                  /\ table[row.corrId].responses = 0
             ELSE /\ row.corrId \in Live
                  /\ table[row.corrId].awaiting = pending[row.corrId].awaiting \ row.peers
                  /\ table[row.corrId].responses = pending[row.corrId].responses + 1
  PROVE  RowsTrue(events') /\ TableTrue(events', table)
<1> DEFINE rows == <<row>>
           all == events \o rows
           n == Len(events)
<1>1. rows \in Seq(Row) /\ Len(rows) = 1 /\ rows[1] = row
  OBVIOUS
<1>2. events' = Newest(all, MaxEvents)
  BY DEF Emit
<1> HIDE DEF rows
<1>3. /\ all \in Seq(Row) /\ n \in Nat /\ Len(all) = n + Len(rows)
      /\ \A i \in 1 .. n : all[i] = events[i]
      /\ \A i \in 1 .. Len(rows) : all[n + i] = rows[i]
      /\ \A k \in 1 .. n, j \in 1 .. n + 1 : \A c :
           /\ Asked(all, k, j, c) <=> Asked(events, k, j, c)
           /\ \A missing, count : Tells(all, k, j, c, missing, count)
                                    <=> Tells(events, k, j, c, missing, count)
  BY <1>1, EmitAbove
<1>4. /\ all \in Seq(Row) /\ n \in Nat /\ Len(all) = n + 1
      /\ all[n + 1] = row
      /\ \A i \in 1 .. n : all[i] = events[i]
      /\ \A k \in 1 .. n, j \in 1 .. n + 1 : \A c :
           /\ Asked(all, k, j, c) <=> Asked(events, k, j, c)
           /\ \A missing, count : Tells(all, k, j, c, missing, count)
                                    <=> Tells(events, k, j, c, missing, count)
  <2>1. 1 \in 1 .. Len(rows) /\ rows[1] = row
    BY <1>1
  <2>2. all[n + 1] = row
    BY <1>3, <2>1
  <2> QED
    BY <1>3, <1>1, <2>2
<1> HIDE DEF all, n
<1>5. n \in Nat
  BY <1>4
<1>6. RowsTrue(all)
  <2> SUFFICES ASSUME NEW k \in 1 .. Len(all), NEW j \in 1 .. Len(all), all[j].kind = "timeout",
                      Asked(all, k, j, all[j].corrId)
               PROVE  Tells(all, k, j, all[j].corrId, all[j].peers, all[j].partial)
    BY DEF RowsTrue
  <2>1. j \in 1 .. n /\ k \in 1 .. n /\ j \in 1 .. n + 1 /\ all[j] = events[j]
    <3>1. j # n + 1
      BY <1>4
    <3>2. k < j
      BY DEF Asked
    <3> QED
      BY <1>4, <3>1, <3>2
  <2>2. Asked(events, k, j, all[j].corrId)
    BY <1>4, <2>1
  <2>3. Tells(events, k, j, all[j].corrId, all[j].peers, all[j].partial)
    BY <2>1, <2>2 DEF RowsTrue, n
  <2> QED
    BY <1>4, <2>1, <2>3
<1>7. TableTrue(all, table)
  <2> SUFFICES ASSUME NEW c \in DOMAIN table, NEW k \in 1 .. Len(all),
                      Asked(all, k, Len(all) + 1, c)
               PROVE  Tells(all, k, Len(all) + 1, c, table[c].awaiting, table[c].responses)
    BY DEF TableTrue
  <2>1. k \in 1 .. n + 1 /\ Asked(all, k, n + 2, c) /\ Len(all) + 1 = n + 2
        /\ n + 1 \in 1 .. n + 1
    BY <1>4
  <2>2. CASE c # row.corrId
    <3>1. Asked(all, k, n + 1, c) /\ (\A missing, count :
            Tells(all, k, n + 1, c, missing, count) <=> Tells(all, k, n + 2, c, missing, count))
      <4>1. /\ k \in Nat /\ n + 1 \in Nat /\ n + 2 \in Nat
            /\ k < n + 2 /\ n + 1 <= n + 2
        BY <1>4, <2>1
      <4>2. \A m \in n + 1 .. n + 2 - 1 : all[m].corrId # c \/ all[m].kind = "timeout"
        BY <1>4, <2>2
      <4> DEFINE i == n + 1
                 j == n + 2
      <4> HIDE DEF i, j
      <4>3. Asked(all, k, i, c) /\ (\A missing, count :
              Tells(all, k, i, c, missing, count) <=> Tells(all, k, j, c, missing, count))
        <5>1. k \in Nat /\ i \in Nat /\ j \in Nat /\ i <= j /\ k < j
          BY <4>1 DEF i, j
        <5>2. Asked(all, k, j, c)
          BY <2>1 DEF j
        <5>3. \A m \in i .. j - 1 : all[m].corrId # c \/ all[m].kind = "timeout"
          BY <1>5, <4>2 DEF i, j
        <5> QED
          BY <5>1, <5>2, <5>3, SkipOthers
      <4> QED
        BY <4>3 DEF i, j
    <3>2. k \in 1 .. n
      <4>1. k < n + 1
        BY <3>1 DEF Asked
      <4> QED
        BY <1>4, <2>1, <4>1
    <3>3. Asked(events, k, n + 1, c)
      BY <1>4, <2>1, <3>1, <3>2
    <3>4. /\ c \in Live /\ table[c].awaiting = pending[c].awaiting
          /\ table[c].responses = pending[c].responses
      BY <2>2
    <3>5. Tells(events, k, n + 1, c, table[c].awaiting, table[c].responses)
      BY <3>2, <3>3, <3>4 DEF TableTrue, Live, n
    <3> QED
      BY <1>4, <2>1, <3>1, <3>2, <3>5
  <2>3. CASE c = row.corrId /\ row.kind = "req"
    <3>1. k = n + 1
      <4>1. ASSUME k # n + 1 PROVE FALSE
        <5>1. n + 1 \in k + 1 .. n + 2 - 1
          BY <1>4, <2>1, <4>1
        <5> QED
          BY <1>4, <2>1, <2>3, <5>1 DEF Asked
      <4> QED
        BY <4>1
    <3>2. Replies(all, k, n + 2, c) = {}
      BY <1>4, <3>1 DEF Replies
    <3>3. Cardinality(Replies(all, k, n + 2, c)) = 0
      BY <3>2, FS_EmptySet
    <3>4. UNION {all[m].peers : m \in Replies(all, k, n + 2, c)} = {}
      BY <3>2
    <3>5. table[c].awaiting = row.peers /\ table[c].responses = 0
      BY <2>3
    <3> QED
      BY <1>4, <2>1, <3>1, <3>3, <3>4, <3>5 DEF Tells
  <2>4. CASE c = row.corrId /\ row.kind = "res"
    <3>1. k \in 1 .. n
      BY <1>4, <2>1, <2>4 DEF Asked
    <3>2. Asked(all, k, n + 1, c)
      <4>1. \A m \in k + 1 .. n + 1 - 1 : m \in k + 1 .. n + 2 - 1
        BY <1>4
      <4>2. k < n + 1
        BY <1>4, <3>1
      <4>3. /\ all[k].kind = "req" /\ all[k].corrId = c
            /\ \A m \in k + 1 .. n + 2 - 1 : ~ (all[m].kind = "req" /\ all[m].corrId = c)
        BY <1>5, <2>1 DEF Asked
      <4>4. \A m \in k + 1 .. n + 1 - 1 : ~ (all[m].kind = "req" /\ all[m].corrId = c)
        BY <4>1, <4>3
      <4> QED
        BY <1>5, <4>2, <4>3, <4>4 DEF Asked
    <3>3. Asked(events, k, n + 1, c)
      BY <1>4, <2>1, <3>1, <3>2
    <3>4. Tells(events, k, n + 1, c, pending[c].awaiting, pending[c].responses)
      BY <2>4, <3>1, <3>3 DEF TableTrue, Live, n
    <3>5. Tells(all, k, n + 1, c, pending[c].awaiting, pending[c].responses)
      BY <1>4, <2>1, <3>1, <3>4
    <3> DEFINE R == Replies(all, k, n + 1, c)
    <3>6. Replies(all, k, n + 2, c) = R \cup {n + 1} /\ n + 1 \notin R
      <4>1. k + 1 .. n + 2 - 1 = (k + 1 .. n + 1 - 1) \cup {n + 1}
        <5>1. n \in Nat /\ k \in 1 .. n
          BY <1>4, <3>1
        <5> QED
          BY <5>1
      <4>2. n + 1 \notin k + 1 .. n + 1 - 1
        BY <1>4
      <4> QED
        BY <1>4, <2>4, <4>1, <4>2 DEF Replies
    <3>7. IsFiniteSet(R)
      BY <1>4, <3>1, RepliesFinite
    <3> HIDE DEF R
    <3>8. Cardinality(Replies(all, k, n + 2, c)) = Cardinality(R) + 1
      BY <3>6, <3>7, FS_AddElement
    <3>9. UNION {all[m].peers : m \in Replies(all, k, n + 2, c)}
            = (UNION {all[m].peers : m \in R}) \cup row.peers
      <4>1. {all[m].peers : m \in R \cup {n + 1}} = {all[m].peers : m \in R} \cup {row.peers}
        BY <1>4
      <4>2. UNION {all[m].peers : m \in R \cup {n + 1}} = (UNION {all[m].peers : m \in R}) \cup row.peers
        BY <4>1
      <4> QED
        BY <3>6, <4>2
    <3>10. /\ pending[c].awaiting = all[k].peers \ UNION {all[m].peers : m \in R}
           /\ pending[c].responses = Cardinality(R)
      BY <3>5 DEF Tells, R
    <3>11. /\ table[c].awaiting = pending[c].awaiting \ row.peers
           /\ table[c].responses = pending[c].responses + 1
      BY <2>4
    <3>12. table[c].awaiting = all[k].peers \ UNION {all[m].peers : m \in Replies(all, k, n + 2, c)}
      <4>1. \A A, X, Y : (A \ X) \ Y = A \ (X \cup Y)
        OBVIOUS
      <4>2. table[c].awaiting = (all[k].peers \ (UNION {all[m].peers : m \in R})) \ row.peers
        BY <3>10, <3>11
      <4>3. table[c].awaiting = all[k].peers \ ((UNION {all[m].peers : m \in R}) \cup row.peers)
        BY <4>1, <4>2
      <4> QED
        BY <3>9, <4>3
    <3> QED
      BY <2>1, <3>8, <3>10, <3>11, <3>12 DEF Tells
  <2> QED
    BY <2>2, <2>3, <2>4
<1>8. RowsTrue(Newest(all, MaxEvents)) /\ TableTrue(Newest(all, MaxEvents), table)
  BY <1>4, <1>6, <1>7, NewestTrue
<1> QED
  BY <1>2, <1>8

(* Timeouts are emitted from the table, one for each request that leaves.  *)
LEMMA EmitTimeoutsTrue ==
  ASSUME events \in Seq(Row), RowsTrue(events), TableTrue(events, pending),
         NEW rows \in Seq(Row), Emit(rows), NEW table,
         \A i \in 1 .. Len(rows) :
           /\ rows[i].kind = "timeout" /\ rows[i].corrId \in Live
           /\ rows[i].peers = pending[rows[i].corrId].awaiting
           /\ rows[i].partial = pending[rows[i].corrId].responses,
         \A c \in DOMAIN table : /\ c \in Live /\ table[c].awaiting = pending[c].awaiting
                                 /\ table[c].responses = pending[c].responses
  PROVE  RowsTrue(events') /\ TableTrue(events', table)
<1> DEFINE all == events \o rows
           n == Len(events)
<1>1. events' = Newest(all, MaxEvents)
  BY DEF Emit
<1>2. /\ all \in Seq(Row) /\ n \in Nat /\ Len(rows) \in Nat /\ Len(all) = n + Len(rows)
      /\ \A i \in 1 .. n : all[i] = events[i]
      /\ \A i \in 1 .. Len(rows) : all[n + i] = rows[i]
      /\ \A k \in 1 .. n, j \in 1 .. n + 1 : \A c :
           /\ Asked(all, k, j, c) <=> Asked(events, k, j, c)
           /\ \A missing, count : Tells(all, k, j, c, missing, count)
                                    <=> Tells(events, k, j, c, missing, count)
  BY EmitAbove
<1> HIDE DEF all, n
<1>3. \A m \in n + 1 .. Len(all) : m - n \in 1 .. Len(rows) /\ all[m] = rows[m - n]
  <2> TAKE m \in n + 1 .. Len(all)
  <2>1. m - n \in 1 .. Len(rows) /\ n + (m - n) = m
    BY <1>2
  <2> QED
    BY <1>2, <2>1
<1>4. ASSUME NEW j \in n + 1 .. Len(all) + 1, NEW k \in 1 .. Len(all), NEW c \in Live,
             Asked(all, k, j, c)
      PROVE  Tells(all, k, j, c, pending[c].awaiting, pending[c].responses)
  <2>1. k \in 1 .. n
    <3>1. k \notin n + 1 .. Len(all)
      BY <1>3, <1>4 DEF Asked
    <3> QED
      BY <1>2, <3>1
  <2>2. /\ n + 1 <= j /\ k < j /\ j \in Nat /\ n + 1 \in 1 .. n + 1
        /\ \A m \in n + 1 .. j - 1 : all[m].kind = "timeout"
    <3>1. \A m \in n + 1 .. j - 1 : m \in n + 1 .. Len(all)
      BY <1>2
    <3> QED
      BY <1>2, <1>3, <2>1, <3>1
  <2>3. /\ Asked(all, k, n + 1, c)
        /\ \A missing, count :
             Tells(all, k, n + 1, c, missing, count) <=> Tells(all, k, j, c, missing, count)
    <3> DEFINE i == n + 1
    <3> HIDE DEF i
    <3>1. Asked(all, k, i, c) /\ (\A missing, count :
            Tells(all, k, i, c, missing, count) <=> Tells(all, k, j, c, missing, count))
      <4>1. k \in Nat /\ i \in Nat /\ i <= j
        BY <1>2, <2>1, <2>2 DEF i
      <4>2. \A m \in i .. j - 1 : all[m].corrId # c \/ all[m].kind = "timeout"
        BY <2>2 DEF i
      <4> QED
        BY <1>4, <2>2, <4>1, <4>2, SkipOthers
    <3> QED
      BY <3>1 DEF i
  <2>4. Asked(events, k, n + 1, c)
    BY <1>2, <2>1, <2>2, <2>3
  <2>5. Tells(events, k, n + 1, c, pending[c].awaiting, pending[c].responses)
    BY <2>1, <2>4 DEF TableTrue, Live, n
  <2> QED
    BY <1>2, <2>1, <2>2, <2>3, <2>5
<1>5. RowsTrue(all)
  <2> SUFFICES ASSUME NEW k \in 1 .. Len(all), NEW j \in 1 .. Len(all), all[j].kind = "timeout",
                      Asked(all, k, j, all[j].corrId)
               PROVE  Tells(all, k, j, all[j].corrId, all[j].peers, all[j].partial)
    BY DEF RowsTrue
  <2>1. CASE j \in 1 .. n
    <3>1. k \in 1 .. n /\ j \in 1 .. n + 1 /\ all[j] = events[j]
      BY <1>2, <2>1 DEF Asked
    <3>2. Asked(events, k, j, all[j].corrId)
      BY <1>2, <3>1
    <3>3. Tells(events, k, j, all[j].corrId, all[j].peers, all[j].partial)
      BY <2>1, <3>1, <3>2 DEF RowsTrue, n
    <3> QED
      BY <1>2, <3>1, <3>3
  <2>2. CASE j \in n + 1 .. Len(all)
    <3>1. /\ all[j].corrId \in Live
          /\ all[j].peers = pending[all[j].corrId].awaiting
          /\ all[j].partial = pending[all[j].corrId].responses
      BY <1>3, <2>2
    <3>2. j \in n + 1 .. Len(all) + 1
      BY <1>2, <2>2
    <3> QED
      BY <1>4, <3>1, <3>2
  <2> QED
    BY <1>2, <2>1, <2>2
<1>6. TableTrue(all, table)
  <2> SUFFICES ASSUME NEW c \in DOMAIN table, NEW k \in 1 .. Len(all),
                      Asked(all, k, Len(all) + 1, c)
               PROVE  Tells(all, k, Len(all) + 1, c, table[c].awaiting, table[c].responses)
    BY DEF TableTrue
  <2>1. Len(all) + 1 \in n + 1 .. Len(all) + 1
    BY <1>2
  <2> QED
    BY <1>4, <2>1
<1>7. RowsTrue(Newest(all, MaxEvents)) /\ TableTrue(Newest(all, MaxEvents), table)
  BY <1>2, <1>5, <1>6, NewestTrue
<1> QED
  BY <1>1, <1>7

Truth == RowsTrue(events) /\ TableTrue(events, pending)

LEMMA TruthStep == ASSUME IInv, Truth, [Next]_vars PROVE Truth'
<1>1. events \in Seq(Row)
  BY DEF IInv, TypeOK
<1>2. ASSUME UNCHANGED events,
             \A c \in Live' : /\ c \in Live /\ pending'[c].awaiting = pending[c].awaiting
                              /\ pending'[c].responses = pending[c].responses
      PROVE  Truth'
  BY <1>2 DEF Truth, TableTrue, Live
<1>3. ASSUME NEW c \in CorrIds, NEW P \in SUBSET Peers, Request(c, P) PROVE Truth'
  <2>1. /\ DOMAIN WithRequest(c, P) = Live \cup {c}
        /\ WithRequest(c, P)[c].awaiting = P /\ WithRequest(c, P)[c].responses = 0
        /\ \A d \in Live \ {c} : WithRequest(c, P)[d] = pending[d]
    BY DEF WithRequest
  <2>2. /\ DOMAIN pending' \subseteq Live \cup {c}
        /\ \A d \in DOMAIN pending' : pending'[d] = WithRequest(c, P)[d]
    BY <1>3, <2>1 DEF Request, Without
  <2> DEFINE row == ReqRow(c, P)
  <2>3. row \in Row /\ row.kind = "req" /\ row.corrId = c /\ row.peers = P
    BY DEF ReqRow, Row
  <2>4. Emit(<<row>>)
    BY <1>3 DEF Request
  <2> HIDE DEF row
  <2>5. RowsTrue(events') /\ TableTrue(events', pending')
    <3>1. \A d \in DOMAIN pending' \ {row.corrId} :
            /\ d \in Live /\ pending'[d].awaiting = pending[d].awaiting
            /\ pending'[d].responses = pending[d].responses
      BY <2>1, <2>2, <2>3
    <3>2. row.corrId \in DOMAIN pending' =>
            /\ pending'[row.corrId].awaiting = row.peers
            /\ pending'[row.corrId].responses = 0
      BY <2>1, <2>2, <2>3
    <3> QED
      BY <1>1, <2>3, <2>4, <3>1, <3>2, EmitRowTrue DEF Truth
  <2> QED
    BY <2>5 DEF Truth
<1>4. ASSUME NEW c \in CorrIds, NEW p \in Peers, Response(c, p) PROVE Truth'
  <2>1. CASE ResponseUnmatched(c)
    BY <1>2, <2>1 DEF ResponseUnmatched, tables, Live
  <2>2. CASE ResponsePartial(c, p) \/ ResponseFinal(c, p)
    <3> DEFINE row == ResRow(c, p)
    <3>1. row \in Row /\ row.kind = "res" /\ row.corrId = c /\ row.peers = {p}
      BY DEF ResRow, Row
    <3>2. Emit(<<row>>) /\ c \in Live
      BY <2>2 DEF ResponsePartial, ResponseFinal
    <3>3. \A d \in DOMAIN pending' \ {c} : d \in Live /\ pending'[d] = pending[d]
      BY <2>2 DEF ResponsePartial, ResponseFinal, Without, Live, IInv, TypeOK
    <3>4. c \in DOMAIN pending' =>
            /\ pending'[c].awaiting = pending[c].awaiting \ {p}
            /\ pending'[c].responses = pending[c].responses + 1
      BY <2>2 DEF ResponsePartial, ResponseFinal, Without, Live, IInv, TypeOK, Entry
    <3> HIDE DEF row
    <3>5. RowsTrue(events') /\ TableTrue(events', pending')
      <4>1. \A d \in DOMAIN pending' \ {row.corrId} :
              /\ d \in Live /\ pending'[d].awaiting = pending[d].awaiting
              /\ pending'[d].responses = pending[d].responses
        BY <3>1, <3>3
      <4>2. row.corrId \in DOMAIN pending' =>
              /\ row.corrId \in Live
              /\ pending'[row.corrId].awaiting = pending[row.corrId].awaiting \ row.peers
              /\ pending'[row.corrId].responses = pending[row.corrId].responses + 1
        BY <3>1, <3>2, <3>4
      <4> QED
        BY <1>1, <3>1, <3>2, <4>1, <4>2, EmitRowTrue DEF Truth
    <3> QED
      BY <3>5 DEF Truth
  <2> QED
    BY <1>4, <2>1, <2>2 DEF Response
<1>5. CASE Sweep
  <2>1. PICK ids \in MapOrders(Expired) : Emit([i \in 1 .. Len(ids) |-> TimeoutRow(ids[i])])
    BY <1>5 DEF Sweep
  <2>2. Expired \subseteq Live /\ Live \subseteq CorrIds
    BY DEF Expired, IInv, TypeOK
  <2>3. Cardinality(Expired) \in Nat
    BY <2>2, IdsFinite
  <2>4. ids \in Seq(Expired) /\ Len(ids) \in Nat
    BY <2>1, <2>3 DEF MapOrders
  <2>5. \A c \in Expired : /\ TimeoutRow(c) \in Row /\ TimeoutRow(c).kind = "timeout"
                           /\ TimeoutRow(c).corrId = c
                           /\ TimeoutRow(c).peers = pending[c].awaiting
                           /\ TimeoutRow(c).partial = pending[c].responses
    BY <2>2 DEF TimeoutRow, Row, Entry, IInv, TypeOK
  <2> DEFINE rows == [i \in 1 .. Len(ids) |-> TimeoutRow(ids[i])]
  <2>6. /\ rows \in Seq(Row) /\ Len(rows) = Len(ids)
        /\ \A i \in 1 .. Len(ids) : /\ rows[i].kind = "timeout" /\ rows[i].corrId \in Live
                                    /\ rows[i].peers = pending[rows[i].corrId].awaiting
                                    /\ rows[i].partial = pending[rows[i].corrId].responses
    BY <2>2, <2>4, <2>5
  <2>7. Emit(rows)
    BY <2>1
  <2>8. \A c \in DOMAIN pending' : /\ c \in Live /\ pending'[c].awaiting = pending[c].awaiting
                                   /\ pending'[c].responses = pending[c].responses
    BY <1>5 DEF Sweep, Without, Live
  <2> HIDE DEF rows
  <2>9. RowsTrue(events') /\ TableTrue(events', pending')
    BY <1>1, <2>6, <2>7, <2>8, EmitTimeoutsTrue DEF Truth
  <2> QED
    BY <2>9 DEF Truth
<1>6. CASE Tick
  <2>1. \A c \in Live' : /\ c \in Live /\ pending'[c].awaiting = pending[c].awaiting
                         /\ pending'[c].responses = pending[c].responses
    BY <1>6 DEF Tick, Live, IInv, TypeOK, Entry
  <2> QED
    BY <1>2, <1>6, <2>1 DEF Tick
<1>7. CASE UNCHANGED vars
  BY <1>2, <1>7 DEF vars, tables, Live
<1> QED
  BY <1>3, <1>4, <1>5, <1>6, <1>7 DEF Next

(* correlator.ts, sweep(): a timeout row names just the peers without an   *)
(* answer above it and leaves none of those with one out of its count,     *)
(* after any evictions, repeated answers and reuse of ids.                 *)
THEOREM TimeoutsTrue == Spec => []TimeoutRowIsTrue
<1>1. Init => Truth
  BY DEF Init, Truth, RowsTrue, TableTrue
<1>2. IInv /\ Truth /\ [Next]_vars => Truth'
  BY TruthStep
<1>3. IInv /\ Truth => TimeoutRowIsTrue
  <2>1. \A k, j \in 1 .. Len(events) : Opens(k, j) => Asked(events, k, j, events[j].corrId)
    BY DEF Opens, Asked
  <2>2. \A k, j \in 1 .. Len(events) :
          AnswersBetween(k, j) = Replies(events, k, j, events[j].corrId)
    BY DEF AnswersBetween, Replies
  <2>3. SUFFICES ASSUME IInv, Truth, NEW k \in 1 .. Len(events), NEW j \in 1 .. Len(events),
                        events[j].kind = "timeout", Opens(k, j),
                        NEW answered, answered = {events[m].peers : m \in AnswersBetween(k, j)}
                 PROVE  /\ events[j].peers = events[k].peers \ UNION answered
                        /\ events[j].partial >= Cardinality(answered \cap SUBSET events[k].peers)
    BY DEF TimeoutRowIsTrue
  <2>4. /\ events[j].peers = events[k].peers \ UNION answered
        /\ events[j].partial = Cardinality(AnswersBetween(k, j))
    BY <2>1, <2>2, <2>3 DEF Truth, RowsTrue, Tells
  <2>5. Cardinality(answered \cap SUBSET events[k].peers) <= Cardinality(AnswersBetween(k, j))
    <3> DEFINE R == Replies(events, k, j, events[j].corrId)
    <3>1. k \in Nat /\ j \in Nat
      BY <2>3, LenProperties DEF IInv, TypeOK
    <3>2. Cardinality({events[m].peers : m \in R} \cap SUBSET events[k].peers) <= Cardinality(R)
      BY <3>1, FewerThanReplies
    <3>3. AnswersBetween(k, j) = R /\ answered = {events[m].peers : m \in R}
      BY <2>2, <2>3
    <3> QED
      BY <3>2, <3>3
  <2> QED
    BY <2>4, <2>5
<1> QED
  BY <1>1, <1>2, <1>3, Invariance, PTL DEF Spec
-----------------------------------------------------------------------------
(* The sink, which drives the collector.                                   *)
SinkInv == IInv /\ superseded = 0

LEMMA ExtendFanoutKeepsIInv ==
  ASSUME IInv, NEW c \in Live, NEW p \in Peers \cup {NoPeer}, ExtendFanout(c, p)
  PROVE  IInv'
<1>1. Targets(p) \in SUBSET Peers
  BY DEF Targets
<1>2. /\ pending' = [pending EXCEPT ![c].awaiting = @ \cup Targets(p)]
      /\ UNCHANGED <<settled, events, dropped, counters, history>>
  BY DEF ExtendFanout
<1>3. Live' = Live /\ pending' \in [Live' -> Entry]
  <2>1. pending \in [Live -> Entry] /\ pending[c] \in Entry
    BY DEF IInv, TypeOK
  <2>2. [pending[c] EXCEPT !.awaiting = @ \cup Targets(p)] \in Entry
    BY <1>1, <2>1 DEF Entry
  <2>3. pending' = [pending EXCEPT ![c] = [pending[c] EXCEPT !.awaiting = @ \cup Targets(p)]]
    BY <1>2, <2>1
  <2> QED
    BY <1>2, <2>1, <2>2, <2>3 DEF Live
<1>4. TypeOK'
  BY <1>2, <1>3 DEF IInv, TypeOK, counters, history
<1> QED
  BY <1>2, <1>3, <1>4
  DEF IInv, MemoryBounded, RequestsAccounted, RowsAccounted, counters, history

(* Whatever events arrive, the collector behind the sink stays within its  *)
(* invariant, and no start ever replaces a live request.                   *)
THEOREM SinkInvariance == SinkSpec => []SinkInv
<1>1. Init => SinkInv
  BY InitIInv DEF Init, SinkInv
<1>2. SinkInv /\ [SinkNext]_vars => SinkInv'
  <2> SUFFICES ASSUME SinkInv, [SinkNext]_vars PROVE SinkInv'
    OBVIOUS
  <2>1. ASSUME NEW c \in CorrIds, NEW p \in Peers \cup {NoPeer}, EmitStart(c, p)
        PROVE  SinkInv'
    <3>1. CASE c \in Live /\ ExtendFanout(c, p)
      BY <3>1, ExtendFanoutKeepsIInv DEF SinkInv, ExtendFanout, history
    <3>2. CASE c \notin Live /\ Request(c, Targets(p))
      <4>1. Targets(p) \in SUBSET Peers
        BY DEF Targets
      <4>2. IInv'
        BY <3>2, <4>1, RequestKeepsIInv DEF SinkInv
      <4>3. superseded' = 0
        BY <3>2 DEF Request, SinkInv
      <4> QED
        BY <4>2, <4>3 DEF SinkInv
    <3> QED
      BY <2>1, <3>1, <3>2 DEF EmitStart
  <2>2. ASSUME NEW c \in CorrIds, NEW p \in Peers \cup {NoPeer}, EmitAnswer(c, p)
        PROVE  SinkInv'
    <3>1. p \in Peers /\ Response(c, p)
      BY <2>2 DEF EmitAnswer
    <3>2. IInv'
      BY <3>1, ResponseUnmatchedKeepsIInv, ResponsePartialKeepsIInv, ResponseFinalKeepsIInv
      DEF Response, SinkInv
    <3>3. superseded' = superseded
      BY <3>1 DEF Response, ResponseUnmatched, ResponsePartial, ResponseFinal, history
    <3> QED
      BY <3>2, <3>3 DEF SinkInv
  <2>3. CASE Sweep
    BY <2>3, SweepKeepsIInv DEF SinkInv, Sweep, history
  <2>4. CASE Tick
    BY <2>4, TickKeepsIInv DEF SinkInv, Tick, history
  <2>5. CASE UNCHANGED vars
    BY <2>5, StutterKeepsIInv DEF SinkInv, vars, history
  <2> QED
    BY <2>1, <2>2, <2>3, <2>4, <2>5 DEF SinkNext
<1> QED
  BY <1>1, <1>2, PTL DEF SinkSpec

(* The collector's public counters account for every request the events    *)
(* ever registered.                                                        *)
THEOREM SinkCounters == SinkSpec => []CountersTellAll
<1>1. SinkInv => CountersTellAll
  <2> SUFFICES ASSUME SinkInv PROVE CountersTellAll
    OBVIOUS
  <2>1. /\ completed \in Nat /\ timedOut \in Nat /\ pendingDropped \in Nat
        /\ superseded = 0 /\ Cardinality(Live) \in Nat
    BY LiveFinite DEF SinkInv, IInv, TypeOK
  <2>2. started = Cardinality(Live) + completed + timedOut + pendingDropped + superseded
    BY DEF SinkInv, IInv, RequestsAccounted
  <2> QED
    BY <2>1, <2>2 DEF CountersTellAll
<1> QED
  BY <1>1, SinkInvariance, PTL

(* Behind the sink, too, memory is bounded.                                *)
THEOREM SinkMemory == SinkSpec => []MemoryBounded
<1>1. SinkInv => MemoryBounded
  BY DEF SinkInv, IInv
<1> QED
  BY <1>1, SinkInvariance, PTL
=============================================================================
