---------------------------- MODULE PipelineProofs ----------------------------
(***************************************************************************)
(* Proofs about the way of a row, for any cap of the flusher, any peers    *)
(* and collisions among them, and any rows and streams.                    *)
(***************************************************************************)
EXTENDS Pipeline, BoundedProofs

(* What the flusher does to the numbers of rows, place by place. *)
Numbered ==
  /\ added \in Nat /\ flushCount \in Nat
  /\ batch \in Seq(Nat) /\ handed \in Seq(Nat)
  /\ Len(handed) + Len(batch) = added
  /\ \A k \in 1 .. Len(handed) : handed[k] = k
  /\ \A k \in 1 .. Len(batch) : batch[k] = Len(handed) + k

LEMMA NumberedInOrder == Numbered => EachRowOnceInOrder
<1> SUFFICES ASSUME Numbered PROVE handed \o batch = [n \in 1 .. added |-> n]
  BY DEF EachRowOnceInOrder
<1>1. /\ handed \o batch \in Seq(Nat)
      /\ Len(handed \o batch) = added
      /\ \A i \in 1 .. added : (handed \o batch)[i] = i
  BY ConcatProperties DEF Numbered
<1>2. /\ [n \in 1 .. added |-> n] \in Seq(Nat)
      /\ Len([n \in 1 .. added |-> n]) = added
  BY DEF Numbered
<1> QED
  BY <1>1, <1>2, SeqEqual

(* A batch that continues the numbers is handed over and leaves nothing. *)
LEMMA FlushNumbered ==
  ASSUME Numbered, NEW out \in Seq(Nat), Flush(out),
         added' = Len(handed) + Len(out), \A k \in 1 .. Len(out) : out[k] = Len(handed) + k
  PROVE  Numbered' /\ flushCount' = flushCount + 1
<1>1. /\ handed' = handed \o out /\ batch' = <<>> /\ flushCount' = flushCount + 1
  BY DEF Flush
<1>2. /\ handed' \in Seq(Nat) /\ Len(handed') = Len(handed) + Len(out)
      /\ \A i \in 1 .. Len(handed') : handed'[i] = i
  BY <1>1, ConcatProperties DEF Numbered
<1>3. batch' \in Seq(Nat) /\ Len(batch') = 0 /\ added' \in Nat /\ flushCount' \in Nat
  BY <1>1 DEF Numbered
<1> QED
  BY <1>1, <1>2, <1>3 DEF Numbered

LEMMA AddNumbered == ASSUME Numbered, Add PROVE Numbered'
<1> DEFINE staged == Append(batch, added + 1)
<1>1. /\ staged \in Seq(Nat) /\ Len(staged) = Len(batch) + 1
      /\ \A k \in 1 .. Len(staged) : staged[k] = Len(handed) + k
      /\ added' = added + 1
  BY DEF Numbered, Add
<1>2. CASE Len(staged) >= MaxBatch
  <2>1. Flush(staged)
    BY <1>2 DEF Add
  <2>2. added' = Len(handed) + Len(staged)
    <3>1. Len(handed) \in Nat /\ Len(batch) \in Nat
      BY LenProperties DEF Numbered
    <3> HIDE DEF staged
    <3> QED
      BY <1>1, <3>1 DEF Numbered
  <2> QED
    BY <1>1, <2>1, <2>2, FlushNumbered
<1>3. CASE ~ (Len(staged) >= MaxBatch)
  <2>1. batch' = staged /\ UNCHANGED <<stats, handed, delivered>>
    BY <1>3 DEF Add
  <2> QED
    BY <1>1, <2>1 DEF Numbered, stats
<1> QED
  BY <1>2, <1>3

LEMMA FlushNowNumbered == ASSUME Numbered, FlushNow PROVE Numbered'
  BY FlushNumbered DEF Numbered, FlushNow

LEMMA StartNumbered == ASSUME Numbered, Start PROVE Numbered'
  BY DEF Numbered, Start, stats

LEMMA StopNumbered == ASSUME Numbered, Stop PROVE Numbered'
<1>1. CASE batch = <<>>
  BY <1>1 DEF Numbered, Stop, FlushAll, stats
<1>2. CASE batch # <<>>
  BY <1>2, FlushNumbered DEF Numbered, Stop, FlushAll
<1> QED
  BY <1>1, <1>2

(* The flusher alone: whatever its handler takes or throws on, each row is *)
(* staged or was handed over, once and in the order it was added.          *)
THEOREM FlusherInOrder == Spec => []EachRowOnceInOrder
<1>1. Init => Numbered
  BY DEF Init, Numbered
<1>2. Numbered /\ [Next]_vars => Numbered'
  <2> SUFFICES ASSUME Numbered, [Next]_vars PROVE Numbered'
    OBVIOUS
  <2>1. CASE UNCHANGED vars
    BY <2>1 DEF Numbered, vars, stats
  <2> QED
    BY <2>1, AddNumbered, FlushNowNumbered, StartNumbered, StopNumbered DEF Next
<1> QED
  BY <1>1, <1>2, NumberedInOrder, PTL DEF Spec

-----------------------------------------------------------------------------
(* A table never holds two peers of one handle, and it holds the device.   *)
Registered ==
  redactOn => /\ Source \in table
              /\ \A p, q \in table : HandleOf[p] = HandleOf[q] => p = q

Indexed(batch_) == \A i \in DOMAIN batch_ : i \in Nat /\ DOMAIN Items(batch_[i].value) \subseteq Nat

LEMMA PlacesOrdered ==
  ASSUME NEW batch_, Indexed(batch_),
         NEW at \in Places(batch_), NEW other \in Places(batch_)
  PROVE  at = other \/ Before(at, other) \/ Before(other, at)
<1>1. PICK i \in DOMAIN batch_ : at \in {i} \X DOMAIN Items(batch_[i].value)
  BY DEF Places
<1>2. PICK j \in DOMAIN batch_ : other \in {j} \X DOMAIN Items(batch_[j].value)
  BY DEF Places
<1>3. at = <<at[1], at[2]>> /\ at[1] \in Nat /\ at[2] \in Nat
  BY <1>1 DEF Indexed
<1>4. other = <<other[1], other[2]>> /\ other[1] \in Nat /\ other[2] \in Nat
  BY <1>2 DEF Indexed
<1> QED
  BY <1>3, <1>4 DEF Before

(* redactBatch() keeps handles apart, where it returns and where it throws. *)
LEMMA HashPeersRegisters ==
  ASSUME Registered, NEW batch_, Indexed(batch_), HashPeers(batch_), redactOn' = redactOn
  PROVE  Registered' /\ table \subseteq table'
<1> DEFINE reached == {at \in Places(batch_) : /\ Hashed(batch_, at)
                                               /\ \A o \in Places(batch_) :
                                                    o = at \/ Before(o, at) => ~ ThrowsAt(batch_, o)}
           peers == {ItemAt(batch_, at).is : at \in reached} \ {Broadcast}
<1>1. CASE ~ redactOn
  BY <1>1 DEF Registered, HashPeers
<1>2. CASE redactOn
  <2>1. table' = table \cup peers
    BY <1>2 DEF HashPeers
  <2>2. ASSUME NEW at \in reached, ItemAt(batch_, at).is # Broadcast,
               NEW q \in table \cup HashedBefore(batch_, at),
               HandleOf[q] = HandleOf[ItemAt(batch_, at).is]
        PROVE  q = ItemAt(batch_, at).is
    <3>1. Hashed(batch_, at) /\ ~ ThrowsAt(batch_, at)
      OBVIOUS
    <3>2. ~ Collides(table \cup HashedBefore(batch_, at), ItemAt(batch_, at).is, HandleOf)
      BY <3>1 DEF ThrowsAt
    <3> QED
      BY <2>2, <3>2 DEF Collides
  <2>3. ASSUME NEW at \in reached, NEW other \in reached, Before(other, at),
               ItemAt(batch_, other).is # Broadcast
        PROVE  ItemAt(batch_, other).is \in HashedBefore(batch_, at)
    BY <2>3 DEF HashedBefore
  <2>4. ASSUME NEW p \in peers, NEW q \in peers, HandleOf[p] = HandleOf[q]
        PROVE  p = q
    <3>1. PICK at \in reached : p = ItemAt(batch_, at).is /\ p # Broadcast
      OBVIOUS
    <3>2. PICK other \in reached : q = ItemAt(batch_, other).is /\ q # Broadcast
      OBVIOUS
    <3>3. at = other \/ Before(at, other) \/ Before(other, at)
      BY PlacesOrdered
    <3>4. CASE Before(at, other)
      BY <2>2, <2>3, <2>4, <3>1, <3>2, <3>4
    <3>5. CASE Before(other, at)
      BY <2>2, <2>3, <2>4, <3>1, <3>2, <3>5
    <3> QED
      BY <3>1, <3>2, <3>3, <3>4, <3>5
  <2>5. ASSUME NEW p \in table, NEW q \in peers, HandleOf[p] = HandleOf[q]
        PROVE  p = q
    BY <2>2, <2>5
  <2> HIDE DEF peers
  <2> QED
    BY <1>2, <2>1, <2>4, <2>5 DEF Registered
<1> QED
  BY <1>1, <1>2

(* Where it returns, the table knows every peer of the batch. *)
LEMMA HashPeersKnows ==
  ASSUME NEW batch_, HashPeers(batch_), redactOn, ~ Throws(batch_), NEW i \in DOMAIN batch_
  PROVE  PeersOf(batch_[i]) \subseteq table'
<1> SUFFICES ASSUME NEW p \in PeersOf(batch_[i]) PROVE p \in table'
  OBVIOUS
<1>1. PICK j \in DOMAIN Items(batch_[i].value) :
        /\ batch_[i].field \in PeerFields
        /\ IsString(Items(batch_[i].value)[j])
        /\ p = Items(batch_[i].value)[j].is /\ p # Broadcast
  BY DEF PeersOf, ToSet
<1>2. <<i, j>> \in Places(batch_)
  BY DEF Places
<1>3. Hashed(batch_, <<i, j>>) /\ ItemAt(batch_, <<i, j>>).is = p
  BY <1>1 DEF Hashed, ItemAt
<1>4. \A o \in Places(batch_) : ~ ThrowsAt(batch_, o)
  BY DEF Throws
<1> QED
  BY <1>1, <1>2, <1>3, <1>4 DEF HashPeers

-----------------------------------------------------------------------------
(* What an exporter is given for a row is what redact() leaves of it, and  *)
(* the table knows the peers in it.                                        *)
Known(f, on, rs, tb) ==
  /\ f.row \in 1 .. Len(rs)
  /\ on => PeersOf(rs[f.row]) \subseteq tb /\ f.discloses = Redact(rs[f.row])

Frames == [row : Nat, discloses : {Redact(r) : r \in Reportable} \cup {Raw(r) : r \in Reportable}]
Tries == [frame : Frames, ok : BOOLEAN]

Reported == rows \in Seq(Reportable) /\ Len(rows) = added

Exported == /\ buffered \in Seq(Frames)
            /\ tried \in [Streams -> Seq(Tries)]
            /\ live \in {0} \cup Streams
            /\ \A i \in 1 .. Len(buffered) : Known(buffered[i], redactOn, rows, table)
            /\ \A s \in Streams : \A i \in 1 .. Len(tried[s]) :
                 Known(tried[s][i].frame, redactOn, rows, table)

PipelineInv == Numbered /\ Reported /\ Registered /\ Exported

(* Rows are only added and peers only entered. *)
Grows == /\ redactOn' = redactOn
         /\ table \subseteq table'
         /\ Len(rows) <= Len(rows')
         /\ \A n \in 1 .. Len(rows) : rows'[n] = rows[n]

LEMMA KnownStays ==
  ASSUME Reported, Reported', Grows, NEW f, Known(f, redactOn, rows, table)
  PROVE  Known(f, redactOn', rows', table')
<1>1. Len(rows) \in Nat /\ Len(rows') \in Nat
  BY LenProperties DEF Reported
<1>2. f.row \in 1 .. Len(rows') /\ rows'[f.row] = rows[f.row]
  BY <1>1 DEF Grows, Known
<1> QED
  BY <1>2 DEF Grows, Known

LEMMA ExportedStays ==
  ASSUME Reported, Reported', Grows, Exported, UNCHANGED exporterVars
  PROVE  Exported'
<1>1. buffered' = buffered /\ live' = live /\ tried' = tried
  BY DEF exporterVars
<1>2. \A f : Known(f, redactOn, rows, table) => Known(f, redactOn', rows', table')
  BY KnownStays
<1> QED
  BY <1>1, <1>2 DEF Exported

(* What is exported is known, if its rows are and their peers are entered. *)
LEMMA ExportKeeps ==
  ASSUME Reported, Reported', Grows, Exported,
         NEW frames \in Seq(Frames),
         \A i \in 1 .. Len(frames) : Known(frames[i], redactOn', rows', table')
  PROVE  /\ Export(frames) => Exported'
         /\ \A s \in Streams : Write(s, frames) /\ live' = s /\ buffered' \in {buffered, <<>>}
                                 => Exported'
<1>1. \A f : Known(f, redactOn, rows, table) => Known(f, redactOn', rows', table')
  BY KnownStays
<1>2. ASSUME NEW s \in Streams, Write(s, frames) PROVE
        /\ tried' \in [Streams -> Seq(Tries)]
        /\ \A t \in Streams : \A i \in 1 .. Len(tried'[t]) :
             Known(tried'[t][i].frame, redactOn', rows', table')
  <2> DEFINE more == [i \in DOMAIN frames |->
                        [frame |-> frames[i], ok |-> s \notin dead /\ Encodable(rows'[frames[i].row])]]
  <2>1. /\ more \in Seq(Tries) /\ Len(more) = Len(frames)
        /\ \A i \in 1 .. Len(more) : more[i].frame = frames[i]
    <3>1. frames \in [1 .. Len(frames) -> Frames] /\ Len(frames) \in Nat
      BY LenProperties
    <3>2. \A i \in 1 .. Len(frames) : Encodable(rows'[frames[i].row]) \in BOOLEAN
      BY DEF Encodable
    <3>3. more \in [1 .. Len(frames) -> Tries]
      BY <3>1, <3>2 DEF Tries
    <3> QED
      BY <3>1, <3>3
  <2>2. tried[s] \in Seq(Tries)
    BY DEF Exported
  <2>3. tried' = [tried EXCEPT ![s] = @ \o more]
    BY <1>2 DEF Write
  <2> HIDE DEF more
  <2>4. /\ tried[s] \o more \in Seq(Tries)
        /\ Len(tried[s] \o more) = Len(tried[s]) + Len(more)
        /\ \A i \in 1 .. Len(tried[s]) + Len(more) :
             (tried[s] \o more)[i] = IF i <= Len(tried[s]) THEN tried[s][i] ELSE more[i - Len(tried[s])]
    BY <2>1, <2>2, ConcatProperties
  <2>5. \A i \in 1 .. Len(tried[s] \o more) :
          Known((tried[s] \o more)[i].frame, redactOn', rows', table')
    <3> SUFFICES ASSUME NEW i \in 1 .. Len(tried[s] \o more)
                 PROVE  Known((tried[s] \o more)[i].frame, redactOn', rows', table')
      OBVIOUS
    <3>0. Len(tried[s]) \in Nat /\ Len(more) \in Nat
      BY <2>1, <2>2, LenProperties
    <3>1. CASE i <= Len(tried[s])
      <4>1. i \in 1 .. Len(tried[s]) /\ (tried[s] \o more)[i] = tried[s][i]
        BY <2>4, <3>0, <3>1
      <4>2. Known(tried[s][i].frame, redactOn, rows, table)
        BY <4>1 DEF Exported
      <4> QED
        BY <1>1, <4>1, <4>2
    <3>2. CASE ~ (i <= Len(tried[s]))
      <4>1. /\ i - Len(tried[s]) \in 1 .. Len(more)
            /\ (tried[s] \o more)[i] = more[i - Len(tried[s])]
        BY <2>4, <3>0, <3>2
      <4> QED
        BY <2>1, <4>1
    <3> QED
      BY <3>1, <3>2
  <2>6. ASSUME NEW t \in Streams \ {s} PROVE tried'[t] = tried[t]
    BY <2>3 DEF Exported
  <2>7. tried'[s] = tried[s] \o more /\ tried' \in [Streams -> Seq(Tries)]
    BY <2>3, <2>4 DEF Exported
  <2>8. ASSUME NEW t \in Streams, NEW i \in 1 .. Len(tried'[t])
        PROVE  Known(tried'[t][i].frame, redactOn', rows', table')
    <3>1. CASE t = s
      BY <2>5, <2>7, <3>1
    <3>2. CASE t # s
      BY <1>1, <2>6, <3>2 DEF Exported
    <3> QED
      BY <3>1, <3>2
  <2> QED
    BY <2>7, <2>8
<1>3. ASSUME buffered' = buffered \o frames PROVE
        /\ buffered' \in Seq(Frames)
        /\ \A i \in 1 .. Len(buffered') : Known(buffered'[i], redactOn', rows', table')
  <2>1. /\ buffered \o frames \in Seq(Frames)
        /\ Len(buffered \o frames) = Len(buffered) + Len(frames)
        /\ \A i \in 1 .. Len(buffered) + Len(frames) :
             (buffered \o frames)[i] = IF i <= Len(buffered) THEN buffered[i] ELSE frames[i - Len(buffered)]
    BY ConcatProperties DEF Exported
  <2>2. Len(buffered) \in Nat /\ Len(frames) \in Nat
    BY LenProperties DEF Exported
  <2>3. ASSUME NEW i \in 1 .. Len(buffered') PROVE Known(buffered'[i], redactOn', rows', table')
    <3>1. CASE i <= Len(buffered)
      <4>1. i \in 1 .. Len(buffered) /\ buffered'[i] = buffered[i]
        BY <1>3, <2>1, <2>2, <3>1
      <4>2. Known(buffered[i], redactOn, rows, table)
        BY <4>1 DEF Exported
      <4> QED
        BY <1>1, <4>1, <4>2
    <3>2. CASE ~ (i <= Len(buffered))
      <4>1. i - Len(buffered) \in 1 .. Len(frames) /\ buffered'[i] = frames[i - Len(buffered)]
        BY <1>3, <2>1, <2>2, <3>2
      <4> QED
        BY <4>1
    <3> QED
      BY <3>1, <3>2
  <2> QED
    BY <1>3, <2>1, <2>3
<1>4. ASSUME buffered' \in {buffered, <<>>} PROVE
        /\ buffered' \in Seq(Frames)
        /\ \A i \in 1 .. Len(buffered') : Known(buffered'[i], redactOn', rows', table')
  <2>1. CASE buffered' = buffered
    BY <1>1, <2>1 DEF Exported
  <2>2. CASE buffered' = <<>>
    BY <2>2
  <2> QED
    BY <1>4, <2>1, <2>2
<1>5. ASSUME NEW s \in Streams, Write(s, frames), live' = s, buffered' \in {buffered, <<>>}
      PROVE  Exported'
  BY <1>2, <1>4, <1>5 DEF Exported
<1>6. ASSUME Export(frames) PROVE Exported'
  <2>1. CASE live = 0
    BY <1>1, <1>3, <1>6, <2>1 DEF Export, Exported
  <2>2. CASE live # 0
    BY <1>5, <1>6, <2>2 DEF Export, Exported
  <2> QED
    BY <2>1, <2>2
<1> QED
  BY <1>5, <1>6

(* The handler, on the rows the flusher hands it. *)
LEMMA HandledKeeps ==
  ASSUME PipelineInv, Numbered', Reported', Len(rows) <= Len(rows'),
         \A n \in 1 .. Len(rows) : rows'[n] = rows[n],
         Handled, Settings
  PROVE  Registered' /\ Exported'
<1> DEFINE out == SubSeq(handed', Len(handed) + 1, Len(handed'))
           batch_ == [i \in DOMAIN out |-> rows'[out[i]]]
           frames == [i \in DOMAIN out |-> Frame(out[i], IF redactOn THEN Redact(batch_[i])
                                                                      ELSE Raw(batch_[i]))]
<1>1. redactOn' = redactOn
  BY DEF Settings
<1>2. CASE flushCount' = flushCount
  <2>1. table' = table /\ UNCHANGED exporterVars
    BY <1>2 DEF Handled
  <2>2. Grows
    BY <1>1, <2>1 DEF Grows
  <2> QED
    BY <1>1, <2>1, <2>2, ExportedStays DEF PipelineInv, Registered
<1>3. CASE flushCount' # flushCount
  <2>1. OnFlush(out)
    BY <1>3 DEF Handled
  <2>2. Len(handed) \in Nat /\ Len(handed') \in Nat /\ Len(batch') \in Nat /\ Len(rows') \in Nat
    BY LenProperties DEF PipelineInv, Numbered, Reported
  <2>3. \A i \in (Len(handed) + 1) .. Len(handed') : handed'[i] \in 1 .. Len(rows')
    <3>1. \A i \in 1 .. Len(handed') : handed'[i] = i
      BY DEF Numbered
    <3>2. Len(handed') <= Len(rows')
      BY <2>2 DEF Numbered, Reported
    <3> QED
      BY <2>2, <3>1, <3>2
  <2>4. out \in Seq(1 .. Len(rows'))
    BY <2>2, <2>3, SubSeqProperties
  <2> HIDE DEF out
  <2>5. DOMAIN out = 1 .. Len(out) /\ Len(out) \in Nat /\ \A i \in DOMAIN out : out[i] \in 1 .. Len(rows')
    BY <2>4, LenProperties
  <2>6. \A i \in DOMAIN out : batch_[i] = rows'[out[i]] /\ batch_[i] \in Reportable
    BY <2>5 DEF Reported
  <2>7. Indexed(batch_)
    <3>1. \A i \in DOMAIN batch_ : i \in Nat /\ batch_[i] \in Reportable
      BY <2>5, <2>6
    <3> HIDE DEF batch_
    <3> QED
      BY <3>1, ItemsAssumption DEF Indexed
  <2>8. HashPeers(batch_)
    BY <2>1 DEF OnFlush
  <2>9. Registered' /\ table \subseteq table'
    <3> HIDE DEF batch_
    <3> QED
      BY <1>1, <2>7, <2>8, HashPeersRegisters DEF PipelineInv
  <2>10. Grows
    BY <1>1, <2>9 DEF Grows
  <2>11. CASE Throws(batch_)
    <3>1. UNCHANGED exporterVars
      BY <2>1, <2>11 DEF OnFlush
    <3> QED
      BY <2>9, <2>10, <3>1, ExportedStays DEF PipelineInv
  <2>12. CASE ~ Throws(batch_)
    <3>1. Export(frames)
      BY <2>1, <2>12 DEF OnFlush
    <3>2. \A i \in DOMAIN out : redactOn => PeersOf(batch_[i]) \subseteq table'
      <4>1. DOMAIN batch_ = DOMAIN out
        OBVIOUS
      <4> HIDE DEF batch_
      <4> QED
        BY <2>8, <2>12, <4>1, HashPeersKnows
    <3>3. frames \in [1 .. Len(out) -> Frames]
      BY <2>5, <2>6 DEF Frames, Frame
    <3>4. frames \in Seq(Frames) /\ Len(frames) = Len(out)
      BY <2>5, <3>3
    <3>5. ASSUME NEW i \in 1 .. Len(frames) PROVE Known(frames[i], redactOn', rows', table')
      <4>1. i \in DOMAIN out
        BY <2>5, <3>4
      <4>2. /\ frames[i].row = out[i]
            /\ redactOn => frames[i].discloses = Redact(rows'[out[i]])
        BY <4>1, <2>6 DEF Frame
      <4>3. redactOn => PeersOf(rows'[out[i]]) \subseteq table'
        BY <4>1, <2>6, <3>2
      <4> HIDE DEF frames
      <4> QED
        BY <1>1, <2>5, <4>1, <4>2, <4>3 DEF Known
    <3> HIDE DEF frames
    <3> QED
      BY <2>9, <2>10, <3>1, <3>4, <3>5, ExportKeeps DEF PipelineInv
  <2> QED
    BY <2>11, <2>12
<1> QED
  BY <1>2, <1>3

LEMMA PipelineStarts == PipelineInit => PipelineInv
<1> SUFFICES ASSUME PipelineInit PROVE PipelineInv
  OBVIOUS
<1>1. Numbered
  BY DEF PipelineInit, Init, Numbered
<1>2. Reported
  BY DEF PipelineInit, Init, Reported
<1>3. Registered
  BY DEF PipelineInit, Registered
<1>4. Exported
  BY StreamsAssumption DEF PipelineInit, Exported, Streams
<1> QED
  BY <1>1, <1>2, <1>3, <1>4 DEF PipelineInv

LEMMA PipelineStep == PipelineInv /\ [PipelineNext]_pipelineVars => PipelineInv'
<1> SUFFICES ASSUME PipelineInv, [PipelineNext]_pipelineVars PROVE PipelineInv'
  OBVIOUS
<1>1. ASSUME Numbered', Reported', Len(rows) <= Len(rows'),
             \A n \in 1 .. Len(rows) : rows'[n] = rows[n], Handled, Settings
      PROVE  PipelineInv'
  BY <1>1, HandledKeeps DEF PipelineInv
<1>2. ASSUME Numbered', UNCHANGED <<rows, added>>
      PROVE  Reported' /\ Len(rows) <= Len(rows') /\ \A n \in 1 .. Len(rows) : rows'[n] = rows[n]
  <2>1. Len(rows) \in Nat
    BY LenProperties DEF PipelineInv, Reported
  <2> QED
    BY <1>2, <2>1 DEF PipelineInv, Reported
<1>3. CASE Report
  <2>1. PICK row \in Reportable : rows' = Append(rows, row)
    BY <1>3 DEF Report
  <2>2. rows \in Seq(Reportable) /\ Len(rows) = added /\ added \in Nat
    BY DEF PipelineInv, Reported, Numbered
  <2>3. Numbered' /\ added' = added + 1
    BY <1>3, AddNumbered DEF PipelineInv, Report, Add
  <2>4. /\ rows' \in Seq(Reportable) /\ Len(rows') = Len(rows) + 1
        /\ \A n \in 1 .. Len(rows) : rows'[n] = rows[n]
    BY <2>1, <2>2, AppendProperties
  <2>5. Reported'
    BY <2>2, <2>3, <2>4 DEF Reported
  <2> QED
    BY <1>1, <1>3, <2>2, <2>3, <2>4, <2>5 DEF Report
<1>4. CASE Ship
  <2>1. Numbered'
    BY <1>4, FlushNowNumbered DEF PipelineInv, Ship
  <2> QED
    BY <1>1, <1>2, <1>4, <2>1 DEF Ship, FlushNow
<1>5. CASE Starts
  <2>1. Numbered'
    BY <1>5, StartNumbered DEF PipelineInv, Starts
  <2> QED
    BY <1>1, <1>2, <1>5, <2>1 DEF Starts, Start
<1>6. CASE Stops
  <2>1. Numbered'
    BY <1>6, StopNumbered DEF PipelineInv, Stops
  <2> QED
    BY <1>1, <1>2, <1>6, <2>1 DEF Stops, Stop
<1>7. ASSUME UNCHANGED <<vars, rows, redactOn>>
      PROVE  /\ Numbered' /\ Reported' /\ Len(rows) <= Len(rows')
             /\ \A n \in 1 .. Len(rows) : rows'[n] = rows[n]
  <2>1. Numbered'
    BY <1>7 DEF PipelineInv, Numbered, vars, stats
  <2> QED
    BY <1>2, <1>7, <2>1 DEF vars
<1>8. ASSUME NEW s \in Streams, Attach(s) PROVE PipelineInv'
  <2>1. /\ Numbered' /\ Reported' /\ Registered' /\ Grows
    BY <1>7, <1>8 DEF Attach, PipelineInv, Registered, Grows
  <2>2. /\ buffered \in Seq(Frames)
        /\ \A i \in 1 .. Len(buffered) : Known(buffered[i], redactOn', rows', table')
    BY <1>8 DEF PipelineInv, Exported, Attach
  <2>3. Write(s, buffered) /\ live' = s /\ buffered' \in {buffered, <<>>}
    BY <1>8 DEF Attach
  <2>4. Exported'
    BY <2>1, <2>2, <2>3, ExportKeeps DEF PipelineInv
  <2> QED
    BY <2>1, <2>4 DEF PipelineInv
<1>9. ASSUME NEW s \in Streams, Dies(s) PROVE PipelineInv'
  <2>1. /\ Numbered' /\ Reported' /\ Registered' /\ Grows
    BY <1>7, <1>9 DEF Dies, PipelineInv, Registered, Grows
  <2> QED
    BY <1>9, <2>1, ExportedStays DEF Dies, PipelineInv
<1>10. ASSUME NEW p \in Peers, Elsewhere(p) PROVE PipelineInv'
  <2>1. Numbered' /\ Reported' /\ Len(rows) <= Len(rows') /\ \A n \in 1 .. Len(rows) : rows'[n] = rows[n]
    BY <1>7, <1>10 DEF Elsewhere
  <2>2. p # Broadcast /\ table' = table \cup {p} /\ redactOn' = redactOn
    BY <1>10, HandlesAssumption DEF Elsewhere, Entered
  <2>3. \A q \in table : HandleOf[q] = HandleOf[p] => q = p
    BY <1>10, <2>2 DEF Elsewhere, Collides
  <2>4. Registered' /\ Grows
    BY <2>1, <2>2, <2>3 DEF PipelineInv, Registered, Grows
  <2> QED
    BY <1>10, <2>1, <2>4, ExportedStays DEF Elsewhere, PipelineInv
<1>11. CASE UNCHANGED pipelineVars
  <2>1. /\ Numbered' /\ Reported' /\ Registered' /\ Grows
    BY <1>7, <1>11 DEF pipelineVars, PipelineInv, Registered, Grows
  <2> QED
    BY <1>11, <2>1, ExportedStays DEF pipelineVars, PipelineInv
<1> QED
  BY <1>3, <1>4, <1>5, <1>6, <1>8, <1>9, <1>10, <1>11, OthersAssumption DEF PipelineNext

-----------------------------------------------------------------------------
(* The whole way, whatever is redacted, collides or throws, and whatever   *)
(* streams come and die: each row the application reported is staged or    *)
(* was handed over, once and in order.                                     *)
THEOREM RowsOnce == PipelineSpec => []EachRowOnceInOrder
<1>1. PipelineInv => EachRowOnceInOrder
  BY NumberedInOrder DEF PipelineInv
<1> QED
  BY <1>1, PipelineStarts, PipelineStep, PTL DEF PipelineSpec

LEMMA SentIsKnown ==
  ASSUME PipelineInv, NEW f \in Sent
  PROVE  Known(f, redactOn, rows, table)
<1>1. CASE f \in ToSet(buffered)
  <2>1. buffered \in Seq(Frames)
    BY DEF PipelineInv, Exported
  <2>2. PICK i \in DOMAIN buffered : f = buffered[i]
    BY <1>1 DEF ToSet
  <2>3. i \in 1 .. Len(buffered)
    BY <2>1, LenProperties
  <2> QED
    BY <2>2, <2>3 DEF PipelineInv, Exported
<1>2. CASE f \notin ToSet(buffered)
  <2>1. PICK t \in Tried : f = t.frame
    BY <1>2 DEF Sent
  <2>2. PICK s \in Streams : t \in ToSet(tried[s])
    BY DEF Tried
  <2>3. tried[s] \in Seq(Tries)
    BY DEF PipelineInv, Exported
  <2>4. PICK i \in DOMAIN tried[s] : t = tried[s][i]
    BY <2>2 DEF ToSet
  <2>5. i \in 1 .. Len(tried[s])
    BY <2>3, LenProperties
  <2> QED
    BY <2>1, <2>4, <2>5 DEF PipelineInv, Exported
<1> QED
  BY <1>1, <1>2

(* core/redactor.ts, the collision that fails closed: whatever peers share *)
(* a handle, what was exported under one names one peer, for ever.         *)
THEOREM Handles == PipelineSpec => []HandlesTellPeers
<1>1. PipelineInv => HandlesTellPeers
  <2> SUFFICES ASSUME PipelineInv, redactOn,
                      NEW p \in {Source} \cup UNION {PeersOf(rows[f.row]) : f \in Sent}
               PROVE  Names(table, HandleOf, HandleOf[p]) = {p}
    BY DEF HandlesTellPeers
  <2>1. p \in table
    <3>1. CASE p = Source
      BY <3>1 DEF PipelineInv, Registered
    <3>2. CASE p # Source
      <4>1. PICK f \in Sent : p \in PeersOf(rows[f.row])
        BY <3>2
      <4> QED
        BY <4>1, SentIsKnown DEF Known
    <3> QED
      BY <3>1, <3>2
  <2> QED
    BY <2>1 DEF Names, PipelineInv, Registered
<1> QED
  BY <1>1, PipelineStarts, PipelineStep, PTL DEF PipelineSpec

(* Peer, reason and URL fields hold what their names say: redact() lets    *)
(* anything else in them through as it is.  A host is not its whole URL.   *)
Typed ==
  /\ \A row \in Reportable :
       /\ row.field \in PeerFields => \A v \in ToSet(Items(row.value)) : IsString(v)
       /\ row.field \in UrlFields \cup TextFields => IsString(row.value)
  /\ \A url \in DOMAIN HostOf : HostOf[url] # url

LEMMA RedactHides ==
  ASSUME Typed, NEW row \in Reportable
  PROVE  Redact(row) \cap Sensitive(row) = {}
<1>1. CASE Summarised(row)
  BY <1>1 DEF Redact, Summarised, CiphertextFields, BodyFields, PeerFields, UrlFields, TextFields
<1>2. CASE ~ Summarised(row) /\ row.field \in PeerFields
  <2>1. \A v \in ToSet(Items(row.value)) : IsString(v)
    BY <1>2 DEF Typed
  <2>2. Redact(row) = Shows({v \in ToSet(Items(row.value)) : IsString(v) => v.is = Broadcast})
    BY <1>2 DEF Redact, Summarised, CiphertextFields, BodyFields, PeerFields, UrlFields, TextFields
  <2>3. Redact(row) \subseteq {Broadcast}
    BY <2>1, <2>2 DEF Shows
  <2>4. Broadcast \notin Sensitive(row)
    BY <1>2 DEF Sensitive
  <2> QED
    BY <2>3, <2>4
<1>3. CASE ~ Summarised(row) /\ row.field \in UrlFields
  <2>1. IsString(row.value)
    BY <1>3 DEF Typed
  <2>2. Redact(row) = {HostOf[url] : url \in {row.value.is} \cap DOMAIN HostOf}
    BY <1>3, <2>1 DEF Redact, Summarised, CiphertextFields, BodyFields, PeerFields, UrlFields, TextFields
  <2>3. ToSet(Items(row.value)) = {row.value}
    BY <2>1 DEF ToSet, Items, IsString
  <2>4. Sensitive(row) \subseteq {row.value.is}
    BY <1>3, <2>3 DEF Sensitive, Shows
  <2> QED
    BY <2>2, <2>4 DEF Typed
<1>4. CASE ~ Summarised(row) /\ row.field \in TextFields
  <2>1. IsString(row.value)
    BY <1>4 DEF Typed
  <2> QED
    BY <1>4, <2>1 DEF Redact, Summarised, CiphertextFields, BodyFields, PeerFields, UrlFields, TextFields
<1>5. CASE ~ Summarised(row) /\ row.field \notin PeerFields \cup UrlFields \cup TextFields
  BY <1>5 DEF Sensitive
<1> QED
  BY <1>1, <1>2, <1>3, <1>4, <1>5

(* core/redactor.ts:3-5 and core/flush.ts:74-76: with a redactor, nothing  *)
(* sensitive is exported or kept for export, whatever throws on the way.   *)
THEOREM NothingRaw == ASSUME Typed PROVE PipelineSpec => []NothingRawLeaves
<1>1. PipelineInv => NothingRawLeaves
  <2> SUFFICES ASSUME PipelineInv, redactOn, NEW f \in Sent
               PROVE  f.discloses \cap Sensitive(rows[f.row]) = {}
    BY DEF NothingRawLeaves
  <2>1. f.row \in 1 .. Len(rows) /\ f.discloses = Redact(rows[f.row])
    BY SentIsKnown DEF Known
  <2>2. rows[f.row] \in Reportable
    BY <2>1 DEF PipelineInv, Reported
  <2> QED
    BY <2>1, <2>2, RedactHides
<1> QED
  BY <1>1, PipelineStarts, PipelineStep, PTL DEF PipelineSpec

-----------------------------------------------------------------------------
(* A flattened sequence of sequences, one part after another.              *)
(* One part more of a sequence of sequences, joined to what is flattened.  *)
Join(flat, part) == flat \o part

(* The steps of the recursive function that defines FlattenSeq. *)
Flattens(f, seqs, n) ==
  f = [i \in 1 .. n |-> IF i = 1 THEN seqs[i] ELSE Join(f[i - 1], seqs[i])]

Builds(f, T, n, seqs) == /\ f \in [1 .. n -> Seq(T)]
                         /\ f[1] = seqs[1]
                         /\ \A i \in 2 .. n : f[i] = Join(f[i - 1], seqs[i])
                         /\ FlattenSeq(seqs) = f[n]

LEMMA FlattenSteps ==
  ASSUME NEW T, NEW n \in Nat \ {0}, NEW seqs \in [1 .. n -> Seq(T)]
  PROVE  \E f : Builds(f, T, n, seqs)
<1>0. n \in Nat /\ n >= 1
  OBVIOUS
<1> DEFINE Bad == {k \in 1 .. n : ~ \E f : Flattens(f, seqs, k)}
<1>1. Bad = {}
  <2>1. SUFFICES ASSUME Bad # {} PROVE FALSE
    OBVIOUS
  <2>2. Bad \in SUBSET Nat
    OBVIOUS
  <2>3. PICK k \in Bad : \A m \in Bad : k <= m
    BY <2>1, <2>2, LeastElement
  <2>4. k \in 1 .. n /\ ~ \E f : Flattens(f, seqs, k)
    OBVIOUS
  <2>5. k # 1
    <3>1. Flattens([i \in 1 .. 1 |-> seqs[1]], seqs, 1)
      BY DEF Flattens
    <3> QED
      BY <2>4, <3>1
  <2>6. k - 1 \in 1 .. n /\ k - 1 \notin Bad
    <3>1. k \in 1 .. n /\ k # 1
      BY <2>4, <2>5
    <3>2. k - 1 \in 1 .. n /\ ~ (k <= k - 1)
      BY <1>0, <3>1
    <3> QED
      BY <2>3, <3>2
  <2>7. PICK f : Flattens(f, seqs, k - 1)
    BY <2>6
  <2>8. Flattens([i \in 1 .. k |-> IF i = k THEN Join(f[k - 1], seqs[k]) ELSE f[i]], seqs, k)
    BY <1>0, <2>4, <2>5, <2>7 DEF Flattens
  <2> QED
    BY <2>4, <2>8
<1> DEFINE flat == CHOOSE f : Flattens(f, seqs, n)
<1>2. Flattens(flat, seqs, n)
  <2>1. n \in 1 .. n /\ n \notin Bad
    <3>1. n \in 1 .. n
      BY <1>0
    <3> QED
      BY <1>1, <3>1
  <2> QED
    BY <2>1
<1>3. Len(seqs) = n
  BY LenProperties
<1>4. FlattenSeq(seqs) = flat[n]
  BY <1>0, <1>3 DEF FlattenSeq, Flattens, Join
<1> HIDE DEF flat
<1>5. /\ flat[1] = seqs[1] /\ DOMAIN flat = 1 .. n
      /\ flat = [i \in 1 .. n |-> flat[i]]
      /\ \A i \in 2 .. n : flat[i] = Join(flat[i - 1], seqs[i])
  BY <1>0, <1>2 DEF Flattens
<1>6. \A i \in 1 .. n : flat[i] \in Seq(T)
  <2> DEFINE Off == {k \in 1 .. n : flat[k] \notin Seq(T)}
  <2>1. SUFFICES ASSUME Off # {} PROVE FALSE
    OBVIOUS
  <2>2. Off \in SUBSET Nat
    OBVIOUS
  <2>3. PICK k \in Off : \A m \in Off : k <= m
    BY <2>1, <2>2, LeastElement
  <2>4. k # 1
    BY <1>5, <2>3
  <2>5. k \in 2 .. n /\ k - 1 \in 1 .. n /\ flat[k - 1] \in Seq(T) /\ seqs[k] \in Seq(T)
    BY <2>3, <2>4
  <2>6. flat[k - 1] \o seqs[k] \in Seq(T)
    BY <2>5, ConcatProperties
  <2> QED
    BY <1>5, <2>3, <2>5, <2>6 DEF Join
<1> QED
  BY <1>4, <1>5, <1>6 DEF Builds

LEMMA JoinLaws ==
  ASSUME NEW T, NEW a \in Seq(T), NEW b \in Seq(T), NEW c \in Seq(T)
  PROVE  /\ Join(Join(a, b), c) = Join(a, Join(b, c))
         /\ Join(a, <<>>) = a /\ Join(<<>>, a) = a
         /\ Join(a, b) \in Seq(T) /\ Len(Join(a, b)) = Len(a) + Len(b)
<1>1. (a \o b) \o c = a \o (b \o c)
  BY ConcatAssociative
<1>2. a \o <<>> = a /\ <<>> \o a = a
  BY ConcatEmptySeq
<1>3. a \o b \in Seq(T) /\ Len(a \o b) = Len(a) + Len(b)
  BY ConcatProperties
<1> QED
  BY <1>1, <1>2, <1>3 DEF Join

(* What is added to the last part that is not empty is added at the end.   *)
FlattensMore(seqs, longer, more, T) ==
  /\ FlattenSeq(seqs) \in Seq(T)
  /\ FlattenSeq(longer) = Join(FlattenSeq(seqs), more)

LEMMA FlattenAppends ==
  ASSUME NEW T, NEW n \in Nat \ {0}, NEW seqs \in [1 .. n -> Seq(T)],
         NEW s \in 1 .. n, NEW more \in Seq(T), NEW longer \in [1 .. n -> Seq(T)],
         longer[s] = Join(seqs[s], more),
         \A i \in 1 .. n : i # s => longer[i] = seqs[i],
         \A i \in 1 .. n : i > s => seqs[i] = <<>>
  PROVE  FlattensMore(seqs, longer, more, T)
<1>1. PICK f : Builds(f, T, n, seqs)
  BY FlattenSteps
<1>2. PICK g : Builds(g, T, n, longer)
  BY FlattenSteps
<1>3. \A a, b \in Seq(T) : /\ Join(Join(a, b), more) = Join(a, Join(b, more))
                           /\ Join(a, <<>>) = a /\ Join(a, more) \in Seq(T)
  BY JoinLaws
<1>4. n \in Nat /\ n >= 1
  OBVIOUS
<1> DEFINE Ok(i) == g[i] = IF i < s THEN f[i] ELSE Join(f[i], more)
           Off == {i \in 1 .. n : ~ Ok(i)}
<1>5. Off = {}
  <2>1. SUFFICES ASSUME Off # {} PROVE FALSE
    OBVIOUS
  <2>2. Off \in SUBSET Nat
    OBVIOUS
  <2>3. PICK k \in Off : \A m \in Off : k <= m
    BY <2>1, <2>2, LeastElement
  <2>4. k \in 1 .. n /\ ~ Ok(k)
    OBVIOUS
  <2>5. k # 1
    <3>1. f[1] = seqs[1] /\ g[1] = longer[1]
      BY <1>1, <1>2 DEF Builds
    <3>2. s = 1 \/ 1 < s
      OBVIOUS
    <3> QED
      BY <2>4, <3>1, <3>2
  <2>6. k \in 2 .. n /\ k - 1 \in 1 .. n /\ Ok(k - 1)
    BY <2>3, <2>4, <2>5
  <2>7. /\ f[k] = Join(f[k - 1], seqs[k]) /\ g[k] = Join(g[k - 1], longer[k])
        /\ f[k - 1] \in Seq(T) /\ seqs[k] \in Seq(T)
    BY <1>1, <1>2, <2>6 DEF Builds
  <2>8. CASE k < s
    <3>1. k # s /\ k - 1 < s
      BY <2>4, <2>8
    <3>2. g[k - 1] = f[k - 1] /\ longer[k] = seqs[k]
      BY <2>4, <2>6, <3>1
    <3> QED
      BY <2>4, <2>7, <2>8, <3>2
  <2>9. CASE k = s
    <3>1. g[k - 1] = f[k - 1]
      BY <2>6, <2>9
    <3>2. Join(Join(f[k - 1], seqs[k]), more) = Join(f[k - 1], Join(seqs[k], more))
      BY <1>3, <2>7
    <3> QED
      BY <2>4, <2>7, <2>9, <3>1, <3>2
  <2>10. CASE k > s
    <3>1. g[k - 1] = Join(f[k - 1], more) /\ seqs[k] = <<>> /\ longer[k] = <<>>
      BY <2>6, <2>10
    <3>2. Join(f[k - 1], <<>>) = f[k - 1] /\ Join(f[k - 1], more) \in Seq(T)
      BY <1>3, <2>7
    <3>3. Join(Join(f[k - 1], more), <<>>) = Join(f[k - 1], more)
      BY <1>3, <3>2
    <3> QED
      BY <2>4, <2>6, <2>7, <2>10, <3>1, <3>2, <3>3
  <2> QED
    BY <2>6, <2>8, <2>9, <2>10
<1>6. Ok(n) /\ ~ (n < s)
  <2>1. n \in 1 .. n /\ n \notin Off
    <3>1. n \in 1 .. n
      BY <1>4
    <3> QED
      BY <1>5, <3>1
  <2> QED
    BY <2>1
<1>7. f[n] \in Seq(T)
  BY <1>1 DEF Builds
<1> QED
  BY <1>1, <1>2, <1>6, <1>7 DEF Builds, FlattensMore

-----------------------------------------------------------------------------
(* Every row ends once: on a stream, in the buffer or with its batch.      *)
Mapped(s, g) == [i \in DOMAIN s |-> g[s[i]]]

MapsParts(a, b, g, U) == /\ Mapped(a, g) \in Seq(U) /\ Len(Mapped(a, g)) = Len(a)
                         /\ Mapped(Join(a, b), g) = Join(Mapped(a, g), Mapped(b, g))

LEMMA MappedJoins ==
  ASSUME NEW T, NEW U, NEW g \in [T -> U], NEW a \in Seq(T), NEW b \in Seq(T)
  PROVE  MapsParts(a, b, g, U)
<1>1. ASSUME NEW s \in Seq(T)
      PROVE  /\ Len(s) \in Nat
             /\ Mapped(s, g) \in Seq(U) /\ Len(Mapped(s, g)) = Len(s)
             /\ \A i \in 1 .. Len(s) : Mapped(s, g)[i] = g[s[i]]
  <2>1. DOMAIN s = 1 .. Len(s) /\ Len(s) \in Nat
    BY LenProperties
  <2>2. \A i \in 1 .. Len(s) : s[i] \in T
    BY ElementOfSeq
  <2>3. /\ Mapped(s, g) = [i \in 1 .. Len(s) |-> g[s[i]]]
        /\ Mapped(s, g) \in [1 .. Len(s) -> U]
    BY <2>1, <2>2 DEF Mapped
  <2> QED
    BY <2>1, <2>3, LenProperties
<1> DEFINE ab == a \o b
           ma == Mapped(a, g)
           mb == Mapped(b, g)
           mab == Mapped(ab, g)
           m == ma \o mb
<1>2. /\ ab \in Seq(T) /\ Len(ab) = Len(a) + Len(b)
      /\ \A n \in 1 .. Len(a) : ab[n] = a[n]
      /\ \A n \in 1 .. Len(b) : ab[Len(a) + n] = b[n]
  BY ConcatPlaces
<1> HIDE DEF ab
<1>3. /\ Len(a) \in Nat /\ ma \in Seq(U) /\ Len(ma) = Len(a)
      /\ \A i \in 1 .. Len(a) : ma[i] = g[a[i]]
  BY <1>1
<1>4. /\ Len(b) \in Nat /\ mb \in Seq(U) /\ Len(mb) = Len(b)
      /\ \A i \in 1 .. Len(b) : mb[i] = g[b[i]]
  BY <1>1
<1>5. /\ mab \in Seq(U) /\ Len(mab) = Len(ab)
      /\ \A i \in 1 .. Len(ab) : mab[i] = g[ab[i]]
  BY <1>1, <1>2
<1> HIDE DEF ma, mb, mab
<1>6. /\ m \in Seq(U) /\ Len(m) = Len(ma) + Len(mb)
      /\ \A n \in 1 .. Len(ma) : m[n] = ma[n]
      /\ \A n \in 1 .. Len(mb) : m[Len(ma) + n] = mb[n]
  <2>1. ma \in Seq(U)
    BY <1>3
  <2>2. mb \in Seq(U)
    BY <1>4
  <2> QED
    BY <2>1, <2>2, ConcatPlaces
<1> HIDE DEF m
<1>7. ASSUME NEW i \in 1 .. Len(mab) PROVE mab[i] = m[i]
  <2>1. CASE i \in 1 .. Len(a)
    <3>1. i \in 1 .. Len(ab)
      BY <1>5
    <3> QED
      BY <1>2, <1>3, <1>5, <1>6, <2>1, <3>1
  <2>2. CASE i \notin 1 .. Len(a)
    <3>1. i - Len(a) \in 1 .. Len(b) /\ Len(a) + (i - Len(a)) = i /\ i \in 1 .. Len(ab)
      BY <1>2, <1>3, <1>4, <1>5, <2>2
    <3>2. PICK k \in 1 .. Len(b) : Len(a) + k = i
      BY <3>1
    <3>3. ab[i] = b[k] /\ m[i] = mb[k]
      BY <1>2, <1>3, <1>4, <1>6, <3>2
    <3> QED
      BY <1>4, <1>5, <3>1, <3>3
  <2> QED
    BY <2>1, <2>2
<1>8. mab = m
  <2>1. Len(mab) = Len(m)
    BY <1>2, <1>3, <1>4, <1>5, <1>6
  <2>2. mab \in Seq(U)
    BY <1>5
  <2>3. m \in Seq(U)
    BY <1>6
  <2> QED
    BY <1>7, <2>1, <2>2, <2>3, SeqEqual
<1> QED
  BY <1>3, <1>8 DEF MapsParts, Join, ab, ma, mb, mab, m

(* The rows of frames, and those of the attempts to write frames.          *)
Numbers(frames) == [i \in DOMAIN frames |-> frames[i].row]
TriedNumbers(ends) == [i \in DOMAIN ends |-> ends[i].frame.row]

LEMMA NumbersJoin ==
  ASSUME NEW a \in Seq(Frames), NEW b \in Seq(Frames)
  PROVE  /\ Numbers(a) \in Seq(Nat) /\ Len(Numbers(a)) = Len(a)
         /\ Numbers(Join(a, b)) = Join(Numbers(a), Numbers(b))
<1> DEFINE g == [f \in Frames |-> f.row]
<1>1. g \in [Frames -> Nat]
  BY DEF Frames
<1>2. \A s \in Seq(Frames) : Numbers(s) = Mapped(s, g)
  <2> TAKE s \in Seq(Frames)
  <2>1. \A i \in DOMAIN s : s[i] \in Frames
    BY LenProperties, ElementOfSeq
  <2> QED
    BY <2>1 DEF Numbers, Mapped
<1>3. Join(a, b) \in Seq(Frames)
  BY JoinLaws
<1> HIDE DEF g
<1>4. MapsParts(a, b, g, Nat)
  BY <1>1, MappedJoins
<1> QED
  BY <1>2, <1>3, <1>4 DEF MapsParts

LEMMA TriedNumbersJoin ==
  ASSUME NEW a \in Seq(Tries), NEW b \in Seq(Tries)
  PROVE  /\ TriedNumbers(a) \in Seq(Nat) /\ Len(TriedNumbers(a)) = Len(a)
         /\ TriedNumbers(Join(a, b)) = Join(TriedNumbers(a), TriedNumbers(b))
<1> DEFINE g == [t \in Tries |-> t.frame.row]
<1>1. g \in [Tries -> Nat]
  BY DEF Frames, Tries
<1>2. \A s \in Seq(Tries) : TriedNumbers(s) = Mapped(s, g)
  <2> TAKE s \in Seq(Tries)
  <2>1. \A i \in DOMAIN s : s[i] \in Tries
    BY LenProperties, ElementOfSeq
  <2> QED
    BY <2>1 DEF TriedNumbers, Mapped
<1>3. Join(a, b) \in Seq(Tries)
  BY JoinLaws
<1> HIDE DEF g
<1>4. MapsParts(a, b, g, Nat)
  BY <1>1, MappedJoins
<1> QED
  BY <1>2, <1>3, <1>4 DEF MapsParts

(* Why a row is not on its stream although it was written.                 *)
Hostile(row) == \E v \in ToSet(Items(row.value)) : v.type = "hostile"
Excused(t, broken, rs) == t.ok \/ broken # {} \/ Hostile(rs[t.frame.row])

EndsInv == /\ delivered \in Seq(Nat) /\ droppedRows \in Nat /\ droppedBatches \in Nat
           /\ Join(TriedNumbers(FlattenSeq(tried)), Numbers(buffered)) = delivered
           /\ Len(delivered) + droppedRows = Len(handed)
           /\ live # 0 => buffered = <<>>
           /\ \A s \in Streams : s > live => tried[s] = <<>>
           /\ \A s \in Streams : \A i \in 1 .. Len(tried[s]) : Excused(tried[s][i], dead, rows)

(* What was excused stays so.                                              *)
LEMMA ExcusedStays ==
  ASSUME PipelineInv, EndsInv, dead \subseteq dead', Len(rows) <= Len(rows'),
         \A n \in 1 .. Len(rows) : rows'[n] = rows[n],
         NEW s \in Streams, NEW i \in 1 .. Len(tried[s])
  PROVE  Excused(tried[s][i], dead', rows')
<1>1. Excused(tried[s][i], dead, rows)
  BY DEF EndsInv
<1>2. tried[s][i].frame.row \in 1 .. Len(rows)
  BY DEF PipelineInv, Exported, Known
<1> QED
  BY <1>1, <1>2 DEF Excused

(* Writing on a stream that no other has followed.                         *)
LEMMA WriteEnds ==
  ASSUME PipelineInv, EndsInv, dead \subseteq dead', Len(rows) <= Len(rows'),
         \A n \in 1 .. Len(rows) : rows'[n] = rows[n],
         NEW s \in Streams, \A t \in Streams : t > s => tried[t] = <<>>,
         NEW frames \in Seq(Frames), Write(s, frames)
  PROVE  /\ TriedNumbers(FlattenSeq(tried)) \in Seq(Nat)
         /\ TriedNumbers(FlattenSeq(tried')) =
              Join(TriedNumbers(FlattenSeq(tried)), Numbers(frames))
         /\ \A t \in Streams : t > s => tried'[t] = <<>>
         /\ \A t \in Streams : \A i \in 1 .. Len(tried'[t]) : Excused(tried'[t][i], dead', rows')
<1> DEFINE more == [i \in DOMAIN frames |->
                      [frame |-> frames[i], ok |-> s \notin dead /\ Encodable(rows'[frames[i].row])]]
<1>1. /\ more \in Seq(Tries) /\ Len(more) = Len(frames)
      /\ \A i \in 1 .. Len(more) :
           /\ more[i].frame = frames[i]
           /\ more[i].ok = (s \notin dead /\ Encodable(rows'[frames[i].row]))
  <2>1. frames \in [1 .. Len(frames) -> Frames] /\ Len(frames) \in Nat
    BY LenProperties
  <2>2. \A i \in 1 .. Len(frames) : Encodable(rows'[frames[i].row]) \in BOOLEAN
    BY DEF Encodable
  <2>3. more \in [1 .. Len(frames) -> Tries]
    BY <2>1, <2>2 DEF Tries
  <2> QED
    BY <2>1, <2>3
<1>2. tried' = [tried EXCEPT ![s] = @ \o more]
  BY DEF Write
<1>3. \A i \in 1 .. Len(more) : Excused(more[i], dead', rows')
  <2> SUFFICES ASSUME NEW i \in 1 .. Len(more), ~ more[i].ok, dead = {}
               PROVE  Hostile(rows'[more[i].frame.row])
    BY DEF Excused
  <2>1. ~ Encodable(rows'[frames[i].row])
    BY <1>1
  <2> QED
    BY <1>1, <2>1 DEF Encodable, Hostile
<1>4. Numbers(frames) = TriedNumbers(more)
  <2>1. DOMAIN more = DOMAIN frames /\ DOMAIN frames = 1 .. Len(frames)
    BY LenProperties
  <2>2. \A i \in DOMAIN frames : more[i].frame = frames[i]
    OBVIOUS
  <2> HIDE DEF more
  <2> QED
    BY <2>1, <2>2 DEF Numbers, TriedNumbers
<1> HIDE DEF more
<1>5. tried \in [Streams -> Seq(Tries)]
  BY DEF PipelineInv, Exported
<1>6. /\ Join(tried[s], more) \in Seq(Tries)
      /\ Len(Join(tried[s], more)) = Len(tried[s]) + Len(more)
      /\ \A n \in 1 .. Len(tried[s]) : Join(tried[s], more)[n] = tried[s][n]
      /\ \A n \in 1 .. Len(more) : Join(tried[s], more)[Len(tried[s]) + n] = more[n]
      /\ Len(tried[s]) \in Nat /\ Len(more) \in Nat
  <2>1. tried[s] \in Seq(Tries)
    BY <1>5
  <2>2. more \in Seq(Tries)
    BY <1>1
  <2> DEFINE old == tried[s]
  <2>3. old \in Seq(Tries)
    BY <2>1
  <2> HIDE DEF old
  <2>4. /\ Len(old) \in Nat /\ Len(more) \in Nat
        /\ old \o more \in Seq(Tries) /\ Len(old \o more) = Len(old) + Len(more)
        /\ \A n \in 1 .. Len(old) : (old \o more)[n] = old[n]
        /\ \A n \in 1 .. Len(more) : (old \o more)[Len(old) + n] = more[n]
    BY <2>2, <2>3, ConcatPlaces
  <2> QED
    BY <2>4 DEF Join, old
<1>7. /\ tried'[s] = Join(tried[s], more)
      /\ \A t \in Streams : t # s => tried'[t] = tried[t]
      /\ tried' \in [Streams -> Seq(Tries)]
  <2>1. tried' = [tried EXCEPT ![s] = Join(tried[s], more)]
    BY <1>2 DEF Join
  <2> QED
    BY <1>5, <1>6, <2>1
<1>8. /\ FlattenSeq(tried) \in Seq(Tries)
      /\ FlattenSeq(tried') = Join(FlattenSeq(tried), more)
  <2>1. tried \in [1 .. MaxStreams -> Seq(Tries)] /\ tried' \in [1 .. MaxStreams -> Seq(Tries)]
    BY <1>5, <1>7 DEF Streams
  <2>2. s \in 1 .. MaxStreams
    BY DEF Streams
  <2>3. /\ \A i \in 1 .. MaxStreams : i # s => tried'[i] = tried[i]
        /\ \A i \in 1 .. MaxStreams : i > s => tried[i] = <<>>
    BY <1>7 DEF Streams
  <2>4. MaxStreams \in Nat \ {0}
    BY StreamsAssumption
  <2>5. more \in Seq(Tries)
    BY <1>1
  <2>6. tried'[s] = Join(tried[s], more)
    BY <1>7
  <2>7. FlattensMore(tried, tried', more, Tries)
    BY <2>1, <2>2, <2>3, <2>4, <2>5, <2>6, FlattenAppends
  <2> QED
    BY <2>7 DEF FlattensMore
<1>9. /\ TriedNumbers(FlattenSeq(tried)) \in Seq(Nat)
      /\ TriedNumbers(FlattenSeq(tried')) = Join(TriedNumbers(FlattenSeq(tried)), Numbers(frames))
  BY <1>1, <1>4, <1>8, TriedNumbersJoin
<1>10. \A t \in Streams : t > s => tried'[t] = <<>>
  <2>1. \A t \in Streams : t > s => t # s
    BY DEF Streams
  <2> QED
    BY <1>7, <2>1
<1>11. ASSUME NEW t \in Streams, NEW i \in 1 .. Len(tried'[t])
       PROVE  Excused(tried'[t][i], dead', rows')
  <2>1. CASE t # s
    BY <1>7, <2>1, ExcusedStays
  <2>2. CASE t = s /\ i \in 1 .. Len(tried[s])
    BY <1>6, <1>7, <2>2, ExcusedStays
  <2>3. CASE t = s /\ i \notin 1 .. Len(tried[s])
    <3>1. i - Len(tried[s]) \in 1 .. Len(more) /\ Len(tried[s]) + (i - Len(tried[s])) = i
      BY <1>6, <1>7, <2>3
    <3>2. PICK k \in 1 .. Len(more) : Len(tried[s]) + k = i
      BY <3>1
    <3> QED
      BY <1>3, <1>6, <1>7, <2>3, <3>2
  <2> QED
    BY <2>1, <2>2, <2>3
<1> QED
  BY <1>9, <1>10, <1>11

(* The flusher's part of a step: a batch is shipped, or nothing is.        *)
Ships(out) == out \in Seq(Nat) /\ out # <<>> /\ Flush(out)
Idle == UNCHANGED <<flushCount, handed, delivered, droppedRows, droppedBatches>>

LEMMA ShipsOrIdle ==
  ASSUME Numbered, Add \/ FlushNow \/ Start \/ Stop
  PROVE  Idle \/ \E out : Ships(out)
<1>1. batch \in Seq(Nat) /\ added \in Nat
  BY DEF Numbered
<1>2. ASSUME batch # <<>>, Flush(batch) PROVE Ships(batch)
  BY <1>1, <1>2 DEF Ships
<1>3. CASE Add
  <2> DEFINE staged == Append(batch, added + 1)
  <2>1. staged \in Seq(Nat) /\ Len(staged) = Len(batch) + 1 /\ Len(batch) \in Nat
    BY <1>1, AppendProperties, LenProperties
  <2>2. staged # <<>>
    BY <2>1, EmptySeq
  <2>3. Flush(staged) \/ UNCHANGED <<stats, handed, delivered>>
    BY <1>3 DEF Add
  <2> HIDE DEF staged
  <2> QED
    BY <2>1, <2>2, <2>3 DEF Ships, Idle, stats
<1>4. CASE FlushNow
  BY <1>2, <1>4 DEF FlushNow
<1>5. CASE Start
  BY <1>5 DEF Start, Idle, stats
<1>6. CASE Stop
  BY <1>2, <1>6 DEF Stop, FlushAll, Idle, stats
<1> QED
  BY <1>3, <1>4, <1>5, <1>6

(* What an idle step leaves alone.                                         *)
LEMMA IdleEnds ==
  ASSUME PipelineInv, EndsInv, dead \subseteq dead', Len(rows) <= Len(rows'),
         \A n \in 1 .. Len(rows) : rows'[n] = rows[n],
         Idle, UNCHANGED exporterVars
  PROVE  EndsInv'
<1>1. UNCHANGED <<delivered, droppedRows, droppedBatches, handed, tried, buffered, live>>
  BY DEF Idle, exporterVars
<1>2. \A s \in Streams : \A i \in 1 .. Len(tried[s]) : Excused(tried[s][i], dead', rows')
  BY ExcusedStays
<1> QED
  BY <1>1, <1>2 DEF EndsInv

(* The handler gives the exporter a frame for each row of its batch.       *)
LEMMA ShippedFrames ==
  ASSUME NEW out \in Seq(1 .. Len(rows')), rows' \in Seq(Reportable), NEW batch_,
         batch_ = [i \in DOMAIN out |-> rows'[out[i]]]
  PROVE  LET frames == [i \in DOMAIN out |-> Frame(out[i], IF redactOn THEN Redact(batch_[i])
                                                                     ELSE Raw(batch_[i]))]
         IN frames \in Seq(Frames) /\ Numbers(frames) = out
<1> DEFINE frames == [i \in DOMAIN out |-> Frame(out[i], IF redactOn THEN Redact(batch_[i])
                                                                     ELSE Raw(batch_[i]))]
<1>1. DOMAIN out = 1 .. Len(out) /\ Len(out) \in Nat /\ Len(rows') \in Nat
  BY LenProperties
<1>2. \A i \in 1 .. Len(out) : out[i] \in 1 .. Len(rows')
  BY ElementOfSeq
<1>3. \A i \in 1 .. Len(out) : batch_[i] \in Reportable
  <2>1. \A n \in 1 .. Len(rows') : rows'[n] \in Reportable
    BY ElementOfSeq
  <2> QED
    BY <1>1, <1>2, <2>1
<1>4. frames \in [1 .. Len(out) -> Frames]
  BY <1>1, <1>2, <1>3 DEF Frames, Frame
<1>5. frames \in Seq(Frames) /\ DOMAIN frames = 1 .. Len(out)
  BY <1>1, <1>4
<1>6. \A i \in 1 .. Len(out) : frames[i].row = out[i]
  BY <1>1 DEF Frame
<1> HIDE DEF frames
<1>7. Numbers(frames) = [i \in 1 .. Len(out) |-> out[i]]
  BY <1>5, <1>6 DEF Numbers
<1>8. out = [i \in 1 .. Len(out) |-> out[i]]
  BY <1>1
<1> QED
  BY <1>5, <1>7, <1>8 DEF frames

(* Rows that are exported end where the exporter puts them.                *)
LEMMA ExportEnds ==
  ASSUME PipelineInv, EndsInv, dead \subseteq dead', Len(rows) <= Len(rows'),
         \A n \in 1 .. Len(rows) : rows'[n] = rows[n],
         NEW frames \in Seq(Frames), Export(frames)
  PROVE  /\ Join(TriedNumbers(FlattenSeq(tried')), Numbers(buffered')) =
              Join(delivered, Numbers(frames))
         /\ live' = live
         /\ live # 0 => buffered' = <<>>
         /\ \A s \in Streams : s > live => tried'[s] = <<>>
         /\ \A s \in Streams : \A i \in 1 .. Len(tried'[s]) : Excused(tried'[s][i], dead', rows')
<1> DEFINE was == TriedNumbers(FlattenSeq(tried))
<1>1. Join(was, Numbers(buffered)) = delivered /\ delivered \in Seq(Nat)
  BY DEF EndsInv
<1>2. buffered \in Seq(Frames)
  BY DEF PipelineInv, Exported
<1>3. CASE live = 0
  <2>1. buffered' = Join(buffered, frames) /\ live' = live /\ tried' = tried
    BY <1>3 DEF Export, Join
  <2>2. /\ Numbers(buffered) \in Seq(Nat)
        /\ Numbers(buffered') = Join(Numbers(buffered), Numbers(frames))
    BY <1>2, <2>1, NumbersJoin
  <2>3. Numbers(frames) \in Seq(Nat)
    BY NumbersJoin
  <2>4. was \in Seq(Nat)
    <3>1. tried \in [1 .. MaxStreams -> Seq(Tries)]
      BY DEF PipelineInv, Exported, Streams
    <3>2. MaxStreams \in Nat \ {0}
      BY StreamsAssumption
    <3>3. PICK f : Builds(f, Tries, MaxStreams, tried)
      BY <3>1, <3>2, FlattenSteps
    <3>4. FlattenSeq(tried) \in Seq(Tries)
      BY <3>2, <3>3 DEF Builds
    <3> QED
      BY <3>4, TriedNumbersJoin
  <2> HIDE DEF was
  <2>5. Join(Join(was, Numbers(buffered)), Numbers(frames)) =
          Join(was, Join(Numbers(buffered), Numbers(frames)))
    BY <2>2, <2>3, <2>4, JoinLaws
  <2>6. \A s \in Streams : \A i \in 1 .. Len(tried[s]) : Excused(tried[s][i], dead', rows')
    BY ExcusedStays
  <2> QED
    BY <1>1, <1>3, <2>1, <2>2, <2>5, <2>6 DEF EndsInv, was
<1>4. CASE live # 0
  <2>1. Write(live, frames) /\ live' = live /\ buffered' = buffered /\ live \in Streams
    BY <1>4 DEF Export, PipelineInv, Exported
  <2>2. buffered = <<>> /\ \A t \in Streams : t > live => tried[t] = <<>>
    BY <1>4 DEF EndsInv
  <2>3. /\ was \in Seq(Nat)
        /\ TriedNumbers(FlattenSeq(tried')) = Join(was, Numbers(frames))
        /\ \A t \in Streams : t > live => tried'[t] = <<>>
        /\ \A t \in Streams : \A i \in 1 .. Len(tried'[t]) : Excused(tried'[t][i], dead', rows')
    BY <2>1, <2>2, WriteEnds
  <2> HIDE DEF was
  <2>4. Numbers(<<>>) = <<>> /\ Numbers(frames) \in Seq(Nat)
    <3>1. Numbers(<<>>) = <<>>
      BY DEF Numbers
    <3>2. Numbers(frames) \in Seq(Nat)
      BY NumbersJoin
    <3> QED
      BY <3>1, <3>2
  <2>5. Join(was, <<>>) = was /\ Join(was, Numbers(frames)) \in Seq(Nat)
    BY <2>3, <2>4, JoinLaws
  <2>6. Join(Join(was, Numbers(frames)), <<>>) = Join(was, Numbers(frames))
    BY <2>5, JoinLaws
  <2>7. was = delivered
    BY <1>1, <2>2, <2>4, <2>5 DEF was
  <2> QED
    BY <2>1, <2>2, <2>3, <2>4, <2>6, <2>7
<1> QED
  BY <1>3, <1>4

(* The handler, on a batch it exports or fails to redact.                  *)
LEMMA HandledEnds ==
  ASSUME PipelineInv, EndsInv, Numbered', Reported', Len(rows) <= Len(rows'),
         \A n \in 1 .. Len(rows) : rows'[n] = rows[n],
         Idle \/ \E out : Ships(out), Handled, Settings
  PROVE  EndsInv'
<1>0. dead' = dead /\ redactOn' = redactOn
  BY DEF Settings
<1>1. CASE Idle
  <2>1. UNCHANGED exporterVars
    BY <1>1 DEF Idle, Handled
  <2> QED
    BY <1>0, <1>1, <2>1, IdleEnds
<1>2. ASSUME NEW out, Ships(out) PROVE EndsInv'
  <2>1. /\ out \in Seq(Nat) /\ Len(out) \in Nat /\ Len(out) # 0
        /\ handed' = handed \o out /\ flushCount' = flushCount + 1
        /\ HandlerTakes(out) \/ HandlerThrows(out)
    <3>1. out \in Seq(Nat) /\ out # <<>>
      BY <1>2 DEF Ships
    <3>2. Len(out) \in Nat /\ Len(out) # 0
      BY <3>1, LenProperties, EmptySeq
    <3> QED
      BY <1>2, <3>1, <3>2 DEF Ships, Flush
  <2>2. handed \in Seq(Nat) /\ flushCount \in Nat /\ Len(handed) \in Nat
    BY LenProperties DEF PipelineInv, Numbered
  <2>3. /\ handed' \in Seq(Nat) /\ Len(handed') = Len(handed) + Len(out)
        /\ \A n \in 1 .. Len(out) : handed'[Len(handed) + n] = out[n]
    <3>1. handed \in Seq(Nat)
      BY <2>2
    <3>2. out \in Seq(Nat)
      BY <2>1
    <3> QED
      BY <2>1, <3>1, <3>2, ConcatPlaces
  <2>4. SubSeq(handed', Len(handed) + 1, Len(handed')) = out
    <3> DEFINE sub == SubSeq(handed', Len(handed) + 1, Len(handed'))
    <3>1. \A i \in (Len(handed) + 1) .. Len(handed') : handed'[i] \in Nat
      BY <2>2, <2>3, ElementOfSeq
    <3>2. /\ sub \in Seq(Nat) /\ Len(sub) = Len(out)
          /\ \A n \in 1 .. Len(out) : sub[n] = handed'[Len(handed) + 1 + n - 1]
      BY <2>1, <2>2, <2>3, <3>1, SubSeqProperties
    <3> HIDE DEF sub
    <3>3. \A n \in 1 .. Len(out) : sub[n] = out[n]
      <4>1. \A n \in 1 .. Len(out) : Len(handed) + 1 + n - 1 = Len(handed) + n
        BY <2>1, <2>2
      <4> QED
        BY <2>3, <3>2, <4>1
    <3>4. sub = out
      BY <2>1, <3>2, <3>3, SeqEqual
    <3> QED
      BY <3>4 DEF sub
  <2>5. OnFlush(out)
    <3>1. flushCount' # flushCount
      BY <2>1, <2>2
    <3> QED
      BY <2>4, <3>1 DEF Handled
  <2>6. out \in Seq(1 .. Len(rows')) /\ rows' \in Seq(Reportable)
    <3>1. rows' \in Seq(Reportable) /\ Len(rows') = added' /\ added' \in Nat
      BY DEF Reported, Numbered
    <3>2. Len(handed') <= added' /\ \A k \in 1 .. Len(handed') : handed'[k] = k
      <4>1. Len(batch') \in Nat /\ Len(handed') \in Nat
        BY LenProperties DEF Numbered
      <4> QED
        BY <4>1 DEF Numbered
    <3>3. \A n \in 1 .. Len(out) : out[n] \in 1 .. Len(rows')
      <4> TAKE n \in 1 .. Len(out)
      <4>1. Len(handed) + n \in 1 .. Len(handed')
        BY <2>1, <2>2, <2>3
      <4>2. out[n] = Len(handed) + n
        BY <2>3, <3>2, <4>1
      <4>3. Len(handed) + n \in 1 .. Len(rows')
        BY <2>1, <2>2, <2>3, <3>1, <3>2
      <4> QED
        BY <4>2, <4>3
    <3>4. out = [n \in 1 .. Len(out) |-> out[n]]
      BY <2>1, LenProperties
    <3>5. out \in [1 .. Len(out) -> 1 .. Len(rows')]
      BY <3>3, <3>4
    <3>6. Len(out) \in Nat
      BY <2>1
    <3>7. out \in Seq(1 .. Len(rows'))
      BY <3>5, <3>6
    <3> QED
      BY <3>1, <3>7
  <2>7. Len(delivered) \in Nat /\ delivered \in Seq(Nat) /\ droppedRows \in Nat
        /\ droppedBatches \in Nat /\ Len(delivered) + droppedRows = Len(handed)
    BY LenProperties DEF EndsInv
  <2>11. /\ Len(delivered) + (droppedRows + Len(out)) = Len(handed) + Len(out)
         /\ Len(delivered) + Len(out) + droppedRows = Len(handed) + Len(out)
    <3>1. \A a, d, h, o \in Nat : a + d = h => a + (d + o) = h + o /\ a + o + d = h + o
      OBVIOUS
    <3>2. Len(delivered) \in Nat /\ droppedRows \in Nat /\ Len(handed) \in Nat /\ Len(out) \in Nat
      BY <2>1, <2>2, <2>7
    <3> QED
      BY <2>7, <3>1, <3>2
  <2>8. /\ delivered \o out \in Seq(Nat) /\ Len(delivered \o out) = Len(delivered) + Len(out)
    BY <2>1, <2>7, ConcatProperties
  <2> DEFINE batch_ == [i \in DOMAIN out |-> rows'[out[i]]]
             frames == [i \in DOMAIN out |-> Frame(out[i], IF redactOn THEN Redact(batch_[i])
                                                                        ELSE Raw(batch_[i]))]
  <2>9. CASE Throws(batch_)
    <3>1. delivered' = delivered /\ UNCHANGED exporterVars
      BY <2>5, <2>9 DEF OnFlush
    <3>2. HandlerThrows(out)
      <4>1. delivered' # delivered \o out
        BY <2>1, <2>7, <2>8, <3>1
      <4> QED
        BY <2>1, <4>1 DEF HandlerTakes
    <3>3. droppedRows' = droppedRows + Len(out) /\ droppedBatches' = droppedBatches + 1
      BY <3>2 DEF HandlerThrows
    <3>4. \A s \in Streams : \A i \in 1 .. Len(tried[s]) : Excused(tried[s][i], dead', rows')
      BY <1>0, ExcusedStays
    <3>6. tried' = tried /\ buffered' = buffered /\ live' = live
      BY <3>1 DEF exporterVars
    <3>7. droppedRows' \in Nat /\ droppedBatches' \in Nat
      BY <2>1, <2>7, <3>3
    <3> QED
      BY <2>3, <2>7, <2>11, <3>1, <3>3, <3>4, <3>6, <3>7 DEF EndsInv
  <2>10. CASE ~ Throws(batch_)
    <3>1. delivered' = delivered \o out /\ droppedBatches' = droppedBatches /\ Export(frames)
      BY <2>5, <2>10 DEF OnFlush
    <3>2. droppedRows' = droppedRows
      <4>1. ~ HandlerThrows(out)
        BY <2>7, <3>1 DEF HandlerThrows
      <4> QED
        BY <2>1, <4>1 DEF HandlerTakes
    <3>3. frames \in Seq(Frames) /\ Numbers(frames) = out
      BY <2>6, ShippedFrames
    <3> HIDE DEF frames
    <3>4. /\ Join(TriedNumbers(FlattenSeq(tried')), Numbers(buffered')) = Join(delivered, Numbers(frames))
          /\ live' = live
          /\ live # 0 => buffered' = <<>>
          /\ \A s \in Streams : s > live => tried'[s] = <<>>
          /\ \A s \in Streams : \A i \in 1 .. Len(tried'[s]) : Excused(tried'[s][i], dead', rows')
      BY <1>0, <3>1, <3>3, ExportEnds
    <3>5. Join(delivered, Numbers(frames)) = delivered'
      BY <3>1, <3>3 DEF Join
    <3>6. Len(delivered') + droppedRows' = Len(handed')
      <4>1. Len(delivered') = Len(delivered) + Len(out)
        BY <2>8, <3>1
      <4> QED
        BY <2>3, <2>11, <3>2, <4>1
    <3>7. delivered' \in Seq(Nat) /\ droppedRows' \in Nat /\ droppedBatches' \in Nat
      BY <2>7, <2>8, <3>1, <3>2
    <3> QED
      BY <3>4, <3>5, <3>6, <3>7 DEF EndsInv
  <2> QED
    BY <2>9, <2>10
<1> QED
  BY <1>1, <1>2

LEMMA EndsStart == PipelineInit => EndsInv
<1> SUFFICES ASSUME PipelineInit PROVE EndsInv
  OBVIOUS
<1>1. /\ delivered = <<>> /\ handed = <<>> /\ droppedRows = 0 /\ droppedBatches = 0
      /\ buffered = <<>> /\ tried = [s \in Streams |-> <<>>]
  BY DEF PipelineInit, Init
<1>2. /\ tried \in [1 .. MaxStreams -> Seq(Tries)] /\ MaxStreams \in Nat \ {0}
      /\ \A s \in 1 .. MaxStreams : tried[s] = <<>>
  BY <1>1, StreamsAssumption DEF Streams
<1>3. PICK f : Builds(f, Tries, MaxStreams, tried)
  BY <1>2, FlattenSteps
<1>4. FlattenSeq(tried) = <<>>
  <2> DEFINE Off == {k \in 1 .. MaxStreams : f[k] # <<>>}
  <2>0. MaxStreams \in Nat /\ MaxStreams >= 1
    BY <1>2
  <2>1. Off = {}
    <3>1. SUFFICES ASSUME Off # {} PROVE FALSE
      OBVIOUS
    <3>2. Off \in SUBSET Nat
      OBVIOUS
    <3>3. PICK k \in Off : \A m \in Off : k <= m
      BY <3>1, <3>2, LeastElement
    <3>4. k # 1
      BY <1>2, <1>3, <3>3, <2>0 DEF Builds
    <3>5. k \in 2 .. MaxStreams /\ k - 1 \in 1 .. MaxStreams /\ ~ (k <= k - 1)
      BY <2>0, <3>4
    <3>6. f[k - 1] = <<>>
      BY <3>3, <3>5
    <3>7. f[k] = Join(<<>>, <<>>)
      BY <1>2, <1>3, <3>5, <3>6 DEF Builds
    <3>8. Join(<<>>, <<>>) = <<>>
      <4>1. <<>> \in Seq(Tries)
        OBVIOUS
      <4> QED
        BY <4>1, JoinLaws
    <3> QED
      BY <3>7, <3>8
  <2>2. f[MaxStreams] = <<>>
    <3>1. MaxStreams \in 1 .. MaxStreams
      BY <2>0
    <3> QED
      BY <2>1, <3>1
  <2> QED
    BY <1>3, <2>2 DEF Builds
<1>5. Join(TriedNumbers(<<>>), Numbers(<<>>)) = <<>>
  <2>1. TriedNumbers(<<>>) = <<>> /\ Numbers(<<>>) = <<>>
    BY DEF TriedNumbers, Numbers
  <2>2. <<>> \in Seq(Nat)
    OBVIOUS
  <2> QED
    BY <2>1, <2>2, JoinLaws
<1>6. Len(<<>>) = 0 /\ <<>> \in Seq(Nat) /\ 1 .. 0 = {}
  OBVIOUS
<1>7. \A s \in Streams : tried[s] = <<>>
  BY <1>1
<1> QED
  BY <1>1, <1>4, <1>5, <1>6, <1>7 DEF EndsInv

LEMMA EndsStep ==
  PipelineInv /\ PipelineInv' /\ EndsInv /\ [PipelineNext]_pipelineVars => EndsInv'
<1> SUFFICES ASSUME PipelineInv, PipelineInv', EndsInv, [PipelineNext]_pipelineVars
             PROVE  EndsInv'
  OBVIOUS
<1>1. Numbered /\ Numbered' /\ Reported' /\ rows \in Seq(Reportable) /\ Len(rows) \in Nat
  BY LenProperties DEF PipelineInv, Reported
<1>2. ASSUME UNCHANGED rows, Add \/ FlushNow \/ Start \/ Stop, Handled, Settings
      PROVE  EndsInv'
  BY <1>1, <1>2, ShipsOrIdle, HandledEnds
<1>3. CASE Report
  <2>1. PICK row \in Reportable : rows' = Append(rows, row)
    BY <1>3 DEF Report
  <2>2. Len(rows') = Len(rows) + 1 /\ \A n \in 1 .. Len(rows) : rows'[n] = rows[n]
    BY <1>1, <2>1, AppendProperties
  <2> QED
    BY <1>1, <1>3, <2>2, ShipsOrIdle, HandledEnds DEF Report
<1>4. CASE Ship \/ Starts \/ Stops
  BY <1>2, <1>4 DEF Ship, Starts, Stops
<1>5. ASSUME NEW s \in Streams, Attach(s) PROVE EndsInv'
  <2>1. /\ s = live + 1 /\ live' = s /\ buffered' = <<>> /\ Write(s, buffered)
        /\ UNCHANGED <<vars, rows, dead>>
    BY <1>5 DEF Attach
  <2>2. buffered \in Seq(Frames) /\ live \in Nat
    BY DEF PipelineInv, Exported, Streams
  <2>3. \A t \in Streams : t > s => tried[t] = <<>>
    BY <2>1, <2>2 DEF EndsInv, Streams
  <2>4. /\ TriedNumbers(FlattenSeq(tried)) \in Seq(Nat)
        /\ TriedNumbers(FlattenSeq(tried')) =
             Join(TriedNumbers(FlattenSeq(tried)), Numbers(buffered))
        /\ \A t \in Streams : t > s => tried'[t] = <<>>
        /\ \A t \in Streams : \A i \in 1 .. Len(tried'[t]) : Excused(tried'[t][i], dead', rows')
    BY <1>1, <2>1, <2>2, <2>3, WriteEnds
  <2>5. delivered \in Seq(Nat) /\ TriedNumbers(FlattenSeq(tried')) = delivered
    BY <2>4 DEF EndsInv
  <2>6. Numbers(<<>>) = <<>> /\ Join(delivered, <<>>) = delivered
    <3>1. Numbers(<<>>) = <<>>
      BY DEF Numbers
    <3> QED
      BY <2>5, <3>1, JoinLaws
  <2>7. UNCHANGED <<delivered, droppedRows, droppedBatches, handed>>
    BY <2>1 DEF vars, stats
  <2> QED
    BY <2>1, <2>4, <2>5, <2>6, <2>7 DEF EndsInv
<1>6. ASSUME NEW s \in Streams, Dies(s) PROVE EndsInv'
  BY <1>1, <1>6, IdleEnds DEF Dies, Idle, vars, stats
<1>7. ASSUME NEW p \in Peers, Elsewhere(p) PROVE EndsInv'
  BY <1>1, <1>7, IdleEnds DEF Elsewhere, Idle, vars, stats
<1>8. CASE UNCHANGED pipelineVars
  BY <1>1, <1>8, IdleEnds DEF pipelineVars, Idle, vars, stats
<1> QED
  BY <1>3, <1>4, <1>5, <1>6, <1>7, <1>8, OthersAssumption DEF PipelineNext

(* observe.ts with its flusher and its exporter: a row that was handed     *)
(* over ends once, on the stream of its time, in the buffer or, counted,   *)
(* with the batch that was dropped.                                        *)
THEOREM Ends == PipelineSpec => []RowsEndOnce
<1>1. PipelineInv /\ EndsInv => RowsEndOnce
  <2> SUFFICES ASSUME PipelineInv, EndsInv PROVE RowsEndOnce
    OBVIOUS
  <2>1. ASSUME NEW t \in Tried
        PROVE  t.ok \/ dead # {} \/ Hostile(rows[t.frame.row])
    <3>1. PICK s \in Streams : t \in ToSet(tried[s])
      BY DEF Tried
    <3>2. PICK i \in DOMAIN tried[s] : t = tried[s][i]
      BY <3>1 DEF ToSet
    <3>3. i \in 1 .. Len(tried[s])
      <4>1. tried[s] \in Seq(Tries)
        BY DEF PipelineInv, Exported
      <4> QED
        BY <4>1, LenProperties
    <3> QED
      BY <3>2, <3>3 DEF EndsInv, Excused
  <2> QED
    BY <2>1 DEF RowsEndOnce, EndsInv, Join, TriedNumbers, Numbers, Hostile
<1>2. PipelineInit => PipelineInv /\ EndsInv
  BY PipelineStarts, EndsStart
<1>3. (PipelineInv /\ EndsInv) /\ [PipelineNext]_pipelineVars => (PipelineInv /\ EndsInv)'
  BY PipelineStep, EndsStep
<1> QED
  BY <1>1, <1>2, <1>3, PTL DEF PipelineSpec
===============================================================================
