------------------------------- MODULE Pipeline -------------------------------
(***************************************************************************)
(* packages/bare-observe/src/observe.ts, with bare-probe/core/redactor.ts  *)
(* and exporters/hyperswarm.ts: the way of a row from the application to   *)
(* the hub.  The batch flusher hands each batch to a handler that redacts  *)
(* it, stamps it with the source and exports it, to a stream or, until     *)
(* one is attached, to a buffer.                                           *)
(*                                                                         *)
(* A row has a method and one field for the redactor to look at (fields    *)
(* of one row are treated one after another, as rows of one batch are).    *)
(* A value is a string, a list of values, a plain value, a "hostile" one   *)
(* that JSON.stringify throws on (a BigInt, a cycle), or a symbol, which   *)
(* has no text at all.  What leaves is abstracted to what it discloses.    *)
(***************************************************************************)
EXTENDS Flusher, Registry, SequencesExt

CONSTANTS Reportable,           \* rows the application reports
          Source,               \* the identity of the device
          Others,               \* peers that others hash with the same redactor
          BodyAllowlist,        \* methods whose bodies may leave
          HostOf,               \* of the strings that parse as a URL
          MaxStreams            \* bound: connections to the hub

ASSUME SourceAssumption == Source \in Peers
ASSUME OthersAssumption == Others \subseteq Peers
ASSUME StreamsAssumption == MaxStreams \in Nat \ {0}

VARIABLES redactOn,             \* there is a redactor
          mode,                 \* a stream was given, or one may be attached
          rows,                 \* history: the rows reported, by number
          table,                \* the registry of the redactor
          buffered,             \* what the deferred exporter holds
          live,                 \* the stream exported to, or 0
          dead,                 \* streams whose write throws
          tried                 \* what was written on each stream, or lost

exporterVars == <<buffered, live, tried>>
pipelineVars == <<vars, redactOn, mode, rows, table, dead, exporterVars>>

Streams == 1 .. MaxStreams

PipelineInit == /\ Init
                /\ redactOn \in BOOLEAN
                /\ rows = <<>>
                /\ table = IF redactOn THEN {Source} ELSE {}
                /\ mode \in {"stream", "buffering"}
                /\ live = IF mode = "stream" THEN 1 ELSE 0
                /\ buffered = <<>>
                /\ dead = {}
                /\ tried = [s \in Streams |-> <<>>]

-----------------------------------------------------------------------------
CiphertextFields == {"ciphertext", "cipher", "encrypted", "enc"}
PeerFields == {"peerId", "peer", "src", "dst", "unanswered"}
UrlFields == {"url"}
TextFields == {"reason", "error"}
BodyFields == {"body", "payload", "data", "args", "response", "item"}

Items(value) == IF value.type = "list" THEN value.items ELSE <<value>>
IsString(value) == value.type = "string"

ASSUME ItemsAssumption == \A row \in Reportable : DOMAIN Items(row.value) \subseteq Nat

(* toBytes() reads the value, to hash it. *)
Summarised(row) ==
  \/ row.field \in CiphertextFields
  \/ row.field \in BodyFields /\ row.method \notin BodyAllowlist

(* What a value shows of itself once it is JSON, where a symbol is left out. *)
Shows(values) == {v.is : v \in {w \in values : w.type # "symbol"}}
Raw(row) == Shows(ToSet(Items(row.value)))

(* What redact() lets a row disclose. *)
Redact(row) ==
  CASE Summarised(row)         -> {}
    [] row.field \in PeerFields ->
         Shows({v \in ToSet(Items(row.value)) : IsString(v) => v.is = Broadcast})
    [] row.field \in UrlFields /\ IsString(row.value) ->
         {HostOf[url] : url \in {row.value.is} \cap DOMAIN HostOf}
    [] row.field \in TextFields /\ IsString(row.value) -> {}
    [] OTHER                   -> Raw(row)

(* redactBatch() goes through the places of a batch in order.  It throws   *)
(* where hashPeer() meets a collision, and where stableStringify() has no  *)
(* text to hash.                                                           *)
Places(batch_) == UNION {{i} \X DOMAIN Items(batch_[i].value) : i \in DOMAIN batch_}
ItemAt(batch_, at) == Items(batch_[at[1]].value)[at[2]]
Before(at, other) == at[1] < other[1] \/ (at[1] = other[1] /\ at[2] < other[2])
Hashed(batch_, at) == batch_[at[1]].field \in PeerFields /\ IsString(ItemAt(batch_, at))
HashedBefore(batch_, at) ==
  {ItemAt(batch_, o).is : o \in {p \in Places(batch_) : Before(p, at) /\ Hashed(batch_, p)}}
    \ {Broadcast}

ThrowsAt(batch_, at) ==
  \/ /\ Hashed(batch_, at)
     /\ Collides(table \cup HashedBefore(batch_, at), ItemAt(batch_, at).is, HandleOf)
  \/ Summarised(batch_[at[1]]) /\ batch_[at[1]].value.type = "symbol"

PeersOf(row) == IF row.field \in PeerFields
                  THEN {v.is : v \in {w \in ToSet(Items(row.value)) : IsString(w)}} \ {Broadcast}
                  ELSE {}

Throws(batch_) == redactOn /\ \E at \in Places(batch_) : ThrowsAt(batch_, at)

(* The peers it has entered when it returns, or throws. *)
HashPeers(batch_) ==
  LET reached == {at \in Places(batch_) : /\ Hashed(batch_, at)
                                          /\ \A o \in Places(batch_) :
                                               o = at \/ Before(o, at) => ~ ThrowsAt(batch_, o)}
  IN table' = IF redactOn THEN table \cup ({ItemAt(batch_, at).is : at \in reached} \ {Broadcast})
                          ELSE table

-----------------------------------------------------------------------------
(* createHyperswarmExporter: each event is encoded and written by itself,  *)
(* and what throws loses that event alone.                                 *)
Encodable(row) == \/ redactOn /\ Summarised(row)
                  \/ \A v \in ToSet(Items(row.value)) : v.type # "hostile"

Write(s, frames) ==
  tried' = [tried EXCEPT ![s] =
              @ \o [i \in DOMAIN frames |->
                      [frame |-> frames[i], ok |-> s \notin dead /\ Encodable(rows'[frames[i].row])]]]

(* export() of the exporter observe() chose. *)
Export(frames) == IF live = 0 THEN buffered' = buffered \o frames /\ UNCHANGED <<live, tried>>
                              ELSE Write(live, frames) /\ UNCHANGED <<live, buffered>>

Frame(n, discloses) == [row |-> n, discloses |-> discloses]

(* Fault: a batch that cannot be redacted is exported as it is. *)
OnFlushAnyway(out) ==
  LET batch_ == [i \in DOMAIN out |-> rows'[out[i]]] IN
  /\ delivered' = delivered \o out /\ droppedBatches' = droppedBatches
  /\ HashPeers(batch_)
  /\ Export([i \in DOMAIN out |-> Frame(out[i], IF redactOn /\ ~ Throws(batch_) THEN Redact(batch_[i])
                                                                             ELSE Raw(batch_[i]))])

(* The handler observe() gives the flusher, on the rows numbered in `out`. *)
OnFlush(out) ==
  LET batch_ == [i \in DOMAIN out |-> rows'[out[i]]] IN
  /\ HashPeers(batch_)
  /\ IF Throws(batch_)
       THEN delivered' = delivered /\ UNCHANGED exporterVars
       ELSE /\ delivered' = delivered \o out /\ droppedBatches' = droppedBatches
            /\ Export([i \in DOMAIN out |-> Frame(out[i], IF redactOn THEN Redact(batch_[i])
                                                                      ELSE Raw(batch_[i]))])

(* A step of the flusher, with its handler if it ships a batch. *)
Handled == IF flushCount' = flushCount
             THEN UNCHANGED <<table, exporterVars>>
             ELSE OnFlush(SubSeq(handed', Len(handed) + 1, Len(handed')))

Settings == UNCHANGED <<redactOn, mode, dead>>

Report == /\ \E row \in Reportable : rows' = Append(rows, row)
          /\ Add /\ Handled /\ Settings

Ship == FlushNow /\ UNCHANGED rows /\ Handled /\ Settings
Interval == Tick /\ Ship
Starts == Start /\ UNCHANGED rows /\ Handled /\ Settings
Stops == Stop /\ UNCHANGED rows /\ Handled /\ Settings

(* Fault: the buffer is drained and not emptied. *)
AttachKeeping(s) ==
  /\ mode = "buffering" /\ s = live + 1
  /\ live' = s
  /\ UNCHANGED <<vars, redactOn, mode, rows, table, dead, buffered>>
  /\ Write(s, buffered)

(* A connection to the hub, by attach() or by the dial of the swarm: it    *)
(* takes over from the one before it.                                      *)
Attach(s) == /\ mode = "buffering" /\ s = live + 1
             /\ live' = s
             /\ buffered' = <<>>
             /\ UNCHANGED <<vars, redactOn, mode, rows, table, dead>>
             /\ Write(s, buffered)

Dies(s) == /\ s \notin dead
           /\ dead' = dead \cup {s}
           /\ UNCHANGED <<vars, redactOn, mode, rows, table, exporterVars>>

(* Another user of a shared redactor hashes a peer. *)
Elsewhere(p) == /\ redactOn /\ ~ Collides(table, p, HandleOf)
                /\ table' = Entered(table, p)
                /\ UNCHANGED <<vars, redactOn, mode, rows, dead, exporterVars>>

PipelineNext == \/ Report \/ Ship \/ Starts \/ Stops
                \/ \E s \in Streams : Attach(s) \/ Dies(s)
                \/ \E p \in Others : Elsewhere(p)

(* While the timer is set it goes on firing. *)
PipelineSpec == PipelineInit /\ [][PipelineNext]_pipelineVars /\ WF_pipelineVars(Interval)

-----------------------------------------------------------------------------
Tried == UNION {ToSet(tried[s]) : s \in Streams}
Sent == {t.frame : t \in {u \in Tried : u.ok}} \cup ToSet(buffered)

(* What must not leave the device: ciphertext, a body unless its method is *)
(* allowed, and the strings that name peers, reasons, errors and URLs.     *)
Sensitive(row) ==
  IF Summarised(row) THEN Raw(row)
  ELSE IF row.field \in PeerFields \cup UrlFields \cup TextFields
    THEN Shows({v \in ToSet(Items(row.value)) : IsString(v)}) \ {Broadcast}
    ELSE {}

(* core/redactor.ts:3-5 and core/flush.ts:74-76: nothing sensitive is      *)
(* exported or kept for export, also not when a batch cannot be redacted.  *)
NothingRawLeaves ==
  redactOn => \A f \in Sent : f.discloses \cap Sensitive(rows[f.row]) = {}

(* A handle the hub has seen, or is to see, stands for one peer for ever:  *)
(* resolvePeer() gives back the peer of the row it was made for, whatever  *)
(* collided in the meantime.                                               *)
HandlesTellPeers ==
  redactOn => \A p \in {Source} \cup UNION {PeersOf(rows[f.row]) : f \in Sent} :
                Names(table, HandleOf, HandleOf[p]) = {p}

(* Rows end once: each that was not dropped with its batch, and counted,   *)
(* was tried on one stream or is still buffered, in order over the streams *)
(* that followed one another; a write fails only where its row cannot be   *)
(* serialised or some stream has died by now.  No row stays in the buffer  *)
(* of an exporter that has a stream.                                       *)
RowsEndOnce ==
  LET ends == FlattenSeq(tried) IN
  /\ [i \in DOMAIN ends |-> ends[i].frame.row] \o [i \in DOMAIN buffered |-> buffered[i].row]
       = delivered
  /\ \A t \in Tried : \/ t.ok \/ dead # {}
                      \/ \E v \in ToSet(Items(rows[t.frame.row].value)) : v.type = "hostile"
  /\ Len(delivered) + droppedRows = Len(handed)
  /\ live # 0 => buffered = <<>>
=============================================================================
