------------------------------ MODULE Collector ------------------------------
(***************************************************************************)
(* packages/bare-probe/core/correlator.ts: the table of requests in        *)
(* flight, the rows it shows and the counters that account for what it     *)
(* does not show.  Every operation is synchronous, so each is one step.    *)
(*                                                                         *)
(* A Map or a Set of JavaScript remembers insertion order.  For `pending`  *)
(* the order is the field born, the number of the request that created     *)
(* the entry; for `settled` it is the sequence itself.  Timestamps enter   *)
(* the code only as now - p.t against timeoutMs: an entry keeps its age,   *)
(* which stops growing once the request has expired.                       *)
(***************************************************************************)
EXTENDS Integers, Sequences, FiniteSets, Functions, Bounded

CONSTANTS CorrIds, Peers,
          MaxEvents, MaxPending, MaxSettled,    \* constructor options
          TimeoutMs,                            \* timeoutMs, in clock ticks
          MaxRequests, MaxResponses             \* bounds on what is explored

ASSUME CorrIdsAssumption == IsFiniteSet(CorrIds)
ASSUME LimitsAssumption == /\ MaxEvents \in Nat \ {0}
                           /\ MaxPending \in Nat
                           /\ MaxSettled \in Nat
                           /\ TimeoutMs \in Nat
ASSUME BoundsAssumption == MaxRequests \in Nat /\ MaxResponses \in Nat

VARIABLES pending,              \* corrId -> entry, for the requests in flight
          settled,              \* recently settled corrIds, oldest first
          events,               \* rows in the ring, oldest first
          dropped,              \* events.dropped: rows the ring evicted
          pendingDropped,       \* requests evicted from `pending`
          timedOut,             \* requests swept to a timeout row
          lateAfterTimeout,     \* answers to settled requests
          started,              \* history: requests registered
          superseded,           \* history: live requests whose id was reused
          completed,            \* history: requests every peer answered
          accepted              \* history: answers that became a row

tables == <<pending, settled, events, dropped>>
counters == <<pendingDropped, timedOut, lateAfterTimeout>>
history == <<started, superseded, completed, accepted>>
vars == <<tables, counters, history>>

Live == DOMAIN pending

Entry == [born : Nat, age : 0 .. TimeoutMs + 1, awaiting : SUBSET Peers,
          responses : Nat]

ReqRow(c, P) == [kind |-> "req", corrId |-> c, peers |-> P, partial |-> 0]
ResRow(c, p) == [kind |-> "res", corrId |-> c, peers |-> {p}, partial |-> 0]
TimeoutRow(c) == [kind |-> "timeout", corrId |-> c,
                  peers |-> pending[c].awaiting,
                  partial |-> pending[c].responses]

Row == [kind : {"req", "res", "timeout"}, corrId : CorrIds,
        peers : SUBSET Peers, partial : Nat]

TypeOK == /\ Live \subseteq CorrIds
          /\ pending \in [Live -> Entry]
          /\ settled \in Seq(CorrIds)
          /\ IsInjective(settled)
          /\ events \in Seq(Row)
          /\ \A n \in {dropped, pendingDropped, timedOut, lateAfterTimeout,
                       started, superseded, completed, accepted} : n \in Nat

Init == /\ pending = [c \in {} |-> {}]
        /\ settled = <<>>
        /\ events = <<>>
        /\ dropped = 0
        /\ pendingDropped = 0 /\ timedOut = 0 /\ lateAfterTimeout = 0
        /\ started = 0 /\ superseded = 0 /\ completed = 0 /\ accepted = 0

-----------------------------------------------------------------------------
(* Fault: one drop counted however many rows a push evicts. *)
EmitCountingOnce(rows) ==
  /\ events' = Newest(events \o rows, MaxEvents)
  /\ dropped' = dropped + (IF Excess(events \o rows, MaxEvents) = 0 THEN 0 ELSE 1)

(* events.push of each row in turn. *)
Emit(rows) == /\ events' = Newest(events \o rows, MaxEvents)
              /\ dropped' = dropped + Excess(events \o rows, MaxEvents)

(* Fault: the settled set never evicts. *)
MarkSettledForever(s, c) == IF c \in Range(s) THEN s ELSE Append(s, c)

(* Set.add leaves an id that is already there in its old place. *)
MarkSettled(s, c) ==
  Newest(IF c \in Range(s) THEN s ELSE Append(s, c), MaxSettled)

MarkAllSettled(s, ids) ==
  LET mark[i \in 0 .. Len(ids)] ==
        IF i = 0 THEN s ELSE MarkSettled(mark[i - 1], ids[i])
  IN  mark[Len(ids)]

Without(table, ids) == [c \in DOMAIN table \ ids |-> table[c]]

Oldest(table) == CHOOSE c \in DOMAIN table :
                   \A d \in DOMAIN table : table[c].born <= table[d].born

-----------------------------------------------------------------------------
(* Fault: a request that reuses an id goes on awaiting its predecessor's peers. *)
WithRequestMerged(c, P) ==
  LET before == IF c \in Live THEN pending[c]
                ELSE [born |-> started + 1, age |-> 0, awaiting |-> {}, responses |-> 0]
      entry == [before EXCEPT !.age = 0, !.awaiting = @ \cup P]
  IN  [d \in Live \cup {c} |-> IF d = c THEN entry ELSE pending[d]]

(* Map.set keeps the place of an id that is already in flight. *)
WithRequest(c, P) ==
  LET place == IF c \in Live THEN pending[c].born ELSE started + 1
      entry == [born |-> place, age |-> 0, awaiting |-> P, responses |-> 0]
  IN  [d \in Live \cup {c} |-> IF d = c THEN entry ELSE pending[d]]

Overfull(table) == Cardinality(DOMAIN table) > MaxPending

Request(c, P) ==
  LET table == WithRequest(c, P) IN
  /\ started < MaxRequests
  /\ started' = started + 1
  /\ superseded' = superseded + (IF c \in Live THEN 1 ELSE 0)
  /\ pending' = IF Overfull(table) THEN Without(table, {Oldest(table)})
                                   ELSE table
  /\ pendingDropped' = pendingDropped + (IF Overfull(table) THEN 1 ELSE 0)
  /\ Emit(<<ReqRow(c, P)>>)
  /\ UNCHANGED <<settled, timedOut, lateAfterTimeout, completed, accepted>>

(* Fault: a late answer is shown as well as counted. *)
ResponseUnmatchedShown(c) ==
  /\ c \in Range(settled) \ Live
  /\ lateAfterTimeout' = lateAfterTimeout + 1
  /\ \E p \in Peers : Emit(<<ResRow(c, p)>>)
  /\ UNCHANGED <<pending, settled, pendingDropped, timedOut, history>>

(* An answer to a request that is not in flight: never a row. *)
ResponseUnmatched(c) ==
  /\ c \notin Live
  /\ lateAfterTimeout' =
       lateAfterTimeout + (IF c \in Range(settled) THEN 1 ELSE 0)
  /\ UNCHANGED <<tables, pendingDropped, timedOut, history>>

ResponsePartial(c, p) ==
  /\ c \in Live
  /\ pending[c].awaiting \ {p} # {}
  /\ pending' = [pending EXCEPT ![c].awaiting = @ \ {p},
                                ![c].responses = @ + 1]
  /\ accepted' = accepted + 1
  /\ Emit(<<ResRow(c, p)>>)
  /\ UNCHANGED <<settled, counters, started, superseded, completed>>

ResponseFinal(c, p) ==
  /\ c \in Live
  /\ pending[c].awaiting \ {p} = {}
  /\ pending' = Without(pending, {c})
  /\ settled' = MarkSettled(settled, c)
  /\ accepted' = accepted + 1
  /\ completed' = completed + 1
  /\ Emit(<<ResRow(c, p)>>)
  /\ UNCHANGED <<counters, started, superseded>>

Response(c, p) ==
  /\ accepted + lateAfterTimeout < MaxResponses
  /\ ResponseUnmatched(c) \/ ResponsePartial(c, p) \/ ResponseFinal(c, p)

Expired == {c \in Live : pending[c].age > TimeoutMs}

(* The orders in which iterating `pending` meets the ids of E: one. *)
MapOrders(E) ==
  {s \in [1 .. Cardinality(E) -> E] :
     \A i, j \in DOMAIN s : i < j => pending[s[i]].born < pending[s[j]].born}

(* A sweep that finds nothing expired changes nothing. *)
Sweep ==
  /\ Expired # {}
  /\ \E ids \in MapOrders(Expired) :
       /\ Emit([i \in 1 .. Len(ids) |-> TimeoutRow(ids[i])])
       /\ settled' = MarkAllSettled(settled, ids)
  /\ pending' = Without(pending, Expired)
  /\ timedOut' = timedOut + Cardinality(Expired)
  /\ UNCHANGED <<pendingDropped, lateAfterTimeout, history>>

Older(a) == IF a > TimeoutMs THEN a ELSE a + 1

(* The clock that stamps requests and sweeps advances. *)
Tick == /\ \E c \in Live : pending[c].age <= TimeoutMs
        /\ pending' = [c \in Live |-> [pending[c] EXCEPT !.age = Older(@)]]
        /\ UNCHANGED <<settled, events, dropped, counters, history>>

Next == \/ \E c \in CorrIds, P \in SUBSET Peers : Request(c, P)
        \/ \E c \in CorrIds, p \in Peers : Response(c, p)
        \/ Sweep
        \/ Tick

Spec == Init /\ [][Next]_vars

-----------------------------------------------------------------------------
(* Memory is bounded: no sequence of calls grows the table, the settled    *)
(* set or the ring past its limit.                                         *)
MemoryBounded == /\ Cardinality(Live) <= MaxPending
                 /\ Len(settled) <= MaxSettled
                 /\ Len(events) <= MaxEvents

(* No request disappears without trace: each one registered is in flight,  *)
(* was answered by all, was swept to a timeout row, was counted as evicted *)
(* or was replaced by a request with its own id, and only one of these.    *)
RequestsAccounted ==
  started = Cardinality(Live) + completed + timedOut + pendingDropped
              + superseded

(* No row disappears without trace: what the ring holds and what it        *)
(* counted as dropped are together one row per request, per answer taken   *)
(* and per timeout.                                                        *)
RowsAccounted == Len(events) + dropped = started + accepted + timedOut

(* Row k is the latest req row for the request of row j, which follows it. *)
Opens(k, j) == /\ k < j
               /\ events[k].kind = "req"
               /\ events[k].corrId = events[j].corrId
               /\ \A m \in k + 1 .. j - 1 : ~ /\ events[m].kind = "req"
                                              /\ events[m].corrId = events[j].corrId

(* The positions of the answers shown between rows k and j. *)
AnswersBetween(k, j) == {m \in k + 1 .. j - 1 : /\ events[m].kind = "res"
                                                /\ events[m].corrId = events[j].corrId}

(* A timeout row is true to the rows the reader saw before it: it names    *)
(* just the peers of the request that have no answer above it, and its     *)
(* partial count leaves out no peer of the fan-out that has one (it may    *)
(* count a peer more than once: what is told by two events is two rows).   *)
TimeoutRowIsTrue ==
  \A k, j \in 1 .. Len(events) :
    events[j].kind = "timeout" /\ Opens(k, j) =>
      LET answered == {events[m].peers : m \in AnswersBetween(k, j)} IN
      /\ events[j].peers = events[k].peers \ UNION answered
      /\ events[j].partial >= Cardinality(answered \cap SUBSET events[k].peers)

(* A late answer never resurrects a request: below a timeout row nothing   *)
(* about its id is shown until a request with that id is registered again. *)
NoResurrection ==
  \A i, j \in 1 .. Len(events) :
    /\ i < j
    /\ events[i].kind = "timeout"
    /\ events[j].corrId = events[i].corrId
    => \E k \in i + 1 .. j : events[k].kind = "req" /\ events[k].corrId = events[j].corrId
=============================================================================
