----------------------------- MODULE MCBroadcast -----------------------------
(***************************************************************************)
(* CollectorSink fed by callers that use a corrId for one broadcast and    *)
(* announce each target of it once, as it dispatches; a target may answer  *)
(* as soon as it has been announced, and its answer may be reported twice  *)
(* (a correlated message.in and the request.end of the same call).         *)
(***************************************************************************)
EXTENDS CollectorSink

VARIABLE announced      \* history: the targets of each broadcast so far

BroadcastInit == Init /\ announced = [c \in CorrIds |-> {}]

Announce(c, p) == /\ p \notin announced[c]
                  /\ EmitStart(c, p)
                  /\ announced' = [announced EXCEPT ![c] = @ \cup {p}]

Answer(c, p) == /\ p \in announced[c]
                /\ EmitAnswer(c, p)
                /\ UNCHANGED announced

BroadcastNext == \/ \E c \in CorrIds, p \in Peers : Announce(c, p) \/ Answer(c, p)
                 \/ (Sweep \/ Tick) /\ UNCHANGED announced

BroadcastSpec == BroadcastInit /\ [][BroadcastNext]_<<vars, announced>>

(* core/sink.ts:32-35: repeated starts for one corrId accumulate into one  *)
(* request.  The reader sees one req row per broadcast.                    *)
OneRequestPerBroadcast ==
  \A i, j \in 1 .. Len(events) :
    /\ events[i].kind = "req" /\ events[j].kind = "req"
    /\ events[i].corrId = events[j].corrId
    => i = j

(* core/correlator.ts:29, of a timeout row's partial: how many of the      *)
(* fan-out did answer before the deadline.  The reader counts the peers    *)
(* that have an answer between the req row and the timeout row.            *)
PartialCountsPeers ==
  \A k, j \in 1 .. Len(events) :
    events[j].kind = "timeout" /\ Opens(k, j) =>
      events[j].partial = Cardinality(UNION {events[m].peers : m \in AnswersBetween(k, j)})

=============================================================================
