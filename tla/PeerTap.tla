------------------------------- MODULE PeerTap -------------------------------
(***************************************************************************)
(* packages/bare-probe/adapters/webrtc.ts, instrumentPeerConnection: a     *)
(* probe that listens to the changes of a connection's states and polls    *)
(* its statistics by a timer, each poll a promise that may be answered     *)
(* late, in any order or never; and the normaliser of what they answer.    *)
(* The probe's clock may throw, and the connection may lack the optional   *)
(* removeEventListener.                                                    *)
(***************************************************************************)
EXTENDS Naturals, Integers, Sequences, FiniteSets, Functions, Selection, Target

CONSTANTS Reports,      \* what getStats may answer
          MaxPolls      \* bound: polls

ASSUME MaxPollsAssumption == MaxPolls \in Nat
ASSUME ReportsAssumption ==
  \A report \in Reports :
    \/ report.container = "null"
    \/ /\ report.container \in {"array", "map", "object"}
       /\ report.entries \in Seq(Range(report.entries))

VARIABLES tap,          \* the probe: "off", "on", "disabled", "restored"
          attached,     \* its listeners are on the connection
          asked,        \* polls made so far
          pending,      \* polls not answered
          askedBefore,  \* history: polls made when the probe was taken off
          answers,      \* history: how often each poll was reported
          seen          \* history: what the last event told, with its source

peerVars == <<transport, removable, tap, attached, asked, pending, askedBefore, answers, seen>>

Silent == [type |-> "none"]
None == "none"

PeerInit == /\ tap = "off" /\ attached = FALSE
            /\ asked = 0 /\ pending = {} /\ askedBefore = 0
            /\ answers = [n \in 1 .. MaxPolls |-> 0]
            /\ seen = Silent

-----------------------------------------------------------------------------
(* The normaliser.  A report is a container with entries, or nothing.      *)
toEntries(report) ==
  [entries |-> IF report.container \in {"array", "map", "object"} THEN report.entries ELSE <<>>,
   shape |-> IF report.container \in {"array", "map", "object"} THEN report.container ELSE "unknown"]

First(entries, those) == Head(Only(entries, those))

Selected(pairs) == {p \in Range(pairs) : p.selected}
Works(pair) == pair.nominated /\ pair.state \in {"succeeded", "completed"}
Succeeded(pairs) == {p \in Range(pairs) : Works(p)}

(* Fault: any nominated pair is preferred, also one that failed. *)
pickNominated(pairs) ==
  LET nominated == {p \in Range(pairs) : p.nominated} IN
  CASE Selected(pairs) # {} -> First(pairs, Selected(pairs))
    [] Selected(pairs) = {} /\ nominated # {} -> First(pairs, nominated)
    [] OTHER -> Head(pairs)

(* Of some pairs, the first that is selected, else the first that was      *)
(* nominated and succeeded, else the first.                                *)
pickCandidatePair(pairs) ==
  CASE Selected(pairs) # {} -> First(pairs, Selected(pairs))
    [] Selected(pairs) = {} /\ Succeeded(pairs) # {} -> First(pairs, Succeeded(pairs))
    [] OTHER -> Head(pairs)

OfType(entries, type) == {e \in Range(entries) : e.type = type}

(* What the end of a pair is: its candidate's type, else the pair's own word. *)
CandidateType(entries, type, id, own) ==
  LET those == {e \in OfType(entries, type) : e.id = id}
  IN IF those # {} /\ First(entries, those).candidateType # None
       THEN First(entries, those).candidateType ELSE own

(* The sum over the entries that carry a number, none if there is none. *)
PacketsLost(entries) ==
  LET counted == Only(entries, {e \in OfType(entries, "inbound-rtp") : e.packetsLost # -1})
  IN IF counted = <<>> THEN -1
     ELSE FoldFunction(LAMBDA e, sum : e.packetsLost + sum, 0, counted)

extractRelevant(report) ==
  LET entries == toEntries(report).entries
      pairs == Only(entries, OfType(entries, "candidate-pair"))
      pair == pickCandidatePair(pairs)
      local == CandidateType(entries, "local-candidate", pair.localId, pair.localType)
  IN [pair |-> IF pairs = <<>> THEN None ELSE pair.name,
      relayed |-> pairs # <<>> /\ local = "relay",
      packetsLost |-> PacketsLost(entries),
      containerShape |-> toEntries(report).shape]

(* An entry that is null makes the normaliser throw. *)
Malformed(report) ==
  \E i \in DOMAIN toEntries(report).entries : toEntries(report).entries[i] = [type |-> "null"]

-----------------------------------------------------------------------------
target == <<transport, removable>>

instrumentPeerConnection(enabled) ==
  /\ tap = "off"
  /\ tap' = IF enabled THEN "on" ELSE "disabled"
  /\ attached' = enabled
  /\ seen' = Silent
  /\ UNCHANGED <<target, asked, pending, askedBefore, answers>>

(* One of the connection's four states changes: the listeners report it,   *)
(* unless the clock throws in them.                                        *)
StateChange(clock) ==
  /\ seen' = IF attached /\ clock = "works" THEN [type |-> "conn.state"] ELSE Silent
  /\ UNCHANGED <<target, tap, attached, asked, pending, askedBefore, answers>>

(* Fault: the interval goes on after restore(). *)
PollsForEver == tap \in {"on", "restored"}

Polls == tap = "on"

(* The timer fires: a poll is under way unless getStats itself throws,     *)
(* which nobody catches.                                                   *)
Poll(throws) ==
  /\ Polls
  /\ asked < MaxPolls
  /\ asked' = asked + 1
  /\ pending' = IF throws THEN pending ELSE pending \cup {asked + 1}
  /\ seen' = Silent
  /\ UNCHANGED <<target, tap, attached, askedBefore, answers>>

(* A promise is answered: an event, or the clock threw and there is none.  *)
Answered(n, event) ==
  /\ n \in pending
  /\ pending' = pending \ {n}
  /\ answers' = IF event = Silent THEN answers ELSE [answers EXCEPT ![n] = @ + 1]
  /\ seen' = event
  /\ UNCHANGED <<target, tap, attached, asked, askedBefore>>

StatsError(n, clock) == IF clock = "works" THEN [type |-> "send.error", poll |-> n] ELSE Silent

(* A report the normaliser throws on ends, like a rejection, in an error   *)
(* event; so does one whose time the clock throws at, if it works for the  *)
(* error event.                                                            *)
Resolved(n, report, clock) ==
  Answered(n, CASE Malformed(report) -> StatsError(n, clock)
                [] ~ Malformed(report) /\ clock = "works" ->
                     [type |-> "conn.stats", poll |-> n, report |-> report,
                      stats |-> extractRelevant(report)]
                [] ~ Malformed(report) /\ clock = "fails once" -> StatsError(n, "works")
                [] OTHER -> Silent)

Rejected(n, clock) == Answered(n, StatsError(n, clock))

(* restore(), which detaches the listeners where the connection can; a     *)
(* second call of it changes nothing.                                      *)
RestorePeer ==
  /\ tap = "on"
  /\ tap' = "restored"
  /\ attached' = (attached /\ ~ removable)
  /\ askedBefore' = asked
  /\ seen' = Silent
  /\ UNCHANGED <<target, asked, pending, answers>>

PeerNext == \/ \E enabled \in BOOLEAN : instrumentPeerConnection(enabled)
            \/ RestorePeer
            \/ \E throws \in BOOLEAN : Poll(throws)
            \/ \E clock \in Clock :
                 \/ StateChange(clock)
                 \/ \E n \in pending : \/ Rejected(n, clock)
                                       \/ \E report \in Reports : Resolved(n, report, clock)

PeerTapSpec == transport = "webrtc-pc" /\ removable \in BOOLEAN /\ PeerInit /\ [][PeerNext]_peerVars

-----------------------------------------------------------------------------
(* After restore() nothing is reported but the answers to polls that were  *)
(* under way, each of them once, in whatever order they come; and changes  *)
(* of state only by a connection that could not detach its listeners.      *)
RestoreEndsReports ==
  /\ \A n \in 1 .. MaxPolls : answers[n] <= 1
  /\ tap = "restored" =>
       /\ \A n \in pending : n <= askedBefore
       /\ seen.type = "conn.state" => ~ removable
       /\ seen.type \in {"conn.stats", "send.error"} => seen.poll <= askedBefore

(* The pair the statistics speak of is one the report has, and no other    *)
(* pair outranks it; "relayed" is what the report says of that very pair,  *)
(* by its own word only where no candidate with a type has the pair's id.  *)
Rank(pair) == IF pair.selected THEN 2 ELSE IF Works(pair) THEN 1 ELSE 0

Words(report, pair) ==
  LET locals == {e \in OfType(report.entries, "local-candidate") : e.id = pair.localId}
  IN IF locals = {} THEN {pair.localType}
     ELSE {IF e.candidateType # None THEN e.candidateType ELSE pair.localType : e \in locals}

StatsTellThePair ==
  seen.type = "conn.stats" /\ seen.report.container # "null" =>
    LET pairs == OfType(seen.report.entries, "candidate-pair") IN
    IF pairs = {} THEN seen.stats.pair = None /\ ~ seen.stats.relayed
    ELSE \E pair \in pairs : /\ pair.name = seen.stats.pair
                             /\ \A other \in pairs : Rank(other) <= Rank(pair)
                             /\ seen.stats.relayed \in {word = "relay" : word \in Words(seen.report, pair)}
=============================================================================
