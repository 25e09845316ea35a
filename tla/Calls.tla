-------------------------------- MODULE Calls --------------------------------
(***************************************************************************)
(* packages/bare-observe/src/wrap-client.ts and the side of observe.ts     *)
(* that watches and replays calls.  Wrapped methods report a call's start  *)
(* and end; observe() keeps a table of the calls in flight and a log from  *)
(* which a viewer may have a call run again.  JavaScript's stack is part   *)
(* of the state: a method may call others before it returns, and a replay  *)
(* leaves a tag in a module variable for the call it is about to make.     *)
(*                                                                         *)
(* Calls are numbered as they start (corrId), replays as they arrive.  An  *)
(* application may decorate a method after it was wrapped: its own code    *)
(* then stands between a replay and the wrapped function, which it calls   *)
(* once, often, later or never.                                            *)
(***************************************************************************)
EXTENDS Naturals, Sequences, FiniteSets

CONSTANTS Clients, NoClient,
          MethodsOf,            \* the methods of each client
          Decorated,            \* methods the application has decorated
          ReplayLogMax,         \* replayLogMax
          InflightMax,          \* INFLIGHT_MAX
          MaxCalls,             \* bound: calls
          MaxReplays,           \* bound: replay requests
          MaxStreams,           \* bound: subscriptions
          MaxItems              \* bound: items a stream pushes

ASSUME NoClientAssumption == NoClient \notin Clients
ASSUME LimitsAssumption == /\ ReplayLogMax \in Nat /\ InflightMax \in Nat
                           /\ MaxCalls \in Nat /\ MaxReplays \in Nat
                           /\ MaxStreams \in Nat /\ MaxItems \in Nat

VARIABLES wrapped,      \* the client replays go to, if any: wrapClient's last
          tapped,       \* the clients whose methods are wrapped
          calls,        \* what became of each call
          recentCalls,  \* calls that may be replayed
          inflight,     \* inflightCalls
          invokeCtx,    \* the replay waiting for its call, 0 if none
          replays,      \* history: what became of each replay request
          stack         \* the running functions, innermost last

vars == <<wrapped, tapped, calls, recentCalls, inflight, invokeCtx, replays, stack>>

Calls == 1 .. Len(calls)

Init == /\ wrapped = NoClient
        /\ tapped = {}
        /\ calls = <<>>
        /\ recentCalls = {} /\ inflight = {}
        /\ invokeCtx = 0
        /\ replays = <<>>
        /\ stack = <<>>

-----------------------------------------------------------------------------
Top == stack[Len(stack)]
Pop == SubSeq(stack, 1, Len(stack) - 1)
InCall == stack # <<>> /\ Top.kind = "call"
InReplay == stack # <<>> /\ Top.kind = "replay"
Caller == replays[Top.id]       \* the replay request of a replay frame

(* A map in insertion order, which for calls is the order of their ids,    *)
(* that evicts its oldest entry past its limit.                            *)
Oldest(ids) == {i \in ids : \A j \in ids : i <= j}
Capped(ids, max) == IF Cardinality(ids) > max THEN ids \ Oldest(ids) ELSE ids

(* handle.wrapClient; an application wraps a client once. *)
WrapClient(c) == /\ stack = <<>>
                 /\ c \notin tapped
                 /\ tapped' = tapped \cup {c}
                 /\ wrapped' = c
                 /\ UNCHANGED <<calls, recentCalls, inflight, invokeCtx, replays, stack>>

(* Application code that may call method m of client c is running: an      *)
(* event handler of its own, a method, or what a replay is dispatched to.  *)
Runs(c, m) == \/ stack = <<>>
              \/ InCall
              \/ InReplay /\ Caller.method \in Decorated
              \/ InReplay /\ Top.waiting /\ Caller.client = c /\ Caller.method = m

(* Fault: the tag goes to the next call, whatever its method. *)
TagForNext(m) == invokeCtx

(* Fault: the context is compared with the replay's turn, and never fits. *)
TagForNobody(m) == IF invokeCtx # 0 /\ invokeCtx = Len(replays) + 1 THEN invokeCtx ELSE 0

(* The replay this call is the re-run of, 0 if it is organic. *)
TagFor(m) == IF invokeCtx # 0 /\ replays[invokeCtx].method = m THEN invokeCtx ELSE 0

(* The wrapped function, up to its call of the original. *)
Start(c, m) ==
  /\ c \in tapped /\ m \in MethodsOf[c]
  /\ Len(calls) < MaxCalls
  /\ Runs(c, m)
  /\ calls' = Append(calls,
       [method |-> m, tag |-> TagFor(m), state |-> "running",
        within |-> IF stack = <<>> \/ stack[1].kind = "call" THEN 0 ELSE stack[1].id,
        ends |-> 0, late |-> FALSE, items |-> 0, heard |-> 0, settled |-> FALSE])
  /\ invokeCtx' = IF TagFor(m) # 0 THEN 0 ELSE invokeCtx
  /\ recentCalls' = Capped(recentCalls \cup {Len(calls) + 1}, ReplayLogMax)
  /\ inflight' = Capped(inflight \cup {Len(calls) + 1}, InflightMax)
  /\ stack' = Append(IF InReplay THEN [stack EXCEPT ![Len(stack)].waiting = FALSE] ELSE stack,
                     [kind |-> "call", id |-> Len(calls) + 1])
  /\ UNCHANGED <<wrapped, tapped, replays>>

(* report() of a request.end: the call leaves the table. *)
Ended(call) == [call EXCEPT !.ends = @ + 1]

Leave(call) == /\ InCall
               /\ calls' = [calls EXCEPT ![Top.id] = call]
               /\ UNCHANGED <<wrapped, tapped, recentCalls, invokeCtx, replays>>

(* The original returns a promise, ... *)
ReturnPromise == /\ Leave([calls[Top.id] EXCEPT !.state = "promise"])
                 /\ stack' = Pop
                 /\ UNCHANGED inflight

(* ... a plain value, ... *)
ReturnValue == /\ Leave(Ended([calls[Top.id] EXCEPT !.state = "done"]))
               /\ inflight' = inflight \ {Top.id}
               /\ stack' = Pop

(* ... or throws, to whoever called: a replay that is waiting for the      *)
(* function itself learns of it, other code may catch it.                  *)
Throw == /\ Leave(Ended([calls[Top.id] EXCEPT !.state = "done"]))
         /\ inflight' = inflight \ {Top.id}
         /\ stack' = IF Pop # <<>> /\ Pop[Len(Pop)].kind = "replay"
                       THEN [Pop EXCEPT ![Len(Pop)].threw = TRUE] ELSE Pop

(* monitorStream attaches listeners for data, error, end and close, in     *)
(* this order; the stream's on() may throw after the first few.            *)
Listeners == 4
Streams == {i \in Calls : calls[i].state \in {"stream", "over", "closed"}}

(* Fault: a stream stays in the table of calls in flight. *)
ReturnStreamInflight(heard) ==
  /\ InCall
  /\ Cardinality(Streams) < MaxStreams
  /\ LET opened == [calls[Top.id] EXCEPT !.state = "stream", !.heard = heard] IN
     Leave(IF heard < Listeners THEN Ended(opened) ELSE opened)
  /\ UNCHANGED inflight
  /\ stack' = Pop

ReturnStream(heard) ==
  /\ InCall
  /\ Cardinality(Streams) < MaxStreams
  /\ LET opened == [calls[Top.id] EXCEPT !.state = "stream", !.heard = heard] IN
     Leave(IF heard < Listeners THEN Ended(opened) ELSE opened)
  /\ inflight' = inflight \ {Top.id}
  /\ stack' = Pop

Settle(id) == /\ stack = <<>>
              /\ calls[id].state = "promise"
              /\ calls' = [calls EXCEPT ![id] = Ended([@ EXCEPT !.state = "done"])]
              /\ inflight' = inflight \ {id}
              /\ UNCHANGED <<wrapped, tapped, recentCalls, invokeCtx, replays, stack>>

-----------------------------------------------------------------------------
(* The stream of a subscription pushes items, ends with an error or        *)
(* without, and closes.                                                    *)
StreamStep(id, call) ==
  /\ calls' = [calls EXCEPT ![id] = call]
  /\ UNCHANGED <<wrapped, tapped, recentCalls, inflight, invokeCtx, replays, stack>>

(* Fault: settle() forgets to remember that it ran. *)
SettleAgain(call) == Ended(call)

(* settle() of monitorStream: the first of error, end and close reports.   *)
SettleOnce(call) == IF call.settled THEN call ELSE Ended([call EXCEPT !.settled = TRUE])

StreamData(id) ==
  /\ calls[id].state = "stream" /\ calls[id].items < MaxItems
  /\ StreamStep(id, IF calls[id].heard >= 1
       THEN [calls[id] EXCEPT !.items = @ + 1, !.late = @ \/ calls[id].ends > 0]
       ELSE calls[id])

StreamEnds(id, listener) ==
  /\ calls[id].state = "stream"
  /\ LET over == [calls[id] EXCEPT !.state = "over"] IN
     StreamStep(id, IF over.heard >= listener THEN SettleOnce(over) ELSE over)

StreamError(id) == StreamEnds(id, 2)
StreamEnd(id) == StreamEnds(id, 3)

StreamClose(id) ==
  /\ calls[id].state \in {"stream", "over"}
  /\ LET closed == [calls[id] EXCEPT !.state = "closed"] IN
     StreamStep(id, IF closed.heard >= 4 THEN SettleOnce(closed) ELSE closed)

-----------------------------------------------------------------------------
(* handleInvoke: the method is the logged one, the client the last wrapped. *)
Refused(of, args, allowed) ==
  \/ wrapped = NoClient
  \/ of \notin recentCalls
  \/ args = "malformed"
  \/ ~ allowed
  \/ calls[of].method \notin MethodsOf[wrapped]

Refuse ==
  /\ replays' = Append(replays, [outcome |-> "refused"])
  /\ UNCHANGED <<wrapped, tapped, calls, recentCalls, inflight, invokeCtx, stack>>

Dispatch(of) ==
  /\ replays' = Append(replays, [outcome |-> "running",
                                 client |-> wrapped, method |-> calls[of].method])
  /\ invokeCtx' = Len(replays) + 1
  /\ stack' = <<[kind |-> "replay", id |-> Len(replays) + 1, waiting |-> TRUE, threw |-> FALSE]>>
  /\ UNCHANGED <<wrapped, tapped, calls, recentCalls, inflight>>

HandleInvoke(of, args, allowed) ==
  /\ stack = <<>>
  /\ Len(replays) < MaxReplays
  /\ IF Refused(of, args, allowed) THEN Refuse ELSE Dispatch(of)

(* The dispatched function returns, or throws into handleInvoke; an        *)
(* undecorated one is the wrapped function.  The finally clears the tag.   *)
Finish(threw) ==
  /\ InReplay
  /\ \/ Caller.method \in Decorated
     \/ ~ Top.waiting /\ threw = Top.threw
  /\ replays' = [replays EXCEPT ![Top.id].outcome = IF threw THEN "threw" ELSE "returned"]
  /\ invokeCtx' = 0
  /\ stack' = Pop
  /\ UNCHANGED <<wrapped, tapped, calls, recentCalls, inflight>>

Next == \/ \E c \in Clients : WrapClient(c) \/ \E m \in MethodsOf[c] : Start(c, m)
        \/ ReturnPromise \/ ReturnValue \/ Throw
        \/ \E heard \in 0 .. Listeners : ReturnStream(heard)
        \/ \E id \in Calls : \/ Settle(id)
                             \/ StreamData(id) \/ StreamError(id) \/ StreamEnd(id) \/ StreamClose(id)
        \/ \E of \in 0 .. MaxCalls, args \in {"array", "malformed"}, allowed \in BOOLEAN :
             HandleInvoke(of, args, allowed)
        \/ \E threw \in BOOLEAN : Finish(threw)

Spec == Init /\ [][Next]_vars

-----------------------------------------------------------------------------
(* A tag is on one call at most, a call of the method that is replayed,    *)
(* made while the replay was being dispatched: never on an organic one.    *)
TagsTellReplays ==
  \A i \in Calls : calls[i].tag # 0 =>
    /\ calls[i].tag = calls[i].within
    /\ calls[i].method = replays[calls[i].tag].method
    /\ \A j \in Calls : calls[j].tag = calls[i].tag => j = i

(* A viewer learns what became of its replay: every one that was not       *)
(* refused and that reached the wrapped function shows as a tagged call.   *)
ReplaysAreSeen ==
  \A r \in 1 .. Len(replays) :
    /\ replays[r].outcome = "refused" => \A i \in Calls : calls[i].tag # r
    /\ replays[r].outcome \in {"returned", "threw"} /\ replays[r].method \notin Decorated
         => \E i \in Calls : calls[i].tag = r

(* The table of calls in flight lists running calls that are not           *)
(* subscriptions, and lacks one only if InflightMax calls started after it. *)
Running == {i \in Calls : calls[i].state \in {"running", "promise"}}

InflightIsTrue ==
  /\ inflight \subseteq Running
  /\ \A i \in Running \ inflight : Len(calls) - i >= InflightMax

(* A call ends once, when it is over, and pushes nothing afterwards; but a *)
(* stream whose listeners could not all be attached is declared ended.     *)
Open(call) == \/ call.state \in {"running", "promise"}
              \/ call.state = "stream" /\ call.heard = Listeners

EndsOnce ==
  \A i \in Calls :
    IF calls[i].heard \in 1 .. Listeners - 1
      THEN calls[i].ends \in 1 .. 2
      ELSE calls[i].ends = (IF Open(calls[i]) THEN 0 ELSE 1) /\ ~ calls[i].late
=============================================================================
