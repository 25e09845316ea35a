------------------------------ MODULE CallsProofs ------------------------------
(***************************************************************************)
(* Proofs about wrapped calls and their replays, for any clients, methods  *)
(* and decorations, any limits, and any number of calls and replays.       *)
(***************************************************************************)
EXTENDS Calls, SequenceTheorems, FiniteSetTheorems, TLAPS

Methods == UNION {MethodsOf[c] : c \in Clients}
States == {"running", "promise", "done", "stream", "over", "closed"}
Call == [method : Methods, tag : Nat, state : States, within : Nat, ends : Nat,
         late : BOOLEAN, items : Nat, heard : 0 .. Listeners, settled : BOOLEAN]
Replay == [outcome : {"refused"}]
            \cup [outcome : {"running", "returned", "threw"}, client : Clients, method : Methods]
Frame == [kind : {"call"}, id : Nat]
           \cup [kind : {"replay"}, id : Nat, waiting : BOOLEAN, threw : BOOLEAN]

Types == /\ calls \in Seq(Call)
         /\ replays \in Seq(Replay)
         /\ stack \in Seq(Frame)
         /\ invokeCtx \in Nat
         /\ wrapped \in Clients \cup {NoClient} /\ tapped \subseteq Clients

-----------------------------------------------------------------------------
(* How much has happened to a call. *)
Accounted(call) ==
  /\ call.state \in {"running", "promise", "done"} =>
       /\ call.heard = 0 /\ ~ call.late
       /\ call.ends = IF call.state = "done" THEN 1 ELSE 0
  /\ call.state \in {"stream", "over", "closed"} =>
       /\ call.heard = 0 => call.ends = 1 /\ ~ call.late
       /\ call.heard \in 1 .. Listeners - 1 => call.ends = IF call.settled THEN 2 ELSE 1
       /\ call.heard = Listeners =>
            /\ ~ call.late
            /\ call.settled <=> call.state # "stream"
            /\ call.ends = IF call.settled THEN 1 ELSE 0
  /\ call.state \notin {"over", "closed"} => ~ call.settled

AllAccounted == \A i \in Calls : Accounted(calls[i])

LEMMA AccountedEndsOnce == ASSUME Types, AllAccounted PROVE EndsOnce
<1> SUFFICES ASSUME NEW i \in Calls
             PROVE  IF calls[i].heard \in 1 .. Listeners - 1
                      THEN calls[i].ends \in 1 .. 2
                      ELSE calls[i].ends = (IF Open(calls[i]) THEN 0 ELSE 1) /\ ~ calls[i].late
  BY DEF EndsOnce
<1>1. calls[i] \in Call /\ Accounted(calls[i])
  BY DEF Types, Calls, AllAccounted
<1> DEFINE call == calls[i]
<1>2. call.state \in States /\ call.heard \in 0 .. Listeners /\ call.settled \in BOOLEAN /\ call.ends \in Nat
  BY <1>1 DEF Call
<1> HIDE DEF call
<1>3. Accounted(call)
  BY <1>1 DEF call
<1>4. IF call.heard \in 1 .. Listeners - 1
        THEN call.ends \in 1 .. 2
        ELSE call.ends = (IF Open(call) THEN 0 ELSE 1) /\ ~ call.late
  BY <1>2, <1>3 DEF Accounted, States, Open, Listeners
<1> QED
  BY <1>4 DEF call

(* Steps that change one call keep what was said of the others. *)
OneCall(id, call) == /\ id \in Calls /\ call \in Call
                     /\ calls' = [calls EXCEPT ![id] = call]

LEMMA OneCallChanges ==
  ASSUME Types, NEW id, NEW call, OneCall(id, call)
  PROVE  /\ calls' \in Seq(Call) /\ Len(calls') = Len(calls) /\ Calls' = Calls
         /\ calls'[id] = call
         /\ \A i \in Calls \ {id} : calls'[i] = calls[i]
<1>1. calls \in Seq(Call) /\ id \in 1 .. Len(calls) /\ call \in Call
  BY DEF Types, OneCall, Calls
<1>2. calls' \in Seq(Call) /\ Len(calls') = Len(calls)
  BY <1>1, ExceptSeq DEF OneCall
<1>3. DOMAIN calls = 1 .. Len(calls)
  BY <1>1, LenProperties
<1> QED
  BY <1>1, <1>2, <1>3 DEF OneCall, Calls

LEMMA OneCallAccounted ==
  ASSUME Types, AllAccounted, NEW id, NEW call, OneCall(id, call), Accounted(call)
  PROVE  AllAccounted'
  BY OneCallChanges DEF AllAccounted

-----------------------------------------------------------------------------
(* The stack holds running calls, each once, above a replay or none. *)
StackInv ==
  /\ \A i \in 1 .. Len(stack) : stack[i].kind = "call" =>
       stack[i].id \in Calls /\ calls[stack[i].id].state = "running"
  /\ \A i, j \in 1 .. Len(stack) :
       stack[i].kind = "call" /\ stack[j].kind = "call" /\ stack[i].id = stack[j].id => i = j
  /\ \A i \in 2 .. Len(stack) : stack[i].kind = "call"

Replaying == stack # <<>> /\ stack[1].kind = "replay"

TagUsed(r) == \E i \in Calls : calls[i].tag = r

(* The tag waits for its call only while the replay runs, and for an       *)
(* undecorated method until the wrapped function is entered.               *)
ReplayInv ==
  /\ Replaying => /\ stack[1].id = Len(replays) /\ Len(replays) # 0
                  /\ replays[Len(replays)].outcome = "running"
  /\ invokeCtx # 0 => Replaying /\ invokeCtx = stack[1].id /\ ~ TagUsed(invokeCtx)
  /\ Replaying /\ stack[1].waiting => Len(stack) = 1 /\ invokeCtx = stack[1].id
  /\ Replaying /\ ~ stack[1].waiting /\ replays[Len(replays)].method \notin Decorated
       => TagUsed(Len(replays))

TagInv ==
  \A i \in Calls : calls[i].tag # 0 =>
    /\ calls[i].tag \in 1 .. Len(replays)
    /\ replays[calls[i].tag].outcome # "refused"
    /\ calls[i].tag = calls[i].within
    /\ calls[i].method = replays[calls[i].tag].method
    /\ \A j \in Calls : calls[j].tag = calls[i].tag => j = i

SeenInv ==
  \A r \in 1 .. Len(replays) :
    replays[r].outcome \in {"returned", "threw"} /\ replays[r].method \notin Decorated => TagUsed(r)

ReplaysInv == StackInv /\ ReplayInv /\ TagInv /\ SeenInv

LEMMA TagsAreTrue == ASSUME TagInv, SeenInv PROVE TagsTellReplays /\ ReplaysAreSeen
<1>1. TagsTellReplays
  BY DEF TagInv, TagsTellReplays
<1>2. ReplaysAreSeen
  <2>1. ASSUME NEW r \in 1 .. Len(replays), replays[r].outcome = "refused",
               NEW i \in Calls, calls[i].tag = r
        PROVE  FALSE
    <3>1. r # 0
      OBVIOUS
    <3> QED
      BY <2>1, <3>1 DEF TagInv
  <2> QED
    BY <2>1 DEF SeenInv, ReplaysAreSeen, TagUsed
<1> QED
  BY <1>1, <1>2

SameOrigin(call, other) ==
  call.tag = other.tag /\ call.within = other.within /\ call.method = other.method

(* A step of one call that leaves the replays alone, and the stack but for *)
(* the call's own frame.                                                   *)
LEMMA OneCallReplays ==
  ASSUME Types, ReplaysInv, NEW id, NEW call, OneCall(id, call), SameOrigin(call, calls[id]),
         UNCHANGED <<replays, invokeCtx>>, Len(stack') \in Nat, Len(stack') <= Len(stack),
         \A i \in 1 .. Len(stack') : /\ stack'[i].kind = stack[i].kind /\ stack'[i].id = stack[i].id
                                     /\ stack[i].kind = "replay" => stack'[i].waiting = stack[i].waiting
                                     /\ stack[i].kind = "call" => stack[i].id # id,
         stack' = <<>> <=> Len(stack') = 0,
         stack' = <<>> => ~ Replaying
  PROVE  ReplaysInv'
<1>1. /\ Calls' = Calls
      /\ calls'[id] = call /\ \A i \in Calls \ {id} : calls'[i] = calls[i]
  BY OneCallChanges
<1>2. \A i \in Calls : SameOrigin(calls'[i], calls[i])
  BY <1>1 DEF SameOrigin
<1>3. \A r : TagUsed(r) <=> \E i \in Calls : calls'[i].tag = r
  BY <1>2 DEF TagUsed, SameOrigin
<1>4. replays' = replays /\ invokeCtx' = invokeCtx
  OBVIOUS
<1>5. stack \in Seq(Frame) /\ Len(stack) \in Nat
  BY LenProperties DEF Types
<1>6. StackInv'
  <2>1. \A i \in 1 .. Len(stack') : stack'[i].kind = "call" =>
          stack'[i].id \in Calls' /\ calls'[stack'[i].id].state = "running"
    BY <1>1, <1>5 DEF ReplaysInv, StackInv
  <2>2. \A i, j \in 1 .. Len(stack') :
          stack'[i].kind = "call" /\ stack'[j].kind = "call" /\ stack'[i].id = stack'[j].id => i = j
    BY <1>5 DEF ReplaysInv, StackInv
  <2>3. \A i \in 2 .. Len(stack') : stack'[i].kind = "call"
    BY <1>5 DEF ReplaysInv, StackInv
  <2> QED
    BY <2>1, <2>2, <2>3 DEF StackInv
<1>7. stack' # <<>> => 1 \in 1 .. Len(stack') /\ 1 \in 1 .. Len(stack) /\ stack # <<>>
  BY <1>5
<1>8. Replaying' <=> Replaying
  BY <1>7 DEF Replaying
<1>9. Replaying => /\ stack'[1].id = stack[1].id /\ stack'[1].waiting = stack[1].waiting
                   /\ Len(stack) = 1 => Len(stack') = 1
  <2> SUFFICES ASSUME Replaying PROVE /\ stack'[1].id = stack[1].id
                                      /\ stack'[1].waiting = stack[1].waiting
                                      /\ Len(stack) = 1 => Len(stack') = 1
    OBVIOUS
  <2>1. stack' # <<>> /\ Len(stack') # 0 /\ stack[1].kind = "replay"
    BY DEF Replaying
  <2>2. 1 \in 1 .. Len(stack')
    BY <1>7, <2>1
  <2>3. ASSUME Len(stack) = 1 PROVE Len(stack') = 1
    <3>1. Len(stack') \in Nat /\ Len(stack') <= 1
      BY <2>3
    <3>2. \A n \in Nat : n <= 1 /\ n # 0 => n = 1
      OBVIOUS
    <3> QED
      BY <2>1, <3>1, <3>2, Zenon
  <2> QED
    BY <2>1, <2>2, <2>3
<1>10. ReplayInv'
  BY <1>1, <1>3, <1>4, <1>8, <1>9 DEF ReplaysInv, ReplayInv, TagUsed
<1>11. TagInv'
  BY <1>1, <1>2, <1>4 DEF ReplaysInv, TagInv, SameOrigin
<1>12. SeenInv'
  BY <1>1, <1>3, <1>4 DEF ReplaysInv, SeenInv, TagUsed
<1> QED
  BY <1>6, <1>10, <1>11, <1>12 DEF ReplaysInv

(* What is left of the stack when the innermost function returns. *)
LEMMA Popped ==
  ASSUME Types, stack # <<>>
  PROVE  /\ Pop \in Seq(Frame) /\ Len(Pop) = Len(stack) - 1 /\ Len(stack) \in Nat \ {0}
         /\ \A i \in 1 .. Len(Pop) : Pop[i] = stack[i]
         /\ Pop = <<>> <=> Len(Pop) = 0
         /\ Top \in Frame /\ Top = stack[Len(stack)]
<1>1. stack \in Seq(Frame) /\ Len(stack) \in Nat \ {0}
  BY LenProperties DEF Types
<1>3. /\ Pop \in Seq(Frame) /\ Len(Pop) = Len(stack) - 1
      /\ \A i \in 1 .. Len(Pop) : Pop[i] = stack[i]
  <2> DEFINE n == Len(stack) - 1
  <2>1. n \in Nat /\ \A i \in 1 .. n : stack[i] \in Frame
    BY <1>1
  <2> HIDE DEF n
  <2>2. /\ SubSeq(stack, 1, n) \in Seq(Frame)
        /\ Len(SubSeq(stack, 1, n)) = IF 1 <= n THEN n - 1 + 1 ELSE 0
        /\ \A i \in 1 .. n - 1 + 1 : SubSeq(stack, 1, n)[i] = stack[1 + i - 1]
    BY <2>1, SubSeqProperties
  <2>3. Len(SubSeq(stack, 1, n)) = n /\ \A i \in 1 .. n : SubSeq(stack, 1, n)[i] = stack[i]
    BY <2>1, <2>2
  <2> QED
    BY <2>2, <2>3 DEF n, Pop
<1>4. Pop = <<>> <=> Len(Pop) = 0
  BY <1>3
<1> QED
  BY <1>1, <1>3, <1>4 DEF Top

(* The running call, and the others on the stack. *)
LEMMA TopRuns ==
  ASSUME Types, ReplaysInv, InCall
  PROVE  /\ Top.id \in Calls /\ calls[Top.id] \in Call /\ calls[Top.id].state = "running"
         /\ \A i \in 1 .. Len(stack) - 1 : stack[i].kind = "call" => stack[i].id # Top.id
         /\ Len(stack) = 1 => ~ Replaying
<1>1. stack # <<>> /\ Top.kind = "call"
  BY DEF InCall
<1>2. Len(stack) \in 1 .. Len(stack) /\ Top = stack[Len(stack)] /\ Len(stack) \in Nat \ {0}
  BY <1>1, Popped
<1>3. Top.id \in Calls /\ calls[Top.id].state = "running"
  BY <1>1, <1>2 DEF ReplaysInv, StackInv
<1>4. calls[Top.id] \in Call
  BY <1>3 DEF Types, Calls
<1>5. \A i \in 1 .. Len(stack) - 1 : stack[i].kind = "call" => stack[i].id # Top.id
  <2> SUFFICES ASSUME NEW i \in 1 .. Len(stack) - 1, stack[i].kind = "call", stack[i].id = Top.id
               PROVE  FALSE
    OBVIOUS
  <2>1. i \in 1 .. Len(stack) /\ i # Len(stack)
    BY <1>2
  <2> QED
    BY <1>1, <1>2, <2>1 DEF ReplaysInv, StackInv
<1>6. Len(stack) = 1 => ~ Replaying
  BY <1>1, <1>2 DEF Replaying
<1> QED
  BY <1>3, <1>4, <1>5, <1>6

(* A call returns `call` off the stack to whoever called it. *)
LEMMA LeaveKeeps ==
  ASSUME Types, ReplaysInv, AllAccounted, NEW call, Leave(call), call \in Call,
         SameOrigin(call, calls[Top.id]), Accounted(call),
         stack' \in Seq(Frame), Len(stack') = Len(Pop), stack' = <<>> <=> Pop = <<>>,
         \A i \in 1 .. Len(Pop) : /\ stack'[i].kind = Pop[i].kind /\ stack'[i].id = Pop[i].id
                                  /\ Pop[i].kind = "replay" => stack'[i].waiting = Pop[i].waiting
  PROVE  Types' /\ ReplaysInv' /\ AllAccounted'
<1>1. InCall /\ stack # <<>> /\ UNCHANGED <<replays, invokeCtx, wrapped, tapped>>
  BY DEF Leave, InCall
<1> DEFINE id == Top.id
<1>2. /\ id \in Calls
      /\ \A i \in 1 .. Len(stack) - 1 : stack[i].kind = "call" => stack[i].id # id
      /\ Len(stack) = 1 => ~ Replaying
  BY <1>1, TopRuns
<1>3. OneCall(id, call)
  BY <1>2 DEF OneCall, Leave
<1>4. SameOrigin(call, calls[id])
  OBVIOUS
<1>5. /\ Len(Pop) = Len(stack) - 1 /\ Len(stack) \in Nat \ {0}
      /\ \A i \in 1 .. Len(Pop) : Pop[i] = stack[i]
      /\ Pop = <<>> <=> Len(Pop) = 0
  BY <1>1, Popped
<1> HIDE DEF id
<1>6. AllAccounted' /\ calls' \in Seq(Call)
  BY <1>3, OneCallAccounted, OneCallChanges
<1>7. Types'
  BY <1>1, <1>6 DEF Types
<1>8. /\ Len(stack') \in Nat /\ Len(stack') <= Len(stack)
      /\ \A i \in 1 .. Len(stack') : /\ stack'[i].kind = stack[i].kind /\ stack'[i].id = stack[i].id
                                     /\ stack[i].kind = "replay" => stack'[i].waiting = stack[i].waiting
                                     /\ stack[i].kind = "call" => stack[i].id # id
      /\ stack' = <<>> <=> Len(stack') = 0
      /\ stack' = <<>> => ~ Replaying
  BY <1>2, <1>5
<1>9. ReplaysInv'
  BY <1>1, <1>3, <1>4, <1>8, OneCallReplays
<1> QED
  BY <1>6, <1>7, <1>9

LEMMA PopKeeps ==
  ASSUME Types, stack # <<>>, stack' = Pop
  PROVE  /\ stack' \in Seq(Frame) /\ Len(stack') = Len(Pop) /\ (stack' = <<>> <=> Pop = <<>>)
         /\ \A i \in 1 .. Len(Pop) : /\ stack'[i].kind = Pop[i].kind /\ stack'[i].id = Pop[i].id
                                     /\ Pop[i].kind = "replay" => stack'[i].waiting = Pop[i].waiting
  BY Popped

-----------------------------------------------------------------------------
(* Steps that change one call keep the table of calls in flight true, if   *)
(* a call that is over leaves it.                                          *)
InFlight(call) == call.state \in {"running", "promise"}

LEMMA OneCallInflight ==
  ASSUME Types, InflightIsTrue, NEW id, NEW call, OneCall(id, call),
         InFlight(call) => InFlight(calls[id]),
         inflight' = IF InFlight(call) THEN inflight ELSE inflight \ {id}
  PROVE  InflightIsTrue'
<1>1. /\ Len(calls') = Len(calls) /\ Calls' = Calls /\ id \in Calls
      /\ calls'[id] = call /\ \A i \in Calls \ {id} : calls'[i] = calls[i]
  BY OneCallChanges DEF OneCall
<1>2. Running' = IF InFlight(call) THEN Running ELSE Running \ {id}
  BY <1>1 DEF Running, InFlight
<1> QED
  BY <1>1, <1>2 DEF InflightIsTrue

CallsInv == Types /\ ReplaysInv /\ AllAccounted /\ InflightIsTrue

(* How a running call may return. *)
LEMMA ReturnsKeep ==
  ASSUME CallsInv, NEW call, Leave(call), call \in Call, SameOrigin(call, calls[Top.id]),
         Accounted(call),
         stack' \in Seq(Frame), Len(stack') = Len(Pop), stack' = <<>> <=> Pop = <<>>,
         \A i \in 1 .. Len(Pop) : /\ stack'[i].kind = Pop[i].kind /\ stack'[i].id = Pop[i].id
                                  /\ Pop[i].kind = "replay" => stack'[i].waiting = Pop[i].waiting,
         inflight' = IF InFlight(call) THEN inflight ELSE inflight \ {Top.id}
  PROVE  CallsInv'
<1>1. Types' /\ ReplaysInv' /\ AllAccounted'
  BY LeaveKeeps DEF CallsInv
<1>2. Top.id \in Calls /\ calls[Top.id].state = "running"
  BY TopRuns DEF CallsInv, Leave
<1>3. OneCall(Top.id, call) /\ InFlight(calls[Top.id])
  BY <1>2 DEF OneCall, Leave, InFlight
<1>4. InflightIsTrue'
  BY <1>3, OneCallInflight DEF CallsInv
<1> QED
  BY <1>1, <1>4 DEF CallsInv

LEMMA EndedCall ==
  ASSUME NEW call \in Call
  PROVE  /\ Ended(call) \in Call /\ SameOrigin(Ended(call), call)
         /\ Ended(call).ends = call.ends + 1
         /\ Ended(call).state = call.state /\ Ended(call).heard = call.heard
         /\ Ended(call).late = call.late /\ Ended(call).settled = call.settled
  BY DEF Ended, Call, SameOrigin

LEMMA StateOfCall ==
  ASSUME NEW call \in Call, NEW st \in States
  PROVE  LET next == [call EXCEPT !.state = st] IN
         /\ next \in Call /\ SameOrigin(next, call) /\ next.state = st
         /\ next.ends = call.ends /\ next.heard = call.heard
         /\ next.late = call.late /\ next.settled = call.settled
  BY DEF Call, SameOrigin

(* The running call has not ended. *)
LEMMA TopIsFresh ==
  ASSUME CallsInv, InCall
  PROVE  /\ Top.id \in Calls /\ calls[Top.id] \in Call /\ calls[Top.id].state = "running"
         /\ calls[Top.id].ends = 0 /\ calls[Top.id].heard = 0
         /\ ~ calls[Top.id].late /\ ~ calls[Top.id].settled
  BY TopRuns DEF CallsInv, AllAccounted, Accounted

LEMMA ReturnPromiseKeeps == ASSUME CallsInv, ReturnPromise PROVE CallsInv'
<1> DEFINE was == calls[Top.id]
           call == [was EXCEPT !.state = "promise"]
<1>1. Leave(call) /\ stack' = Pop /\ inflight' = inflight /\ InCall /\ stack # <<>>
  BY DEF ReturnPromise, Leave, InCall
<1>2. was \in Call /\ was.ends = 0 /\ was.heard = 0 /\ ~ was.late /\ ~ was.settled
  BY <1>1, TopIsFresh
<1> HIDE DEF was
<1>3. call \in Call /\ SameOrigin(call, was) /\ Accounted(call) /\ InFlight(call)
  BY <1>2 DEF Call, SameOrigin, Accounted, InFlight, States
<1> HIDE DEF call
<1> QED
  BY <1>1, <1>3, ReturnsKeep, PopKeeps DEF was, CallsInv

LEMMA ReturnValueKeeps == ASSUME CallsInv, ReturnValue PROVE CallsInv'
<1> DEFINE was == calls[Top.id]
           done == [was EXCEPT !.state = "done"]
           call == Ended(done)
<1>1. Leave(call) /\ stack' = Pop /\ inflight' = inflight \ {Top.id} /\ InCall /\ stack # <<>>
  BY DEF ReturnValue, Leave, InCall
<1>2. was \in Call /\ was.ends = 0 /\ was.heard = 0 /\ ~ was.late /\ ~ was.settled
  BY <1>1, TopIsFresh
<1> HIDE DEF was
<1>3. call \in Call /\ SameOrigin(call, was) /\ Accounted(call) /\ ~ InFlight(call)
  <2>1. /\ done \in Call /\ SameOrigin(done, was) /\ done.state = "done"
        /\ done.ends = 0 /\ done.heard = 0 /\ ~ done.late /\ ~ done.settled
    BY <1>2, StateOfCall DEF States
  <2> HIDE DEF done
  <2>2. /\ call \in Call /\ SameOrigin(call, was) /\ call.state = "done"
        /\ call.ends = 1 /\ call.heard = 0 /\ ~ call.late /\ ~ call.settled
    BY <2>1, EndedCall DEF SameOrigin
  <2> QED
    BY <2>2 DEF Accounted, InFlight
<1> HIDE DEF call
<1> QED
  BY <1>1, <1>3, ReturnsKeep, PopKeeps DEF was, CallsInv

LEMMA ThrowKeeps == ASSUME CallsInv, Throw PROVE CallsInv'
<1> DEFINE was == calls[Top.id]
           done == [was EXCEPT !.state = "done"]
           call == Ended(done)
<1>1. Leave(call) /\ inflight' = inflight \ {Top.id} /\ InCall /\ stack # <<>>
  BY DEF Throw, Leave, InCall
<1>2. was \in Call /\ was.ends = 0 /\ was.heard = 0 /\ ~ was.late /\ ~ was.settled
  BY <1>1, TopIsFresh
<1> HIDE DEF was
<1>3. call \in Call /\ SameOrigin(call, was) /\ Accounted(call) /\ ~ InFlight(call)
  <2>1. /\ done \in Call /\ SameOrigin(done, was) /\ done.state = "done"
        /\ done.ends = 0 /\ done.heard = 0 /\ ~ done.late /\ ~ done.settled
    BY <1>2, StateOfCall DEF States
  <2> HIDE DEF done
  <2>2. /\ call \in Call /\ SameOrigin(call, was) /\ call.state = "done"
        /\ call.ends = 1 /\ call.heard = 0 /\ ~ call.late /\ ~ call.settled
    BY <2>1, EndedCall DEF SameOrigin
  <2> QED
    BY <2>2 DEF Accounted, InFlight
<1> HIDE DEF call
<1>4. CASE ~ (Pop # <<>> /\ Pop[Len(Pop)].kind = "replay")
  <2>1. stack' = Pop
    BY <1>4 DEF Throw
  <2> QED
    BY <1>1, <1>3, <2>1, ReturnsKeep, PopKeeps DEF was, CallsInv
<1>5. CASE Pop # <<>> /\ Pop[Len(Pop)].kind = "replay"
  <2> DEFINE last == [Pop[Len(Pop)] EXCEPT !.threw = TRUE]
  <2>1. Pop \in Seq(Frame) /\ Len(Pop) \in Nat \ {0} /\ Pop[Len(Pop)] \in Frame
    <3>1. Pop \in Seq(Frame) /\ (Pop = <<>> <=> Len(Pop) = 0)
      BY <1>1, Popped DEF CallsInv
    <3> HIDE DEF Pop
    <3> QED
      BY <1>5, <3>1
  <2>2. stack' = [Pop EXCEPT ![Len(Pop)] = last]
    BY <1>5 DEF Throw
  <2>3. last \in Frame /\ last.kind = "replay" /\ last.id = Pop[Len(Pop)].id
                       /\ last.waiting = Pop[Len(Pop)].waiting
    BY <1>5, <2>1 DEF Frame
  <2> HIDE DEF last, Pop
  <2>4. /\ stack' \in Seq(Frame) /\ Len(stack') = Len(Pop)
        /\ \A i \in 1 .. Len(Pop) : stack'[i] = IF i = Len(Pop) THEN last ELSE Pop[i]
    BY <2>1, <2>2, <2>3, ExceptSeq
  <2>5. stack' # <<>>
    BY <2>1, <2>4
  <2>6. \A i \in 1 .. Len(Pop) : /\ stack'[i].kind = Pop[i].kind /\ stack'[i].id = Pop[i].id
                                 /\ Pop[i].kind = "replay" => stack'[i].waiting = Pop[i].waiting
    BY <1>5, <2>3, <2>4
  <2> QED
    BY <1>1, <1>3, <1>5, <2>4, <2>5, <2>6, ReturnsKeep DEF was
<1> QED
  BY <1>4, <1>5

LEMMA ReturnStreamKeeps ==
  ASSUME CallsInv, NEW heard \in 0 .. Listeners, ReturnStream(heard) PROVE CallsInv'
<1> DEFINE was == calls[Top.id]
           opened == [was EXCEPT !.state = "stream", !.heard = heard]
           call == IF heard < Listeners THEN Ended(opened) ELSE opened
<1>1. Leave(call) /\ stack' = Pop /\ inflight' = inflight \ {Top.id} /\ InCall /\ stack # <<>>
  BY DEF ReturnStream, Leave, InCall
<1>2. was \in Call /\ was.ends = 0 /\ was.heard = 0 /\ ~ was.late /\ ~ was.settled
  BY <1>1, TopIsFresh
<1> HIDE DEF was
<1>3. call \in Call /\ SameOrigin(call, was) /\ Accounted(call) /\ ~ InFlight(call)
  <2>1. /\ opened \in Call /\ SameOrigin(opened, was) /\ opened.state = "stream"
        /\ opened.ends = 0 /\ opened.heard = heard /\ ~ opened.late /\ ~ opened.settled
    BY <1>2 DEF Call, SameOrigin, States
  <2> HIDE DEF opened
  <2>2. /\ call \in Call /\ SameOrigin(call, was) /\ call.state = "stream"
        /\ call.ends = IF heard < Listeners THEN 1 ELSE 0
        /\ call.heard = heard /\ ~ call.late /\ ~ call.settled
    BY <2>1, EndedCall DEF SameOrigin
  <2> HIDE DEF call
  <2> QED
    BY <2>2 DEF Accounted, InFlight, Listeners
<1> HIDE DEF call
<1> QED
  BY <1>1, <1>3, ReturnsKeep, PopKeeps DEF was, CallsInv

(* What happens to a call that is not on the stack. *)
LEMMA AsideKeeps ==
  ASSUME CallsInv, NEW id \in Calls, NEW call \in Call, calls' = [calls EXCEPT ![id] = call],
         SameOrigin(call, calls[id]), Accounted(call), calls[id].state # "running",
         UNCHANGED <<wrapped, tapped, invokeCtx, replays, stack>>,
         InFlight(call) => InFlight(calls[id]),
         inflight' = IF InFlight(call) THEN inflight ELSE inflight \ {id}
  PROVE  CallsInv'
<1>1. OneCall(id, call)
  BY DEF OneCall
<1>2. AllAccounted' /\ InflightIsTrue'
  BY <1>1, OneCallAccounted, OneCallInflight DEF CallsInv
<1>3. Types'
  BY <1>1, OneCallChanges DEF CallsInv, Types
<1>4. stack' = stack /\ Len(stack) \in Nat /\ (stack = <<>> <=> Len(stack) = 0)
  BY LenProperties DEF CallsInv, Types
<1>5. \A i \in 1 .. Len(stack) : stack[i].kind = "call" => stack[i].id # id
  BY DEF CallsInv, ReplaysInv, StackInv
<1>6. stack = <<>> => ~ Replaying
  BY DEF Replaying
<1>7. ReplaysInv'
  BY <1>1, <1>4, <1>5, <1>6, OneCallReplays DEF CallsInv
<1> QED
  BY <1>2, <1>3, <1>7 DEF CallsInv

LEMMA SettleKeeps == ASSUME CallsInv, NEW id \in Calls, Settle(id) PROVE CallsInv'
<1> DEFINE was == calls[id]
           done == [was EXCEPT !.state = "done"]
           call == Ended(done)
<1>1. was \in Call /\ Accounted(was) /\ was.state = "promise"
  BY DEF CallsInv, Types, Calls, AllAccounted, Settle
<1>2. /\ calls' = [calls EXCEPT ![id] = call] /\ inflight' = inflight \ {id}
      /\ UNCHANGED <<wrapped, tapped, invokeCtx, replays, stack>>
  BY DEF Settle
<1> HIDE DEF was
<1>3. /\ done \in Call /\ SameOrigin(done, was) /\ done.state = "done"
      /\ done.ends = 0 /\ done.heard = 0 /\ ~ done.late /\ ~ done.settled
  <2>1. was.ends = 0 /\ was.heard = 0 /\ ~ was.late /\ ~ was.settled
    BY <1>1 DEF Accounted
  <2> QED
    BY <1>1, <2>1, StateOfCall DEF States
<1> HIDE DEF done
<1>4. /\ call \in Call /\ SameOrigin(call, was) /\ call.state = "done"
      /\ call.ends = 1 /\ call.heard = 0 /\ ~ call.late /\ ~ call.settled
  BY <1>3, EndedCall DEF SameOrigin
<1> HIDE DEF call
<1>5. Accounted(call) /\ ~ InFlight(call)
  BY <1>4 DEF Accounted, InFlight
<1> QED
  BY <1>1, <1>2, <1>4, <1>5, AsideKeeps DEF was

(* settle() of monitorStream, on a stream that just ended or closed. *)
LEMMA SettledCall ==
  ASSUME NEW call \in Call
  PROVE  /\ SettleOnce(call) \in Call /\ SameOrigin(SettleOnce(call), call)
         /\ SettleOnce(call).settled /\ SettleOnce(call).state = call.state
         /\ SettleOnce(call).heard = call.heard /\ SettleOnce(call).late = call.late
         /\ call.settled => SettleOnce(call).ends = call.ends
         /\ ~ call.settled => SettleOnce(call).ends = call.ends + 1
<1> DEFINE marked == [call EXCEPT !.settled = TRUE]
<1>1. /\ marked \in Call /\ SameOrigin(marked, call) /\ marked.settled
      /\ marked.state = call.state /\ marked.heard = call.heard
      /\ marked.late = call.late /\ marked.ends = call.ends
  BY DEF Call, SameOrigin
<1> HIDE DEF marked
<1>2. CASE call.settled
  BY <1>2 DEF SettleOnce, SameOrigin
<1>3. CASE ~ call.settled
  <2>1. SettleOnce(call) = Ended(marked)
    BY <1>3 DEF SettleOnce, marked
  <2> QED
    BY <1>1, <1>3, <2>1, EndedCall DEF SameOrigin
<1> QED
  BY <1>2, <1>3

LEMMA StreamKeeps ==
  ASSUME CallsInv, NEW id \in Calls,
         StreamData(id) \/ StreamError(id) \/ StreamEnd(id) \/ StreamClose(id)
  PROVE  CallsInv'
<1> DEFINE was == calls[id]
<1>1. was \in Call /\ Accounted(was) /\ was.state \in {"stream", "over"}
  BY DEF CallsInv, Types, Calls, AllAccounted, StreamData, StreamError, StreamEnd, StreamEnds, StreamClose
<1>2. inflight \ {id} = inflight
  BY <1>1 DEF CallsInv, InflightIsTrue, Running
<1>3. ASSUME NEW call \in Call, StreamStep(id, call), SameOrigin(call, was), Accounted(call),
             call.state \in {"stream", "over", "closed"}
      PROVE  CallsInv'
  <2>1. /\ calls' = [calls EXCEPT ![id] = call] /\ inflight' = inflight
        /\ UNCHANGED <<wrapped, tapped, invokeCtx, replays, stack>>
    BY <1>3 DEF StreamStep
  <2>2. ~ InFlight(call)
    BY <1>3 DEF InFlight
  <2> QED
    BY <1>1, <1>2, <1>3, <2>1, <2>2, AsideKeeps
<1>4. CASE StreamData(id)
  <2> DEFINE call == IF was.heard >= 1
                       THEN [was EXCEPT !.items = @ + 1, !.late = @ \/ was.ends > 0]
                       ELSE was
  <2>1. StreamStep(id, call) /\ was.state = "stream"
    BY <1>4 DEF StreamData
  <2> HIDE DEF was
  <2>2. /\ call \in Call /\ SameOrigin(call, was) /\ call.state = "stream"
        /\ call.ends = was.ends /\ call.heard = was.heard /\ call.settled = was.settled
        /\ was.heard < 1 => call.late = was.late
        /\ ~ was.late /\ was.ends = 0 => ~ call.late
    <3>1. CASE was.heard >= 1
      <4> DEFINE item == [was EXCEPT !.items = @ + 1]
                 late == was.late \/ was.ends > 0
      <4>1. /\ item \in Call /\ SameOrigin(item, was) /\ item.state = "stream"
            /\ item.ends = was.ends /\ item.heard = was.heard /\ item.settled = was.settled
        BY <1>1, <2>1 DEF Call, SameOrigin
      <4>2. call = [item EXCEPT !.late = late] /\ late \in BOOLEAN
        BY <1>1, <3>1 DEF Call
      <4> HIDE DEF item, late
      <4>3. /\ call \in Call /\ SameOrigin(call, item) /\ call.state = "stream" /\ call.late = late
            /\ call.ends = item.ends /\ call.heard = item.heard /\ call.settled = item.settled
        BY <4>1, <4>2 DEF Call, SameOrigin
      <4>4. ~ was.late /\ was.ends = 0 => late = FALSE
        BY DEF late
      <4>5. was.heard \in 0 .. Listeners
        BY <1>1 DEF Call
      <4> HIDE DEF call
      <4>6. ~ was.late /\ was.ends = 0 => ~ call.late
        BY <4>3, <4>4
      <4>7. ~ (was.heard < 1)
        BY <3>1, <4>5 DEF Listeners
      <4> QED
        BY <4>1, <4>3, <4>6, <4>7 DEF SameOrigin
    <3>2. CASE ~ (was.heard >= 1)
      <4>1. call = was
        BY <3>2
      <4> HIDE DEF call
      <4> QED
        BY <1>1, <2>1, <3>2, <4>1 DEF SameOrigin
    <3> QED
      BY <3>1, <3>2
  <2> HIDE DEF call
  <2>3. was.heard \in 0 .. Listeners
    BY <1>1 DEF Call
  <2>4. Accounted(call)
    BY <1>1, <2>1, <2>2, <2>3 DEF Accounted, Listeners
  <2> QED
    BY <1>3, <2>1, <2>2, <2>4
<1>5. ASSUME NEW listener \in {2, 3}, StreamEnds(id, listener) PROVE CallsInv'
  <2> DEFINE over == [was EXCEPT !.state = "over"]
             call == IF over.heard >= listener THEN SettleOnce(over) ELSE over
  <2>1. StreamStep(id, call) /\ was.state = "stream"
    BY <1>5 DEF StreamEnds
  <2> HIDE DEF was
  <2>2. /\ over \in Call /\ SameOrigin(over, was) /\ over.state = "over"
        /\ over.ends = was.ends /\ over.heard = was.heard
        /\ over.late = was.late /\ over.settled = was.settled
    BY <1>1, StateOfCall DEF States
  <2> HIDE DEF over
  <2>3. /\ call \in Call /\ SameOrigin(call, was) /\ call.state = "over"
        /\ call.heard = was.heard /\ call.late = was.late
        /\ was.heard >= listener => call.settled
        /\ ~ (was.heard >= listener) => call.settled = was.settled /\ call.ends = was.ends
        /\ was.heard >= listener /\ was.settled => call.ends = was.ends
        /\ was.heard >= listener /\ ~ was.settled => call.ends = was.ends + 1
    <3>1. CASE was.heard >= listener
      <4>1. call = SettleOnce(over)
        BY <2>2, <3>1
      <4> HIDE DEF call
      <4> QED
        BY <2>2, <3>1, <4>1, SettledCall DEF SameOrigin
    <3>2. CASE ~ (was.heard >= listener)
      <4>1. call = over
        BY <2>2, <3>2
      <4> HIDE DEF call
      <4> QED
        BY <2>2, <3>2, <4>1 DEF SameOrigin
    <3> QED
      BY <3>1, <3>2
  <2> HIDE DEF call
  <2>4. was.heard \in 0 .. Listeners /\ ~ was.settled
    BY <1>1, <2>1 DEF Call, Accounted
  <2>5. Accounted(call)
    BY <1>1, <2>1, <2>3, <2>4 DEF Accounted, Listeners
  <2> QED
    BY <1>3, <2>1, <2>3, <2>5
<1>6. CASE StreamClose(id)
  <2> DEFINE closed == [was EXCEPT !.state = "closed"]
             call == IF closed.heard >= 4 THEN SettleOnce(closed) ELSE closed
  <2>1. StreamStep(id, call)
    BY <1>6 DEF StreamClose
  <2> HIDE DEF was
  <2>2. /\ closed \in Call /\ SameOrigin(closed, was) /\ closed.state = "closed"
        /\ closed.ends = was.ends /\ closed.heard = was.heard
        /\ closed.late = was.late /\ closed.settled = was.settled
    BY <1>1, StateOfCall DEF States
  <2> HIDE DEF closed
  <2>3. /\ call \in Call /\ SameOrigin(call, was) /\ call.state = "closed"
        /\ call.heard = was.heard /\ call.late = was.late
        /\ was.heard >= 4 => call.settled
        /\ ~ (was.heard >= 4) => call.settled = was.settled /\ call.ends = was.ends
        /\ was.heard >= 4 /\ was.settled => call.ends = was.ends
        /\ was.heard >= 4 /\ ~ was.settled => call.ends = was.ends + 1
    <3>1. CASE was.heard >= 4
      <4>1. call = SettleOnce(closed)
        BY <2>2, <3>1
      <4> HIDE DEF call
      <4> QED
        BY <2>2, <3>1, <4>1, SettledCall DEF SameOrigin
    <3>2. CASE ~ (was.heard >= 4)
      <4>1. call = closed
        BY <2>2, <3>2
      <4> HIDE DEF call
      <4> QED
        BY <2>2, <3>2, <4>1 DEF SameOrigin
    <3> QED
      BY <3>1, <3>2
  <2> HIDE DEF call
  <2>4. was.heard \in 0 .. Listeners
    BY <1>1 DEF Call
  <2>5. Accounted(call)
    BY <1>1, <2>3, <2>4 DEF Accounted, Listeners
  <2> QED
    BY <1>3, <2>1, <2>3, <2>5
<1> QED
  BY <1>4, <1>5, <1>6 DEF StreamError, StreamEnd

-----------------------------------------------------------------------------
(* A call that the table evicts has InflightMax younger ones beside it. *)
LEMMA Evicted ==
  ASSUME NEW n \in Nat, NEW ids \in SUBSET (1 .. n), NEW max \in Nat,
         NEW i \in ids, i \notin Capped(ids, max)
  PROVE  n - i >= max
<1>1. Cardinality(ids) > max /\ \A j \in ids : i <= j
  BY DEF Capped, Oldest
<1>2. ids \subseteq i .. n /\ i \in 1 .. n
  BY <1>1
<1>3. IsFiniteSet(i .. n) /\ Cardinality(i .. n) = n - i + 1
  BY <1>2, FS_Interval
<1>4. Cardinality(ids) <= n - i + 1 /\ Cardinality(ids) \in Nat
  BY <1>2, <1>3, FS_Subset, FS_CardinalityType
<1> QED
  BY <1>1, <1>2, <1>4

LEMMA StartInflight ==
  ASSUME Types, InflightIsTrue, NEW call \in Call, call.state = "running",
         calls' = Append(calls, call),
         inflight' = Capped(inflight \cup {Len(calls) + 1}, InflightMax)
  PROVE  InflightIsTrue'
<1> DEFINE n == Len(calls) + 1
           ids == inflight \cup {n}
<1>1. Len(calls) \in Nat /\ calls \in Seq(Call)
  BY LenProperties DEF Types
<1>2. /\ Len(calls') = n /\ calls'[n] = call
      /\ \A i \in 1 .. Len(calls) : calls'[i] = calls[i]
  BY <1>1, AppendProperties
<1>3. Calls' = Calls \cup {n} /\ n \notin Calls
  BY <1>1, <1>2 DEF Calls
<1>4. Running' = Running \cup {n}
  BY <1>2, <1>3 DEF Running, Calls
<1>5. ids \subseteq Running' /\ ids \subseteq 1 .. n /\ n \in Nat /\ Running \subseteq 1 .. Len(calls)
  <2>1. Running \subseteq 1 .. Len(calls)
    BY DEF Running, Calls
  <2>2. inflight \subseteq Running
    BY DEF InflightIsTrue
  <2>3. ids \subseteq Running'
    BY <1>4, <2>2
  <2>4. n \in Nat /\ n \in 1 .. n /\ \A i \in 1 .. Len(calls) : i \in 1 .. n
    BY <1>1
  <2> HIDE DEF n
  <2>5. inflight \subseteq 1 .. n
    BY <2>1, <2>2, <2>4
  <2> QED
    BY <2>1, <2>3, <2>4, <2>5
<1>6. inflight' \subseteq ids
  BY DEF Capped
<1>7. ASSUME NEW i \in Running' \ inflight' PROVE Len(calls') - i >= InflightMax
  <2>1. CASE i \in ids
    <3>1. i \notin Capped(ids, InflightMax)
      BY <1>7
    <3> HIDE DEF ids, n
    <3> QED
      BY <1>2, <1>5, <2>1, <3>1, Evicted, LimitsAssumption
  <2>2. CASE i \notin ids
    <3>1. i \in Running \ inflight /\ i \in 1 .. Len(calls)
      BY <1>4, <1>5, <1>7, <2>2
    <3>2. Len(calls) - i >= InflightMax
      BY <3>1 DEF InflightIsTrue
    <3> QED
      BY <1>1, <1>2, <3>1, <3>2, LimitsAssumption
  <2> QED
    BY <2>1, <2>2
<1> QED
  BY <1>5, <1>6, <1>7 DEF InflightIsTrue

LEMMA StartKeeps ==
  ASSUME CallsInv, NEW c \in Clients, NEW m \in MethodsOf[c], Start(c, m) PROVE CallsInv'
<1> DEFINE n == Len(calls) + 1
           within == IF stack = <<>> \/ stack[1].kind = "call" THEN 0 ELSE stack[1].id
           call == [method |-> m, tag |-> TagFor(m), state |-> "running", within |-> within,
                    ends |-> 0, late |-> FALSE, items |-> 0, heard |-> 0, settled |-> FALSE]
           base == IF InReplay THEN [stack EXCEPT ![Len(stack)].waiting = FALSE] ELSE stack
           frame == [kind |-> "call", id |-> n]
<1>1. /\ calls' = Append(calls, call)
      /\ inflight' = Capped(inflight \cup {n}, InflightMax)
      /\ stack' = Append(base, frame)
      /\ invokeCtx' = IF TagFor(m) # 0 THEN 0 ELSE invokeCtx
      /\ UNCHANGED <<wrapped, tapped, replays>> /\ Runs(c, m)
  BY DEF Start
<1>2. /\ calls \in Seq(Call) /\ Len(calls) \in Nat /\ invokeCtx \in Nat /\ n \in Nat
      /\ stack \in Seq(Frame) /\ Len(stack) \in Nat
      /\ replays \in Seq(Replay) /\ Len(replays) \in Nat
  BY LenProperties DEF CallsInv, Types
<1>3. Replaying => stack[1] \in Frame /\ stack[1].id \in Nat
  BY <1>2 DEF Replaying, Frame
<1>4. /\ TagFor(m) \in {0, invokeCtx}
      /\ TagFor(m) # 0 => /\ invokeCtx # 0 /\ TagFor(m) = invokeCtx
                          /\ replays[invokeCtx].method = m
      /\ invokeCtx # 0 /\ replays[invokeCtx].method = m => TagFor(m) = invokeCtx
  BY DEF TagFor
<1>5. within \in Nat /\ (Replaying => within = stack[1].id)
  <2>1. stack # <<>> => stack[1] \in Frame
    BY <1>2
  <2>2. stack # <<>> => stack[1].id \in Nat
    BY <2>1 DEF Frame
  <2> QED
    BY <2>2 DEF Replaying
<1>6. call \in Call /\ call.state = "running" /\ call.tag = TagFor(m) /\ call.method = m
                    /\ call.within = within /\ Accounted(call)
  <2>1. m \in Methods /\ TagFor(m) \in Nat
    BY <1>2, <1>4 DEF Methods
  <2> QED
    BY <1>5, <2>1 DEF Call, States, Accounted, Listeners
<1> HIDE DEF call, within
<1>7. /\ calls' \in Seq(Call) /\ Len(calls') = n /\ calls'[n] = call
      /\ \A i \in 1 .. Len(calls) : calls'[i] = calls[i]
  BY <1>1, <1>2, <1>6, AppendProperties
<1>8. Calls' = Calls \cup {n} /\ n \notin Calls /\ \A i \in Calls : calls'[i] = calls[i]
  BY <1>2, <1>7 DEF Calls
<1>9. AllAccounted' /\ InflightIsTrue'
  <2>1. AllAccounted'
    BY <1>6, <1>7, <1>8 DEF CallsInv, AllAccounted
  <2> QED
    BY <1>1, <1>6, <2>1, StartInflight DEF CallsInv
<1>10. /\ base \in Seq(Frame) /\ Len(base) = Len(stack)
       /\ \A i \in 1 .. Len(stack) : base[i].kind = stack[i].kind /\ base[i].id = stack[i].id
       /\ \A i \in 1 .. Len(stack) :
            base[i].waiting = IF InReplay /\ i = Len(stack) THEN FALSE ELSE stack[i].waiting
  <2>1. CASE ~ InReplay
    BY <1>2, <2>1
  <2>2. CASE InReplay
    <3> DEFINE last == [stack[Len(stack)] EXCEPT !.waiting = FALSE]
    <3>1. stack # <<>> /\ stack[Len(stack)].kind = "replay"
      BY <2>2 DEF InReplay, Top
    <3>2. Len(stack) \in 1 .. Len(stack) /\ stack[Len(stack)] \in Frame
      BY <1>2, <3>1
    <3>3. last \in Frame /\ last.kind = "replay" /\ last.id = stack[Len(stack)].id /\ last.waiting = FALSE
      BY <3>1, <3>2 DEF Frame
    <3>4. base = [stack EXCEPT ![Len(stack)] = last]
      BY <2>2
    <3> HIDE DEF last, base
    <3>5. /\ base \in Seq(Frame) /\ Len(base) = Len(stack)
          /\ \A i \in 1 .. Len(stack) : base[i] = IF i = Len(stack) THEN last ELSE stack[i]
      BY <1>2, <3>2, <3>3, <3>4, ExceptSeq
    <3> QED
      BY <2>2, <3>1, <3>3, <3>5
  <2> QED
    BY <2>1, <2>2
<1> HIDE DEF base
<1>11. frame \in Frame /\ frame.kind = "call" /\ frame.id = n
  BY <1>2 DEF Frame
<1> HIDE DEF frame
<1>12. /\ stack' \in Seq(Frame) /\ Len(stack') = Len(stack) + 1 /\ stack' # <<>>
       /\ stack'[Len(stack) + 1] = frame
       /\ \A i \in 1 .. Len(stack) : stack'[i] = base[i]
  BY <1>1, <1>10, <1>11, AppendProperties
<1>13. Types'
  BY <1>1, <1>2, <1>4, <1>7, <1>12 DEF CallsInv, Types
<1> HIDE DEF n
<1>14. StackInv'
  <2>1. \A i \in 1 .. Len(stack) : stack'[i].kind = "call" =>
          stack'[i].id \in Calls /\ calls[stack'[i].id].state = "running"
    BY <1>10, <1>12 DEF CallsInv, ReplaysInv, StackInv
  <2>2. \A i \in 1 .. Len(stack') : i \in 1 .. Len(stack) \/ i = Len(stack) + 1
    BY <1>2, <1>12
  <2>3. \A i \in 1 .. Len(stack') : stack'[i].kind = "call" =>
          stack'[i].id \in Calls' /\ calls'[stack'[i].id].state = "running"
    BY <1>6, <1>7, <1>8, <1>11, <1>12, <2>1, <2>2
  <2>4. \A i, j \in 1 .. Len(stack) :
          stack'[i].kind = "call" /\ stack'[j].kind = "call" /\ stack'[i].id = stack'[j].id => i = j
    BY <1>10, <1>12 DEF CallsInv, ReplaysInv, StackInv
  <2>5. \A i, j \in 1 .. Len(stack') :
          stack'[i].kind = "call" /\ stack'[j].kind = "call" /\ stack'[i].id = stack'[j].id => i = j
    BY <1>8, <1>11, <1>12, <2>1, <2>2, <2>4
  <2>6. \A i \in 2 .. Len(stack') : stack'[i].kind = "call"
    <3> SUFFICES ASSUME NEW i \in 2 .. Len(stack') PROVE stack'[i].kind = "call"
      OBVIOUS
    <3>1. CASE i = Len(stack) + 1
      BY <1>11, <1>12, <3>1
    <3>2. CASE i # Len(stack) + 1
      <4>1. i \in 1 .. Len(stack) /\ i \in 2 .. Len(stack)
        BY <1>2, <1>12, <3>2
      <4>2. stack[i].kind = "call"
        BY <4>1 DEF CallsInv, ReplaysInv, StackInv
      <4> QED
        BY <1>10, <1>12, <4>1, <4>2
    <3> QED
      BY <3>1, <3>2
  <2> QED
    BY <2>3, <2>5, <2>6 DEF StackInv
<1>15. Replaying' <=> Replaying
  <2>1. CASE stack = <<>>
    <3>1. Len(stack) = 0
      BY <2>1
    <3> QED
      BY <1>11, <1>12, <2>1, <3>1 DEF Replaying
  <2>2. CASE stack # <<>>
    <3>1. 1 \in 1 .. Len(stack)
      BY <1>2, <2>2
    <3> QED
      BY <1>10, <1>12, <2>2, <3>1 DEF Replaying
  <2> QED
    BY <2>1, <2>2
<1>16. Replaying => 1 \in 1 .. Len(stack) /\ stack'[1].id = stack[1].id
  BY <1>2, <1>10, <1>12 DEF Replaying
<1>17. /\ Replaying => stack[1].id = Len(replays) /\ Len(replays) # 0
                       /\ replays[Len(replays)].outcome = "running"
       /\ invokeCtx # 0 => Replaying /\ invokeCtx = stack[1].id /\ ~ TagUsed(invokeCtx)
       /\ Replaying /\ stack[1].waiting => Len(stack) = 1 /\ invokeCtx = stack[1].id
       /\ Replaying /\ ~ stack[1].waiting /\ replays[Len(replays)].method \notin Decorated
            => TagUsed(Len(replays))
  BY DEF CallsInv, ReplaysInv, ReplayInv
<1>18. \A r : TagUsed(r)' <=> TagUsed(r) \/ r = TagFor(m)
  BY <1>6, <1>7, <1>8 DEF TagUsed
<1>19. ReplayInv'
  <2>1. Replaying' => stack'[1].id = Len(replays') /\ Len(replays') # 0
                      /\ replays'[Len(replays')].outcome = "running"
    BY <1>1, <1>15, <1>16, <1>17
  <2>2. invokeCtx' # 0 => Replaying' /\ invokeCtx' = stack'[1].id /\ ~ TagUsed(invokeCtx)'
    <3> SUFFICES ASSUME invokeCtx' # 0
                 PROVE  Replaying' /\ invokeCtx' = stack'[1].id /\ ~ TagUsed(invokeCtx)'
      OBVIOUS
    <3>1. TagFor(m) = 0 /\ invokeCtx' = invokeCtx /\ invokeCtx # 0
      BY <1>1
    <3> QED
      BY <1>6, <1>7, <1>8, <1>15, <1>16, <1>17, <3>1 DEF TagUsed
  <2>3. ASSUME Replaying, stack[1].waiting PROVE InReplay /\ Len(stack) = 1 /\ Top = stack[1]
    BY <1>17, <2>3 DEF InReplay, Replaying, Top
  <2>4. Replaying' => ~ stack'[1].waiting
    BY <1>10, <1>12, <1>15, <1>16, <2>3
  <2>5. ASSUME Replaying, replays[Len(replays)].method \notin Decorated
        PROVE  TagUsed(Len(replays))'
    <3>1. CASE ~ stack[1].waiting
      BY <1>1, <1>17, <1>18, <2>5, <3>1
    <3>2. CASE stack[1].waiting
      <4>1. InReplay /\ Top = stack[1] /\ Top.id = Len(replays) /\ ~ InCall /\ stack # <<>>
        BY <1>17, <2>3, <2>5, <3>2 DEF InCall, InReplay
      <4>2. replays[Len(replays)].method = m
        BY <1>1, <2>5, <4>1 DEF Runs, Caller
      <4>3. invokeCtx = Len(replays) /\ invokeCtx # 0
        BY <1>17, <2>5, <3>2
      <4>4. TagFor(m) = Len(replays)
        BY <1>4, <4>2, <4>3
      <4> QED
        BY <1>1, <1>6, <1>7, <1>8, <4>4 DEF TagUsed
    <3> QED
      BY <3>1, <3>2
  <2> QED
    BY <1>1, <1>15, <2>1, <2>2, <2>4, <2>5 DEF ReplayInv
<1>20. TagInv'
  <2>1. ASSUME TagFor(m) # 0
        PROVE  /\ TagFor(m) = Len(replays) /\ Len(replays) # 0 /\ TagFor(m) = within
               /\ replays[TagFor(m)].outcome = "running" /\ replays[TagFor(m)].method = m
               /\ \A i \in Calls : calls[i].tag # TagFor(m)
    BY <1>4, <1>5, <1>17, <2>1 DEF TagUsed
  <2> SUFFICES ASSUME NEW i \in Calls', calls'[i].tag # 0
               PROVE  /\ calls'[i].tag \in 1 .. Len(replays)
                      /\ replays[calls'[i].tag].outcome # "refused"
                      /\ calls'[i].tag = calls'[i].within
                      /\ calls'[i].method = replays[calls'[i].tag].method
                      /\ \A j \in Calls' : calls'[j].tag = calls'[i].tag => j = i
    BY <1>1 DEF TagInv
  <2>2. CASE i = n
    <3>1. calls'[i] = call /\ TagFor(m) # 0
      BY <1>6, <1>7, <2>2
    <3>2. TagFor(m) \in 1 .. Len(replays)
      BY <1>2, <2>1, <3>1
    <3>3. ASSUME NEW j \in Calls', calls'[j].tag = TagFor(m) PROVE j = i
      BY <1>8, <2>1, <2>2, <3>1, <3>3
    <3>4. replays[TagFor(m)].outcome # "refused"
      BY <2>1, <3>1
    <3> QED
      BY <1>6, <2>1, <3>1, <3>2, <3>3, <3>4
  <2>3. CASE i \in Calls
    <3>1. /\ calls[i].tag \in 1 .. Len(replays)
          /\ replays[calls[i].tag].outcome # "refused"
          /\ calls[i].tag = calls[i].within
          /\ calls[i].method = replays[calls[i].tag].method
          /\ \A j \in Calls : calls[j].tag = calls[i].tag => j = i
      BY <1>8, <2>3 DEF CallsInv, ReplaysInv, TagInv
    <3> QED
      BY <1>6, <1>7, <1>8, <2>1, <2>3, <3>1
  <2> QED
    BY <1>8, <2>2, <2>3
<1>21. SeenInv'
  <2>1. \A r : TagUsed(r) => \E i \in Calls' : calls'[i].tag = r
    BY <1>8 DEF TagUsed
  <2> QED
    BY <1>1, <2>1 DEF CallsInv, ReplaysInv, SeenInv, TagUsed
<1> QED
  BY <1>9, <1>13, <1>14, <1>19, <1>20, <1>21 DEF CallsInv, ReplaysInv

-----------------------------------------------------------------------------
(* Steps that leave the calls alone. *)
LEMMA CallsStay ==
  ASSUME CallsInv, UNCHANGED <<calls, inflight>>
  PROVE  AllAccounted' /\ InflightIsTrue' /\ Calls' = Calls /\ \A r : TagUsed(r)' <=> TagUsed(r)
  BY DEF CallsInv, AllAccounted, InflightIsTrue, Running, Calls, TagUsed

LEMMA WrapKeeps == ASSUME CallsInv, NEW c \in Clients, WrapClient(c) PROVE CallsInv'
<1>1. /\ UNCHANGED <<calls, inflight, invokeCtx, replays, stack>>
      /\ tapped' = tapped \cup {c} /\ wrapped' = c
  BY DEF WrapClient
<1>2. AllAccounted' /\ InflightIsTrue'
  BY <1>1, CallsStay
<1>3. Types'
  BY <1>1 DEF CallsInv, Types
<1>4. ReplaysInv'
  BY <1>1 DEF CallsInv, ReplaysInv, StackInv, ReplayInv, Replaying, TagInv, SeenInv, TagUsed, Calls
<1> QED
  BY <1>2, <1>3, <1>4 DEF CallsInv

(* A replay request is added while nothing runs. *)
LEMMA RequestKeeps ==
  ASSUME CallsInv, stack = <<>>, UNCHANGED <<calls, inflight, wrapped, tapped>>,
         NEW replay \in Replay, replay.outcome \in {"refused", "running"},
         replays' = Append(replays, replay)
  PROVE  /\ AllAccounted' /\ InflightIsTrue' /\ TagInv' /\ SeenInv'
         /\ replays' \in Seq(Replay) /\ Len(replays') = Len(replays) + 1 /\ Len(replays) \in Nat
         /\ replays'[Len(replays')] = replay
         /\ \A i \in Calls : calls[i].tag # Len(replays) + 1
         /\ invokeCtx = 0
<1>1. AllAccounted' /\ InflightIsTrue' /\ Calls' = Calls
  BY CallsStay
<1>2. /\ replays \in Seq(Replay) /\ Len(replays) \in Nat
  BY LenProperties DEF CallsInv, Types
<1>3. /\ replays' \in Seq(Replay) /\ Len(replays') = Len(replays) + 1
      /\ replays'[Len(replays) + 1] = replay
      /\ \A r \in 1 .. Len(replays) : replays'[r] = replays[r]
  BY <1>2, AppendProperties
<1>4. \A i \in Calls : calls[i].tag # 0 => calls[i].tag \in 1 .. Len(replays)
  BY DEF CallsInv, ReplaysInv, TagInv
<1>5. \A i \in Calls : calls[i].tag # Len(replays) + 1
  BY <1>2, <1>4
<1>6. TagInv'
  <2> SUFFICES ASSUME NEW i \in Calls, calls[i].tag # 0
               PROVE  /\ calls[i].tag \in 1 .. Len(replays')
                      /\ replays'[calls[i].tag].outcome # "refused"
                      /\ calls[i].tag = calls[i].within
                      /\ calls[i].method = replays'[calls[i].tag].method
                      /\ \A j \in Calls : calls[j].tag = calls[i].tag => j = i
    BY <1>1 DEF TagInv
  <2>1. /\ calls[i].tag \in 1 .. Len(replays)
        /\ replays[calls[i].tag].outcome # "refused"
        /\ calls[i].tag = calls[i].within
        /\ calls[i].method = replays[calls[i].tag].method
        /\ \A j \in Calls : calls[j].tag = calls[i].tag => j = i
    BY DEF CallsInv, ReplaysInv, TagInv
  <2>2. calls[i].tag \in 1 .. Len(replays')
    BY <1>2, <1>3, <2>1
  <2> QED
    BY <1>3, <2>1, <2>2
<1>7. SeenInv'
  <2> SUFFICES ASSUME NEW r \in 1 .. Len(replays'),
                      replays'[r].outcome \in {"returned", "threw"},
                      replays'[r].method \notin Decorated
               PROVE  \E i \in Calls : calls[i].tag = r
    BY <1>1 DEF SeenInv, TagUsed
  <2>1. r # Len(replays) + 1
    BY <1>3
  <2>2. r \in 1 .. Len(replays)
    BY <1>2, <1>3, <2>1
  <2> QED
    BY <1>3, <2>2 DEF CallsInv, ReplaysInv, SeenInv, TagUsed
<1>8. invokeCtx = 0
  BY DEF CallsInv, ReplaysInv, ReplayInv, Replaying
<1> QED
  BY <1>1, <1>2, <1>3, <1>5, <1>6, <1>7, <1>8

LEMMA RefuseKeeps == ASSUME CallsInv, stack = <<>>, Refuse PROVE CallsInv'
<1> DEFINE replay == [outcome |-> "refused"]
<1>1. /\ replays' = Append(replays, replay)
      /\ UNCHANGED <<calls, inflight, wrapped, tapped, stack, invokeCtx>>
  BY DEF Refuse
<1>2. replay \in Replay /\ replay.outcome = "refused"
  BY DEF Replay
<1> HIDE DEF replay
<1>3. /\ AllAccounted' /\ InflightIsTrue' /\ TagInv' /\ SeenInv'
      /\ replays' \in Seq(Replay) /\ invokeCtx = 0
  BY <1>1, <1>2, RequestKeeps
<1>4. Types'
  BY <1>1, <1>3 DEF CallsInv, Types
<1>5. StackInv' /\ ReplayInv'
  BY <1>1, <1>3 DEF CallsInv, ReplaysInv, StackInv, ReplayInv, Replaying, Calls
<1> QED
  BY <1>3, <1>4, <1>5 DEF CallsInv, ReplaysInv

LEMMA DispatchKeeps ==
  ASSUME CallsInv, stack = <<>>, NEW of, wrapped # NoClient,
         calls[of].method \in MethodsOf[wrapped], Dispatch(of)
  PROVE  CallsInv'
<1> DEFINE replay == [outcome |-> "running", client |-> wrapped, method |-> calls[of].method]
           n == Len(replays) + 1
           frame == [kind |-> "replay", id |-> n, waiting |-> TRUE, threw |-> FALSE]
<1>1. /\ replays' = Append(replays, replay)
      /\ invokeCtx' = n /\ stack' = <<frame>>
      /\ UNCHANGED <<calls, inflight, wrapped, tapped>>
  BY DEF Dispatch
<1>2. replay \in Replay /\ replay.outcome = "running"
  BY DEF Replay, Methods, CallsInv, Types
<1> HIDE DEF replay
<1>3. /\ AllAccounted' /\ InflightIsTrue' /\ TagInv' /\ SeenInv'
      /\ replays' \in Seq(Replay) /\ Len(replays') = n /\ n \in Nat \ {0}
      /\ replays'[n] = replay /\ \A i \in Calls : calls[i].tag # n
  BY <1>1, <1>2, RequestKeeps
<1>4. frame \in Frame /\ frame.kind = "replay" /\ frame.id = n /\ frame.waiting
  BY <1>3 DEF Frame
<1> HIDE DEF frame, n
<1>5. stack' \in Seq(Frame) /\ Len(stack') = 1 /\ stack'[1] = frame /\ stack' # <<>>
  BY <1>1, <1>4
<1>6. Types'
  BY <1>1, <1>3, <1>5 DEF CallsInv, Types
<1>7. StackInv'
  BY <1>4, <1>5 DEF StackInv
<1>8. ReplayInv'
  <2>1. \A i \in Calls' : calls'[i].tag # n
    BY <1>1, <1>3 DEF Calls
  <2> QED
    BY <1>1, <1>2, <1>3, <1>4, <1>5, <2>1 DEF ReplayInv, Replaying, TagUsed
<1> QED
  BY <1>3, <1>6, <1>7, <1>8 DEF CallsInv, ReplaysInv

LEMMA HandleInvokeKeeps ==
  ASSUME CallsInv, NEW of, NEW args, NEW allowed, HandleInvoke(of, args, allowed) PROVE CallsInv'
<1>1. stack = <<>>
  BY DEF HandleInvoke
<1>2. CASE Refused(of, args, allowed)
  BY <1>1, <1>2, RefuseKeeps DEF HandleInvoke
<1>3. CASE ~ Refused(of, args, allowed)
  BY <1>1, <1>3, DispatchKeeps DEF HandleInvoke, Refused
<1> QED
  BY <1>2, <1>3

LEMMA FinishKeeps == ASSUME CallsInv, NEW threw \in BOOLEAN, Finish(threw) PROVE CallsInv'
<1> DEFINE outcome == IF threw THEN "threw" ELSE "returned"
<1>1. stack # <<>> /\ Top.kind = "replay"
  BY DEF Finish, InReplay
<1>2. Len(stack) = 1 /\ Top = stack[1] /\ Pop = <<>>
  <2>1. Len(stack) \in Nat \ {0} /\ Top = stack[Len(stack)] /\ Len(Pop) = Len(stack) - 1
        /\ (Pop = <<>> <=> Len(Pop) = 0)
    BY <1>1, Popped DEF CallsInv
  <2>2. ~ (Len(stack) \in 2 .. Len(stack))
    BY <1>1, <2>1 DEF CallsInv, ReplaysInv, StackInv
  <2>3. Len(stack) = 1
    BY <2>1, <2>2
  <2> QED
    BY <2>1, <2>3
<1>3. /\ Replaying /\ Top.id = Len(replays) /\ Len(replays) # 0
      /\ replays[Len(replays)].outcome = "running"
      /\ ~ stack[1].waiting /\ replays[Len(replays)].method \notin Decorated => TagUsed(Len(replays))
  BY <1>1, <1>2 DEF CallsInv, ReplaysInv, ReplayInv, Replaying
<1> DEFINE n == Len(replays)
           replay == [replays[n] EXCEPT !.outcome = outcome]
<1>4. /\ replays' = [replays EXCEPT ![n] = replay]
      /\ invokeCtx' = 0 /\ stack' = <<>>
      /\ UNCHANGED <<calls, inflight, wrapped, tapped>>
  BY <1>2, <1>3 DEF Finish
<1>5. replays \in Seq(Replay) /\ n \in 1 .. Len(replays) /\ n \in Nat
  BY <1>3, LenProperties DEF CallsInv, Types
<1>6. /\ replay \in Replay /\ replay.outcome \in {"returned", "threw"}
      /\ replay.method = replays[n].method
  <2>1. replays[n] \in [outcome : {"running", "returned", "threw"}, client : Clients, method : Methods]
    BY <1>3, <1>5 DEF Replay
  <2> QED
    BY <2>1 DEF Replay
<1>7. n \notin {r \in {n} : replays[r].method \notin Decorated} \/ TagUsed(n)
  BY <1>2, <1>3 DEF Finish, Caller
<1> HIDE DEF replay, n
<1>8. /\ replays' \in Seq(Replay) /\ Len(replays') = Len(replays) /\ replays'[n] = replay
      /\ \A r \in 1 .. Len(replays) : r # n => replays'[r] = replays[r]
  BY <1>4, <1>5, <1>6, ExceptSeq
<1>9. AllAccounted' /\ InflightIsTrue' /\ Calls' = Calls
  BY <1>4, CallsStay
<1>10. Types'
  BY <1>4, <1>8 DEF CallsInv, Types
<1>11. StackInv' /\ ReplayInv'
  BY <1>4 DEF StackInv, ReplayInv, Replaying
<1>12. TagInv'
  BY <1>4, <1>6, <1>8, <1>9 DEF CallsInv, ReplaysInv, TagInv
<1>13. SeenInv'
  BY <1>4, <1>6, <1>7, <1>8, <1>9 DEF CallsInv, ReplaysInv, SeenInv, TagUsed
<1> QED
  BY <1>9, <1>10, <1>11, <1>12, <1>13 DEF CallsInv, ReplaysInv

LEMMA CallsStart == Init => CallsInv
<1> SUFFICES ASSUME Init PROVE CallsInv
  OBVIOUS
<1>1. Calls = {} /\ Len(calls) = 0 /\ Len(stack) = 0 /\ Len(replays) = 0 /\ ~ Replaying
  BY DEF Init, Calls, Replaying
<1>2. Types
  BY DEF Init, Types
<1>3. ReplaysInv
  BY <1>1 DEF Init, ReplaysInv, StackInv, ReplayInv, TagInv, SeenInv
<1>4. AllAccounted /\ InflightIsTrue
  BY <1>1 DEF Init, AllAccounted, InflightIsTrue, Running
<1> QED
  BY <1>2, <1>3, <1>4 DEF CallsInv

LEMMA CallsStep == CallsInv /\ [Next]_vars => CallsInv'
<1> SUFFICES ASSUME CallsInv, [Next]_vars PROVE CallsInv'
  OBVIOUS
<1>1. CASE UNCHANGED vars
  <2>1. AllAccounted' /\ InflightIsTrue'
    BY <1>1, CallsStay DEF vars
  <2>2. Types'
    BY <1>1 DEF CallsInv, Types, vars
  <2>3. ReplaysInv'
    BY <1>1 DEF CallsInv, ReplaysInv, StackInv, ReplayInv, Replaying, TagInv, SeenInv, TagUsed, Calls, vars
  <2> QED
    BY <2>1, <2>2, <2>3 DEF CallsInv
<1> QED
  BY <1>1, WrapKeeps, StartKeeps, ReturnPromiseKeeps, ReturnValueKeeps, ThrowKeeps, ReturnStreamKeeps,
     SettleKeeps, StreamKeeps, HandleInvokeKeeps, FinishKeeps DEF Next

LEMMA CallsAlways == Spec => []CallsInv
  BY CallsStart, CallsStep, PTL DEF Spec

(* Whatever the application decorates, nests and awaits: a tag is on one   *)
(* call of the replayed method, made while the replay was dispatched.      *)
THEOREM Tags == Spec => []TagsTellReplays
<1>1. CallsInv => TagsTellReplays
  BY TagsAreTrue DEF CallsInv, ReplaysInv
<1> QED
  BY <1>1, CallsAlways, PTL

(* observe.ts, handleInvoke: a viewer sees what became of every replay.    *)
THEOREM Seen == Spec => []ReplaysAreSeen
<1>1. CallsInv => ReplaysAreSeen
  BY TagsAreTrue DEF CallsInv, ReplaysInv
<1> QED
  BY <1>1, CallsAlways, PTL

(* observe.ts, the hydration of a viewer: the table lists running calls    *)
(* only, and lacks one only for InflightMax younger ones.                  *)
THEOREM Inflight == Spec => []InflightIsTrue
<1>1. CallsInv => InflightIsTrue
  BY DEF CallsInv
<1> QED
  BY <1>1, CallsAlways, PTL

(* wrap-client.ts: every call is reported to end once, streams too, unless *)
(* their listeners could not all be attached.                              *)
THEOREM Endings == Spec => []EndsOnce
<1>1. CallsInv => EndsOnce
  BY AccountedEndsOnce DEF CallsInv
<1> QED
  BY <1>1, CallsAlways, PTL
=============================================================================
