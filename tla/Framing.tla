------------------------------- MODULE Framing -------------------------------
(***************************************************************************)
(* packages/bare-probe/transport/framing.ts: messages over a byte stream   *)
(* that keeps no boundaries.  The sender puts each message on the wire     *)
(* behind its length, the wire hands the receiver chunks of any size, and  *)
(* StreamFramer.push feeds whole messages to a handler that may throw.     *)
(* One pass of the loop in push is one step; no chunk arrives in between.  *)
(*                                                                         *)
(* In the code the prefix is 4 digits (LENGTH_PREFIX_BYTES) of base 256.   *)
(***************************************************************************)
EXTENDS Naturals, Sequences, Numerals

CONSTANTS Base, PrefixLength,
          Payloads,             \* the messages, in the order they are sent
          MaxThrows             \* bound: calls of the handler that throw

ASSUME PrefixAssumption == Base \in Nat \ {0, 1} /\ PrefixLength \in Nat \ {0}
ASSUME ThrowsAssumption == MaxThrows \in Nat

VARIABLES sent,         \* how many messages were sent
          wire,         \* bytes on their way
          buffer,       \* bytes received and not yet handed over
          looping,      \* push is in its loop
          handed,       \* history: the messages given to the handler
          thrown        \* history: calls of the handler that threw

framingVars == <<sent, wire, buffer, looping, handed, thrown>>

Bytes == 0 .. Base - 1

FramingInit == /\ sent = 0
        /\ wire = <<>>
        /\ buffer = <<>>
        /\ looping = FALSE
        /\ handed = <<>>
        /\ thrown = 0

-----------------------------------------------------------------------------
(* setUint32, big-endian. *)
Prefix(n) == Digits(n, Base, PrefixLength)

encodeFrame(payload) == Prefix(Len(payload)) \o payload

(* A prefix can state the length of each message. *)
ASSUME PayloadsAssumption ==
  /\ Payloads \in Seq(Seq(Bytes))
  /\ \A i \in 1 .. Len(Payloads) : Fits(Len(Payloads[i]), Base, PrefixLength)

(* getUint32, big-endian. *)
LengthOf(bytes) == Number(SubSeq(bytes, 1, PrefixLength), Base)

(* The bytes begin with a whole frame. *)
Whole(bytes) == /\ Len(bytes) >= PrefixLength
                /\ Len(bytes) >= PrefixLength + LengthOf(bytes)

Send == /\ sent < Len(Payloads)
        /\ sent' = sent + 1
        /\ wire' = wire \o encodeFrame(Payloads[sent + 1])
        /\ UNCHANGED <<buffer, looping, handed, thrown>>

(* push(chunk), up to its loop. *)
PushChunk(size) == /\ ~ looping
                   /\ buffer' = buffer \o SubSeq(wire, 1, size)
                   /\ wire' = SubSeq(wire, size + 1, Len(wire))
                   /\ looping' = TRUE
                   /\ UNCHANGED <<sent, handed, thrown>>

(* Fault: push hands over at most one message per chunk. *)
HandOverOnce ==
  LET total == PrefixLength + LengthOf(buffer) IN
  /\ looping /\ Whole(buffer)
  /\ handed' = Append(handed, SubSeq(buffer, PrefixLength + 1, total))
  /\ buffer' = SubSeq(buffer, total + 1, Len(buffer))
  /\ looping' = FALSE
  /\ UNCHANGED <<sent, wire, thrown>>

(* Fault: the message is cut off the buffer after the handler returns. *)
HandOverCutLate ==
  LET total == PrefixLength + LengthOf(buffer) IN
  /\ looping /\ Whole(buffer)
  /\ handed' = Append(handed, SubSeq(buffer, PrefixLength + 1, total))
  /\ \/ /\ buffer' = SubSeq(buffer, total + 1, Len(buffer))
        /\ UNCHANGED <<looping, thrown>>
     \/ /\ thrown < MaxThrows
        /\ thrown' = thrown + 1
        /\ looping' = FALSE
        /\ UNCHANGED buffer
  /\ UNCHANGED <<sent, wire>>

(* The loop cuts a message off the buffer and calls the handler, which     *)
(* returns or throws; an exception leaves push.                            *)
HandOver ==
  LET total == PrefixLength + LengthOf(buffer) IN
  /\ looping /\ Whole(buffer)
  /\ handed' = Append(handed, SubSeq(buffer, PrefixLength + 1, total))
  /\ buffer' = SubSeq(buffer, total + 1, Len(buffer))
  /\ \/ UNCHANGED <<looping, thrown>>
     \/ thrown < MaxThrows /\ thrown' = thrown + 1 /\ looping' = FALSE
  /\ UNCHANGED <<sent, wire>>

(* The loop returns to wait for the rest of a frame. *)
Wait == /\ looping /\ ~ Whole(buffer)
        /\ looping' = FALSE
        /\ UNCHANGED <<sent, wire, buffer, handed, thrown>>

Chunk == \E size \in 1 .. Len(wire) : PushChunk(size)

FramingNext == Send \/ Chunk \/ HandOver \/ Wait

(* The wire delivers what was sent, and a loop runs to its end. *)
FramingFairness == WF_framingVars(Chunk) /\ WF_framingVars(HandOver) /\ WF_framingVars(Wait)

FramingSpec == FramingInit /\ [][FramingNext]_framingVars /\ FramingFairness

-----------------------------------------------------------------------------
(* Arbitrary chunk boundaries reassemble into exactly the original         *)
(* messages, in order and each once, also after a handler threw.           *)
MessagesWhole == handed = SubSeq(Payloads, 1, Len(handed)) /\ Len(handed) <= sent

(* Every message sent is handed over, if no handler throws.                *)
MessagesArrive ==
  \A n \in 1 .. Len(Payloads) : sent >= n ~> Len(handed) >= n \/ thrown > 0
=============================================================================
