--------------------------------- MODULE Utf8 ---------------------------------
(***************************************************************************)
(* packages/bare-protocol/src/utf8.ts: strings, which are sequences of     *)
(* UTF-16 units and may hold surrogates without their other half, to bytes *)
(* and back.  A text is typed unit by unit, or bytes arrive one by one.    *)
(***************************************************************************)
EXTENDS Integers, Sequences

CONSTANTS Units,        \* UTF-16 units of the texts
          Octets,       \* bytes that may arrive
          MaxUnits, MaxOctets   \* bounds: the lengths of both

(* Code points come in pages; the two pages before U+E000 are surrogates. *)
Page == 1024
Unit == {u \in Nat : u < 64 * Page}
Byte == 0 .. 255

ASSUME Utf8BoundsAssumption ==
  /\ Units \subseteq Unit /\ Octets \subseteq Byte
  /\ MaxUnits \in Nat /\ MaxOctets \in Nat

VARIABLES text, octets

utf8Vars == <<text, octets>>

Utf8Init == text = <<>> /\ octets = <<>>

Replacement == 64 * Page - 3    \* U+FFFD
High(u) == u \div Page = 54
Low(u) == u \div Page = 55

-----------------------------------------------------------------------------
Continuation(cp, shift) == 128 + ((cp \div shift) % 64)

(* The bytes of one code point. *)
BytesOf(cp) ==
  IF cp < 128 THEN <<cp>>
  ELSE IF cp < 2 * Page
    THEN <<192 + (cp \div 64), Continuation(cp, 1)>>
  ELSE IF cp < 64 * Page
    THEN <<224 + (cp \div (64 * 64)), Continuation(cp, 64), Continuation(cp, 1)>>
  ELSE <<240 + (cp \div (64 * 64 * 64)), Continuation(cp, 64 * 64), Continuation(cp, 64),
         Continuation(cp, 1)>>

Paired(s, i) == High(s[i]) /\ i < Len(s) /\ Low(s[i + 1])

Scalar(u) == IF High(u) \/ Low(u) THEN Replacement ELSE u

CodePoint(high, low) == 64 * Page + (high - 54 * Page) * Page + (low - 55 * Page)

(* What the unit at i puts out: the second of a pair is skipped. *)
Encoded(s, i) == IF Paired(s, i) THEN BytesOf(CodePoint(s[i], s[i + 1]))
                 ELSE IF i > 1 /\ Paired(s, i - 1) THEN <<>>
                 ELSE BytesOf(Scalar(s[i]))

utf8Encode(s) ==
  LET out[i \in 0 .. Len(s)] == IF i = 0 THEN <<>> ELSE out[i - 1] \o Encoded(s, i)
  IN out[Len(s)]

-----------------------------------------------------------------------------
(* The decoder between two bytes: continuation bytes awaited and seen, the *)
(* code point so far, the range of the next byte, the units put out and    *)
(* whether anything was malformed.                                         *)
Idle == [needed |-> 0, seen |-> 0, cp |-> 0, lower |-> 128, upper |-> 191]
Start == [units |-> <<>>, malformed |-> FALSE, state |-> Idle]

UnitsOf(cp) == IF cp < 64 * Page THEN <<cp>>
               ELSE <<54 * Page + ((cp - 64 * Page) \div Page), 55 * Page + (cp % Page)>>

Put(d, cp, malformed) == [units |-> d.units \o UnitsOf(cp), malformed |-> malformed, state |-> Idle]
PutOut(d, cp) == Put(d, cp, d.malformed)
bad(d) == Put(d, Replacement, TRUE)

Reading(d, needed, seen, cp, lower, upper) ==
  [units |-> d.units, malformed |-> d.malformed,
   state |-> [needed |-> needed, seen |-> seen, cp |-> cp, lower |-> lower, upper |-> upper]]
Awaiting(d, needed, cp, lower, upper) == Reading(d, needed, 0, cp, lower, upper)

(* Fault: a lead byte does not narrow the range of the byte after it. *)
LeadUnchecked(d, b) ==
  CASE b <= 127           -> PutOut(d, b)
    [] b \in 194 .. 223   -> Awaiting(d, 1, b % 32, 128, 191)
    [] b \in 224 .. 239   -> Awaiting(d, 2, b % 16, 128, 191)
    [] b \in 240 .. 244   -> Awaiting(d, 3, b % 8, 128, 191)
    [] OTHER              -> bad(d)

(* A byte that begins a code point.  The range of the next byte excludes   *)
(* overlong forms, surrogates and what is above U+10FFFF.                  *)
Lead(d, b) ==
  CASE b <= 127           -> PutOut(d, b)
    [] b \in 194 .. 223   -> Awaiting(d, 1, b % 32, 128, 191)
    [] b \in 224 .. 239   -> Awaiting(d, 2, b % 16, IF b = 224 THEN 160 ELSE 128,
                                                   IF b = 237 THEN 159 ELSE 191)
    [] b \in 240 .. 244   -> Awaiting(d, 3, b % 8, IF b = 240 THEN 144 ELSE 128,
                                                  IF b = 244 THEN 143 ELSE 191)
    [] OTHER              -> bad(d)

(* Fault: a byte that ends a malformed sequence is lost with it. *)
InterruptedLosing(d, b) == bad(d)

(* A byte that does not continue a code point is taken as a lead again. *)
Interrupted(d, b) == Lead(bad(d), b)

(* A byte that continues one. *)
Continued(d, b) ==
  LET cp == d.state.cp * 64 + (b % 64) IN
  IF d.state.seen + 1 = d.state.needed THEN PutOut(d, cp)
  ELSE Reading(d, d.state.needed, d.state.seen + 1, cp, 128, 191)

Octet(d, b) ==
  IF d.state.needed = 0 THEN Lead(d, b)
  ELSE IF b \in d.state.lower .. d.state.upper THEN Continued(d, b) ELSE Interrupted(d, b)

(* The decoder after the last of the bytes. *)
DecoderAfter(bytes) ==
  LET after[i \in 0 .. Len(bytes)] == IF i = 0 THEN Start ELSE Octet(after[i - 1], bytes[i])
  IN after[Len(bytes)]

(* Bytes that end within a code point are malformed. *)
Settled(d) == IF d.state.needed = 0 THEN d ELSE bad(d)

(* What utf8Decode returns; with `fatal` it throws if anything is malformed. *)
utf8Decode(bytes) == Settled(DecoderAfter(bytes))

-----------------------------------------------------------------------------
Type(u) == /\ octets = <<>> /\ Len(text) < MaxUnits
           /\ text' = Append(text, u)
           /\ UNCHANGED octets

Arrives(b) == /\ text = <<>> /\ Len(octets) < MaxOctets
              /\ octets' = Append(octets, b)
              /\ UNCHANGED text

Utf8Next == (\E u \in Units : Type(u)) \/ (\E b \in Octets : Arrives(b))

Utf8Spec == Utf8Init /\ [][Utf8Next]_utf8Vars

-----------------------------------------------------------------------------
(* A text comes back from its bytes with nothing changed but the surrogates*)
(* that stood alone; and the bytes a fatal decoder accepts are the very    *)
(* bytes of the text it returns: there is one encoding of each text.       *)
TextSurvives ==
  /\ utf8Decode(utf8Encode(text)).units = [i \in DOMAIN text |->
       IF Paired(text, i) \/ (i > 1 /\ Paired(text, i - 1)) THEN text[i]
       ELSE IF High(text[i]) \/ Low(text[i]) THEN Replacement ELSE text[i]]
  /\ ~ utf8Decode(utf8Encode(text)).malformed
  /\ ~ utf8Decode(octets).malformed => utf8Encode(utf8Decode(octets).units) = octets

(* Whatever bytes came before, a character whose bytes are whole is read:  *)
(* what is malformed costs at most one replacement for each of its bytes   *)
(* and nothing of what follows.                                            *)
Characters == {<<65>>, <<233>>, <<8 * Page + 172>>, <<54 * Page + 61, 55 * Page + 512>>}

DamageStaysLocal ==
  \A c \in Characters :
    LET read == utf8Decode(octets \o utf8Encode(c)).units IN
    /\ SubSeq(read, Len(read) - Len(c) + 1, Len(read)) = c
    /\ SubSeq(read, 1, Len(read) - Len(c)) = utf8Decode(octets).units
    /\ Len(utf8Decode(octets).units) <= Len(octets)
=============================================================================
