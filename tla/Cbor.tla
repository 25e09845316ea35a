--------------------------------- MODULE Cbor ---------------------------------
(***************************************************************************)
(* packages/bare-protocol/src/cbor.ts.  A value is a record with its type  *)
(* `t` and its content `v`; the content of a map is a sequence of pairs of *)
(* a key and a value.  In the code a digit of a length or an integer is a  *)
(* byte (DigitBase = 256) and those below 24 (Direct) need none; smaller   *)
(* digits bring every width within reach.  The bits of a float are digits. *)
(***************************************************************************)
EXTENDS Integers, Sequences, Utf8, Numerals

CONSTANTS DigitBase, Direct,
          Nesting               \* how deep values nest

ASSUME DigitsAssumption ==
  /\ DigitBase \in Nat /\ Direct \in Nat /\ Nesting \in Nat
  /\ 0 < Direct /\ Direct < DigitBase /\ DigitBase <= 256
  /\ Direct + 3 < 32 /\ Direct + 3 \notin 20 .. 23

-----------------------------------------------------------------------------
(* The values: a number takes 8 digits at most, and a string is whole, for *)
(* utf8Encode puts a replacement in the place of half a surrogate pair.    *)
Stated(n) == Fits(n, DigitBase, 8)
WellFormed(s) == \A i \in DOMAIN s :
  High(s[i]) \/ Low(s[i]) => Paired(s, i) \/ (i > 1 /\ Paired(s, i - 1))
Text == {s \in Seq(Unit) : WellFormed(s) /\ Stated(Len(utf8Encode(s)))}
Magnitude(n) == IF n >= 0 THEN n ELSE -n - 1
Integer == {n \in Int : Stated(Magnitude(n))}

Texts == [t : {"text"}, v : Text]
Plain == [t : {"null"}] \cup [t : {"bool"}, v : BOOLEAN]
           \cup [t : {"int"}, v : Integer]
           \cup [t : {"float"}, v : {s \in Seq(0 .. DigitBase - 1) : Len(s) = 8}]
           \cup [t : {"bytes"}, v : {s \in Seq(Byte) : Stated(Len(s))}] \cup Texts
Grouped(values) == [t : {"array"}, v : {s \in Seq(values) : Stated(Len(s))}]
                     \cup [t : {"map"}, v : {s \in Seq(Texts \X values) : Stated(Len(s))}]

(* Those that nest at most n deep. *)
Values[n \in 0 .. Nesting] ==
  IF n = 0 THEN Plain ELSE Values[n - 1] \cup Grouped(Values[n - 1])

(* What an array or a map holds, in the order of the bytes. *)
Members(item) ==
  IF item.t = "array" THEN item.v
  ELSE [i \in 1 .. 2 * Len(item.v) |-> item.v[(i + 1) \div 2][2 - (i % 2)]]

-----------------------------------------------------------------------------
Width(n) == IF n < Direct THEN 0 ELSE IF Fits(n, DigitBase, 1) THEN 1
            ELSE IF Fits(n, DigitBase, 2) THEN 2 ELSE IF Fits(n, DigitBase, 4) THEN 4 ELSE 8

(* The additional info that announces a width, and back. *)
Info(width) == CASE width = 1 -> Direct [] width = 2 -> Direct + 1
                 [] width = 4 -> Direct + 2 [] width = 8 -> Direct + 3
WidthOf(info) == CASE info < Direct -> 0
                   [] info = Direct -> 1 [] info = Direct + 1 -> 2
                   [] info = Direct + 2 -> 4 [] info = Direct + 3 -> 8

writeHead(major, n) ==
  IF Width(n) = 0 THEN <<major * 32 + n>>
  ELSE <<major * 32 + Info(Width(n))>> \o Digits(n, DigitBase, Width(n))

Joined(parts) ==
  LET joined[i \in 0 .. Len(parts)] == IF i = 0 THEN <<>> ELSE joined[i - 1] \o parts[i]
  IN joined[Len(parts)]

(* The bytes of an item, given those of what it holds. *)
ItemBytes(item, inner) ==
  CASE item.t = "null"  -> <<7 * 32 + 22>>
    [] item.t = "bool"  -> <<7 * 32 + (IF item.v THEN 21 ELSE 20)>>
    [] item.t = "int"   -> writeHead(IF item.v >= 0 THEN 0 ELSE 1, Magnitude(item.v))
    [] item.t = "float" -> <<7 * 32 + Direct + 3>> \o item.v
    [] item.t = "text"  -> writeHead(3, Len(utf8Encode(item.v))) \o utf8Encode(item.v)
    [] item.t = "bytes" -> writeHead(2, Len(item.v)) \o item.v
    [] item.t \in {"array", "map"} ->
         writeHead(IF item.t = "array" THEN 4 ELSE 5, Len(item.v))
           \o Joined([i \in DOMAIN Members(item) |-> inner[Members(item)[i]]])

encodeItem[n \in 0 .. Nesting] ==
  [item \in Values[n] |-> ItemBytes(item, IF n = 0 THEN <<>> ELSE encodeItem[n - 1])]

encodeCbor(item) == encodeItem[Nesting][item]

-----------------------------------------------------------------------------
Refused == [ok |-> FALSE]
Read(value, next) == [ok |-> TRUE, value |-> value, next |-> next]

(* The number a head announces.  Digits beyond the end read as undefined,  *)
(* which no caller survives: the position they leave is past the end.      *)
readLen(bytes, info, p) ==
  IF info > Direct + 3 \/ p + WidthOf(info) > Len(bytes) + 1 THEN Refused
  ELSE Read(IF WidthOf(info) = 0 THEN info
            ELSE Number(SubSeq(bytes, p, p + WidthOf(info) - 1), DigitBase),
            p + WidthOf(info))

Simple(bytes, info, p) ==
  CASE info = 20 -> Read([t |-> "bool", v |-> FALSE], p)
    [] info = 21 -> Read([t |-> "bool", v |-> TRUE], p)
    [] info \in {22, 23} -> Read([t |-> "null"], p)
    [] info = Direct + 3 /\ p + 8 <= Len(bytes) + 1 ->
         Read([t |-> "float", v |-> SubSeq(bytes, p, p + 7)], p + 8)
    [] OTHER -> Refused

(* A string of n bytes. *)
Span(bytes, p, n, type) ==
  LET span == SubSeq(bytes, p, p + n - 1) IN
  IF p + n > Len(bytes) + 1 THEN Refused
  ELSE IF type = "bytes" THEN Read([t |-> type, v |-> span], p + n)
  ELSE IF utf8Decode(span).malformed THEN Refused
  ELSE Read([t |-> type, v |-> utf8Decode(span).units], p + n)

(* The n items from p on, each of which takes a byte at least; item is what*)
(* begins at each position.                                                *)
Followed(list, item) ==
  IF list.ok /\ item[list.next].ok
    THEN Read(Append(list.value, item[list.next].value), item[list.next].next)
    ELSE Refused

List(bytes, p, n, item) ==
  LET list[i \in 0 .. n] == IF i = 0 THEN Read(<<>>, p) ELSE Followed(list[i - 1], item)
  IN IF p + n > Len(bytes) + 1 THEN Refused ELSE list[n]

(* A list of items as an array, and as the map of so many pairs. *)
ArrayOf(list) == IF list.ok THEN Read([t |-> "array", v |-> list.value], list.next) ELSE Refused
MapOf(list, pairs) ==
  IF ~ list.ok \/ \E i \in 1 .. pairs : list.value[2 * i - 1].t # "text" THEN Refused
  ELSE Read([t |-> "map",
             v |-> [i \in 1 .. pairs |-> <<list.value[2 * i - 1], list.value[2 * i]>>]], list.next)

(* The item of a major type whose head has been read. *)
Content(bytes, major, announced, item) ==
  IF ~ announced.ok \/ major = 6 THEN Refused
  ELSE LET n == announced.value
           next == announced.next
       IN CASE major = 0 -> Read([t |-> "int", v |-> n], next)
            [] major = 1 -> Read([t |-> "int", v |-> -1 - n], next)
            [] major = 2 -> Span(bytes, next, n, "bytes")
            [] major = 3 -> Span(bytes, next, n, "text")
            [] major = 4 -> ArrayOf(List(bytes, next, n, item))
            [] major = 5 -> MapOf(List(bytes, next, 2 * n, item), n)

ItemAt(bytes, p, item) ==
  IF p > Len(bytes) THEN Refused
  ELSE IF bytes[p] \div 32 = 7 THEN Simple(bytes, bytes[p] % 32, p + 1)
  ELSE Content(bytes, bytes[p] \div 32, readLen(bytes, bytes[p] % 32, p + 1), item)

(* By position: the item that begins there. *)
decodeItem(bytes) ==
  LET item[p \in 1 .. Len(bytes) + 1] == ItemAt(bytes, p, item) IN item

(* Fault: bytes after the item are ignored. *)
decodeCborLax(bytes) == decodeItem(bytes)[1]

AllOf(bytes, item) == IF item.ok /\ item.next = Len(bytes) + 1 THEN item ELSE Refused

decodeCbor(bytes) == AllOf(bytes, decodeItem(bytes)[1])
=============================================================================
