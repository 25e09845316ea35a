----------------------------- MODULE DataProofs -----------------------------
(***************************************************************************)
(* What is handed to others must come out as it went in: the bytes of      *)
(* strings (Utf8), of values (Cbor) and of envelopes (Envelope), and the   *)
(* ring in which rows are kept (RingBuffer).                               *)
(*                                                                         *)
(* Strings.  The encoder is taken apart unit by unit and the decoder byte  *)
(* by byte.  A byte ends a code point, adds to the one the decoder is in,  *)
(* or is malformed; so as long as nothing was malformed, the bytes of the  *)
(* units put out, with the bytes held, are the bytes taken in.  In the     *)
(* other direction the whole bytes of a code point are read as that code   *)
(* point whatever came before them, which carries a text through.          *)
(*                                                                         *)
(* Values.  A read only moves forward and never depends on bytes beyond    *)
(* where it ends, so bytes that decode are refused when they are cut.  The *)
(* bytes of a value are read as that value wherever they lie among others: *)
(* first those that hold no others, then, one level of nesting at a time,  *)
(* arrays and maps of these.                                               *)
(*                                                                         *)
(* Envelopes.  Each message on the wire is one that an envelope is written *)
(* as, with a method id and symbols that the tables, which only grow, give *)
(* back; an object goes into its map and out of it; so decode() finds the  *)
(* fields again one by one, and the peers where its table tells them apart.*)
(*                                                                         *)
(* The ring, of any capacity, implements the bounded queue, keeps nothing  *)
(* reachable that is not live, and may be mutated under an open iterator.  *)
(* Everything there rests on how a push moves what toArray() returns, and  *)
(* that on the slots of a ring being visited once per turn.                *)
(***************************************************************************)
EXTENDS RingBuffer, Envelope, BoundedProofs, FiniteSetTheorems

(* The code points that texts are made of: all but the surrogates. *)
Points == {cp \in Nat : cp < 1088 * Page /\ ~ High(cp) /\ ~ Low(cp)}

-----------------------------------------------------------------------------
(* Code points, their bytes and their units. *)
LEMMA PointBytes ==
  ASSUME NEW cp \in Points
  PROVE  /\ cp < 128 => BytesOf(cp) = <<cp>>
         /\ cp >= 128 /\ cp < 2 * Page => BytesOf(cp) = <<192 + (cp \div 64), 128 + (cp % 64)>>
         /\ cp >= 2 * Page /\ cp < 64 * Page =>
              BytesOf(cp) = <<224 + (cp \div (64 * 64)), 128 + ((cp \div 64) % 64), 128 + (cp % 64)>>
         /\ cp >= 64 * Page =>
              BytesOf(cp) = <<240 + (cp \div (64 * 64 * 64)), 128 + ((cp \div (64 * 64)) % 64),
                              128 + ((cp \div 64) % 64), 128 + (cp % 64)>>
<1>1. cp \in Nat /\ cp \div 1 = cp
  BY SMT DEF Points
<1> QED
  BY SMT, <1>1 DEF BytesOf, Continuation, Page

LEMMA BytesTyped == \A cp \in Points : BytesOf(cp) \in Seq(Byte)
<1> TAKE cp \in Points
<1>1. cp \in Nat /\ cp < 1088 * Page
  BY SMT DEF Points
<1>2. CASE cp < 128
  <2>1. cp \in Byte
    BY SMT, <1>1, <1>2 DEF Byte
  <2>2. BytesOf(cp) = <<cp>>
    BY SMT, <1>2, PointBytes
  <2> QED
    BY SMT, <2>1, <2>2
<1>3. CASE cp >= 128 /\ cp < 2 * Page
  <2>1. 192 + (cp \div 64) \in Byte /\ 128 + (cp % 64) \in Byte
    BY SMT, <1>1, <1>3 DEF Byte, Page
  <2>2. BytesOf(cp) = <<192 + (cp \div 64), 128 + (cp % 64)>>
    BY SMT, <1>3, PointBytes
  <2> QED
    BY SMT, <2>1, <2>2
<1>4. CASE cp >= 2 * Page /\ cp < 64 * Page
  <2>1. 224 + (cp \div (64 * 64)) \in Byte /\ 128 + ((cp \div 64) % 64) \in Byte /\ 128 + (cp % 64) \in Byte
    BY SMT, <1>1, <1>4 DEF Byte, Page
  <2>2. BytesOf(cp) = <<224 + (cp \div (64 * 64)), 128 + ((cp \div 64) % 64), 128 + (cp % 64)>>
    BY SMT, <1>4, PointBytes
  <2> QED
    BY SMT, <2>1, <2>2
<1>5. CASE cp >= 64 * Page
  <2>1. /\ 240 + (cp \div (64 * 64 * 64)) \in Byte /\ 128 + ((cp \div (64 * 64)) % 64) \in Byte
        /\ 128 + ((cp \div 64) % 64) \in Byte /\ 128 + (cp % 64) \in Byte
    BY SMT, <1>1, <1>5 DEF Byte, Page
  <2>2. BytesOf(cp) = <<240 + (cp \div (64 * 64 * 64)), 128 + ((cp \div (64 * 64)) % 64),
                      128 + ((cp \div 64) % 64), 128 + (cp % 64)>>
    BY SMT, <1>5, PointBytes
  <2> QED
    BY SMT, <2>1, <2>2
<1> QED
  BY SMT, <1>1, <1>2, <1>3, <1>4, <1>5 DEF Page

LEMMA PointUnits ==
  ASSUME NEW cp \in Points
  PROVE  /\ cp < 64 * Page => UnitsOf(cp) = <<cp>> /\ cp \in Unit /\ ~ High(cp) /\ ~ Low(cp)
         /\ cp >= 64 * Page => \E h, l \in Unit : /\ UnitsOf(cp) = <<h, l>>
                                                  /\ High(h) /\ Low(l) /\ CodePoint(h, l) = cp
<1>1. cp \in Nat /\ cp < 1088 * Page /\ ~ High(cp) /\ ~ Low(cp)
  BY SMT DEF Points
<1>2. CASE cp < 64 * Page
  BY SMT, <1>1, <1>2 DEF UnitsOf, Unit, Page
<1>3. CASE cp >= 64 * Page
  <2> DEFINE h == 54 * Page + ((cp - 64 * Page) \div Page)
             l == 55 * Page + (cp % Page)
  <2>1. UnitsOf(cp) = <<h, l>>
    BY SMT, <1>1, <1>3 DEF UnitsOf, Page
  <2>2. h \in Unit /\ High(h) /\ l \in Unit /\ Low(l)
    BY SMT, <1>1, <1>3 DEF Unit, High, Low, Page
  <2>3. CodePoint(h, l) = cp
    BY SMT, <1>1, <1>3 DEF CodePoint, Page
  <2> HIDE DEF h, l
  <2> QED
    BY SMT, <1>1, <1>3, <2>1, <2>2, <2>3 DEF Page
<1> QED
  BY SMT, <1>1, <1>2, <1>3 DEF Page

LEMMA PairPoint == \A h, l \in Nat : High(h) /\ Low(l) =>
                     CodePoint(h, l) \in Points /\ CodePoint(h, l) >= 64 * Page
<1> TAKE h, l \in Nat
<1> HAVE High(h) /\ Low(l)
<1> DEFINE x == h - 54 * Page
           y == l - 55 * Page
<1>1. x \in 0 .. 1023 /\ y \in 0 .. 1023
  BY SMT DEF High, Low, Page
<1>2. CodePoint(h, l) = 64 * Page + x * Page + y
  BY DEF CodePoint
<1> HIDE DEF x, y
<1>3. CodePoint(h, l) \in Nat /\ CodePoint(h, l) < 1088 * Page /\ CodePoint(h, l) >= 64 * Page
  BY SMT, <1>1, <1>2 DEF Page
<1>4. ~ High(CodePoint(h, l)) /\ ~ Low(CodePoint(h, l))
  BY SMT, <1>3 DEF High, Low, Page
<1> QED
  BY <1>3, <1>4 DEF Points

LEMMA UnitsTyped == \A cp \in Points : UnitsOf(cp) \in Seq(Unit)
<1> TAKE cp \in Points
<1>1. cp \in Nat
  BY SMT DEF Points
<1>2. CASE cp < 64 * Page
  <2>1. UnitsOf(cp) = <<cp>> /\ cp \in Unit
    BY <1>2, PointUnits
  <2> QED
    BY <2>1
<1>3. CASE cp >= 64 * Page
  <2>1. PICK h, l \in Unit : UnitsOf(cp) = <<h, l>>
    BY <1>3, PointUnits
  <2> QED
    BY <2>1
<1> QED
  BY SMT, <1>1, <1>2, <1>3 DEF Page

-----------------------------------------------------------------------------
(* The encoder.  It puts out the bytes of a text unit by unit. *)
LEMMA PieceTyped ==
  ASSUME NEW s \in Seq(Unit), NEW i \in 1 .. Len(s)
  PROVE  Encoded(s, i) \in Seq(Byte)
<1>1. Len(s) \in Nat /\ s[i] \in Unit
  BY SMT, LenProperties
<1>2. CASE Paired(s, i)
  <2>1. i + 1 \in 1 .. Len(s)
    BY SMT, <1>1, <1>2 DEF Paired
  <2>2. High(s[i]) /\ Low(s[i + 1])
    BY SMT, <1>2 DEF Paired
  <2>3. s[i] \in Nat /\ s[i + 1] \in Nat
    BY <1>1, <2>1 DEF Unit
  <2>4. CodePoint(s[i], s[i + 1]) \in Points
    BY <2>2, <2>3, PairPoint
  <2>5. BytesOf(CodePoint(s[i], s[i + 1])) \in Seq(Byte)
    BY <2>4, BytesTyped
  <2> QED
    BY <1>2, <2>5 DEF Encoded
<1>3. CASE ~ Paired(s, i)
  <2>1. Scalar(s[i]) \in Points
    BY SMT, <1>1 DEF Scalar, Replacement, High, Low, Points, Unit, Page
  <2>2. BytesOf(Scalar(s[i])) \in Seq(Byte) /\ <<>> \in Seq(Byte)
    BY <2>1, BytesTyped
  <2> QED
    BY <1>3, <2>2 DEF Encoded
<1> QED
  BY <1>2, <1>3

(* The recursive function that utf8Encode is the last value of. *)
Longer(bytes, more) == bytes \o more
PutsOut(f, s) == f = [i \in 0 .. Len(s) |-> IF i = 0 THEN <<>> ELSE Longer(f[i - 1], Encoded(s, i))]

Outputs(f, s) == /\ f \in [0 .. Len(s) -> Seq(Byte)]
                 /\ f[0] = <<>>
                 /\ \A i \in 1 .. Len(s) : f[i] = f[i - 1] \o Encoded(s, i)
                 /\ utf8Encode(s) = f[Len(s)]

LEMMA EncodeSteps ==
  ASSUME NEW s \in Seq(Unit)
  PROVE  \E f : Outputs(f, s)
<1> DEFINE n == Len(s)
           step == [i \in 1 .. n |-> [x \in Seq(Byte) |-> x \o Encoded(s, i)]]
<1>1. n \in Nat
  BY LenProperties
<1>2. step \in [1 .. n -> [Seq(Byte) -> Seq(Byte)]]
  <2>1. \A i \in 1 .. n : Encoded(s, i) \in Seq(Byte)
    BY PieceTyped
  <2>2. \A i \in 1 .. n : \A x \in Seq(Byte) : x \o Encoded(s, i) \in Seq(Byte)
    BY <2>1
  <2> QED
    BY <2>2
<1>3. \A i \in 1 .. n : \A x \in Seq(Byte) : step[i][x] = Longer(x, Encoded(s, i))
  BY DEF Longer
<1> HIDE DEF step
<1>4. PICK f \in [0 .. n -> Seq(Byte)] :
        f[0] = <<>> /\ \A i \in 1 .. n : f[i] = step[i][f[i - 1]]
  <2>1. <<>> \in Seq(Byte)
    OBVIOUS
  <2>2. Follows(Seq(Byte), n, <<>>, step)
    BY <1>1, <1>2, <2>1, Iterates
  <2> QED
    BY <2>2 DEF Follows
<1>5. \A i \in 1 .. n : f[i] = Longer(f[i - 1], Encoded(s, i))
  <2> TAKE i \in 1 .. n
  <2>1. i - 1 \in 0 .. n
    BY <1>1
  <2>2. f[i - 1] \in Seq(Byte)
    BY <2>1
  <2> QED
    BY <1>3, <1>4, <2>2
<1>6. PutsOut(f, s)
  BY <1>1, <1>4, <1>5 DEF PutsOut
<1> DEFINE g == CHOOSE h : PutsOut(h, s)
<1>7. PutsOut(g, s)
  BY <1>6
<1>8. utf8Encode(s) = g[n]
  BY DEF utf8Encode, PutsOut, Longer
<1> HIDE DEF g
<1>9. g[0] = <<>> /\ \A i \in 1 .. n : g[i] = Longer(g[i - 1], Encoded(s, i))
  BY <1>1, <1>7 DEF PutsOut
<1>10. \A i \in 0 .. n : g[i] = f[i]
  <2> DEFINE Odd == {i \in 0 .. n : g[i] # f[i]}
  <2>1. SUFFICES ASSUME Odd # {} PROVE FALSE
    OBVIOUS
  <2>2. Odd \in SUBSET Nat
    BY <1>1
  <2>3. PICK k \in Odd : \A m \in Odd : k <= m
    BY <2>1, <2>2, LeastElement
  <2>4. k \in 0 .. n /\ g[k] # f[k]
    OBVIOUS
  <2>5. k # 0
    BY <1>4, <1>9, <2>4
  <2>6. k \in 1 .. n /\ k - 1 \in 0 .. n /\ ~ (k <= k - 1)
    BY <1>1, <2>4, <2>5
  <2>7. g[k - 1] = f[k - 1]
    BY <2>3, <2>6
  <2> QED
    BY <1>5, <1>9, <2>4, <2>6, <2>7
<1>11. utf8Encode(s) = f[n]
  BY <1>1, <1>8, <1>10
<1>12. Outputs(f, s)
  BY <1>4, <1>5, <1>11 DEF Outputs, Longer
<1> QED
  BY <1>12

LEMMA EncodePrefix ==
  ASSUME NEW s \in Seq(Unit), NEW t \in Seq(Unit), Len(s) <= Len(t),
         \A i \in 1 .. Len(s) : Encoded(t, i) = Encoded(s, i),
         NEW f, Outputs(f, s), NEW g, Outputs(g, t)
  PROVE  g[Len(s)] = f[Len(s)]
<1>1. Len(s) \in Nat /\ Len(t) \in Nat
  BY LenProperties
<1>2. f[0] = <<>> /\ \A i \in 1 .. Len(s) : f[i] = f[i - 1] \o Encoded(s, i)
  BY DEF Outputs
<1>3. g[0] = <<>> /\ \A i \in 1 .. Len(t) : g[i] = g[i - 1] \o Encoded(t, i)
  BY DEF Outputs
<1> DEFINE Odd == {i \in 0 .. Len(s) : g[i] # f[i]}
<1>4. Odd = {}
  <2>1. SUFFICES ASSUME Odd # {} PROVE FALSE
    OBVIOUS
  <2>2. Odd \in SUBSET Nat
    BY <1>1
  <2>3. PICK k \in Odd : \A m \in Odd : k <= m
    BY <2>1, <2>2, LeastElement
  <2>4. k \in 0 .. Len(s) /\ g[k] # f[k]
    OBVIOUS
  <2>5. k # 0
    BY <1>2, <1>3, <2>4
  <2>6. k \in 1 .. Len(s) /\ k \in 1 .. Len(t) /\ k - 1 \in 0 .. Len(s) /\ ~ (k <= k - 1)
    BY <1>1, <2>4, <2>5
  <2>7. g[k - 1] = f[k - 1]
    BY <2>3, <2>6
  <2>8. Encoded(t, k) = Encoded(s, k)
    BY <2>6
  <2> QED
    BY <1>2, <1>3, <2>4, <2>6, <2>7, <2>8
<1> QED
  BY <1>1, <1>4

Puts(f, s, i) == f[i] = f[i - 1] \o Encoded(s, i)

(* The bytes of a text with one more code point. *)
LEMMA EncodeAppends ==
  ASSUME NEW s \in Seq(Unit), NEW cp \in Points
  PROVE  utf8Encode(s \o UnitsOf(cp)) = utf8Encode(s) \o BytesOf(cp)
<1> DEFINE t == s \o UnitsOf(cp)
           n == Len(s)
<1>1. n \in Nat /\ UnitsOf(cp) \in Seq(Unit)
  BY LenProperties, UnitsTyped
<1>2. /\ t \in Seq(Unit) /\ Len(t) = n + Len(UnitsOf(cp))
      /\ \A i \in 1 .. n : t[i] = s[i]
      /\ \A i \in 1 .. Len(UnitsOf(cp)) : t[n + i] = UnitsOf(cp)[i]
  <2>1. Concatenates(s \o UnitsOf(cp), s, UnitsOf(cp), Unit)
    BY <1>1, ConcatParts
  <2> QED
    BY <2>1 DEF Concatenates
<1>3. PICK f : Outputs(f, s)
  BY EncodeSteps
<1>4. PICK g : Outputs(g, t)
  BY <1>2, EncodeSteps
<1>5. ASSUME n + 1 <= Len(t), ~ Low(t[n + 1])
      PROVE  g[n] = utf8Encode(s)
  <2>1. \A i \in 1 .. n : Encoded(t, i) = Encoded(s, i)
    <3> TAKE i \in 1 .. n
    <3>1. \A k \in 1 .. n : Paired(t, k) <=> Paired(s, k)
      <4> TAKE k \in 1 .. n
      <4>1. t[k] = s[k] /\ k < Len(t)
        BY <1>1, <1>2, <1>5
      <4>2. CASE k < n
        <5>1. k + 1 \in 1 .. n
          BY <1>1, <4>2
        <5> QED
          BY <1>2, <4>1, <4>2, <5>1 DEF Paired
      <4>3. CASE k = n
        BY <1>5, <4>1, <4>3 DEF Paired
      <4> QED
        BY <1>1, <4>2, <4>3
    <3>2. Paired(s, i) => i + 1 \in 1 .. n
      BY <1>1 DEF Paired
    <3>3. i > 1 => i - 1 \in 1 .. n
      BY <1>1
    <3>4. Paired(s, i) => t[i + 1] = s[i + 1]
      BY <1>2, <3>2
    <3>5. i > 1 => (Paired(t, i - 1) <=> Paired(s, i - 1))
      BY <3>1, <3>3
    <3> QED
      BY <1>2, <3>1, <3>4, <3>5 DEF Encoded
  <2>2. n <= Len(t)
    BY <1>1, <1>5
  <2>3. g[n] = f[n]
    BY ZenonT(30), <1>2, <1>3, <1>4, <2>1, <2>2, EncodePrefix
  <2> QED
    BY <1>3, <2>3 DEF Outputs
<1> HIDE DEF t, n
<1>6. \A i \in 1 .. Len(t) : Puts(g, t, i)
  BY <1>4 DEF Outputs, Puts
<1>7. utf8Encode(t) = g[Len(t)] /\ utf8Encode(s) \in Seq(Byte)
  <2>1. n \in 0 .. n
    BY <1>1
  <2>2. n = Len(s)
    BY DEF n
  <2> QED
    BY <1>3, <1>4, <2>1, <2>2 DEF Outputs
<1>8. BytesOf(cp) \in Seq(Byte)
  BY BytesTyped
<1>9. CASE cp < 64 * Page
  <2>1. UnitsOf(cp) = <<cp>> /\ ~ High(cp) /\ ~ Low(cp)
    BY <1>9, PointUnits
  <2>2. Len(t) = n + 1 /\ t[n + 1] = cp
    BY <1>2, <2>1
  <2>3. g[n] = utf8Encode(s)
    BY <1>1, <1>5, <2>1, <2>2
  <2>4. ~ Paired(t, n + 1) /\ ~ Paired(t, n)
    BY <1>1, <2>1, <2>2 DEF Paired
  <2>5. (n + 1) - 1 = n /\ n + 1 \in 1 .. Len(t)
    BY <1>1, <2>2
  <2>6. Encoded(t, n + 1) = BytesOf(cp)
    <3>1. ~ Paired(t, (n + 1) - 1)
      BY <2>4, <2>5
    <3>2. Scalar(t[n + 1]) = cp
      BY <2>1, <2>2 DEF Scalar
    <3> QED
      BY <1>1, <2>4, <3>1, <3>2 DEF Encoded
  <2>7. g[n + 1] = g[n] \o Encoded(t, n + 1)
    <3>1. Puts(g, t, n + 1)
      BY <1>6, <2>5
    <3> QED
      BY <2>5, <3>1 DEF Puts
  <2>8. utf8Encode(t) = utf8Encode(s) \o BytesOf(cp)
    BY <1>7, <2>2, <2>3, <2>6, <2>7
  <2> QED
    BY <2>8 DEF t
<1>10. CASE cp >= 64 * Page
  <2>1. PICK h, l \in Unit : UnitsOf(cp) = <<h, l>> /\ High(h) /\ Low(l) /\ CodePoint(h, l) = cp
    BY <1>10, PointUnits
  <2>2. Len(t) = n + 2 /\ t[n + 1] = h /\ t[n + 2] = l
    BY <1>2, <2>1
  <2>3. ~ Low(h)
    BY SMT, <2>1 DEF High, Low
  <2>4. g[n] = utf8Encode(s)
    BY <1>1, <1>5, <2>2, <2>3
  <2>5. /\ n + 1 \in 1 .. Len(t) /\ (n + 1) - 1 = n /\ n + 1 + 1 = n + 2
        /\ n + 2 \in 1 .. Len(t) /\ (n + 2) - 1 = n + 1 /\ n + 2 > 1 /\ n + 1 < Len(t) /\ ~ (n + 2 < Len(t))
    BY <1>1, <2>2
  <2>6. Paired(t, n + 1) /\ ~ Paired(t, n + 2)
    BY <2>1, <2>2, <2>5 DEF Paired
  <2>7. Encoded(t, n + 1) = BytesOf(cp) /\ Encoded(t, n + 2) = <<>>
    BY <2>1, <2>2, <2>5, <2>6 DEF Encoded
  <2>8. g[n + 1] = g[n] \o Encoded(t, n + 1) /\ g[n + 2] = g[n + 1] \o Encoded(t, n + 2)
    <3>1. Puts(g, t, n + 1)
      BY <1>6, <2>5
    <3>2. Puts(g, t, n + 2)
      BY <1>6, <2>5
    <3> QED
      BY <2>5, <3>1, <3>2 DEF Puts
  <2>9. utf8Encode(s) \o BytesOf(cp) \in Seq(Byte)
    BY <1>7, <1>8
  <2>10. (utf8Encode(s) \o BytesOf(cp)) \o <<>> = utf8Encode(s) \o BytesOf(cp)
    BY <2>9
  <2>11. utf8Encode(t) = utf8Encode(s) \o BytesOf(cp)
    BY <1>7, <2>2, <2>4, <2>7, <2>8, <2>10
  <2> QED
    BY <2>11 DEF t
<1>11. cp \in Nat
  BY SMT DEF Points
<1> QED
  BY SMT, <1>9, <1>10, <1>11 DEF Page

-----------------------------------------------------------------------------
(* The decoder.  Its states between two bytes, as seven shapes: how many   *)
(* bytes it awaits in all, how many of them it has seen, the code point so *)
(* far and the range of the next byte.                                     *)
Shaped(n, s, c, lo, hi) ==
  \/ n = 0 /\ s = 0 /\ c = 0 /\ lo = 128 /\ hi = 191
  \/ n = 1 /\ s = 0 /\ c \in 2 .. 31 /\ lo = 128 /\ hi = 191
  \/ /\ n = 2 /\ s = 0 /\ c \in 0 .. 15
     /\ lo = (IF c = 0 THEN 160 ELSE 128) /\ hi = (IF c = 13 THEN 159 ELSE 191)
  \/ n = 2 /\ s = 1 /\ c \in 32 .. 1023 /\ ~ (c \in 864 .. 895) /\ lo = 128 /\ hi = 191
  \/ /\ n = 3 /\ s = 0 /\ c \in 0 .. 4
     /\ lo = (IF c = 0 THEN 144 ELSE 128) /\ hi = (IF c = 4 THEN 143 ELSE 191)
  \/ n = 3 /\ s = 1 /\ c \in 16 .. 271 /\ lo = 128 /\ hi = 191
  \/ n = 3 /\ s = 2 /\ c \in Nat /\ c >= Page /\ c < 17 * Page /\ lo = 128 /\ hi = 191

State == {st \in [needed : Nat, seen : Nat, cp : Nat, lower : Nat, upper : Nat] :
            Shaped(st.needed, st.seen, st.cp, st.lower, st.upper)}

Decoder == [units : Seq(Unit), malformed : BOOLEAN, state : State]

(* The bytes of the code point it is in. *)
HeldBytes(n, s, c) ==
  IF n = 0 THEN <<>>
  ELSE IF s = 0 THEN <<(IF n = 1 THEN 192 ELSE IF n = 2 THEN 224 ELSE 240) + c>>
  ELSE IF s = 1 THEN <<(IF n = 2 THEN 224 ELSE 240) + (c \div 64), 128 + (c % 64)>>
  ELSE <<240 + (c \div (64 * 64)), 128 + ((c \div 64) % 64), 128 + (c % 64)>>

Held(st) == HeldBytes(st.needed, st.seen, st.cp)

LEMMA Replaced == /\ Replacement \in Points
                  /\ UnitsOf(Replacement) = <<Replacement>>
<1>1. Replacement \in Points /\ Replacement < 64 * Page
  BY SMT DEF Replacement, Points, High, Low, Page
<1> QED
  BY <1>1, PointUnits

(* What the steps of the decoder are made of. *)
LEMMA DecoderParts ==
  ASSUME NEW d \in Decoder
  PROVE  /\ d.units \in Seq(Unit) /\ d.malformed \in BOOLEAN /\ d.state \in State
         /\ d.state \in [needed : Nat, seen : Nat, cp : Nat, lower : Nat, upper : Nat]
         /\ Shaped(d.state.needed, d.state.seen, d.state.cp, d.state.lower, d.state.upper)
         /\ d = Reading(d, d.state.needed, d.state.seen, d.state.cp, d.state.lower, d.state.upper)
<1>1. d.units \in Seq(Unit) /\ d.malformed \in BOOLEAN /\ d.state \in State
  BY DEF Decoder
<1>2. /\ d.state \in [needed : Nat, seen : Nat, cp : Nat, lower : Nat, upper : Nat]
      /\ Shaped(d.state.needed, d.state.seen, d.state.cp, d.state.lower, d.state.upper)
  BY <1>1 DEF State
<1>3. d.state = [needed |-> d.state.needed, seen |-> d.state.seen, cp |-> d.state.cp,
                 lower |-> d.state.lower, upper |-> d.state.upper]
  BY <1>2
<1>4. d = [units |-> d.units, malformed |-> d.malformed, state |-> d.state]
  BY DEF Decoder
<1>5. d = Reading(d, d.state.needed, d.state.seen, d.state.cp, d.state.lower, d.state.upper)
  BY <1>3, <1>4 DEF Reading
<1> QED
  BY <1>1, <1>2, <1>5

LEMMA IdleState ==
  ASSUME NEW d \in Decoder, d.state.needed = 0
  PROVE  d.state = Idle
<1> DEFINE n == d.state.needed
           s == d.state.seen
           c == d.state.cp
           lo == d.state.lower
           hi == d.state.upper
<1>1. /\ n \in Nat /\ s \in Nat /\ c \in Nat /\ lo \in Nat /\ hi \in Nat
      /\ Shaped(n, s, c, lo, hi) /\ n = 0
  BY DecoderParts
<1>2. d.state = [needed |-> n, seen |-> s, cp |-> c, lower |-> lo, upper |-> hi]
  BY DecoderParts
<1> HIDE DEF n, s, c, lo, hi
<1>3. s = 0 /\ c = 0 /\ lo = 128 /\ hi = 191
  BY <1>1 DEF Shaped
<1> QED
  BY <1>1, <1>2, <1>3 DEF Idle

LEMMA ReaderTyped ==
  ASSUME NEW d \in Decoder, NEW n \in Nat, NEW s \in Nat, NEW c \in Nat, NEW lo \in Nat, NEW hi \in Nat,
         Shaped(n, s, c, lo, hi)
  PROVE  Reading(d, n, s, c, lo, hi) \in Decoder
<1> DEFINE st == [needed |-> n, seen |-> s, cp |-> c, lower |-> lo, upper |-> hi]
<1>1. /\ st \in [needed : Nat, seen : Nat, cp : Nat, lower : Nat, upper : Nat]
      /\ st.needed = n /\ st.seen = s /\ st.cp = c /\ st.lower = lo /\ st.upper = hi
  OBVIOUS
<1> HIDE DEF st
<1>2. st \in State
  BY <1>1 DEF State
<1>3. Reading(d, n, s, c, lo, hi) = [units |-> d.units, malformed |-> d.malformed, state |-> st]
  BY DEF Reading, st
<1> QED
  BY <1>2, <1>3, DecoderParts DEF Decoder

LEMMA PutTyped ==
  ASSUME NEW d \in Decoder, NEW cp \in Points, NEW m \in BOOLEAN
  PROVE  Put(d, cp, m) \in Decoder
<1>1. d.units \in Seq(Unit) /\ UnitsOf(cp) \in Seq(Unit)
  BY DecoderParts, UnitsTyped
<1>2. d.units \o UnitsOf(cp) \in Seq(Unit)
  BY <1>1
<1>3. Idle \in State
  BY DEF Idle, State, Shaped
<1> QED
  BY <1>2, <1>3 DEF Put, Decoder

(* Dividing what a byte of 6 bits was added to. *)
LEMMA Sextets ==
  \A cp, c \in Nat : \A z \in 0 .. 63 : cp = 64 * c + z =>
    /\ cp \div 64 = c /\ cp % 64 = z
    /\ cp \div (64 * 64) = c \div 64
    /\ cp \div (64 * 64 * 64) = c \div (64 * 64)
    /\ cp \div Page = c \div 16
  BY SMT DEF Page

(* A byte puts out a code point whose bytes end with it, or is one more    *)
(* byte of a code point.                                                   *)
Ends(d, b, e) == \E cp \in Points : e = PutOut(d, cp) /\ BytesOf(cp) = Append(Held(d.state), b)
Grows(d, b, e) == /\ e \in Decoder
                  /\ e.units = d.units /\ e.malformed = d.malformed
                  /\ Held(e.state) = Append(Held(d.state), b)

LEMMA ReadingGrows ==
  ASSUME NEW d \in Decoder, NEW n \in Nat, NEW s \in Nat, NEW c \in Nat, NEW lo \in Nat, NEW hi \in Nat,
         Shaped(n, s, c, lo, hi), NEW b, HeldBytes(n, s, c) = Append(Held(d.state), b)
  PROVE  Grows(d, b, Reading(d, n, s, c, lo, hi))
<1>1. Reading(d, n, s, c, lo, hi) \in Decoder
  BY ReaderTyped
<1> QED
  BY <1>1 DEF Grows, Held, Reading

LEMMA LeadKinds ==
  ASSUME NEW d \in Decoder, d.state = Idle, NEW b \in Byte
  PROVE  LET e == Lead(d, b) IN Ends(d, b, e) \/ Grows(d, b, e) \/ e = bad(d)
<1>1. b \in Nat /\ b <= 255
  BY DEF Byte
<1>2. Held(d.state) = <<>> /\ \A x : Append(<<>>, x) = <<x>>
  BY DEF Held, HeldBytes, Idle
<1>3. CASE b <= 127
  <2>1. b \in Points
    BY SMT, <1>1, <1>3 DEF Points, High, Low, Page
  <2>2. BytesOf(b) = <<b>>
    BY <1>1, <1>3, <2>1, PointBytes
  <2>3. Lead(d, b) = PutOut(d, b)
    BY <1>1, <1>3 DEF Lead
  <2> QED
    BY <1>2, <2>1, <2>2, <2>3 DEF Ends
<1>4. CASE b \in 194 .. 223
  <2>1. Lead(d, b) = Reading(d, 1, 0, b % 32, 128, 191)
    BY <1>1, <1>4 DEF Lead, Awaiting
  <2>2. b % 32 \in 2 .. 31 /\ 192 + (b % 32) = b
    BY SMT, <1>4
  <2>3. Shaped(1, 0, b % 32, 128, 191)
    BY <2>2 DEF Shaped
  <2>4. HeldBytes(1, 0, b % 32) = Append(Held(d.state), b)
    BY <1>2, <2>2 DEF HeldBytes
  <2>5. 1 \in Nat /\ 0 \in Nat /\ b % 32 \in Nat /\ 128 \in Nat /\ 191 \in Nat
    BY <2>2
  <2>6. Grows(d, b, Reading(d, 1, 0, b % 32, 128, 191))
    BY ZenonT(30), <2>3, <2>4, <2>5, ReadingGrows
  <2> QED
    BY <2>1, <2>6
<1>5. CASE b \in 224 .. 239
  <2> DEFINE lo == IF b = 224 THEN 160 ELSE 128
             hi == IF b = 237 THEN 159 ELSE 191
  <2>1. Lead(d, b) = Reading(d, 2, 0, b % 16, lo, hi)
    BY <1>1, <1>5 DEF Lead, Awaiting
  <2>2. b % 16 \in 0 .. 15 /\ 224 + (b % 16) = b
    BY SMT, <1>5
  <2>3. Shaped(2, 0, b % 16, lo, hi)
    BY SMT, <2>2 DEF Shaped
  <2>4. HeldBytes(2, 0, b % 16) = Append(Held(d.state), b)
    BY <1>2, <2>2 DEF HeldBytes
  <2>5. lo \in Nat /\ hi \in Nat /\ 2 \in Nat /\ 0 \in Nat /\ b % 16 \in Nat
    BY <2>2
  <2> HIDE DEF lo, hi
  <2>6. Grows(d, b, Reading(d, 2, 0, b % 16, lo, hi))
    BY ZenonT(30), <2>3, <2>4, <2>5, ReadingGrows
  <2> QED
    BY <2>1, <2>6
<1>6. CASE b \in 240 .. 244
  <2> DEFINE lo == IF b = 240 THEN 144 ELSE 128
             hi == IF b = 244 THEN 143 ELSE 191
  <2>1. Lead(d, b) = Reading(d, 3, 0, b % 8, lo, hi)
    BY <1>1, <1>6 DEF Lead, Awaiting
  <2>2. b % 8 \in 0 .. 4 /\ 240 + (b % 8) = b
    BY SMT, <1>6
  <2>3. Shaped(3, 0, b % 8, lo, hi)
    BY SMT, <2>2 DEF Shaped
  <2>4. HeldBytes(3, 0, b % 8) = Append(Held(d.state), b)
    BY <1>2, <2>2 DEF HeldBytes
  <2>5. lo \in Nat /\ hi \in Nat /\ 3 \in Nat /\ 0 \in Nat /\ b % 8 \in Nat
    BY <2>2
  <2> HIDE DEF lo, hi
  <2>6. Grows(d, b, Reading(d, 3, 0, b % 8, lo, hi))
    BY ZenonT(30), <2>3, <2>4, <2>5, ReadingGrows
  <2> QED
    BY <2>1, <2>6
<1>7. CASE b \in 128 .. 193 \/ b \in 245 .. 255
  <2>1. Lead(d, b) = bad(d)
    BY <1>1, <1>7 DEF Lead
  <2> QED
    BY <2>1
<1> QED
  BY <1>1, <1>3, <1>4, <1>5, <1>6, <1>7

LEMMA ContinuedKinds ==
  ASSUME NEW d \in Decoder, d.state.needed # 0, NEW b \in d.state.lower .. d.state.upper
  PROVE  LET e == Continued(d, b) IN Ends(d, b, e) \/ Grows(d, b, e)
<1> DEFINE n == d.state.needed
           s == d.state.seen
           c == d.state.cp
           lo == d.state.lower
           hi == d.state.upper
           z == b - 128
           cp == c * 64 + z
<1>1. n \in Nat /\ s \in Nat /\ c \in Nat /\ lo \in Nat /\ hi \in Nat /\ Shaped(n, s, c, lo, hi)
  BY DecoderParts
<1>2. Held(d.state) = HeldBytes(n, s, c)
  BY DEF Held
<1>3. n # 0 /\ b \in lo .. hi
  OBVIOUS
<1>4. Continued(d, b) = IF s + 1 = n THEN PutOut(d, c * 64 + (b % 64))
                        ELSE Reading(d, n, s + 1, c * 64 + (b % 64), 128, 191)
  BY DEF Continued
<1> HIDE DEF n, s, c, lo, hi
<1>5. b \in 128 .. 191 /\ z \in 0 .. 63 /\ b = 128 + z
  BY SMT, <1>1, <1>3 DEF Shaped
<1>6. b % 64 = z
  BY SMT, <1>5
<1>7. cp \in Nat /\ cp = 64 * c + z
  BY SMT, <1>1, <1>5
<1>8. Continued(d, b) = IF s + 1 = n THEN PutOut(d, cp) ELSE Reading(d, n, s + 1, cp, 128, 191)
  BY <1>4, <1>6
<1> HIDE DEF z, cp
<1>9. /\ cp \div 64 = c /\ cp % 64 = z /\ cp \div (64 * 64) = c \div 64
      /\ cp \div (64 * 64 * 64) = c \div (64 * 64) /\ cp \div Page = c \div 16
  BY <1>1, <1>5, <1>7, Sextets
<1>10. n \in Nat /\ s + 1 \in Nat /\ cp \in Nat
  BY <1>1, <1>7
<1>11. 128 \in Nat /\ 191 \in Nat
  OBVIOUS
<1>12. CASE n = 1 /\ s = 0 /\ c \in 2 .. 31
  <2>1. cp >= 128 /\ cp < 2 * Page /\ cp \in Points
    BY SMT, <1>5, <1>9, <1>7, <1>12 DEF Points, High, Low, Page
  <2>2. BytesOf(cp) = <<192 + (cp \div 64), 128 + (cp % 64)>>
    BY <2>1, PointBytes
  <2>3. BytesOf(cp) = <<192 + c, b>>
    BY <1>5, <1>9, <2>2
  <2>4. HeldBytes(n, s, c) = <<192 + c>>
    BY <1>12 DEF HeldBytes
  <2>5. BytesOf(cp) = Append(Held(d.state), b)
    BY <1>2, <2>3, <2>4
  <2>6. cp \in Points /\ Continued(d, b) = PutOut(d, cp)
    BY <1>8, <1>12, <2>1
  <2>7. Ends(d, b, Continued(d, b))
    BY Zenon, <2>5, <2>6 DEF Ends
  <2> QED
    BY <2>7
<1>13. CASE /\ n = 2 /\ s = 0 /\ c \in 0 .. 15
             /\ lo = (IF c = 0 THEN 160 ELSE 128) /\ hi = (IF c = 13 THEN 159 ELSE 191)
  <2>1. cp \in 32 .. 1023 /\ ~ (cp \in 864 .. 895)
    BY SMT, <1>3, <1>5, <1>7, <1>13
  <2>2. Shaped(n, s + 1, cp, 128, 191)
    BY SMT, <1>13, <2>1 DEF Shaped
  <2>3. HeldBytes(n, s + 1, cp) = <<224 + c, b>>
    BY SMT, <1>5, <1>9, <1>13 DEF HeldBytes
  <2>4. HeldBytes(n, s, c) = <<224 + c>>
    BY <1>13 DEF HeldBytes
  <2>5. HeldBytes(n, s + 1, cp) = Append(Held(d.state), b)
    BY <1>2, <2>3, <2>4
  <2>6. Grows(d, b, Reading(d, n, s + 1, cp, 128, 191))
    BY ZenonT(30), <1>10, <1>11, <2>2, <2>5, ReadingGrows
  <2> QED
    BY <1>8, <1>13, <2>6
<1>14. CASE n = 2 /\ s = 1 /\ c \in 32 .. 1023 /\ ~ (c \in 864 .. 895)
  <2>1. cp >= 2 * Page /\ cp < 64 * Page /\ cp \in Points
    BY SMTT(30), <1>5, <1>9, <1>7, <1>14 DEF Points, High, Low, Page
  <2>2. BytesOf(cp) = <<224 + (cp \div (64 * 64)), 128 + ((cp \div 64) % 64), 128 + (cp % 64)>>
    BY <2>1, PointBytes
  <2>3. BytesOf(cp) = <<224 + (c \div 64), 128 + (c % 64), b>>
    BY <1>5, <1>9, <2>2
  <2>4. HeldBytes(n, s, c) = <<224 + (c \div 64), 128 + (c % 64)>>
    BY <1>14 DEF HeldBytes
  <2>5. BytesOf(cp) = Append(Held(d.state), b)
    BY <1>2, <2>3, <2>4
  <2>6. cp \in Points /\ Continued(d, b) = PutOut(d, cp)
    BY <1>8, <1>14, <2>1
  <2>7. Ends(d, b, Continued(d, b))
    BY Zenon, <2>5, <2>6 DEF Ends
  <2> QED
    BY <2>7
<1>15. CASE /\ n = 3 /\ s = 0 /\ c \in 0 .. 4
             /\ lo = (IF c = 0 THEN 144 ELSE 128) /\ hi = (IF c = 4 THEN 143 ELSE 191)
  <2>1. cp \in 16 .. 271
    BY SMT, <1>3, <1>5, <1>7, <1>15
  <2>2. Shaped(n, s + 1, cp, 128, 191)
    BY SMT, <1>15, <2>1 DEF Shaped
  <2>3. HeldBytes(n, s + 1, cp) = <<240 + c, b>>
    BY SMT, <1>5, <1>9, <1>15 DEF HeldBytes
  <2>4. HeldBytes(n, s, c) = <<240 + c>>
    BY <1>15 DEF HeldBytes
  <2>5. HeldBytes(n, s + 1, cp) = Append(Held(d.state), b)
    BY <1>2, <2>3, <2>4
  <2>6. Grows(d, b, Reading(d, n, s + 1, cp, 128, 191))
    BY ZenonT(30), <1>10, <1>11, <2>2, <2>5, ReadingGrows
  <2> QED
    BY <1>8, <1>15, <2>6
<1>16. CASE n = 3 /\ s = 1 /\ c \in 16 .. 271
  <2>1. cp >= Page /\ cp < 17 * Page
    BY SMTT(30), <1>5, <1>7, <1>16 DEF Page
  <2>2. Shaped(n, s + 1, cp, 128, 191)
    <3>1. n = 3 /\ s + 1 = 2
      BY <1>16
    <3> QED
      BY <1>7, <2>1, <3>1 DEF Shaped
  <2>3. HeldBytes(n, s + 1, cp) = <<240 + (c \div 64), 128 + (c % 64), b>>
    BY SMT, <1>5, <1>9, <1>16 DEF HeldBytes
  <2>4. HeldBytes(n, s, c) = <<240 + (c \div 64), 128 + (c % 64)>>
    BY <1>16 DEF HeldBytes
  <2>5. HeldBytes(n, s + 1, cp) = Append(Held(d.state), b)
    BY <1>2, <2>3, <2>4
  <2>6. Grows(d, b, Reading(d, n, s + 1, cp, 128, 191))
    BY ZenonT(30), <1>10, <1>11, <2>2, <2>5, ReadingGrows
  <2> QED
    BY <1>8, <1>16, <2>6
<1>17. CASE n = 3 /\ s = 2 /\ c >= Page /\ c < 17 * Page
  <2>1. cp >= 64 * Page /\ cp \in Points
    BY SMT, <1>1, <1>5, <1>9, <1>7, <1>17 DEF Points, High, Low, Page
  <2>2. BytesOf(cp) = <<240 + (cp \div (64 * 64 * 64)), 128 + ((cp \div (64 * 64)) % 64),
                        128 + ((cp \div 64) % 64), 128 + (cp % 64)>>
    BY <2>1, PointBytes
  <2>3. BytesOf(cp) = <<240 + (c \div (64 * 64)), 128 + ((c \div 64) % 64), 128 + (c % 64), b>>
    BY <1>5, <1>9, <2>2
  <2>4. HeldBytes(n, s, c) = <<240 + (c \div (64 * 64)), 128 + ((c \div 64) % 64), 128 + (c % 64)>>
    BY <1>17 DEF HeldBytes
  <2>5. BytesOf(cp) = Append(Held(d.state), b)
    BY <1>2, <2>3, <2>4
  <2>6. cp \in Points /\ Continued(d, b) = PutOut(d, cp)
    BY <1>8, <1>17, <2>1
  <2>7. Ends(d, b, Continued(d, b))
    BY Zenon, <2>5, <2>6 DEF Ends
  <2> QED
    BY <2>7
<1> QED
  BY SMT, <1>1, <1>3, <1>12, <1>13, <1>14, <1>15, <1>16, <1>17 DEF Shaped

(* What one byte may do to the decoder, and what it does.  A byte out of   *)
(* the range of the next one replaces the code point it is in, and is then *)
(* taken as a lead.                                                        *)
OneKind(d, b, e) == Ends(d, b, e) \/ Grows(d, b, e) \/ e = bad(d)

LEMMA BadTyped ==
  ASSUME NEW d \in Decoder
  PROVE  bad(d) \in Decoder /\ bad(d).state = Idle /\ bad(d).malformed = TRUE
<1>1. bad(d) \in Decoder
  BY Replaced, PutTyped DEF bad
<1> QED
  BY <1>1 DEF bad, Put

LEMMA OctetKinds ==
  ASSUME NEW d \in Decoder, NEW b \in Byte
  PROVE  \/ OneKind(d, b, Octet(d, b))
         \/ d.state.needed # 0 /\ OneKind(bad(d), b, Octet(d, b))
<1>1. CASE d.state.needed = 0
  <2>1. d.state = Idle
    BY <1>1, IdleState
  <2>2. Octet(d, b) = Lead(d, b)
    BY <1>1 DEF Octet
  <2>3. OneKind(d, b, Lead(d, b))
    BY <2>1, LeadKinds DEF OneKind
  <2> QED
    BY <1>1, <2>2, <2>3
<1>2. CASE d.state.needed # 0 /\ b \in d.state.lower .. d.state.upper
  <2>1. Octet(d, b) = Continued(d, b)
    BY <1>2 DEF Octet
  <2>2. Ends(d, b, Continued(d, b)) \/ Grows(d, b, Continued(d, b))
    BY <1>2, ContinuedKinds
  <2> QED
    BY <2>1, <2>2 DEF OneKind
<1>3. CASE d.state.needed # 0 /\ b \notin d.state.lower .. d.state.upper
  <2>1. Octet(d, b) = Lead(bad(d), b)
    BY <1>3 DEF Octet, Interrupted
  <2>2. OneKind(bad(d), b, Lead(bad(d), b))
    BY BadTyped, LeadKinds DEF OneKind
  <2> QED
    BY <1>3, <2>1, <2>2
<1> QED
  BY <1>1, <1>2, <1>3

-----------------------------------------------------------------------------
(* The bytes of a code point that the decoder is in. *)
LEMMA HeldTyped == \A st \in State : Held(st) \in Seq(Byte) /\ (st.needed # 0 => Len(Held(st)) >= 1)
<1> TAKE st \in State
<1> DEFINE n == st.needed
           s == st.seen
           c == st.cp
           lo == st.lower
           hi == st.upper
<1>1. n \in Nat /\ s \in Nat /\ c \in Nat /\ Shaped(n, s, c, lo, hi)
  BY DEF State
<1>2. Held(st) = HeldBytes(n, s, c)
  BY DEF Held
<1> HIDE DEF n, s, c, lo, hi
<1>3. CASE n = 0
  BY <1>2, <1>3 DEF HeldBytes, n
<1>4. CASE n # 0 /\ s = 0
  <2> DEFINE x == (IF n = 1 THEN 192 ELSE IF n = 2 THEN 224 ELSE 240) + c
  <2>1. x \in Byte
    BY SMT, <1>1, <1>4 DEF Shaped, Byte
  <2>2. HeldBytes(n, s, c) = <<x>>
    BY <1>4 DEF HeldBytes
  <2> HIDE DEF x
  <2> QED
    BY <1>2, <2>1, <2>2
<1>5. CASE n # 0 /\ s = 1
  <2> DEFINE x == (IF n = 2 THEN 224 ELSE 240) + (c \div 64)
             y == 128 + (c % 64)
  <2>1. x \in Byte /\ y \in Byte
    BY SMT, <1>1, <1>5 DEF Shaped, Byte
  <2>2. HeldBytes(n, s, c) = <<x, y>>
    BY <1>5 DEF HeldBytes
  <2> HIDE DEF x, y
  <2> QED
    BY <1>2, <2>1, <2>2
<1>6. CASE n # 0 /\ s # 0 /\ s # 1
  <2> DEFINE x == 240 + (c \div (64 * 64))
             y == 128 + ((c \div 64) % 64)
             z == 128 + (c % 64)
  <2>1. x \in Byte /\ y \in Byte /\ z \in Byte
    BY SMT, <1>1, <1>6 DEF Shaped, Byte, Page
  <2>2. HeldBytes(n, s, c) = <<x, y, z>>
    BY <1>6 DEF HeldBytes
  <2> HIDE DEF x, y, z
  <2> QED
    BY <1>2, <2>1, <2>2
<1> QED
  BY <1>3, <1>4, <1>5, <1>6

(* How much the decoder has kept of the bytes: units, and bytes held. *)
Remains(d) == Len(d.units) + Len(Held(d.state))

LEMMA KeptNat == \A d \in Decoder : Remains(d) \in Nat /\ Len(d.units) \in Nat /\ Len(Held(d.state)) \in Nat
<1> TAKE d \in Decoder
<1>1. d.units \in Seq(Unit) /\ Held(d.state) \in Seq(Byte)
  BY DecoderParts, HeldTyped
<1>2. Len(d.units) \in Nat /\ Len(Held(d.state)) \in Nat
  BY <1>1, LenProperties
<1> DEFINE u == Len(d.units)
           h == Len(Held(d.state))
<1>3. Remains(d) = u + h /\ u \in Nat /\ h \in Nat
  BY <1>2 DEF Remains
<1> HIDE DEF u, h
<1>4. Remains(d) \in Nat
  BY <1>3
<1> QED
  BY <1>2, <1>4

LEMMA IdleHolds == Held(Idle) = <<>> /\ Len(Held(Idle)) = 0
  BY DEF Held, HeldBytes, Idle

LEMMA PointLengths ==
  \A cp \in Points : Len(UnitsOf(cp)) \in Nat /\ Len(UnitsOf(cp)) <= Len(BytesOf(cp))
<1> TAKE cp \in Points
<1>1. cp \in Nat
  BY SMT DEF Points
<1>2. CASE cp < 64 * Page
  <2>1. Len(UnitsOf(cp)) = 1
    BY <1>2, PointUnits
  <2>2. Len(BytesOf(cp)) >= 1
    <3>1. CASE cp < 128
      <4>1. BytesOf(cp) = <<cp>>
        BY <3>1, PointBytes
      <4> QED
        BY <4>1
    <3>2. CASE cp >= 128 /\ cp < 2 * Page
      <4>1. BytesOf(cp) = <<192 + (cp \div 64), 128 + (cp % 64)>>
        BY <3>2, PointBytes
      <4> QED
        BY <4>1
    <3>3. CASE cp >= 2 * Page
      <4>1. BytesOf(cp) = <<224 + (cp \div (64 * 64)), 128 + ((cp \div 64) % 64), 128 + (cp % 64)>>
        BY <1>2, <3>3, PointBytes
      <4> QED
        BY <4>1
    <3> QED
      BY SMT, <1>1, <3>1, <3>2, <3>3 DEF Page
  <2> QED
    BY <2>1, <2>2
<1>3. CASE cp >= 64 * Page
  <2>1. Len(UnitsOf(cp)) = 2
    BY <1>3, PointUnits
  <2>2. Len(BytesOf(cp)) = 4
    BY <1>3, PointBytes
  <2> QED
    BY <2>1, <2>2
<1> QED
  BY SMT, <1>1, <1>2, <1>3 DEF Page

LEMMA PutKept ==
  ASSUME NEW d \in Decoder, NEW cp \in Points, NEW m \in BOOLEAN
  PROVE  Remains(Put(d, cp, m)) = Len(d.units) + Len(UnitsOf(cp))
<1>1. d.units \in Seq(Unit) /\ UnitsOf(cp) \in Seq(Unit)
  BY DecoderParts, UnitsTyped
<1>2. Len(d.units \o UnitsOf(cp)) = Len(d.units) + Len(UnitsOf(cp))
  BY <1>1, ConcatProperties
<1>3. Put(d, cp, m).units = d.units \o UnitsOf(cp) /\ Put(d, cp, m).state = Idle
  BY DEF Put
<1>4. Len(d.units) \in Nat /\ Len(UnitsOf(cp)) \in Nat
  BY <1>1, LenProperties
<1> QED
  BY <1>2, <1>3, <1>4, IdleHolds DEF Remains

LEMMA KindsKeep ==
  ASSUME NEW d \in Decoder, NEW b \in Byte, NEW e, OneKind(d, b, e)
  PROVE  e \in Decoder /\ Remains(e) <= Remains(d) + 1
<1>1. d.malformed \in BOOLEAN /\ Held(d.state) \in Seq(Byte)
  BY DecoderParts, HeldTyped
<1>2. Len(Append(Held(d.state), b)) = Len(Held(d.state)) + 1
  BY <1>1
<1>3. Remains(d) \in Nat /\ Len(d.units) \in Nat /\ Len(Held(d.state)) \in Nat
  BY KeptNat
<1> DEFINE u == Len(d.units)
           h == Len(Held(d.state))
<1>4. Remains(d) = u + h /\ u \in Nat /\ h \in Nat
  BY <1>3 DEF Remains
<1> HIDE DEF u, h
<1>5. ASSUME e \in Decoder, NEW x \in Nat, x <= h + 1, Remains(e) = u + x
      PROVE  e \in Decoder /\ Remains(e) <= Remains(d) + 1
  BY <1>4, <1>5
<1>6. ASSUME e \in Decoder, Remains(e) = u + (h + 1)
      PROVE  e \in Decoder /\ Remains(e) <= Remains(d) + 1
  BY <1>4, <1>6
<1>7. CASE Ends(d, b, e)
  <2>1. PICK cp \in Points : e = PutOut(d, cp) /\ BytesOf(cp) = Append(Held(d.state), b)
    BY <1>7 DEF Ends
  <2>2. e = Put(d, cp, d.malformed)
    BY <2>1 DEF PutOut
  <2>3. e \in Decoder
    BY <1>1, <2>2, PutTyped
  <2>4. Remains(e) = Len(d.units) + Len(UnitsOf(cp))
    BY <1>1, <2>2, PutKept
  <2>5. Len(UnitsOf(cp)) \in Nat /\ Len(UnitsOf(cp)) <= Len(Held(d.state)) + 1
    BY <1>2, <2>1, PointLengths
  <2> QED
    <3>1. Len(UnitsOf(cp)) <= h + 1 /\ Remains(e) = u + Len(UnitsOf(cp))
      BY <2>4, <2>5 DEF u, h
    <3> QED
      BY <1>5, <2>3, <2>5, <3>1
<1>8. CASE Grows(d, b, e)
  <2>1. e \in Decoder /\ e.units = d.units /\ Held(e.state) = Append(Held(d.state), b)
    BY <1>8 DEF Grows
  <2> QED
    <3>1. Remains(e) = Len(e.units) + Len(Held(e.state))
      BY DEF Remains
    <3>2. Len(e.units) = Len(d.units) /\ Len(Held(e.state)) = Len(Held(d.state)) + 1
      BY <1>2, <2>1
    <3>3. Remains(e) = u + (h + 1)
      BY <3>1, <3>2 DEF u, h
    <3> QED
      BY <1>6, <2>1, <3>3
<1>9. CASE e = bad(d)
  <2>1. e \in Decoder
    BY <1>9, BadTyped
  <2>2. Remains(e) = Len(d.units) + Len(UnitsOf(Replacement))
    BY <1>9, Replaced, PutKept DEF bad
  <2>3. Len(UnitsOf(Replacement)) = 1
    BY Replaced
  <2> QED
    <3>1. 1 <= h + 1 /\ Remains(e) = u + 1 /\ 1 \in Nat
      <4>1. Remains(e) = u + 1
        BY <2>2, <2>3 DEF u
      <4> QED
        BY <1>4, <4>1
    <3> QED
      BY <1>5, <2>1, <3>1
<1> QED
  BY <1>7, <1>8, <1>9 DEF OneKind

LEMMA OctetKeeps ==
  ASSUME NEW d \in Decoder, NEW b \in Byte
  PROVE  Octet(d, b) \in Decoder /\ Remains(Octet(d, b)) <= Remains(d) + 1
<1>1. CASE OneKind(d, b, Octet(d, b))
  BY <1>1, KindsKeep
<1>2. CASE d.state.needed # 0 /\ OneKind(bad(d), b, Octet(d, b))
  <2> DEFINE u == Len(d.units)
             h == Len(Held(d.state))
             x == Remains(Octet(d, b))
  <2>1. bad(d) \in Decoder
    BY BadTyped
  <2>2. Octet(d, b) \in Decoder /\ x <= Remains(bad(d)) + 1
    BY <1>2, <2>1, KindsKeep
  <2>3. Remains(bad(d)) = u + 1
    <3>1. Len(UnitsOf(Replacement)) = 1
      BY Replaced
    <3> QED
      BY <3>1, Replaced, PutKept DEF bad
  <2>4. h >= 1
    BY <1>2, DecoderParts, HeldTyped
  <2>5. Remains(d) = u + h /\ u \in Nat /\ h \in Nat
    BY KeptNat DEF Remains
  <2>6. x \in Nat
    BY <2>2, KeptNat
  <2> HIDE DEF u, h, x
  <2>7. x <= Remains(d) + 1
    BY <2>2, <2>3, <2>4, <2>5, <2>6
  <2> QED
    BY <2>2, <2>7 DEF x
<1> QED
  BY <1>1, <1>2, OctetKinds

-----------------------------------------------------------------------------
(* The recursive function that DecoderAfter is the last value of. *)
TakesIn(f, bs) == f = [i \in 0 .. Len(bs) |-> IF i = 0 THEN Start ELSE Octet(f[i - 1], bs[i])]

Decodes(f, bs) == /\ f \in [0 .. Len(bs) -> Decoder]
                  /\ f[0] = Start
                  /\ \A i \in 1 .. Len(bs) : f[i] = Octet(f[i - 1], bs[i])
                  /\ DecoderAfter(bs) = f[Len(bs)]

LEMMA StartTyped == Start \in Decoder /\ Remains(Start) = 0
<1>1. Idle \in State
  BY DEF Idle, State, Shaped
<1>2. Start \in Decoder
  BY <1>1 DEF Start, Decoder
<1>3. Start.units = <<>> /\ Start.state = Idle
  BY DEF Start
<1>4. Len(<<>>) = 0
  OBVIOUS
<1> QED
  BY <1>2, <1>3, <1>4, IdleHolds DEF Remains

LEMMA DecodeSteps ==
  ASSUME NEW bs \in Seq(Byte)
  PROVE  \E f : Decodes(f, bs)
<1> DEFINE n == Len(bs)
           step == [i \in 1 .. n |-> [x \in Decoder |-> Octet(x, bs[i])]]
<1>1. n \in Nat
  BY LenProperties
<1>2. step \in [1 .. n -> [Decoder -> Decoder]]
  <2>1. \A i \in 1 .. n : bs[i] \in Byte
    BY ElementOfSeq
  <2>2. \A i \in 1 .. n : \A x \in Decoder : Octet(x, bs[i]) \in Decoder
    BY <2>1, OctetKeeps
  <2> QED
    BY <2>2
<1>3. \A i \in 1 .. n : \A x \in Decoder : step[i][x] = Octet(x, bs[i])
  OBVIOUS
<1> HIDE DEF step
<1>4. PICK f \in [0 .. n -> Decoder] :
        f[0] = Start /\ \A i \in 1 .. n : f[i] = step[i][f[i - 1]]
  <2>1. Follows(Decoder, n, Start, step)
    BY <1>1, <1>2, StartTyped, Iterates
  <2> QED
    BY <2>1 DEF Follows
<1>5. \A i \in 1 .. n : f[i] = Octet(f[i - 1], bs[i])
  <2> TAKE i \in 1 .. n
  <2>1. i - 1 \in 0 .. n
    BY <1>1
  <2>2. f[i - 1] \in Decoder
    BY <2>1
  <2> QED
    BY <1>3, <1>4, <2>2
<1>6. TakesIn(f, bs)
  BY <1>1, <1>4, <1>5 DEF TakesIn
<1> DEFINE g == CHOOSE h : TakesIn(h, bs)
<1>7. TakesIn(g, bs)
  BY <1>6
<1>8. DecoderAfter(bs) = g[n]
  BY DEF DecoderAfter, TakesIn
<1> HIDE DEF g
<1>9. g[0] = Start /\ \A i \in 1 .. n : g[i] = Octet(g[i - 1], bs[i])
  BY <1>1, <1>7 DEF TakesIn
<1>10. \A i \in 0 .. n : g[i] = f[i]
  <2> DEFINE Odd == {i \in 0 .. n : g[i] # f[i]}
  <2>1. SUFFICES ASSUME Odd # {} PROVE FALSE
    OBVIOUS
  <2>2. Odd \in SUBSET Nat
    BY <1>1
  <2>3. PICK k \in Odd : \A m \in Odd : k <= m
    BY <2>1, <2>2, LeastElement
  <2>4. k \in 0 .. n /\ g[k] # f[k]
    OBVIOUS
  <2>5. k # 0
    BY <1>4, <1>9, <2>4
  <2>6. k \in 1 .. n /\ k - 1 \in 0 .. n /\ ~ (k <= k - 1)
    BY <1>1, <2>4, <2>5
  <2>7. g[k - 1] = f[k - 1]
    BY <2>3, <2>6
  <2> QED
    BY <1>5, <1>9, <2>4, <2>6, <2>7
<1>11. DecoderAfter(bs) = f[n]
  BY <1>1, <1>8, <1>10
<1>12. Decodes(f, bs)
  BY <1>4, <1>5, <1>11 DEF Decodes
<1> QED
  BY <1>12

(* The decoder takes in one more byte. *)
LEMMA DecodeAppends ==
  ASSUME NEW bs \in Seq(Byte), NEW b \in Byte
  PROVE  DecoderAfter(Append(bs, b)) = Octet(DecoderAfter(bs), b)
<1> DEFINE t == Append(bs, b)
           n == Len(bs)
<1>1. n \in Nat /\ t \in Seq(Byte) /\ Len(t) = n + 1 /\ t[n + 1] = b /\ \A i \in 1 .. n : t[i] = bs[i]
  BY LenProperties, AppendProperties
<1>2. PICK f : Decodes(f, bs)
  BY DecodeSteps
<1>3. PICK g : Decodes(g, t)
  BY <1>1, DecodeSteps
<1>4. f[0] = Start /\ (\A i \in 1 .. n : f[i] = Octet(f[i - 1], bs[i])) /\ DecoderAfter(bs) = f[n]
  BY <1>2 DEF Decodes
<1>5. g[0] = Start /\ (\A i \in 1 .. n + 1 : g[i] = Octet(g[i - 1], t[i])) /\ DecoderAfter(t) = g[n + 1]
  BY <1>1, <1>3 DEF Decodes
<1> HIDE DEF t, n
<1> DEFINE Odd == {i \in 0 .. n : g[i] # f[i]}
<1>6. Odd = {}
  <2>1. SUFFICES ASSUME Odd # {} PROVE FALSE
    OBVIOUS
  <2>2. Odd \in SUBSET Nat
    BY <1>1
  <2>3. PICK k \in Odd : \A m \in Odd : k <= m
    BY <2>1, <2>2, LeastElement
  <2>4. k \in 0 .. n /\ g[k] # f[k]
    OBVIOUS
  <2>5. k # 0
    BY <1>4, <1>5, <2>4
  <2>6. k \in 1 .. n /\ k \in 1 .. n + 1 /\ k - 1 \in 0 .. n /\ ~ (k <= k - 1)
    BY <1>1, <2>4, <2>5
  <2>7. g[k - 1] = f[k - 1]
    BY <2>3, <2>6
  <2>8. t[k] = bs[k]
    BY <1>1, <2>6
  <2> QED
    BY <1>4, <1>5, <2>4, <2>6, <2>7, <2>8
<1>7. n \in 0 .. n /\ n + 1 \in 1 .. n + 1 /\ (n + 1) - 1 = n
  BY <1>1
<1>8. g[n] = f[n]
  BY <1>6, <1>7
<1>9. g[n + 1] = Octet(g[n], b)
  BY <1>1, <1>5, <1>7
<1>10. DecoderAfter(t) = Octet(DecoderAfter(bs), b)
  BY <1>4, <1>5, <1>8, <1>9
<1> QED
  BY <1>10 DEF t

LEMMA DecodeEmpty == DecoderAfter(<<>>) = Start
<1>1. <<>> \in Seq(Byte) /\ Len(<<>>) = 0
  OBVIOUS
<1>2. PICK f : Decodes(f, <<>>)
  BY <1>1, DecodeSteps
<1> QED
  BY <1>1, <1>2 DEF Decodes

-----------------------------------------------------------------------------
(* What a decoder has taken in: the bytes of the units it put out, and the *)
(* bytes it holds, if nothing was malformed; and no more of anything than  *)
(* there were bytes.                                                       *)
Spelled(d, bs) == ~ d.malformed => utf8Encode(d.units) \o Held(d.state) = bs

Sound(bs) == /\ DecoderAfter(bs) \in Decoder
             /\ Remains(DecoderAfter(bs)) <= Len(bs)
             /\ Spelled(DecoderAfter(bs), bs)

LEMMA EncodeTyped == \A s \in Seq(Unit) : utf8Encode(s) \in Seq(Byte)
<1> TAKE s \in Seq(Unit)
<1>1. PICK f : Outputs(f, s)
  BY EncodeSteps
<1>2. Len(s) \in 0 .. Len(s)
  BY LenProperties
<1> QED
  BY <1>1, <1>2 DEF Outputs

LEMMA EncodeEmpty == utf8Encode(<<>>) = <<>>
<1>1. <<>> \in Seq(Unit) /\ Len(<<>>) = 0
  OBVIOUS
<1>2. PICK f : Outputs(f, <<>>)
  BY <1>1, EncodeSteps
<1> QED
  BY <1>1, <1>2 DEF Outputs

Joins(a, h, b) == a \o Append(h, b) = Append(a \o h, b)

LEMMA AppendJoins ==
  ASSUME NEW T, NEW a \in Seq(T), NEW h \in Seq(T), NEW b \in T
  PROVE  Joins(a, h, b)
<1>1. Append(h, b) = h \o <<b>> /\ <<b>> \in Seq(T) /\ a \o h \in Seq(T)
  BY AppendIsConcat
<1>2. Append(a \o h, b) = (a \o h) \o <<b>>
  BY <1>1, AppendIsConcat
<1>3. (a \o h) \o <<b>> = a \o (h \o <<b>>)
  BY <1>1, ConcatAssociative
<1> QED
  BY <1>1, <1>2, <1>3 DEF Joins

LEMMA KindsSpell ==
  ASSUME NEW d \in Decoder, NEW bs \in Seq(Byte), NEW b \in Byte, NEW e,
         Spelled(d, bs), OneKind(d, b, e)
  PROVE  Spelled(e, Append(bs, b))
<1>1. SUFFICES ASSUME ~ e.malformed
               PROVE  utf8Encode(e.units) \o Held(e.state) = Append(bs, b)
  BY DEF Spelled
<1>2. d.units \in Seq(Unit) /\ Held(d.state) \in Seq(Byte)
  BY DecoderParts, HeldTyped
<1>3. utf8Encode(d.units) \in Seq(Byte)
  BY <1>2, EncodeTyped
<1>4. Joins(utf8Encode(d.units), Held(d.state), b)
  BY <1>2, <1>3, AppendJoins
<1>5. ~ d.malformed => utf8Encode(d.units) \o Append(Held(d.state), b) = Append(bs, b)
  BY <1>4 DEF Joins, Spelled
<1>6. CASE Ends(d, b, e)
  <2>1. PICK cp \in Points : e = PutOut(d, cp) /\ BytesOf(cp) = Append(Held(d.state), b)
    BY <1>6 DEF Ends
  <2>2. e.units = d.units \o UnitsOf(cp) /\ e.malformed = d.malformed /\ e.state = Idle
    BY <2>1 DEF PutOut, Put
  <2>3. utf8Encode(e.units) = utf8Encode(d.units) \o BytesOf(cp)
    BY <1>2, <2>2, EncodeAppends
  <2>4. utf8Encode(e.units) = Append(bs, b)
    BY <1>1, <1>5, <2>1, <2>2, <2>3
  <2>5. Held(e.state) = <<>>
    BY <2>2, IdleHolds
  <2>6. Append(bs, b) \in Seq(Byte)
    BY AppendProperties
  <2>7. Append(bs, b) \o <<>> = Append(bs, b)
    BY <2>6, ConcatEmptySeq
  <2> QED
    BY <2>4, <2>5, <2>7
<1>7. CASE Grows(d, b, e)
  BY <1>1, <1>5, <1>7 DEF Grows
<1>8. CASE e = bad(d)
  BY <1>1, <1>8, BadTyped
<1> QED
  BY <1>6, <1>7, <1>8 DEF OneKind

LEMMA DecoderSound == \A bs \in Seq(Byte) : Sound(bs)
<1> DEFINE Odd == {n \in Nat : \E bs \in Seq(Byte) : Len(bs) = n /\ ~ Sound(bs)}
<1>1. SUFFICES Odd = {}
  BY LenProperties
<1>2. SUFFICES ASSUME Odd # {} PROVE FALSE
  OBVIOUS
<1>3. Odd \in SUBSET Nat
  OBVIOUS
<1>4. PICK n \in Odd : \A m \in Odd : n <= m
  BY <1>2, <1>3, LeastElement
<1>5. PICK bs \in Seq(Byte) : Len(bs) = n /\ ~ Sound(bs)
  OBVIOUS
<1>6. bs # <<>>
  <2>1. SUFFICES ASSUME bs = <<>> PROVE FALSE
    OBVIOUS
  <2>2. DecoderAfter(bs) = Start /\ Len(bs) = 0
    BY <2>1, DecodeEmpty
  <2>3. Start.units = <<>> /\ Start.state = Idle
    BY DEF Start
  <2>4. <<>> \o <<>> = <<>>
    OBVIOUS
  <2>5. Spelled(Start, bs)
    BY <2>1, <2>3, <2>4, EncodeEmpty, IdleHolds DEF Spelled
  <2> QED
    BY <1>5, <2>2, <2>5, StartTyped DEF Sound
<1>7. PICK front \in Seq(Byte), b \in Byte : bs = Append(front, b)
  BY <1>6, SequenceEmptyOrAppend
<1>8. Len(front) \in Nat /\ Len(bs) = Len(front) + 1
  BY <1>7, LenProperties, AppendProperties
<1>9. ~ (n <= Len(front))
  BY <1>5, <1>8
<1>10. Sound(front)
  BY <1>4, <1>8, <1>9
<1> DEFINE d == DecoderAfter(front)
           e == DecoderAfter(bs)
<1>11. d \in Decoder /\ Remains(d) <= Len(front) /\ Spelled(d, front)
  BY <1>10 DEF Sound
<1>12. e = Octet(d, b)
  BY <1>7, DecodeAppends
<1>13. e \in Decoder /\ Remains(e) <= Remains(d) + 1
  BY <1>11, <1>12, OctetKeeps
<1>14. Remains(e) <= Len(bs)
  <2>1. Remains(e) \in Nat /\ Remains(d) \in Nat
    BY <1>11, <1>13, KeptNat
  <2> QED
    BY <1>8, <1>11, <1>13, <2>1
<1>15. Spelled(e, bs)
  <2>1. CASE OneKind(d, b, e)
    BY <1>7, <1>11, <2>1, KindsSpell
  <2>2. CASE OneKind(bad(d), b, e)
    <3>1. bad(d) \in Decoder /\ Spelled(bad(d), front)
      BY <1>11, BadTyped DEF Spelled
    <3> QED
      BY <1>7, <2>2, <3>1, KindsSpell
  <2> QED
    BY <1>11, <1>12, <2>1, <2>2, OctetKinds
<1> QED
  BY <1>5, <1>13, <1>14, <1>15 DEF Sound

-----------------------------------------------------------------------------
(* A code point whose bytes are whole is read, whatever came before. *)
LEMMA SettledTyped ==
  ASSUME NEW d \in Decoder
  PROVE  /\ Settled(d) \in Decoder /\ Settled(d).state = Idle
         /\ ~ Settled(d).malformed => Settled(d) = d
         /\ Len(Settled(d).units) <= Remains(d)
<1>1. CASE d.state.needed = 0
  <2>1. d.state = Idle /\ Settled(d) = d
    BY <1>1, IdleState DEF Settled
  <2> DEFINE u == Len(d.units)
             h == Len(Held(d.state))
  <2>2. Remains(d) = u + h /\ u \in Nat /\ h \in Nat
    BY KeptNat DEF Remains
  <2> HIDE DEF u, h
  <2>3. u <= Remains(d)
    BY <2>2
  <2> QED
    BY <2>1, <2>3 DEF u
<1>2. CASE d.state.needed # 0
  <2>1. Settled(d) = bad(d)
    BY <1>2 DEF Settled
  <2>2. bad(d) \in Decoder /\ bad(d).state = Idle /\ bad(d).malformed = TRUE
    BY BadTyped
  <2> DEFINE u == Len(d.units)
             h == Len(Held(d.state))
  <2>3. Remains(d) = u + h /\ u \in Nat /\ h \in Nat
    BY KeptNat DEF Remains
  <2>4. h >= 1
    BY <1>2, DecoderParts, HeldTyped
  <2>5. Len(bad(d).units) = u + 1
    <3>1. bad(d).units = d.units \o <<Replacement>>
      BY Replaced DEF bad, Put
    <3>2. d.units \in Seq(Unit) /\ <<Replacement>> \in Seq(Unit) /\ Len(<<Replacement>>) = 1
      BY DecoderParts, Replaced, UnitsTyped
    <3> QED
      BY <3>1, <3>2, ConcatProperties
  <2> HIDE DEF u, h
  <2>6. u + 1 <= Remains(d)
    BY <2>3, <2>4
  <2> QED
    BY <2>1, <2>2, <2>5, <2>6
<1> QED
  BY <1>1, <1>2

(* A byte that cannot continue a code point begins one. *)
LEMMA LeadReads ==
  ASSUME NEW d \in Decoder, NEW b \in Byte, b \notin 128 .. 191
  PROVE  Octet(d, b) = Lead(Settled(d), b)
<1>1. CASE d.state.needed = 0
  BY <1>1 DEF Octet, Settled
<1>2. CASE d.state.needed # 0
  <2>1. b \notin d.state.lower .. d.state.upper
    <3> DEFINE n == d.state.needed
               s == d.state.seen
               c == d.state.cp
               lo == d.state.lower
               hi == d.state.upper
    <3>1. /\ n \in Nat /\ s \in Nat /\ c \in Nat /\ lo \in Nat /\ hi \in Nat
          /\ Shaped(n, s, c, lo, hi) /\ b \in Nat
      BY DecoderParts DEF Byte
    <3> HIDE DEF n, s, c, lo, hi
    <3>2. lo >= 128 /\ hi <= 191
      BY SMT, <3>1 DEF Shaped
    <3>3. b \notin lo .. hi
      BY <3>1, <3>2
    <3> QED
      BY <3>3 DEF lo, hi
  <2> QED
    BY <1>2, <2>1 DEF Octet, Interrupted, Settled
<1> QED
  BY <1>1, <1>2

(* A byte in the range of the next one continues the code point. *)
ReadsNext(d, n, s, c, lo, hi, z) ==
  Octet(Reading(d, n, s, c, lo, hi), 128 + z) =
    IF s + 1 = n THEN PutOut(d, (c * 64) + z) ELSE Reading(d, n, s + 1, (c * 64) + z, 128, 191)

LEMMA ReadsOn ==
  ASSUME NEW d, NEW n \in Nat, NEW s \in Nat, NEW c \in Nat, NEW lo \in Nat, NEW hi \in Nat,
         n # 0, NEW z \in 0 .. 63, 128 + z \in lo .. hi
  PROVE  ReadsNext(d, n, s, c, lo, hi, z)
<1> DEFINE e == Reading(d, n, s, c, lo, hi)
           b == 128 + z
<1>1. /\ e.state.needed = n /\ e.state.seen = s /\ e.state.cp = c
      /\ e.state.lower = lo /\ e.state.upper = hi
      /\ e.units = d.units /\ e.malformed = d.malformed
  BY DEF Reading
<1>2. b % 64 = z /\ b \in lo .. hi
  BY SMT
<1> HIDE DEF e, b
<1>3. Octet(e, b) = Continued(e, b)
  BY <1>1, <1>2 DEF Octet
<1>4. Continued(e, b) = IF s + 1 = n THEN PutOut(e, (c * 64) + z)
                        ELSE Reading(e, n, s + 1, (c * 64) + z, 128, 191)
  BY <1>1, <1>2 DEF Continued
<1>5. \A cp : PutOut(e, cp) = PutOut(d, cp)
  BY <1>1 DEF PutOut, Put
<1>6. \A x, y, cp : Reading(e, x, y, cp, 128, 191) = Reading(d, x, y, cp, 128, 191)
  BY <1>1 DEF Reading
<1> QED
  BY <1>3, <1>4, <1>5, <1>6 DEF ReadsNext, e, b

(* What each lead byte does. *)
LEMMA Leads ==
  ASSUME NEW d
  PROVE  /\ \A b \in 0 .. 127 : Lead(d, b) = PutOut(d, b)
         /\ \A c \in 2 .. 31 : Lead(d, 192 + c) = Reading(d, 1, 0, c, 128, 191)
         /\ \A c \in 0 .. 15 : Lead(d, 224 + c) = Reading(d, 2, 0, c, IF c = 0 THEN 160 ELSE 128,
                                                                      IF c = 13 THEN 159 ELSE 191)
         /\ \A c \in 0 .. 4 : Lead(d, 240 + c) = Reading(d, 3, 0, c, IF c = 0 THEN 144 ELSE 128,
                                                                     IF c = 4 THEN 143 ELSE 191)
<1>1. \A b \in 0 .. 127 : Lead(d, b) = PutOut(d, b)
  BY DEF Lead
<1>2. ASSUME NEW c \in 2 .. 31
      PROVE  Lead(d, 192 + c) = Reading(d, 1, 0, c, 128, 191)
  <2> DEFINE b == 192 + c
  <2>1. b \in 194 .. 223 /\ b % 32 = c
    BY SMT
  <2> HIDE DEF b
  <2>2. Lead(d, b) = Reading(d, 1, 0, b % 32, 128, 191)
    BY <2>1 DEF Lead, Awaiting
  <2> QED
    BY <2>1, <2>2 DEF b
<1>3. ASSUME NEW c \in 0 .. 15
      PROVE  Lead(d, 224 + c) = Reading(d, 2, 0, c, IF c = 0 THEN 160 ELSE 128,
                                                    IF c = 13 THEN 159 ELSE 191)
  <2> DEFINE b == 224 + c
  <2>1. b \in 224 .. 239 /\ b % 16 = c /\ (b = 224 <=> c = 0) /\ (b = 237 <=> c = 13)
    BY SMT
  <2> HIDE DEF b
  <2>2. Lead(d, b) = Reading(d, 2, 0, b % 16, IF b = 224 THEN 160 ELSE 128, IF b = 237 THEN 159 ELSE 191)
    BY <2>1 DEF Lead, Awaiting
  <2> QED
    BY <2>1, <2>2 DEF b
<1>4. ASSUME NEW c \in 0 .. 4
      PROVE  Lead(d, 240 + c) = Reading(d, 3, 0, c, IF c = 0 THEN 144 ELSE 128,
                                                    IF c = 4 THEN 143 ELSE 191)
  <2> DEFINE b == 240 + c
  <2>1. b \in 240 .. 244 /\ b % 8 = c /\ (b = 240 <=> c = 0) /\ (b = 244 <=> c = 4)
    BY SMT
  <2> HIDE DEF b
  <2>2. Lead(d, b) = Reading(d, 3, 0, b % 8, IF b = 240 THEN 144 ELSE 128, IF b = 244 THEN 143 ELSE 191)
    BY <2>1 DEF Lead, Awaiting
  <2> QED
    BY <2>1, <2>2 DEF b
<1> QED
  BY <1>1, <1>2, <1>3, <1>4

(* Two, three and four bytes that spell a code point. *)
LEMMA ReadsTwo ==
  ASSUME NEW d \in Decoder, NEW c \in 2 .. 31, NEW z \in 0 .. 63
  PROVE  Octet(Octet(d, 192 + c), 128 + z) = PutOut(Settled(d), (c * 64) + z)
<1> DEFINE e == Settled(d)
           b == 192 + c
<1>1. b \in Byte /\ b \notin 128 .. 191
  BY DEF Byte
<1>2. Lead(e, b) = Reading(e, 1, 0, c, 128, 191)
  BY Leads
<1> HIDE DEF b, e
<1>3. Octet(d, b) = Reading(e, 1, 0, c, 128, 191)
  BY <1>1, <1>2, LeadReads DEF e
<1>4. 128 + z \in 128 .. 191 /\ c \in Nat /\ 1 \in Nat /\ 0 \in Nat /\ 128 \in Nat /\ 191 \in Nat /\ 1 # 0
  OBVIOUS
<1>5. Octet(Reading(e, 1, 0, c, 128, 191), 128 + z) = PutOut(e, (c * 64) + z)
  <2>1. ReadsNext(e, 1, 0, c, 128, 191, z)
    BY <1>4, ReadsOn
  <2> QED
    BY <2>1 DEF ReadsNext
<1>6. Octet(Octet(d, b), 128 + z) = PutOut(e, (c * 64) + z)
  BY <1>3, <1>5
<1> QED
  BY <1>6 DEF b, e

Three(d, c, v, z) == Octet(Octet(Octet(d, 224 + c), 128 + v), 128 + z) =
                       PutOut(Settled(d), (((c * 64) + v) * 64) + z)

LEMMA ReadsThree ==
  ASSUME NEW d \in Decoder, NEW c \in 0 .. 15, NEW v \in 0 .. 63, NEW z \in 0 .. 63,
         c = 0 => v >= 32, c = 13 => v < 32
  PROVE  Three(d, c, v, z)
<1> DEFINE e == Settled(d)
           b == 224 + c
           lo == IF c = 0 THEN 160 ELSE 128
           hi == IF c = 13 THEN 159 ELSE 191
           y == (c * 64) + v
<1>1. b \in Byte /\ b \notin 128 .. 191
  BY DEF Byte
<1>2. Lead(e, b) = Reading(e, 2, 0, c, lo, hi)
  BY Leads
<1>3. lo \in Nat /\ hi \in Nat /\ 128 + v \in lo .. hi
  OBVIOUS
<1>4. y \in Nat /\ 128 + z \in 128 .. 191 /\ c \in Nat
  BY SMT
<1>5. 2 \in Nat /\ 1 \in Nat /\ 0 \in Nat /\ 128 \in Nat /\ 191 \in Nat /\ 2 # 0
  OBVIOUS
<1> HIDE DEF b, e, lo, hi
<1>6. Octet(d, b) = Reading(e, 2, 0, c, lo, hi)
  BY <1>1, <1>2, LeadReads DEF e
<1>7. Octet(Reading(e, 2, 0, c, lo, hi), 128 + v) = Reading(e, 2, 1, y, 128, 191)
  <2>1. ReadsNext(e, 2, 0, c, lo, hi, v)
    BY <1>3, <1>4, <1>5, ReadsOn
  <2> QED
    BY <2>1 DEF ReadsNext
<1> HIDE DEF y
<1>8. Octet(Reading(e, 2, 1, y, 128, 191), 128 + z) = PutOut(e, (y * 64) + z)
  <2>1. ReadsNext(e, 2, 1, y, 128, 191, z)
    BY <1>4, <1>5, ReadsOn
  <2> QED
    BY <2>1 DEF ReadsNext
<1>9. Octet(Octet(Octet(d, b), 128 + v), 128 + z) = PutOut(e, (y * 64) + z)
  BY <1>6, <1>7, <1>8
<1> QED
  BY <1>9 DEF Three, b, e, y

Four(d, c, u, v, z) == Octet(Octet(Octet(Octet(d, 240 + c), 128 + u), 128 + v), 128 + z) =
                         PutOut(Settled(d), (((((c * 64) + u) * 64) + v) * 64) + z)

LEMMA ReadsFour ==
  ASSUME NEW d \in Decoder, NEW c \in 0 .. 4, NEW u \in 0 .. 63, NEW v \in 0 .. 63, NEW z \in 0 .. 63,
         c = 0 => u >= 16, c = 4 => u < 16
  PROVE  Four(d, c, u, v, z)
<1> DEFINE e == Settled(d)
           b == 240 + c
           lo == IF c = 0 THEN 144 ELSE 128
           hi == IF c = 4 THEN 143 ELSE 191
           x == (c * 64) + u
           y == (x * 64) + v
<1>1. b \in Byte /\ b \notin 128 .. 191
  BY DEF Byte
<1>2. Lead(e, b) = Reading(e, 3, 0, c, lo, hi)
  BY Leads
<1>3. lo \in Nat /\ hi \in Nat /\ 128 + u \in lo .. hi
  OBVIOUS
<1>4. x \in Nat /\ y \in Nat /\ 128 + v \in 128 .. 191 /\ 128 + z \in 128 .. 191 /\ c \in Nat
  BY SMT
<1>5. 3 \in Nat /\ 2 \in Nat /\ 1 \in Nat /\ 0 \in Nat /\ 128 \in Nat /\ 191 \in Nat /\ 3 # 0
  OBVIOUS
<1> HIDE DEF b, e, lo, hi, x, y
<1>6. Octet(d, b) = Reading(e, 3, 0, c, lo, hi)
  BY <1>1, <1>2, LeadReads DEF e
<1>7. Octet(Reading(e, 3, 0, c, lo, hi), 128 + u) = Reading(e, 3, 1, x, 128, 191)
  <2>1. ReadsNext(e, 3, 0, c, lo, hi, u)
    BY <1>3, <1>4, <1>5, ReadsOn
  <2> QED
    BY <2>1 DEF ReadsNext, x
<1>8. Octet(Reading(e, 3, 1, x, 128, 191), 128 + v) = Reading(e, 3, 2, y, 128, 191)
  <2>1. ReadsNext(e, 3, 1, x, 128, 191, v)
    BY <1>4, <1>5, ReadsOn
  <2> QED
    BY <2>1 DEF ReadsNext, y
<1>9. Octet(Reading(e, 3, 2, y, 128, 191), 128 + z) = PutOut(e, (y * 64) + z)
  <2>1. ReadsNext(e, 3, 2, y, 128, 191, z)
    BY <1>4, <1>5, ReadsOn
  <2> QED
    BY <2>1 DEF ReadsNext
<1>10. Octet(Octet(Octet(Octet(d, b), 128 + u), 128 + v), 128 + z) = PutOut(e, (y * 64) + z)
  BY <1>6, <1>7, <1>8, <1>9
<1> QED
  BY <1>10 DEF Four, b, e, x, y

(* One, two, three and four bytes after others. *)
After1(bs, x) == Octet(DecoderAfter(bs), x)
After2(bs, x, y) == Octet(After1(bs, x), y)
After3(bs, x, y, z) == Octet(After2(bs, x, y), z)
After4(bs, x, y, z, w) == Octet(After3(bs, x, y, z), w)

Appends(x, y, z, w) == /\ Append(<<x>>, y) = <<x, y>>
                       /\ Append(<<x, y>>, z) = <<x, y, z>>
                       /\ Append(<<x, y, z>>, w) = <<x, y, z, w>>

LEMMA Appended ==
  ASSUME NEW x, NEW y, NEW z, NEW w
  PROVE  Appends(x, y, z, w)
<1>1. ASSUME NEW s, NEW t, s = <<x>>, t = <<x, y>> PROVE t = Append(s, y)
  BY <1>1
<1>2. ASSUME NEW s, NEW t, s = <<x, y>>, t = <<x, y, z>> PROVE t = Append(s, z)
  BY <1>2
<1>3. ASSUME NEW s, NEW t, s = <<x, y, z>>, t = <<x, y, z, w>> PROVE t = Append(s, w)
  BY <1>3
<1> QED
  BY <1>1, <1>2, <1>3, Zenon DEF Appends

Decodes1(bs, x) == DecoderAfter(bs \o <<x>>) = After1(bs, x)
Decodes2(bs, x, y) == DecoderAfter(bs \o <<x, y>>) = After2(bs, x, y)
Decodes3(bs, x, y, z) == DecoderAfter(bs \o <<x, y, z>>) = After3(bs, x, y, z)
Decodes4(bs, x, y, z, w) == DecoderAfter(bs \o <<x, y, z, w>>) = After4(bs, x, y, z, w)

LEMMA DecodesOn ==
  ASSUME NEW bs \in Seq(Byte), NEW x \in Byte, NEW y \in Byte, NEW z \in Byte, NEW w \in Byte
  PROVE  Decodes1(bs, x) /\ Decodes2(bs, x, y) /\ Decodes3(bs, x, y, z) /\ Decodes4(bs, x, y, z, w)
<1>1. <<x>> \in Seq(Byte) /\ <<x, y>> \in Seq(Byte) /\ <<x, y, z>> \in Seq(Byte)
  OBVIOUS
<1>2. Appends(x, y, z, w)
  BY Appended
<1>3. bs \o <<x>> = Append(bs, x) /\ Append(bs, x) \in Seq(Byte)
  BY AppendIsConcat, AppendProperties
<1>4. DecoderAfter(bs \o <<x>>) = After1(bs, x)
  BY <1>3, DecodeAppends DEF After1
<1>5. /\ bs \o <<x>> \in Seq(Byte) /\ bs \o <<x, y>> \in Seq(Byte)
      /\ bs \o <<x, y, z>> \in Seq(Byte)
  BY <1>1, ConcatProperties
<1>6. bs \o <<x, y>> = Append(bs \o <<x>>, y)
  <2>1. Joins(bs, <<x>>, y)
    BY <1>1, AppendJoins
  <2> QED
    BY <1>2, <2>1, Zenon DEF Joins, Appends
<1>7. DecoderAfter(bs \o <<x, y>>) = After2(bs, x, y)
  BY <1>4, <1>5, <1>6, DecodeAppends DEF After2
<1>8. bs \o <<x, y, z>> = Append(bs \o <<x, y>>, z)
  <2>1. Joins(bs, <<x, y>>, z)
    BY <1>1, AppendJoins
  <2> QED
    BY <1>2, <2>1, Zenon DEF Joins, Appends
<1>9. DecoderAfter(bs \o <<x, y, z>>) = After3(bs, x, y, z)
  BY <1>5, <1>7, <1>8, DecodeAppends DEF After3
<1>10. bs \o <<x, y, z, w>> = Append(bs \o <<x, y, z>>, w)
  <2>1. Joins(bs, <<x, y, z>>, w)
    BY <1>1, AppendJoins
  <2> QED
    BY <1>2, <2>1, Zenon DEF Joins, Appends
<1>11. DecoderAfter(bs \o <<x, y, z, w>>) = After4(bs, x, y, z, w)
  BY <1>5, <1>9, <1>10, DecodeAppends DEF After4
<1> QED
  BY <1>4, <1>7, <1>9, <1>11 DEF Decodes1, Decodes2, Decodes3, Decodes4

Reads(bs, cp) == DecoderAfter(bs \o BytesOf(cp)) = PutOut(utf8Decode(bs), cp)

LEMMA ReadsWhole ==
  ASSUME NEW bs \in Seq(Byte), NEW cp \in Points
  PROVE  Reads(bs, cp)
<1> DEFINE d == DecoderAfter(bs)
           e == utf8Decode(bs)
           a == cp \div (64 * 64 * 64)
           x == cp \div (64 * 64)
           y == cp \div 64
           z == cp % 64
           u == x % 64
           v == y % 64
           z8 == 128 + z
           v8 == 128 + v
           u8 == 128 + u
<1>1. d \in Decoder /\ e = Settled(d)
  BY DecoderSound DEF Sound, utf8Decode
<1>2. cp \in Nat /\ cp < 1088 * Page /\ ~ High(cp) /\ ~ Low(cp)
  BY SMT DEF Points
<1>3. /\ y \in Nat /\ z \in 0 .. 63 /\ (y * 64) + z = cp /\ x \in Nat /\ a \in Nat
      /\ (x * 64) + v = y /\ (a * 64) + u = x /\ u \in 0 .. 63 /\ v \in 0 .. 63
  BY SMT, <1>2
<1>4. z8 \in Byte /\ v8 \in Byte /\ u8 \in Byte
  BY SMT, <1>2 DEF Byte
<1>5. CASE cp < 128
  <2>1. BytesOf(cp) = <<cp>>
    BY <1>5, PointBytes
  <2>2. cp \in Byte /\ cp \notin 128 .. 191 /\ cp \in 0 .. 127
    BY <1>2, <1>5 DEF Byte
  <2> HIDE DEF d, e
  <2>3. Octet(d, cp) = Lead(e, cp)
    BY <1>1, <2>2, LeadReads
  <2>4. Lead(e, cp) = PutOut(e, cp)
    BY <2>2, Leads
  <2>5. DecoderAfter(bs \o BytesOf(cp)) = Octet(d, cp)
    BY <2>1, <2>2, DecodesOn DEF Decodes1, After1, d
  <2> QED
    BY <2>3, <2>4, <2>5 DEF Reads, e
<1>6. CASE cp >= 128 /\ cp < 2 * Page
  <2> DEFINE b == 192 + y
  <2>1. BytesOf(cp) = <<b, z8>>
    BY <1>6, PointBytes
  <2>2. y \in 2 .. 31
    BY SMT, <1>2, <1>6 DEF Page
  <2> HIDE DEF d, e, y, z
  <2>3. b \in Byte
    BY <2>2 DEF Byte
  <2>4. Octet(Octet(d, b), z8) = PutOut(e, cp)
    BY ZenonT(30), <1>1, <1>3, <2>2, ReadsTwo
  <2> HIDE DEF b, z8
  <2>5. Decodes2(bs, b, z8)
    BY <1>4, <2>3, DecodesOn
  <2> QED
    BY <2>1, <2>4, <2>5 DEF Reads, Decodes2, After1, After2, d, e
<1>7. CASE cp >= 2 * Page /\ cp < 64 * Page
  <2> DEFINE b == 224 + x
  <2>1. BytesOf(cp) = <<b, v8, z8>>
    BY <1>7, PointBytes
  <2>2. x \in 0 .. 15 /\ (x = 0 => v >= 32)
    BY SMT, <1>2, <1>7 DEF Page
  <2>3. x = 13 => v < 32
    BY SMT, <1>2, <1>7 DEF Page, High, Low
  <2> HIDE DEF d, e, x, y, z, v
  <2>4. b \in Byte
    BY <2>2 DEF Byte
  <2>5. Three(d, x, v, z)
    BY <1>1, <1>3, <2>2, <2>3, ReadsThree
  <2> HIDE DEF b, z8, v8
  <2>6. Decodes3(bs, b, v8, z8)
    BY <1>4, <2>4, DecodesOn
  <2>7. (((x * 64) + v) * 64) + z = cp
    BY <1>3
  <2> QED
    BY <1>1, <2>1, <2>5, <2>6, <2>7 DEF Three, b, v8, z8, Reads, Decodes3, After1, After2, After3, d, e
<1>8. CASE cp >= 64 * Page
  <2> DEFINE b == 240 + a
  <2>1. BytesOf(cp) = <<b, u8, v8, z8>>
    BY <1>8, PointBytes
  <2>2. a \in 0 .. 4 /\ (a = 0 => u >= 16) /\ (a = 4 => u < 16)
    BY SMT, <1>2, <1>8 DEF Page
  <2> HIDE DEF d, e, a, x, y, z, u, v
  <2>3. b \in Byte
    BY <2>2 DEF Byte
  <2>4. Four(d, a, u, v, z)
    BY <1>1, <1>3, <2>2, ReadsFour
  <2> HIDE DEF b, z8, v8, u8
  <2>5. Decodes4(bs, b, u8, v8, z8)
    BY <1>4, <2>3, DecodesOn
  <2>6. (((((a * 64) + u) * 64) + v) * 64) + z = cp
    BY <1>3
  <2> QED
    BY <1>1, <2>1, <2>4, <2>5, <2>6
    DEF Four, b, u8, v8, z8, Reads, Decodes4, After1, After2, After3, After4, d, e
<1> QED
  BY SMT, <1>2, <1>5, <1>6, <1>7, <1>8 DEF Page

-----------------------------------------------------------------------------
(* The units that come back from the bytes of a text. *)
Mended(s, k) == IF Paired(s, k) \/ (k > 1 /\ Paired(s, k - 1)) THEN s[k] ELSE Scalar(s[k])

(* How many units of a text its first i have put out. *)
Ahead(s, i) == IF i > 0 /\ Paired(s, i) THEN i + 1 ELSE i

HasRead(d, s, n) == /\ d \in Decoder /\ d.state = Idle /\ ~ d.malformed
                    /\ Len(d.units) = n
                    /\ \A k \in 1 .. n : d.units[k] = Mended(s, k)

LEMMA PairUnits ==
  \A h, l \in Nat : High(h) /\ Low(l) => UnitsOf(CodePoint(h, l)) = <<h, l>>
<1> TAKE h, l \in Nat
<1> HAVE High(h) /\ Low(l)
<1> DEFINE x == h - 54 * Page
           y == l - 55 * Page
           cp == CodePoint(h, l)
<1>1. x \in 0 .. 1023 /\ y \in 0 .. 1023
  BY SMT DEF High, Low, Page
<1>2. cp = 64 * Page + x * Page + y /\ h = 54 * Page + x /\ l = 55 * Page + y
  BY SMT DEF CodePoint, Page
<1> HIDE DEF x, y, cp
<1>3. ~ (cp < 64 * Page) /\ (cp - 64 * Page) \div Page = x /\ cp % Page = y
  BY SMT, <1>1, <1>2 DEF Page
<1>4. UnitsOf(cp) = <<54 * Page + ((cp - 64 * Page) \div Page), 55 * Page + (cp % Page)>>
  BY <1>3 DEF UnitsOf
<1>5. UnitsOf(cp) = <<h, l>>
  BY <1>2, <1>3, <1>4
<1> QED
  BY <1>5 DEF cp

LEMMA ReadsMore ==
  ASSUME NEW s \in Seq(Unit), NEW n \in Nat, NEW d, HasRead(d, s, n), NEW cp \in Points,
         \A k \in 1 .. Len(UnitsOf(cp)) : UnitsOf(cp)[k] = Mended(s, n + k)
  PROVE  HasRead(PutOut(d, cp), s, n + Len(UnitsOf(cp)))
<1> DEFINE e == PutOut(d, cp)
           m == Len(UnitsOf(cp))
<1>1. /\ d \in Decoder /\ ~ d.malformed /\ Len(d.units) = n
      /\ \A k \in 1 .. n : d.units[k] = Mended(s, k)
  BY DEF HasRead
<1>2. e.units = d.units \o UnitsOf(cp) /\ e.malformed = d.malformed /\ e.state = Idle
  BY DEF PutOut, Put
<1>3. e \in Decoder
  BY <1>1, DecoderParts, PutTyped DEF PutOut
<1>4. d.units \in Seq(Unit) /\ UnitsOf(cp) \in Seq(Unit)
  BY <1>1, DecoderParts, UnitsTyped
<1>5. Concatenates(d.units \o UnitsOf(cp), d.units, UnitsOf(cp), Unit)
  BY <1>4, ConcatParts
<1>6. /\ Len(e.units) = n + m
      /\ \A k \in 1 .. n : e.units[k] = d.units[k]
      /\ \A k \in 1 .. m : e.units[n + k] = UnitsOf(cp)[k]
  BY <1>1, <1>2, <1>5 DEF Concatenates
<1>7. m \in Nat
  BY <1>4, LenProperties
<1>8. \A k \in 1 .. m : UnitsOf(cp)[k] = Mended(s, n + k)
  OBVIOUS
<1> HIDE DEF e, m
<1>9. \A k \in 1 .. n + m : e.units[k] = Mended(s, k)
  <2> TAKE k \in 1 .. n + m
  <2>1. CASE k <= n
    BY <1>1, <1>6, <2>1
  <2>2. CASE k > n
    <3> DEFINE j == k - n
    <3>1. j \in 1 .. m /\ n + j = k
      BY <1>7, <2>2
    <3> HIDE DEF j
    <3> QED
      BY <1>6, <1>8, <3>1
  <2> QED
    BY <1>7, <2>1, <2>2
<1>10. HasRead(e, s, n + m)
  BY <1>1, <1>2, <1>3, <1>6, <1>9 DEF HasRead
<1> QED
  BY <1>10 DEF e, m

(* Every unit of a text moves the decoder of the bytes put out on. *)
LEMMA ReadsAhead ==
  ASSUME NEW s \in Seq(Unit), NEW i \in 1 .. Len(s), NEW bs \in Seq(Byte),
         HasRead(DecoderAfter(bs), s, Ahead(s, i - 1))
  PROVE  HasRead(DecoderAfter(bs \o Encoded(s, i)), s, Ahead(s, i))
<1> DEFINE d == DecoderAfter(bs)
<1>1. Len(s) \in Nat /\ i \in Nat /\ i > 0 /\ s[i] \in Unit
  BY LenProperties, ElementOfSeq
<1>2. utf8Decode(bs) = d
  <2>1. d.state = Idle /\ d.state.needed = 0
    BY DEF HasRead, Idle
  <2> QED
    BY <2>1 DEF utf8Decode, Settled
<1>3. \A cp \in Points : DecoderAfter(bs \o BytesOf(cp)) = PutOut(d, cp)
  BY <1>2, ReadsWhole DEF Reads
<1> HIDE DEF d
<1>4. HasRead(d, s, Ahead(s, i - 1))
  BY DEF d
<1>5. CASE Paired(s, i)
  <2> DEFINE h == s[i]
             l == s[i + 1]
             cp == CodePoint(h, l)
  <2>1. High(h) /\ Low(l) /\ i + 1 \in 1 .. Len(s)
    BY <1>1, <1>5 DEF Paired
  <2>2. h \in Nat /\ l \in Nat
    <3>1. l \in Unit
      BY <2>1, ElementOfSeq
    <3> QED
      BY <1>1, <3>1 DEF Unit
  <2>3. ~ Low(h)
    BY SMT, <2>1, <2>2 DEF High, Low
  <2>4. (i - 1) + 1 = i /\ (i + 1) - 1 = i /\ i + 1 > 1 /\ i - 1 \in Nat
    BY <1>1
  <2>5. ~ Paired(s, i - 1)
    BY <2>3, <2>4 DEF Paired
  <2>6. Ahead(s, i - 1) = i - 1 /\ Ahead(s, i) = i + 1
    BY <1>1, <1>5, <2>5 DEF Ahead
  <2>7. Encoded(s, i) = BytesOf(cp)
    BY <1>5 DEF Encoded
  <2>8. Mended(s, i) = h /\ Mended(s, i + 1) = l
    BY <1>5, <2>4 DEF Mended
  <2> HIDE DEF h, l
  <2>9. cp \in Points /\ UnitsOf(cp) = <<h, l>>
    BY <2>1, <2>2, PairPoint, PairUnits
  <2> HIDE DEF cp
  <2>10. DecoderAfter(bs \o Encoded(s, i)) = PutOut(d, cp)
    BY <1>3, <2>7, <2>9
  <2>11. /\ Len(UnitsOf(cp)) = 2
         /\ \A k \in 1 .. 2 : UnitsOf(cp)[k] = Mended(s, (i - 1) + k)
    <3>1. (i - 1) + 2 = i + 1 /\ \A k \in 1 .. 2 : k = 1 \/ k = 2
      BY <1>1
    <3> QED
      BY <2>4, <2>8, <2>9, <3>1
  <2>12. HasRead(d, s, i - 1)
    BY <1>4, <2>6
  <2>13. HasRead(PutOut(d, cp), s, (i - 1) + Len(UnitsOf(cp)))
    BY <2>4, <2>9, <2>11, <2>12, ReadsMore
  <2>14. (i - 1) + 2 = i + 1
    BY <1>1
  <2> QED
    BY <2>6, <2>10, <2>11, <2>13, <2>14
<1>6. CASE ~ Paired(s, i) /\ i > 1 /\ Paired(s, i - 1)
  <2>1. Encoded(s, i) = <<>>
    BY <1>6 DEF Encoded
  <2>2. bs \o <<>> = bs
    BY ConcatEmptySeq
  <2>3. Ahead(s, i) = i
    BY <1>6 DEF Ahead
  <2>4. Ahead(s, i - 1) = i
    <3>1. i - 1 > 0 /\ (i - 1) + 1 = i
      BY <1>1, <1>6
    <3> QED
      BY <1>6, <3>1 DEF Ahead
  <2> QED
    BY <1>4, <2>1, <2>2, <2>3, <2>4 DEF d
<1>7. CASE ~ Paired(s, i) /\ ~ (i > 1 /\ Paired(s, i - 1))
  <2> DEFINE cp == Scalar(s[i])
  <2>1. cp \in Points /\ cp < 64 * Page
    BY SMT, <1>1 DEF Scalar, Replacement, High, Low, Points, Unit, Page
  <2>2. Encoded(s, i) = BytesOf(cp)
    BY <1>7 DEF Encoded
  <2>3. Mended(s, i) = cp
    BY <1>7 DEF Mended
  <2> HIDE DEF cp
  <2>4. UnitsOf(cp) = <<cp>>
    BY <2>1, PointUnits
  <2>5. i - 1 \in Nat /\ (i - 1) + 1 = i
    BY <1>1
  <2>6. Ahead(s, i) = i
    BY <1>7 DEF Ahead
  <2>7. Ahead(s, i - 1) = i - 1
    <3>1. i - 1 > 0 => i > 1
      BY <1>1
    <3> QED
      BY <1>7, <3>1 DEF Ahead
  <2>8. /\ Len(UnitsOf(cp)) = 1
        /\ \A k \in 1 .. 1 : UnitsOf(cp)[k] = Mended(s, (i - 1) + k)
    BY <2>3, <2>4, <2>5
  <2>9. HasRead(d, s, i - 1)
    BY <1>4, <2>7
  <2>10. HasRead(PutOut(d, cp), s, (i - 1) + Len(UnitsOf(cp)))
    BY <2>1, <2>5, <2>8, <2>9, ReadsMore
  <2>11. DecoderAfter(bs \o Encoded(s, i)) = PutOut(d, cp)
    BY <1>3, <2>1, <2>2
  <2> QED
    BY <2>5, <2>6, <2>8, <2>10, <2>11
<1> QED
  BY <1>5, <1>6, <1>7

Comes(s) == LET d == utf8Decode(utf8Encode(s)) IN
              /\ ~ d.malformed
              /\ d.units = [k \in DOMAIN s |-> Mended(s, k)]

LEMMA TextReads == \A s \in Seq(Unit) : Comes(s)
<1> TAKE s \in Seq(Unit)
<1> DEFINE n == Len(s)
<1>1. n \in Nat
  BY LenProperties
<1>2. PICK f : Outputs(f, s)
  BY EncodeSteps
<1>3. /\ f \in [0 .. n -> Seq(Byte)] /\ f[0] = <<>>
      /\ \A i \in 1 .. n : f[i] = f[i - 1] \o Encoded(s, i)
      /\ utf8Encode(s) = f[n]
  BY <1>2 DEF Outputs
<1> DEFINE SoFar(i) == HasRead(DecoderAfter(f[i]), s, Ahead(s, i))
           Odd == {i \in 0 .. n : ~ SoFar(i)}
<1>4. Odd = {}
  <2>1. SUFFICES ASSUME Odd # {} PROVE FALSE
    OBVIOUS
  <2>2. Odd \in SUBSET Nat
    BY <1>1
  <2>3. PICK k \in Odd : \A m \in Odd : k <= m
    BY <2>1, <2>2, LeastElement
  <2>4. k \in 0 .. n /\ ~ SoFar(k)
    OBVIOUS
  <2>5. k # 0
    <3>1. SUFFICES ASSUME k = 0 PROVE FALSE
      OBVIOUS
    <3>2. DecoderAfter(f[0]) = Start /\ Ahead(s, 0) = 0
      BY <1>3, DecodeEmpty DEF Ahead
    <3>3. Start.state = Idle /\ ~ Start.malformed /\ Start.units = <<>> /\ Len(<<>>) = 0
      BY DEF Start
    <3>4. HasRead(Start, s, 0)
      BY <3>3, StartTyped DEF HasRead
    <3> QED
      BY <2>4, <3>1, <3>2, <3>4
  <2>6. k \in 1 .. n /\ k - 1 \in 0 .. n /\ ~ (k <= k - 1)
    BY <1>1, <2>4, <2>5
  <2>7. SoFar(k - 1)
    BY <2>3, <2>6
  <2>8. f[k - 1] \in Seq(Byte) /\ f[k] = f[k - 1] \o Encoded(s, k)
    BY <1>3, <2>6
  <2> DEFINE bs == f[k - 1]
  <2>9. HasRead(DecoderAfter(bs), s, Ahead(s, k - 1)) /\ bs \in Seq(Byte)
    BY <2>7, <2>8
  <2> HIDE DEF bs
  <2>10. HasRead(DecoderAfter(bs \o Encoded(s, k)), s, Ahead(s, k))
    BY <2>6, <2>9, ReadsAhead
  <2> QED
    BY <2>4, <2>8, <2>10 DEF bs
<1>5. SoFar(n)
  BY <1>1, <1>4
<1> DEFINE d == DecoderAfter(utf8Encode(s))
<1>6. Ahead(s, n) = n
  BY <1>1 DEF Ahead, Paired
<1>7. HasRead(d, s, n)
  BY <1>3, <1>5, <1>6
<1> HIDE DEF d
<1>8. utf8Decode(utf8Encode(s)) = d
  <2>1. d.state.needed = 0
    BY <1>7 DEF HasRead, Idle
  <2> QED
    BY <2>1 DEF utf8Decode, Settled, d
<1>9. /\ ~ d.malformed /\ Len(d.units) = n /\ d.units \in Seq(Unit)
      /\ \A k \in 1 .. n : d.units[k] = Mended(s, k)
  BY <1>7, DecoderParts DEF HasRead
<1>10. d.units = [k \in 1 .. n |-> Mended(s, k)]
  BY <1>9
<1>11. DOMAIN s = 1 .. n
  OBVIOUS
<1> HIDE DEF n
<1> QED
  BY <1>8, <1>9, <1>10, <1>11 DEF Comes

-----------------------------------------------------------------------------
(* The texts and the bytes of every behaviour. *)
Utf8TypeOK == text \in Seq(Unit) /\ octets \in Seq(Byte)

LEMMA Utf8Typed == Utf8Spec => []Utf8TypeOK
<1>1. Utf8Init => Utf8TypeOK
  BY DEF Utf8Init, Utf8TypeOK
<1>2. Utf8TypeOK /\ [Utf8Next]_utf8Vars => Utf8TypeOK'
  <2> SUFFICES ASSUME Utf8TypeOK, [Utf8Next]_utf8Vars PROVE Utf8TypeOK'
    OBVIOUS
  <2>1. ASSUME NEW u \in Units, Type(u) PROVE Utf8TypeOK'
    <3>1. u \in Unit
      BY Utf8BoundsAssumption
    <3> QED
      BY <2>1, <3>1 DEF Type, Utf8TypeOK
  <2>2. ASSUME NEW b \in Octets, Arrives(b) PROVE Utf8TypeOK'
    <3>1. b \in Byte
      BY Utf8BoundsAssumption
    <3> QED
      BY <2>2, <3>1 DEF Arrives, Utf8TypeOK
  <2>3. CASE UNCHANGED utf8Vars
    BY <2>3 DEF utf8Vars, Utf8TypeOK
  <2> QED
    BY <2>1, <2>2, <2>3 DEF Utf8Next
<1> QED
  BY <1>1, <1>2, PTL DEF Utf8Spec

(* A text comes back from its bytes, whatever surrogates stand alone in    *)
(* it; and the bytes that a fatal decoder accepts are the very bytes of    *)
(* the text it returns.                                                    *)
THEOREM Survival == Utf8Spec => []TextSurvives
<1>1. Utf8TypeOK => TextSurvives
  <2> SUFFICES ASSUME Utf8TypeOK PROVE TextSurvives
    OBVIOUS
  <2>1. text \in Seq(Unit) /\ octets \in Seq(Byte)
    BY DEF Utf8TypeOK
  <2>2. Comes(text)
    BY <2>1, TextReads
  <2>3. utf8Decode(utf8Encode(text)).units = [i \in DOMAIN text |->
          IF Paired(text, i) \/ (i > 1 /\ Paired(text, i - 1)) THEN text[i]
          ELSE IF High(text[i]) \/ Low(text[i]) THEN Replacement ELSE text[i]]
    BY <2>2, Zenon DEF Comes, Mended, Scalar
  <2>4. ~ utf8Decode(utf8Encode(text)).malformed
    BY <2>2 DEF Comes
  <2> DEFINE d == DecoderAfter(octets)
             e == utf8Decode(octets)
  <2>5. d \in Decoder /\ Spelled(d, octets) /\ e = Settled(d)
    BY <2>1, DecoderSound DEF Sound, utf8Decode
  <2> HIDE DEF d, e
  <2>6. ASSUME ~ e.malformed PROVE utf8Encode(e.units) = octets
    <3>1. e = d /\ d.state = Idle
      BY <2>5, <2>6, SettledTyped
    <3>2. utf8Encode(d.units) \o Held(d.state) = octets
      BY <2>5, <2>6, <3>1 DEF Spelled
    <3>3. utf8Encode(d.units) \in Seq(Byte)
      BY <2>5, DecoderParts, EncodeTyped
    <3>4. utf8Encode(d.units) \o <<>> = utf8Encode(d.units)
      BY <3>3, ConcatEmptySeq
    <3> QED
      BY <3>1, <3>2, <3>4, IdleHolds
  <2> QED
    BY <2>3, <2>4, <2>6, Zenon DEF TextSurvives, e
<1> QED
  BY <1>1, Utf8Typed, PTL

(* The units and the bytes of the characters. *)
Spells(c) == \E cp \in Points : UnitsOf(cp) = c /\ utf8Encode(c) = BytesOf(cp)

LEMMA PointEncodes == \A cp \in Points : utf8Encode(UnitsOf(cp)) = BytesOf(cp)
<1> TAKE cp \in Points
<1>1. <<>> \in Seq(Unit)
  OBVIOUS
<1>2. utf8Encode(<<>> \o UnitsOf(cp)) = utf8Encode(<<>>) \o BytesOf(cp)
  BY <1>1, EncodeAppends
<1>3. UnitsOf(cp) \in Seq(Unit) /\ BytesOf(cp) \in Seq(Byte)
  BY UnitsTyped, BytesTyped
<1>4. <<>> \o UnitsOf(cp) = UnitsOf(cp) /\ <<>> \o BytesOf(cp) = BytesOf(cp)
  BY <1>3, ConcatEmptySeq
<1> QED
  BY <1>2, <1>4, EncodeEmpty

LEMMA CharacterSpells == \A c \in Characters : Spells(c)
<1>1. \A cp \in Points : UnitsOf(cp) = <<cp>> => Spells(<<cp>>)
  BY PointEncodes DEF Spells
<1>2. 65 \in Points /\ 233 \in Points /\ 8 * Page + 172 \in Points
  BY SMT DEF Points, High, Low, Page
<1>3. 65 < 64 * Page /\ 233 < 64 * Page /\ 8 * Page + 172 < 64 * Page
  BY SMT DEF Page
<1>4. Spells(<<65>>) /\ Spells(<<233>>) /\ Spells(<<8 * Page + 172>>)
  BY <1>1, <1>2, <1>3, PointUnits
<1> DEFINE h == 54 * Page + 61
           l == 55 * Page + 512
<1>5. h \in Nat /\ l \in Nat /\ High(h) /\ Low(l)
  BY SMT DEF High, Low, Page
<1> HIDE DEF h, l
<1>6. CodePoint(h, l) \in Points /\ UnitsOf(CodePoint(h, l)) = <<h, l>>
  BY <1>5, PairPoint, PairUnits
<1>7. Spells(<<h, l>>)
  BY <1>6, PointEncodes DEF Spells
<1> QED
  BY <1>4, <1>7 DEF Characters, h, l

ReadsBack(bs, c) ==
  LET read == utf8Decode(bs \o utf8Encode(c)).units IN
  /\ SubSeq(read, Len(read) - Len(c) + 1, Len(read)) = c
  /\ SubSeq(read, 1, Len(read) - Len(c)) = utf8Decode(bs).units

Splits(r, u, c) == /\ SubSeq(r, Len(r) - Len(c) + 1, Len(r)) = c
                   /\ SubSeq(r, 1, Len(r) - Len(c)) = u

LEMMA Splitting ==
  ASSUME NEW T, NEW u \in Seq(T), NEW c \in Seq(T)
  PROVE  Splits(u \o c, u, c)
<1> DEFINE r == u \o c
           a == Len(u)
           b == Len(c)
<1>1. r \in Seq(T) /\ Len(r) = a + b /\ a \in Nat /\ b \in Nat
  BY ConcatPlaces
<1>2. (\A k \in 1 .. a : r[k] = u[k]) /\ (\A k \in 1 .. b : r[a + k] = c[k])
  BY ConcatPlaces
<1> HIDE DEF a, b, r
<1>3. SubSeq(r, 1, a) = u
  <2>1. \A k \in 1 .. a : k \in 1 .. Len(r)
    BY <1>1
  <2>2. \A k \in 1 .. a : r[k] \in T
    BY <1>1, <2>1, ElementOfSeq
  <2>3. SubSeq(r, 1, a) \in Seq(T) /\ Len(SubSeq(r, 1, a)) = a /\ \A k \in 1 .. a : SubSeq(r, 1, a)[k] = r[k]
    BY <1>1, <2>2, SubSeqProperties
  <2> QED
    BY <1>2, <2>3, SeqEqual DEF a
<1>4. SubSeq(r, a + 1, a + b) = c
  <2>1. \A k \in (a + 1) .. (a + b) : k \in 1 .. Len(r)
    BY <1>1
  <2>2. \A k \in (a + 1) .. (a + b) : r[k] \in T
    BY <1>1, <2>1, ElementOfSeq
  <2>3. /\ SubSeq(r, a + 1, a + b) \in Seq(T) /\ Len(SubSeq(r, a + 1, a + b)) = b
        /\ \A k \in 1 .. b : SubSeq(r, a + 1, a + b)[k] = r[a + k]
    BY <1>1, <2>2, SubSeqProperties
  <2> QED
    BY <1>2, <2>3, SeqEqual DEF b
<1>5. Len(r) - b = a
  BY <1>1
<1> QED
  BY <1>1, <1>3, <1>4, <1>5 DEF Splits, a, b, r

LEMMA DamageLocal == \A bs \in Seq(Byte) : \A c \in Characters : ReadsBack(bs, c)
<1> TAKE bs \in Seq(Byte)
<1> TAKE c \in Characters
<1> DEFINE d == DecoderAfter(bs)
           e == utf8Decode(bs)
           read == utf8Decode(bs \o utf8Encode(c)).units
<1>1. PICK cp \in Points : UnitsOf(cp) = c /\ utf8Encode(c) = BytesOf(cp)
  BY CharacterSpells DEF Spells
<1>2. e \in Decoder
  BY DecoderSound, SettledTyped DEF Sound, utf8Decode
<1>3. DecoderAfter(bs \o utf8Encode(c)) = PutOut(e, cp)
  BY <1>1, ReadsWhole DEF Reads
<1> HIDE DEF e
<1>4. PutOut(e, cp).state.needed = 0 /\ PutOut(e, cp).units = e.units \o c
  BY <1>1 DEF PutOut, Put, Idle
<1>5. read = e.units \o c
  BY <1>3, <1>4 DEF utf8Decode, Settled
<1>6. e.units \in Seq(Unit) /\ c \in Seq(Unit)
  BY <1>1, <1>2, DecoderParts, UnitsTyped
<1> HIDE DEF read
<1>7. Splits(read, e.units, c)
  BY <1>5, <1>6, Splitting
<1> QED
  BY <1>7 DEF Splits, ReadsBack, read, e

(* What is malformed costs at most one replacement for each of its bytes,  *)
(* and nothing of the character that follows it.                           *)
THEOREM Damage == Utf8Spec => []DamageStaysLocal
<1>1. Utf8TypeOK => DamageStaysLocal
  <2> SUFFICES ASSUME Utf8TypeOK PROVE DamageStaysLocal
    OBVIOUS
  <2>1. octets \in Seq(Byte)
    BY DEF Utf8TypeOK
  <2>2. \A c \in Characters : ReadsBack(octets, c)
    BY <2>1, DamageLocal
  <2>3. Len(utf8Decode(octets).units) <= Len(octets)
    <3> DEFINE d == DecoderAfter(octets)
               x == Len(Settled(d).units)
               y == Remains(d)
    <3>1. d \in Decoder /\ y <= Len(octets)
      BY <2>1, DecoderSound DEF Sound
    <3>2. x <= y /\ Settled(d) \in Decoder
      BY <3>1, SettledTyped
    <3>3. x \in Nat /\ y \in Nat
      BY <3>1, <3>2, KeptNat
    <3>4. Len(octets) \in Nat
      BY <2>1, LenProperties
    <3> HIDE DEF x, y
    <3>5. x <= Len(octets)
      BY <3>1, <3>2, <3>3, <3>4
    <3> QED
      BY <3>5 DEF x, utf8Decode
  <2> QED
    BY <2>2, <2>3, Zenon DEF DamageStaysLocal, ReadsBack
<1> QED
  BY <1>1, Utf8Typed, PTL

-----------------------------------------------------------------------------
(* Reading an item: what it finds, if anything, lies beyond where it began,*)
(* and is found there whatever bytes follow.                               *)
Onward(o, p, last) == o = Refused \/ (o.ok = TRUE /\ o.next \in p + 1 .. last)
Forward(a, p, last) == \A q \in p .. last : Onward(a[q], q, last)
Confirms(a, c, p, last) == \A q \in p .. last : a[q].ok => c[q] = a[q]
Upheld(o, r, p, last) == Onward(o, p, last) /\ (o.ok => r = o)
Begins(b, e) == Len(b) <= Len(e) /\ \A i \in 1 .. Len(b) : e[i] = b[i]

LEMMA OutcomeOk == ~ Refused.ok /\ \A v, n : Read(v, n).ok = TRUE /\ Read(v, n).value = v /\ Read(v, n).next = n
  BY DEF Refused, Read

(* The recursive function of List exists. *)
ListRuns(f, p, n, item) ==
  f = [i \in 0 .. n |-> IF i = 0 THEN Read(<<>>, p) ELSE Followed(f[i - 1], item)]

ListedBy(f, bytes, p, n, item) ==
  /\ f[0] = Read(<<>>, p)
  /\ \A i \in 1 .. n : f[i] = Followed(f[i - 1], item)
  /\ List(bytes, p, n, item) = IF p + n > Len(bytes) + 1 THEN Refused ELSE f[n]

LEMMA ListSteps ==
  ASSUME NEW bytes, NEW p, NEW n \in Nat, NEW item
  PROVE  \E f : ListedBy(f, bytes, p, n, item)
<1> DEFINE G == {k \in 0 .. n : \E f : ListRuns(f, p, k, item)}
<1>1. 0 \in G
  <2>1. ListRuns([i \in 0 .. 0 |-> Read(<<>>, p)], p, 0, item)
    BY DEF ListRuns
  <2> QED
    BY <2>1
<1>2. \A k \in 1 .. n : k - 1 \in G => k \in G
  <2> TAKE k \in 1 .. n
  <2> HAVE k - 1 \in G
  <2>1. PICK f : ListRuns(f, p, k - 1, item)
    OBVIOUS
  <2>2. ListRuns([i \in 0 .. k |-> IF i = k THEN Followed(f[k - 1], item) ELSE f[i]], p, k, item)
    BY <2>1 DEF ListRuns
  <2> QED
    BY <2>2
<1>3. n \in G
  <2> HIDE DEF G
  <2>1. \A k \in 0 .. n : k \in G
    BY <1>1, <1>2, Stepwise
  <2> QED
    BY <2>1
<1> DEFINE list == CHOOSE f : ListRuns(f, p, n, item)
<1>4. ListRuns(list, p, n, item)
  BY <1>3
<1>5. List(bytes, p, n, item) = IF p + n > Len(bytes) + 1 THEN Refused ELSE list[n]
  BY DEF List, ListRuns
<1> HIDE DEF list
<1>6. list[0] = Read(<<>>, p) /\ \A i \in 1 .. n : list[i] = Followed(list[i - 1], item)
  BY <1>4 DEF ListRuns
<1> QED
  BY <1>5, <1>6 DEF ListedBy

LEMMA ListsAgree ==
  ASSUME NEW b, NEW e, Len(b) \in Nat, Len(e) \in Nat, Len(b) <= Len(e),
         NEW p \in 1 .. Len(b) + 1, NEW n \in Nat,
         NEW a, NEW c, Forward(a, p, Len(b) + 1), Confirms(a, c, p, Len(b) + 1)
  PROVE  Upheld(List(b, p, n, a), List(e, p, n, c), p - 1, Len(b) + 1)
<1> DEFINE last == Len(b) + 1
<1>1. PICK f : ListedBy(f, b, p, n, a)
  BY ListSteps
<1>2. PICK g : ListedBy(g, e, p, n, c)
  BY ListSteps
<1> DEFINE G == {k \in 0 .. n : Onward(f[k], p - 1, last) /\ (f[k].ok => g[k] = f[k])}
<1>3. 0 \in G
  <2>1. p \in p - 1 + 1 .. last
    OBVIOUS
  <2> QED
    BY <1>1, <1>2, <2>1, OutcomeOk DEF Onward, ListedBy
<1>4. \A k \in 1 .. n : k - 1 \in G => k \in G
  <2> TAKE k \in 1 .. n
  <2> HAVE k - 1 \in G
  <2> DEFINE x == f[k - 1]
  <2>1. Onward(x, p - 1, last) /\ (x.ok => g[k - 1] = x)
    OBVIOUS
  <2>2. f[k] = Followed(x, a) /\ g[k] = Followed(g[k - 1], c)
    BY <1>1, <1>2 DEF ListedBy
  <2> HIDE DEF x
  <2>3. CASE ~ x.ok \/ ~ a[x.next].ok
    BY <2>2, <2>3, OutcomeOk DEF Followed, Onward
  <2>4. CASE x.ok /\ a[x.next].ok
    <3>1. x.next \in p .. last
      BY <2>1, <2>4, OutcomeOk DEF Onward
    <3>2. c[x.next] = a[x.next] /\ a[x.next].next \in x.next + 1 .. last
      BY <2>4, <3>1, OutcomeOk DEF Forward, Confirms, Onward
    <3>3. f[k] = Read(Append(x.value, a[x.next].value), a[x.next].next)
      BY <2>2, <2>4 DEF Followed
    <3>4. g[k] = f[k]
      BY <2>1, <2>2, <2>4, <3>2 DEF Followed
    <3>5. a[x.next].next \in p - 1 + 1 .. last
      BY <3>1, <3>2
    <3> QED
      BY <3>3, <3>4, <3>5, OutcomeOk DEF Onward
  <2> QED
    BY <2>3, <2>4
<1>5. n \in G
  <2> HIDE DEF G
  <2>1. \A k \in 0 .. n : k \in G
    BY <1>3, <1>4, Stepwise
  <2> QED
    BY <2>1
<1> QED
  BY <1>1, <1>2, <1>5, OutcomeOk DEF Onward, ListedBy, Upheld

LEMMA PartAgrees ==
  ASSUME NEW b \in Seq(Byte), NEW e \in Seq(Byte), Begins(b, e), NEW i \in Nat \ {0}, NEW j \in Int, j <= Len(b)
  PROVE  SubSeq(b, i, j) = SubSeq(e, i, j)
<1>1. Len(b) \in Nat /\ Len(e) \in Nat
  BY LenProperties
<1>2. \A k \in 1 .. j - i + 1 : k + i - 1 \in 1 .. Len(b)
  BY <1>1
<1>3. \A k \in 1 .. j - i + 1 : b[k + i - 1] = e[k + i - 1]
  BY <1>2 DEF Begins
<1>4. SubSeq(b, i, j) = [k \in 1 .. j - i + 1 |-> b[k + i - 1]] /\ SubSeq(e, i, j) = [k \in 1 .. j - i + 1 |-> e[k + i - 1]]
  BY DEF SubSeq
<1> QED
  BY <1>3, <1>4

LEMMA PartTyped ==
  ASSUME NEW b \in Seq(Byte), NEW i \in 1 .. Len(b) + 1, NEW n \in Nat, i + n <= Len(b) + 1
  PROVE  SubSeq(b, i, i + n - 1) \in Seq(Byte) /\ Len(SubSeq(b, i, i + n - 1)) = n
<1>1. Len(b) \in Nat
  BY LenProperties
<1>2. i + n - 1 \in i - 1 .. Len(b) /\ i + n - 1 - i + 1 = n
  BY <1>1
<1>3. \A k \in 1 .. n : k + i - 1 \in 1 .. Len(b)
  BY <1>1
<1>4. \A k \in 1 .. n : b[k + i - 1] \in Byte
  BY <1>3, ElementOfSeq
<1>5. SubSeq(b, i, i + n - 1) = [k \in 1 .. n |-> b[k + i - 1]]
  BY <1>1, <1>2 DEF SubSeq
<1> QED
  BY <1>4, <1>5

LEMMA ByteNumber == \A s \in Seq(Byte) : Number(s, DigitBase) \in Nat
<1> TAKE s \in Seq(Byte)
<1>1. \A x \in Byte : x \in Nat
  BY DEF Byte
<1>2. s \in Seq(Nat) /\ DigitBase \in Nat
  BY <1>1, DigitsAssumption
<1>3. PICK f \in [0 .. Len(s) -> Nat] : Number(s, DigitBase) = f[Len(s)]
  BY <1>2, NumberSteps
<1> QED
  BY <1>3, LenProperties

LEMMA LenAgrees ==
  ASSUME NEW b \in Seq(Byte), NEW e \in Seq(Byte), Begins(b, e), NEW info \in 0 .. 31, NEW p \in 1 .. Len(b) + 1
  PROVE  /\ Upheld(readLen(b, info, p), readLen(e, info, p), p - 1, Len(b) + 1)
         /\ readLen(b, info, p).ok => readLen(b, info, p).value \in Nat
<1> DEFINE o == readLen(b, info, p)
           w == WidthOf(info)
<1>1. Len(b) \in Nat /\ Len(e) \in Nat /\ Len(b) <= Len(e) /\ Direct \in Nat
  BY LenProperties, DigitsAssumption DEF Begins
<1>2. CASE info > Direct + 3
  BY <1>2, OutcomeOk DEF readLen, Onward, Upheld
<1>3. CASE info <= Direct + 3
  <2>1. w \in {0, 1, 2, 4, 8}
    <3>1. CASE info < Direct
      BY <3>1 DEF WidthOf
    <3>2. CASE info = Direct
      BY <1>1, <3>2 DEF WidthOf
    <3>3. CASE info = Direct + 1
      BY <1>1, <3>3 DEF WidthOf
    <3>4. CASE info = Direct + 2
      BY <1>1, <3>4 DEF WidthOf
    <3>5. CASE info = Direct + 3
      BY <1>1, <3>5 DEF WidthOf
    <3> QED
      BY <1>1, <1>3, <3>1, <3>2, <3>3, <3>4, <3>5
  <2> HIDE DEF w
  <2> DEFINE v(x) == IF w = 0 THEN info ELSE Number(SubSeq(x, p, p + w - 1), DigitBase)
  <2>2. o = IF p + w > Len(b) + 1 THEN Refused ELSE Read(v(b), p + w)
    BY <1>1, <1>3 DEF readLen, w
  <2>3. readLen(e, info, p) = IF p + w > Len(e) + 1 THEN Refused ELSE Read(v(e), p + w)
    BY <1>1, <1>3 DEF readLen, w
  <2> HIDE DEF v, o
  <2>4. CASE p + w > Len(b) + 1
    BY <2>2, <2>4, OutcomeOk DEF Onward, Upheld, o
  <2>5. CASE p + w <= Len(b) + 1
    <3>1. v(b) \in Nat /\ v(b) = v(e)
      <4>1. SubSeq(b, p, p + w - 1) = SubSeq(e, p, p + w - 1)
        BY <1>1, <2>1, <2>5, PartAgrees
      <4>2. SubSeq(b, p, p + w - 1) \in Seq(Byte)
        BY <2>1, <2>5, PartTyped
      <4>3. CASE w = 0
        BY <4>3 DEF v
      <4>4. CASE w # 0
        <5>1. Number(SubSeq(b, p, p + w - 1), DigitBase) \in Nat
          BY <4>2, ByteNumber
        <5> QED
          BY <4>1, <4>4, <5>1 DEF v
      <4> QED
        BY <4>3, <4>4
    <3>2. o = Read(v(b), p + w) /\ readLen(e, info, p) = o
      BY <1>1, <2>1, <2>2, <2>3, <2>5, <3>1
    <3>3. p + w \in p - 1 + 1 .. Len(b) + 1
      BY <1>1, <2>1, <2>5
    <3> QED
      BY <3>1, <3>2, <3>3, OutcomeOk DEF Onward, Upheld, o
  <2> QED
    BY <1>1, <2>1, <2>4, <2>5
<1> QED
  BY <1>1, <1>2, <1>3

LEMMA SpanAgrees ==
  ASSUME NEW b \in Seq(Byte), NEW e \in Seq(Byte), Begins(b, e), NEW p \in 1 .. Len(b) + 1, NEW n \in Nat, NEW type
  PROVE  Upheld(Span(b, p, n, type), Span(e, p, n, type), p - 1, Len(b) + 1)
<1>1. Len(b) \in Nat /\ Len(e) \in Nat /\ Len(b) <= Len(e)
  BY LenProperties DEF Begins
<1>2. CASE p + n > Len(b) + 1
  BY <1>2, OutcomeOk DEF Span, Onward, Upheld
<1>3. CASE p + n <= Len(b) + 1
  <2>1. SubSeq(b, p, p + n - 1) = SubSeq(e, p, p + n - 1)
    BY <1>1, <1>3, PartAgrees
  <2>3. p + n \in p - 1 + 1 .. Len(b) + 1 /\ ~ (p + n > Len(b) + 1) /\ ~ (p + n > Len(e) + 1)
    BY <1>1, <1>3
  <2>2. Span(e, p, n, type) = Span(b, p, n, type)
    BY <2>1, <2>3, Zenon DEF Span
  <2>4. Onward(Span(b, p, n, type), p - 1, Len(b) + 1)
    BY <2>3, OutcomeOk DEF Span, Onward, Upheld
  <2> QED
    BY <2>2, <2>4 DEF Upheld
<1> QED
  BY <1>1, <1>2, <1>3

LEMMA SimpleAgrees ==
  ASSUME NEW b \in Seq(Byte), NEW e \in Seq(Byte), Begins(b, e), NEW p \in 1 .. Len(b) + 1, NEW info \in 0 .. 31
  PROVE  Upheld(Simple(b, info, p), Simple(e, info, p), p - 1, Len(b) + 1)
<1>1. Len(b) \in Nat /\ Len(e) \in Nat /\ Len(b) <= Len(e) /\ Direct + 3 \notin 20 .. 23
  BY LenProperties, DigitsAssumption DEF Begins
<1>2. CASE info \in {20, 21, 22, 23}
  <2>1. p \in p - 1 + 1 .. Len(b) + 1
    BY <1>1
  <2> QED
    BY <1>2, <2>1, OutcomeOk DEF Simple, Onward, Upheld
<1>3. CASE info \notin {20, 21, 22, 23} /\ ~ (info = Direct + 3 /\ p + 8 <= Len(b) + 1)
  <2>1. Simple(b, info, p) = Refused
    BY <1>3 DEF Simple
  <2> QED
    BY <2>1, OutcomeOk DEF Onward, Upheld
<1>4. CASE info \notin {20, 21, 22, 23} /\ info = Direct + 3 /\ p + 8 <= Len(b) + 1
  <2>1. SubSeq(b, p, p + 7) = SubSeq(e, p, p + 7)
    <3>1. p \in Nat \ {0} /\ p + 7 \in Int /\ p + 7 <= Len(b)
      BY <1>1, <1>4
    <3> QED
      BY <3>1, PartAgrees
  <2>2. p + 8 \in p - 1 + 1 .. Len(b) + 1 /\ p + 8 <= Len(e) + 1
    BY <1>1, <1>4
  <2>3. /\ Simple(b, info, p) = Read([t |-> "float", v |-> SubSeq(b, p, p + 7)], p + 8)
        /\ Simple(e, info, p) = Read([t |-> "float", v |-> SubSeq(e, p, p + 7)], p + 8)
    BY <1>4, <2>2 DEF Simple
  <2>4. Simple(e, info, p) = Simple(b, info, p)
    BY <2>1, <2>3
  <2>5. Simple(b, info, p).ok = TRUE /\ Simple(b, info, p).next = p + 8
    BY <2>3, OutcomeOk
  <2> QED
    BY <2>2, <2>4, <2>5 DEF Onward, Upheld
<1> QED
  BY <1>2, <1>3, <1>4

LEMMA OnwardFrom ==
  ASSUME NEW o, NEW p \in Nat, NEW q \in Nat, NEW last \in Nat, q <= p, Onward(o, p, last)
  PROVE  Onward(o, q, last)
<1>1. CASE o = Refused
  BY <1>1 DEF Onward
<1>2. CASE o.ok = TRUE /\ o.next \in p + 1 .. last
  <2>1. o.next \in q + 1 .. last
    BY <1>2
  <2> QED
    BY <1>2, <2>1 DEF Onward
<1> QED
  BY <1>1, <1>2 DEF Onward

(* The two kinds of list are what the items make of them. *)
LEMMA GroupsAgree ==
  ASSUME NEW o, NEW p, NEW last, NEW pairs, Onward(o, p, last)
  PROVE  /\ Onward(ArrayOf(o), p, last) /\ (ArrayOf(o).ok => o.ok)
         /\ Onward(MapOf(o, pairs), p, last) /\ (MapOf(o, pairs).ok => o.ok)
<1>1. CASE o = Refused
  BY <1>1, OutcomeOk DEF ArrayOf, MapOf, Onward
<1>2. CASE o.ok = TRUE /\ o.next \in p + 1 .. last
  <2>1. Onward(ArrayOf(o), p, last)
    BY <1>2, OutcomeOk DEF ArrayOf, Onward
  <2>2. Onward(MapOf(o, pairs), p, last)
    BY <1>2, OutcomeOk DEF MapOf, Onward
  <2> QED
    BY <1>2, <2>1, <2>2
<1> QED
  BY <1>1, <1>2 DEF Onward

LEMMA ContentAgrees ==
  ASSUME NEW b \in Seq(Byte), NEW e \in Seq(Byte), Begins(b, e), NEW p \in 1 .. Len(b), NEW major \in 0 .. 6,
         NEW o, Onward(o, p, Len(b) + 1), o.ok => o.value \in Nat,
         NEW a, NEW c, Forward(a, p + 1, Len(b) + 1), Confirms(a, c, p + 1, Len(b) + 1)
  PROVE  Upheld(Content(b, major, o, a), Content(e, major, o, c), p, Len(b) + 1)
<1> DEFINE last == Len(b) + 1
           q == o.next
           n == o.value
<1>1. Len(b) \in Nat /\ Len(e) \in Nat /\ Len(b) <= Len(e)
  BY LenProperties DEF Begins
<1>2. CASE ~ o.ok \/ major = 6
  BY <1>2, OutcomeOk DEF Content, Onward, Upheld
<1>3. CASE o.ok /\ major # 6
  <2>1. q \in p + 1 .. last /\ n \in Nat /\ q \in Nat /\ p \in Nat /\ last \in Nat /\ q \in 1 .. last /\ p <= q - 1 /\ q - 1 \in Nat
    BY <1>1, <1>3, OutcomeOk DEF Onward, Upheld
  <2> HIDE DEF q, n, last
  <2>2. \A m \in Nat : Upheld(List(b, q, m, a), List(e, q, m, c), p, last)
    <3> TAKE m \in Nat
    <3>1. Forward(a, q, last) /\ Confirms(a, c, q, last)
      <4>1. \A k \in q .. last : k \in p + 1 .. last
        BY <2>1
      <4> QED
        BY <4>1 DEF Forward, Confirms, last
    <3>2. Upheld(List(b, q, m, a), List(e, q, m, c), q - 1, last)
      BY <1>1, <2>1, <3>1, ListsAgree DEF last
    <3> QED
      BY <2>1, <3>2, OnwardFrom DEF Upheld
  <2>3. \A type : Upheld(Span(b, q, n, type), Span(e, q, n, type), p, last)
    <3> TAKE type
    <3>1. Upheld(Span(b, q, n, type), Span(e, q, n, type), q - 1, last)
      BY <2>1, SpanAgrees DEF last
    <3> QED
      BY <2>1, <3>1, OnwardFrom DEF Upheld
  <2>4. CASE major \in {0, 1}
    <3>1. \A v : Onward(Read(v, q), p, last)
      BY <2>1, OutcomeOk DEF Onward, Upheld
    <3>2. \A x, items : Content(x, 0, o, items) = Read([t |-> "int", v |-> n], q)
      BY <1>3 DEF Content, n, q
    <3>3. \A x, items : Content(x, 1, o, items) = Read([t |-> "int", v |-> -1 - n], q)
      BY <1>3 DEF Content, n, q
    <3> QED
      BY <2>4, <3>1, <3>2, <3>3 DEF last, Upheld
  <2>5. CASE major \in {2, 3}
    <3>1. \A x, items : Content(x, 2, o, items) = Span(x, q, n, "bytes")
      BY <1>3 DEF Content, n, q
    <3>2. \A x, items : Content(x, 3, o, items) = Span(x, q, n, "text")
      BY <1>3 DEF Content, n, q
    <3> QED
      BY <2>3, <2>5, <3>1, <3>2 DEF last, Upheld
  <2>6. CASE major = 4
    <3>1. \A x, items : Content(x, 4, o, items) = ArrayOf(List(x, q, n, items))
      BY <1>3 DEF Content, n, q
    <3>2. Upheld(List(b, q, n, a), List(e, q, n, c), p, last)
      BY <2>1, <2>2
    <3>3. Onward(ArrayOf(List(b, q, n, a)), p, last) /\ (ArrayOf(List(b, q, n, a)).ok => List(b, q, n, a).ok)
      BY <3>2, GroupsAgree DEF Upheld
    <3> QED
      BY <2>6, <3>1, <3>2, <3>3 DEF last, Upheld
  <2>7. CASE major = 5
    <3>1. \A x, items : Content(x, 5, o, items) = MapOf(List(x, q, 2 * n, items), n)
      BY <1>3 DEF Content, n, q
    <3>2. 2 * n \in Nat
      BY <2>1
    <3> DEFINE m == 2 * n
    <3> HIDE DEF m
    <3>3. Upheld(List(b, q, m, a), List(e, q, m, c), p, last)
      BY <2>2, <3>2 DEF m
    <3>4. Onward(MapOf(List(b, q, m, a), n), p, last) /\ (MapOf(List(b, q, m, a), n).ok => List(b, q, m, a).ok)
      BY <3>3, GroupsAgree DEF Upheld
    <3> QED
      BY <2>7, <3>1, <3>3, <3>4 DEF last, m, Upheld
  <2> QED
    BY <1>3, <2>4, <2>5, <2>6, <2>7
<1> QED
  BY <1>2, <1>3

LEMMA ItemsAgree ==
  ASSUME NEW b \in Seq(Byte), NEW e \in Seq(Byte), Begins(b, e), NEW p \in 1 .. Len(b) + 1,
         NEW a, NEW c, Forward(a, p + 1, Len(b) + 1), Confirms(a, c, p + 1, Len(b) + 1)
  PROVE  Upheld(ItemAt(b, p, a), ItemAt(e, p, c), p, Len(b) + 1)
<1>1. Len(b) \in Nat /\ Len(e) \in Nat /\ Len(b) <= Len(e)
  BY LenProperties DEF Begins
<1>2. CASE p = Len(b) + 1
  <2>1. ItemAt(b, p, a) = Refused
    BY <1>1, <1>2 DEF ItemAt
  <2> QED
    BY <2>1, OutcomeOk DEF Onward, Upheld
<1>3. CASE p \in 1 .. Len(b)
  <2> DEFINE major == b[p] \div 32
             info == b[p] % 32
             q == p + 1
             o == readLen(b, info, q)
  <2>1. b[p] \in 0 .. 255 /\ e[p] = b[p] /\ ~ (p > Len(b)) /\ ~ (p > Len(e))
    <3>1. b[p] \in Byte
      BY <1>3, ElementOfSeq
    <3> QED
      BY <1>1, <1>3, <3>1 DEF Begins, Byte
  <2>2. major \in 0 .. 7 /\ info \in 0 .. 31
    <3>1. \A x \in 0 .. 255 : x \div 32 \in 0 .. 7 /\ x % 32 \in 0 .. 31
      OBVIOUS
    <3> QED
      BY <2>1, <3>1
  <2>3. q \in 1 .. Len(b) + 1 /\ q - 1 = p
    BY <1>3
  <2>4. CASE major = 7
    <3>1. ItemAt(b, p, a) = Simple(b, info, q) /\ ItemAt(e, p, c) = Simple(e, info, q)
      BY <2>1, <2>4 DEF ItemAt
    <3> HIDE DEF info, major, q
    <3>2. Upheld(Simple(b, info, q), Simple(e, info, q), q - 1, Len(b) + 1)
      BY <2>2, <2>3, SimpleAgrees
    <3> QED
      BY <2>3, <3>1, <3>2
  <2>5. CASE major # 7
    <3>1. ItemAt(b, p, a) = Content(b, major, o, a) /\ ItemAt(e, p, c) = Content(e, major, readLen(e, info, q), c)
      BY <2>1, <2>5 DEF ItemAt
    <3>2. major \in 0 .. 6
      BY <2>2, <2>5
    <3> HIDE DEF info, major, q
    <3>3. Upheld(o, readLen(e, info, q), q - 1, Len(b) + 1) /\ (o.ok => o.value \in Nat)
      BY <2>2, <2>3, LenAgrees
    <3> HIDE DEF o
    <3>4. Onward(o, p, Len(b) + 1) /\ (o.ok => o.value \in Nat)
      BY <2>3, <3>3 DEF Upheld
    <3>5. Upheld(Content(b, major, o, a), Content(e, major, o, c), p, Len(b) + 1)
      BY <1>3, <3>2, <3>4, ContentAgrees
    <3>6. ~ o.ok => ~ Content(b, major, o, a).ok
      BY OutcomeOk DEF Content
    <3> QED
      BY <3>1, <3>3, <3>5, <3>6 DEF Upheld
  <2> QED
    BY <2>4, <2>5
<1> QED
  BY <1>1, <1>2, <1>3

(* What is read at a position rests on the positions after it, ... *)
LEMMA SameItem ==
  ASSUME NEW b \in Seq(Byte), NEW p \in 1 .. Len(b) + 1, NEW f, NEW g,
         Forward(f, p + 1, Len(b) + 1), \A q \in p + 1 .. Len(b) + 1 : g[q] = f[q]
  PROVE  ItemAt(b, p, g) = ItemAt(b, p, f) /\ Onward(ItemAt(b, p, f), p, Len(b) + 1)
<1>1. Begins(b, b)
  BY LenProperties DEF Begins
<1>2. Forward(g, p + 1, Len(b) + 1) /\ Confirms(f, g, p + 1, Len(b) + 1) /\ Confirms(g, f, p + 1, Len(b) + 1)
  BY DEF Forward, Confirms
<1>3. Upheld(ItemAt(b, p, f), ItemAt(b, p, g), p, Len(b) + 1)
  BY <1>1, <1>2, ItemsAgree
<1>4. Upheld(ItemAt(b, p, g), ItemAt(b, p, f), p, Len(b) + 1)
  BY <1>1, <1>2, ItemsAgree
<1> QED
  BY <1>3, <1>4, OutcomeOk DEF Upheld, Onward

(* ... so that the recursive function of decodeItem exists. *)
Itemises(f, b, first) ==
  \A p \in first .. Len(b) + 1 : f[p] = ItemAt(b, p, f) /\ Onward(f[p], p, Len(b) + 1)

LEMMA ItemsRead ==
  ASSUME NEW b \in Seq(Byte)
  PROVE  Itemises(decodeItem(b), b, 1)
<1> DEFINE last == Len(b) + 1
           G == {k \in 0 .. Len(b) : \E f : Itemises(f, b, last - k)}
<1>1. Len(b) \in Nat
  BY LenProperties
<1>2. 0 \in G
  <2> DEFINE f == [p \in {last} |-> Refused]
  <2>1. ItemAt(b, last, f) = Refused
    BY <1>1 DEF ItemAt
  <2>2. \A p \in last - 0 .. last : p = last
    BY <1>1
  <2>3. Itemises(f, b, last - 0)
    BY <2>1, <2>2 DEF Itemises, Onward
  <2> QED
    BY <1>1, <2>3
<1>3. \A k \in 1 .. Len(b) : k - 1 \in G => k \in G
  <2> TAKE k \in 1 .. Len(b)
  <2> HAVE k - 1 \in G
  <2>1. PICK f : Itemises(f, b, last - (k - 1))
    OBVIOUS
  <2> DEFINE at == last - k
             g == [p \in at .. last |-> IF p = at THEN ItemAt(b, at, f) ELSE f[p]]
  <2>2. at \in 1 .. last /\ last - (k - 1) = at + 1
    BY <1>1
  <2> HIDE DEF at
  <2>3. \A p \in at + 1 .. last : f[p] = ItemAt(b, p, f) /\ Onward(f[p], p, last)
    BY <2>1, <2>2 DEF Itemises
  <2>4. \A p \in at + 1 .. last : p \in at .. last /\ p # at
    BY <1>1, <2>2
  <2>5. at \in at .. last
    BY <1>1, <2>2
  <2>6. g[at] = ItemAt(b, at, f) /\ \A p \in at + 1 .. last : g[p] = f[p]
    BY <2>4, <2>5
  <2> HIDE DEF g
  <2>7. \A p \in at .. last : ItemAt(b, p, g) = ItemAt(b, p, f) /\ Onward(ItemAt(b, p, f), p, last)
    <3> TAKE p \in at .. last
    <3>1. p \in 1 .. last /\ \A q \in p + 1 .. last : q \in at + 1 .. last
      BY <1>1, <2>2
    <3>2. Forward(f, p + 1, last) /\ \A q \in p + 1 .. last : g[q] = f[q]
      BY <2>3, <2>6, <3>1 DEF Forward
    <3> QED
      BY <3>1, <3>2, SameItem
  <2>8. \A p \in at .. last : p = at \/ p \in at + 1 .. last
    BY <1>1, <2>2
  <2>9. \A p \in at .. last : g[p] = ItemAt(b, p, g) /\ Onward(g[p], p, last)
    BY <2>3, <2>6, <2>7, <2>8
  <2>10. Itemises(g, b, last - k)
    BY <2>9 DEF Itemises, at
  <2> QED
    BY <2>10
<1>4. Len(b) \in G
  <2> HIDE DEF G
  <2>1. \A k \in 0 .. Len(b) : k \in G
    BY <1>1, <1>2, <1>3, Stepwise
  <2> QED
    BY <1>1, <2>1
<1>5. last - Len(b) = 1
  BY <1>1
<1>6. PICK f : Itemises(f, b, 1)
  BY <1>4, <1>5
<1> DEFINE Recurs(h) == h = [p \in 1 .. last |-> ItemAt(b, p, h)]
           g == [p \in 1 .. last |-> f[p]]
<1>7. \A p \in 1 .. last : ItemAt(b, p, g) = ItemAt(b, p, f)
  <2> TAKE p \in 1 .. last
  <2>1. \A q \in p + 1 .. last : q \in 1 .. last
    BY <1>1
  <2>2. Forward(f, p + 1, last) /\ \A q \in p + 1 .. last : g[q] = f[q]
    BY <1>6, <2>1 DEF Forward, Itemises
  <2> HIDE DEF g
  <2> QED
    BY <2>2, SameItem
<1>8. Recurs(g)
  BY <1>6, <1>7 DEF Itemises
<1>9. decodeItem(b) = CHOOSE h : Recurs(h)
  BY DEF decodeItem
<1>10. Recurs(decodeItem(b))
  <2> HIDE DEF Recurs
  <2> QED
    BY <1>8, <1>9
<1> DEFINE d == decodeItem(b)
<1>11. \A p \in 1 .. last : d[p] = ItemAt(b, p, d)
  BY <1>10
<1> HIDE DEF d, g
(* It is that function, from the last position on. *)
<1> DEFINE S == {k \in 0 .. Len(b) : d[last - k] = f[last - k]}
           Q == {k \in 0 .. Len(b) : \A m \in 0 .. k : m \in S}
<1>12. \A k \in 0 .. Len(b) : (\A m \in 0 .. k - 1 : m \in S) => k \in S
  <2> TAKE k \in 0 .. Len(b)
  <2> HAVE \A m \in 0 .. k - 1 : m \in S
  <2> DEFINE p == last - k
  <2>1. p \in 1 .. last /\ \A q \in p + 1 .. last : last - q \in 0 .. k - 1 /\ last - (last - q) = q /\ q \in 1 .. last
    BY <1>1
  <2> HIDE DEF p
  <2>2. \A q \in p + 1 .. last : d[q] = f[q]
    <3> TAKE q \in p + 1 .. last
    <3>1. last - q \in S
      BY <2>1
    <3> QED
      BY <2>1, <3>1
  <2>3. Forward(f, p + 1, last)
    BY <1>6, <2>1 DEF Forward, Itemises
  <2>4. ItemAt(b, p, d) = ItemAt(b, p, f)
    BY <2>1, <2>2, <2>3, SameItem
  <2>5. d[p] = f[p]
    BY <1>6, <1>11, <2>1, <2>4 DEF Itemises
  <2> QED
    BY <2>5 DEF p
<1> HIDE DEF S
<1>13. 0 \in Q
  <2>1. 0 \in S
    <3>1. 0 \in 0 .. Len(b) /\ \A m \in 0 .. 0 - 1 : m \in S
      BY <1>1
    <3> QED
      BY <1>12, <3>1
  <2> QED
    BY <1>1, <2>1
<1>14. \A k \in 1 .. Len(b) : k - 1 \in Q => k \in Q
  <2> TAKE k \in 1 .. Len(b)
  <2> HAVE k - 1 \in Q
  <2>1. k \in S
    <3>1. k \in 0 .. Len(b) /\ \A m \in 0 .. k - 1 : m \in S
      BY <1>1
    <3> QED
      BY <1>12, <3>1
  <2>2. \A m \in 0 .. k : m = k \/ m \in 0 .. k - 1
    BY <1>1
  <2> QED
    BY <2>1, <2>2
<1>15. \A k \in 0 .. Len(b) : k \in S
  <2> HIDE DEF Q
  <2>1. \A k \in 0 .. Len(b) : k \in Q
    BY <1>1, <1>13, <1>14, Stepwise
  <2> QED
    BY <2>1 DEF Q
<1>16. \A p \in 1 .. last : d[p] = f[p]
  <2> TAKE p \in 1 .. last
  <2>1. last - p \in 0 .. Len(b) /\ last - (last - p) = p
    BY <1>1
  <2>2. last - p \in S
    BY <1>15, <2>1
  <2> QED
    BY <2>1, <2>2 DEF S
<1>17. \A p \in 1 .. last : d[p] = ItemAt(b, p, d) /\ Onward(d[p], p, last)
  BY <1>6, <1>11, <1>16 DEF Itemises
<1> QED
  BY <1>17 DEF Itemises, d

(* What is found in bytes is found in more bytes. *)
LEMMA DecodeAgrees ==
  ASSUME NEW b \in Seq(Byte), NEW e \in Seq(Byte), Begins(b, e), NEW p \in 1 .. Len(b) + 1
  PROVE  Upheld(decodeItem(b)[p], decodeItem(e)[p], p, Len(b) + 1)
<1> DEFINE d == decodeItem(b)
           c == decodeItem(e)
           last == Len(b) + 1
           G == {k \in 0 .. Len(b) : Confirms(d, c, last - k, last)}
<1>1. Len(b) \in Nat /\ Len(e) \in Nat /\ Len(b) <= Len(e)
  BY LenProperties DEF Begins
<1>2. Itemises(d, b, 1) /\ Itemises(c, e, 1)
  BY ItemsRead
<1> HIDE DEF c, d
<1>3. Forward(d, 1, last)
  BY <1>2 DEF Itemises, Forward
<1>4. \A q \in 1 .. last : Confirms(d, c, q + 1, last) => Upheld(d[q], c[q], q, last)
  <2> TAKE q \in 1 .. last
  <2> HAVE Confirms(d, c, q + 1, last)
  <2>1. Forward(d, q + 1, last)
    BY <1>1, <1>3 DEF Forward
  <2>2. Upheld(ItemAt(b, q, d), ItemAt(e, q, c), q, last)
    BY <2>1, ItemsAgree
  <2>3. q \in 1 .. Len(e) + 1
    BY <1>1
  <2> QED
    BY <1>2, <2>2, <2>3 DEF Itemises
<1>5. 0 \in G
  <2>1. Confirms(d, c, last + 1, last)
    BY <1>1 DEF Confirms
  <2>2. last \in 1 .. last
    BY <1>1
  <2>3. Upheld(d[last], c[last], last, last)
    BY <1>4, <2>1, <2>2
  <2>4. \A q \in last - 0 .. last : q = last
    BY <1>1
  <2>5. Confirms(d, c, last - 0, last)
    BY <2>3, <2>4 DEF Confirms, Upheld
  <2> QED
    BY <1>1, <2>5
<1>6. \A k \in 1 .. Len(b) : k - 1 \in G => k \in G
  <2> TAKE k \in 1 .. Len(b)
  <2> HAVE k - 1 \in G
  <2> DEFINE q == last - k
  <2>1. q \in 1 .. last /\ last - (k - 1) = q + 1
    BY <1>1
  <2>2. Confirms(d, c, q + 1, last)
    BY <2>1
  <2> HIDE DEF q
  <2>3. Upheld(d[q], c[q], q, last)
    BY <1>4, <2>1, <2>2
  <2>4. \A m \in q .. last : m = q \/ m \in q + 1 .. last
    BY <1>1, <2>1
  <2>5. Confirms(d, c, q, last)
    BY <2>2, <2>3, <2>4 DEF Confirms, Upheld
  <2> QED
    BY <2>5 DEF q
<1>7. \A k \in 0 .. Len(b) : k \in G
  <2> HIDE DEF G
  <2> QED
    BY <1>1, <1>5, <1>6, Stepwise
<1>8. last - p \in 0 .. Len(b) /\ last - (last - p) = p /\ p \in p .. last
  BY <1>1
<1>9. Confirms(d, c, p, last)
  BY <1>7, <1>8
<1> QED
  BY <1>3, <1>8, <1>9 DEF Confirms, Forward, Upheld, c, d

EndsOnce(bytes) == decodeCbor(bytes).ok =>
  \A k \in 0 .. Len(bytes) - 1 : ~ decodeCbor(SubSeq(bytes, 1, k)).ok

(* No bytes that decodeCbor accepts begin with others that it accepts: an  *)
(* item that lost its end is refused.                                      *)
THEOREM CutRefused == \A bytes \in Seq(Byte) : EndsOnce(bytes)
<1> SUFFICES ASSUME NEW e \in Seq(Byte), decodeCbor(e).ok, NEW k \in 0 .. Len(e) - 1,
                    decodeCbor(SubSeq(e, 1, k)).ok
             PROVE  FALSE
  BY DEF EndsOnce
<1> DEFINE b == SubSeq(e, 1, k)
<1>1. Len(e) \in Nat
  BY LenProperties
<1>2. b = [i \in 1 .. k |-> e[i]]
  OBVIOUS
<1>3. b \in Seq(Byte) /\ Len(b) = k
  BY <1>1, <1>2, ElementOfSeq
<1>4. Begins(b, e)
  BY <1>1, <1>2, <1>3 DEF Begins
<1> HIDE DEF b
<1>5. 1 \in 1 .. Len(b) + 1
  BY <1>3
<1>6. Upheld(decodeItem(b)[1], decodeItem(e)[1], 1, Len(b) + 1)
  BY <1>3, <1>4, <1>5, DecodeAgrees
<1>7. \A x : decodeCbor(x).ok => decodeItem(x)[1].ok /\ decodeItem(x)[1].next = Len(x) + 1
  BY OutcomeOk DEF decodeCbor, AllOf
<1>8. decodeItem(b)[1].ok /\ decodeItem(b)[1].next = k + 1 /\ decodeItem(e)[1].next = Len(e) + 1
  BY <1>3, <1>7 DEF b
<1>9. k + 1 = Len(e) + 1
  BY <1>6, <1>8 DEF Upheld
<1> QED
  BY <1>1, <1>9

-----------------------------------------------------------------------------
(* The recursive functions Values and encodeItem exist. *)
Deeper(values) == values \cup Grouped(values)
ValuesTo(f, k) == f = [n \in 0 .. k |-> IF n = 0 THEN Plain ELSE Deeper(f[n - 1])]

LEMMA ValuesSteps ==
  Values[0] = Plain /\ \A n \in 1 .. Nesting : Values[n] = Values[n - 1] \cup Grouped(Values[n - 1])
<1> DEFINE G == {k \in 0 .. Nesting : \E f : ValuesTo(f, k)}
<1>0. Nesting \in Nat
  BY DigitsAssumption
<1>1. 0 \in G
  <2>1. ValuesTo([n \in 0 .. 0 |-> Plain], 0)
    BY DEF ValuesTo
  <2> QED
    BY <1>0, <2>1
<1>2. \A k \in 1 .. Nesting : k - 1 \in G => k \in G
  <2> TAKE k \in 1 .. Nesting
  <2> HAVE k - 1 \in G
  <2>1. PICK f : ValuesTo(f, k - 1)
    OBVIOUS
  <2>2. ValuesTo([n \in 0 .. k |-> IF n = k THEN Deeper(f[k - 1]) ELSE f[n]], k)
    BY <2>1 DEF ValuesTo
  <2> QED
    BY <1>0, <2>2
<1>3. \E f : ValuesTo(f, Nesting)
  <2> HIDE DEF G
  <2>1. \A k \in 0 .. Nesting : k \in G
    BY <1>0, <1>1, <1>2, Stepwise
  <2>2. Nesting \in G
    BY <1>0, <2>1
  <2> QED
    BY <2>2 DEF G
<1>4. Values = CHOOSE f : ValuesTo(f, Nesting)
  BY DEF Values, ValuesTo, Deeper
<1>5. ValuesTo(Values, Nesting)
  BY <1>3, <1>4
<1>6. \A n \in 0 .. Nesting : Values[n] = IF n = 0 THEN Plain ELSE Deeper(Values[n - 1])
  BY <1>5 DEF ValuesTo
<1>7. \A n \in 1 .. Nesting : n \in 0 .. Nesting /\ n # 0
  BY <1>0
<1>8. \A n \in 1 .. Nesting : Values[n] = Deeper(Values[n - 1])
  BY <1>6, <1>7
<1>9. Values[0] = Plain
  BY <1>0, <1>6
<1> QED
  BY <1>8, <1>9 DEF Deeper

Level(n, inner) == [item \in Values[n] |-> ItemBytes(item, inner)]
EncodesTo(f, k) == f = [n \in 0 .. k |-> Level(n, IF n = 0 THEN <<>> ELSE f[n - 1])]

LEMMA EncodeItemSteps ==
  \A n \in 0 .. Nesting : \A item \in Values[n] :
    encodeItem[n][item] = ItemBytes(item, IF n = 0 THEN <<>> ELSE encodeItem[n - 1])
<1> DEFINE G == {k \in 0 .. Nesting : \E f : EncodesTo(f, k)}
<1>0. Nesting \in Nat
  BY DigitsAssumption
<1>1. 0 \in G
  <2>1. EncodesTo([n \in 0 .. 0 |-> Level(n, <<>>)], 0)
    BY DEF EncodesTo
  <2> QED
    BY <1>0, <2>1
<1>2. \A k \in 1 .. Nesting : k - 1 \in G => k \in G
  <2> TAKE k \in 1 .. Nesting
  <2> HAVE k - 1 \in G
  <2>1. PICK f : EncodesTo(f, k - 1)
    OBVIOUS
  <2>2. EncodesTo([n \in 0 .. k |-> IF n = k THEN Level(n, f[k - 1]) ELSE f[n]], k)
    BY <2>1 DEF EncodesTo
  <2> QED
    BY <1>0, <2>2
<1>3. \E f : EncodesTo(f, Nesting)
  <2> HIDE DEF G
  <2>1. \A k \in 0 .. Nesting : k \in G
    BY <1>0, <1>1, <1>2, Stepwise
  <2>2. Nesting \in G
    BY <1>0, <2>1
  <2> QED
    BY <2>2 DEF G
<1>4. encodeItem = CHOOSE f : EncodesTo(f, Nesting)
  BY DEF encodeItem, EncodesTo, Level
<1>5. EncodesTo(encodeItem, Nesting)
  BY <1>3, <1>4
<1>6. \A n \in 0 .. Nesting :
        encodeItem[n] = Level(n, IF n = 0 THEN <<>> ELSE encodeItem[n - 1])
  BY <1>5 DEF EncodesTo
<1> QED
  BY <1>6 DEF Level

JoinsTo(f, parts, k) == f = [i \in 0 .. k |-> IF i = 0 THEN <<>> ELSE Longer(f[i - 1], parts[i])]
JoinedBy(f, parts) ==
  f[0] = <<>> /\ (\A i \in 1 .. Len(parts) : f[i] = Longer(f[i - 1], parts[i])) /\ Joined(parts) = f[Len(parts)]

LEMMA JoinedSteps ==
  ASSUME NEW parts, Len(parts) \in Nat
  PROVE  \E f : JoinedBy(f, parts)
<1> DEFINE n == Len(parts)
           G == {k \in 0 .. n : \E f : JoinsTo(f, parts, k)}
<1>1. 0 \in G
  <2>1. JoinsTo([i \in 0 .. 0 |-> <<>>], parts, 0)
    BY DEF JoinsTo
  <2> QED
    BY <2>1
<1>2. \A k \in 1 .. n : k - 1 \in G => k \in G
  <2> TAKE k \in 1 .. n
  <2> HAVE k - 1 \in G
  <2>1. PICK f : JoinsTo(f, parts, k - 1)
    OBVIOUS
  <2>2. JoinsTo([i \in 0 .. k |-> IF i = k THEN Longer(f[k - 1], parts[k]) ELSE f[i]], parts, k)
    BY <2>1 DEF JoinsTo
  <2> QED
    BY <2>2
<1>3. \E f : JoinsTo(f, parts, n)
  <2> HIDE DEF G
  <2>1. \A k \in 0 .. n : k \in G
    BY <1>1, <1>2, Stepwise
  <2>2. n \in G
    BY <2>1
  <2> QED
    BY <2>2 DEF G
<1> DEFINE g == CHOOSE f : JoinsTo(f, parts, n)
<1>4. JoinsTo(g, parts, n)
  BY <1>3
<1>5. Joined(parts) = g[n]
  BY DEF Joined, JoinsTo, Longer
<1> HIDE DEF g
<1>6. g[0] = <<>> /\ \A i \in 1 .. n : g[i] = Longer(g[i - 1], parts[i])
  BY <1>4 DEF JoinsTo
<1> QED
  BY <1>5, <1>6 DEF JoinedBy

-----------------------------------------------------------------------------
(* Bytes that lie at a position, and heads among them. *)
Lies(bytes, p, x) == p + Len(x) <= Len(bytes) + 1 /\ \A i \in 1 .. Len(x) : bytes[p + i - 1] = x[i]

LEMMA LiesApart ==
  ASSUME NEW bytes, NEW p \in Nat, NEW x \in Seq(Byte), NEW y \in Seq(Byte), Lies(bytes, p, x \o y), Len(bytes) \in Nat
  PROVE  Lies(bytes, p, x) /\ Lies(bytes, p + Len(x), y)
<1> DEFINE z == x \o y
<1>1. Len(x) \in Nat /\ Len(y) \in Nat /\ Len(z) = Len(x) + Len(y)
      /\ (\A i \in 1 .. Len(x) : z[i] = x[i]) /\ (\A i \in 1 .. Len(y) : z[Len(x) + i] = y[i])
  BY ConcatPlaces
<1>2. Lies(bytes, p, z)
  OBVIOUS
<1> HIDE DEF z
<1>3. Lies(bytes, p, x)
  <2>1. \A i \in 1 .. Len(x) : i \in 1 .. Len(z)
    BY <1>1
  <2> QED
    BY <1>1, <1>2, <2>1 DEF Lies
<1>4. Lies(bytes, p + Len(x), y)
  <2>1. \A i \in 1 .. Len(y) : Len(x) + i \in 1 .. Len(z) /\ p + (Len(x) + i) - 1 = p + Len(x) + i - 1
    BY <1>1
  <2>2. \A i \in 1 .. Len(y) : bytes[p + (Len(x) + i) - 1] = z[Len(x) + i]
    BY <1>2, <2>1 DEF Lies
  <2>3. p + Len(x) + Len(y) <= Len(bytes) + 1
    BY <1>1, <1>2 DEF Lies
  <2> QED
    BY <1>1, <2>1, <2>2, <2>3 DEF Lies
<1> QED
  BY <1>3, <1>4

LEMMA LiesPart ==
  ASSUME NEW bytes \in Seq(Byte), NEW p \in 1 .. Len(bytes) + 1, NEW x \in Seq(Byte), Lies(bytes, p, x)
  PROVE  SubSeq(bytes, p, p + Len(x) - 1) = x
<1> DEFINE y == SubSeq(bytes, p, p + Len(x) - 1)
<1>1. Len(x) \in Nat /\ Len(bytes) \in Nat /\ p + Len(x) <= Len(bytes) + 1
  BY LenProperties DEF Lies
<1>2. y \in Seq(Byte) /\ Len(y) = Len(x)
  BY <1>1, PartTyped
<1>3. p + Len(x) - 1 - p + 1 = Len(x) /\ \A i \in 1 .. Len(x) : i + p - 1 = p + i - 1
  BY <1>1
<1>4. \A i \in 1 .. Len(x) : y[i] = bytes[i + p - 1]
  BY <1>1, <1>3
<1>5. \A i \in 1 .. Len(x) : y[i] = x[i]
  BY <1>3, <1>4 DEF Lies
<1> QED
  BY <1>2, <1>5, SeqEqual

LEMMA SmallStated == \A n \in 0 .. 255 : Stated(n)
<1> TAKE n \in 0 .. 255
<1> DEFINE base == DigitBase
           s == Shifted(n, base, 8)
<1>1. base \in Nat \ {0} /\ base >= 2 /\ 8 \in Nat /\ n \in Nat
  BY DigitsAssumption
<1> HIDE DEF base
<1>2. \A x \in Nat : \A m \in Nat : x <= 2 * m + 1 => x \div base \in Nat /\ x \div base <= m
  <2> TAKE x \in Nat
  <2> TAKE m \in Nat
  <2> HAVE x <= 2 * m + 1
  <2> DEFINE q == x \div base
  <2>1. q \in Nat /\ q * base <= x
    BY <1>1
  <2> HIDE DEF q
  <2>2. 2 * q <= q * base
    BY <1>1, <2>1
  <2>3. q * base \in Nat
    BY <1>1, <2>1
  <2>4. 2 * q <= 2 * m + 1
    BY <2>1, <2>2, <2>3
  <2> QED
    BY <2>1, <2>4 DEF q
<1>3. s[0] = n /\ \A k \in 1 .. 8 : s[k] = s[k - 1] \div base
  BY <1>1, ShiftedSteps
<1> HIDE DEF s
<1>4. s[1] \in Nat /\ s[1] <= 127
  BY <1>1, <1>2, <1>3
<1>5. s[2] \in Nat /\ s[2] <= 63
  BY <1>2, <1>3, <1>4
<1>6. s[3] \in Nat /\ s[3] <= 31
  BY <1>2, <1>3, <1>5
<1>7. s[4] \in Nat /\ s[4] <= 15
  BY <1>2, <1>3, <1>6
<1>8. s[5] \in Nat /\ s[5] <= 7
  BY <1>2, <1>3, <1>7
<1>9. s[6] \in Nat /\ s[6] <= 3
  BY <1>2, <1>3, <1>8
<1>10. s[7] \in Nat /\ s[7] <= 1
  BY <1>2, <1>3, <1>9
<1>11. s[8] \in Nat /\ s[8] <= 0
  BY <1>2, <1>3, <1>10
<1>12. s[8] = 0
  BY <1>11
<1> QED
  BY <1>12 DEF Stated, Fits, s, base

HeadAt(bytes, p, major, n, size) ==
  bytes[p] \div 32 = major /\ readLen(bytes, bytes[p] % 32, p + 1) = Read(n, p + size)
Announces(x, major, n) ==
  /\ x \in Seq(Byte) /\ x # <<>>
  /\ \A bytes \in Seq(Byte) : \A p \in 1 .. Len(bytes) : Lies(bytes, p, x) => HeadAt(bytes, p, major, n, Len(x))

LEMMA Widths ==
  /\ Direct \in Nat /\ 0 < Direct /\ Direct + 3 < 32 /\ DigitBase \in Nat \ {0} /\ DigitBase <= 256
  /\ \A n \in 0 .. Direct - 1 : WidthOf(n) = 0
  /\ \A w \in {1, 2, 4, 8} : Info(w) \in Direct .. Direct + 3 /\ WidthOf(Info(w)) = w
<1>1. Direct \in Nat /\ 0 < Direct /\ Direct + 3 < 32 /\ DigitBase \in Nat \ {0} /\ DigitBase <= 256
  BY DigitsAssumption
<1>2. \A n \in 0 .. Direct - 1 : WidthOf(n) = 0
  BY <1>1 DEF WidthOf
<1>3. Info(1) = Direct /\ Info(2) = Direct + 1 /\ Info(4) = Direct + 2 /\ Info(8) = Direct + 3
  BY DEF Info
<1>4. WidthOf(Direct) = 1
  BY <1>1 DEF WidthOf
<1>5. WidthOf(Direct + 1) = 2
  BY <1>1 DEF WidthOf
<1>6. WidthOf(Direct + 2) = 4
  BY <1>1 DEF WidthOf
<1>7. WidthOf(Direct + 3) = 8
  BY <1>1 DEF WidthOf
<1> QED
  BY <1>1, <1>2, <1>3, <1>4, <1>5, <1>6, <1>7

LEMMA HeadReads ==
  ASSUME NEW major \in 0 .. 6, NEW n \in Nat, Stated(n)
  PROVE  Announces(writeHead(major, n), major, n)
<1> DEFINE w == Width(n)
           x == writeHead(major, n)
<1>0. \A k \in 0 .. 31 : major * 32 + k \in Byte /\ (major * 32 + k) \div 32 = major /\ (major * 32 + k) % 32 = k
  BY DEF Byte
<1>1. Direct \in Nat /\ 0 < Direct /\ Direct + 3 < 32 /\ DigitBase \in Nat \ {0} /\ DigitBase <= 256
  BY Widths
<1>2. CASE n < Direct
  <2>1. x = <<major * 32 + n>> /\ n \in 0 .. 31 /\ n \in 0 .. Direct - 1 /\ ~ (n > Direct + 3)
    BY <1>1, <1>2 DEF writeHead, Width
  <2> HIDE DEF x
  <2>2. x \in Seq(Byte) /\ x # <<>> /\ Len(x) = 1 /\ x[1] = major * 32 + n
    BY <1>0, <2>1
  <2>3. ASSUME NEW bytes \in Seq(Byte), NEW p \in 1 .. Len(bytes), Lies(bytes, p, x)
        PROVE  HeadAt(bytes, p, major, n, Len(x))
    <3>1. Len(bytes) \in Nat
      BY LenProperties
    <3>2. p + 1 - 1 = p /\ 1 \in 1 .. 1 /\ p + 1 + 0 = p + 1 /\ ~ (p + 1 + 0 > Len(bytes) + 1)
      BY <3>1
    <3>3. bytes[p + 1 - 1] = x[1]
      BY <2>2, <2>3 DEF Lies
    <3>4. bytes[p] = major * 32 + n
      BY <2>2, <3>2, <3>3
    <3>5. bytes[p] \div 32 = major /\ bytes[p] % 32 = n
      BY <1>0, <2>1, <3>4
    <3>6. readLen(bytes, n, p + 1) = Read(n, p + 1)
      BY <2>1, <3>2, Widths DEF readLen
    <3> QED
      BY <2>2, <3>5, <3>6 DEF HeadAt
  <2> QED
    BY <2>2, <2>3 DEF Announces, x
<1>3. CASE ~ (n < Direct)
  <2>1. w \in {1, 2, 4, 8} /\ Fits(n, DigitBase, w)
    BY <1>3 DEF Width, Stated
  <2> DEFINE d == Digits(n, DigitBase, w)
             f == <<major * 32 + Info(w)>>
  <2>2. x = f \o d
    BY <2>1 DEF writeHead
  <2> HIDE DEF w, x
  <2>3. w \in Nat /\ w >= 1 /\ Info(w) \in 0 .. 31 /\ ~ (Info(w) > Direct + 3) /\ WidthOf(Info(w)) = w
    BY <1>1, <2>1, Widths
  <2>4. d \in Seq(Byte) /\ Len(d) = w
    <3>1. d \in Seq(0 .. DigitBase - 1) /\ Len(d) = w
      BY <1>1, <2>3, DigitsTyped
    <3>2. 0 .. DigitBase - 1 \subseteq Byte
      BY <1>1 DEF Byte
    <3> QED
      BY <3>1, <3>2, SeqMonotonic
  <2>5. Number(d, DigitBase) = n
    BY <1>1, <2>1, <2>3, NumberOfDigits
  <2> HIDE DEF d
  <2>6. f \in Seq(Byte) /\ Len(f) = 1 /\ f[1] = major * 32 + Info(w)
    BY <1>0, <2>3
  <2> HIDE DEF f
  <2>7. x \in Seq(Byte) /\ Len(x) = 1 + w
    <3>1. Concatenates(f \o d, f, d, Byte)
      BY <2>4, <2>6, ConcatParts
    <3> QED
      BY <2>2, <2>4, <2>6, <3>1 DEF Concatenates
  <2>8. ASSUME NEW bytes \in Seq(Byte), NEW p \in 1 .. Len(bytes), Lies(bytes, p, x)
        PROVE  HeadAt(bytes, p, major, n, Len(x))
    <3>1. Len(bytes) \in Nat
      BY LenProperties
    <3>2. Lies(bytes, p, f) /\ Lies(bytes, p + Len(f), d)
      <4>1. Lies(bytes, p, f \o d) /\ p \in Nat
        BY <2>2, <2>8
      <4> QED
        BY <2>4, <2>6, <3>1, <4>1, LiesApart
    <3> DEFINE q == p + 1
    <3>3. q \in 1 .. Len(bytes) + 1 /\ q + w = p + (1 + w) /\ ~ (q + w > Len(bytes) + 1) /\ p + 1 - 1 = p /\ 1 \in 1 .. 1
      BY <2>3, <2>7, <2>8, <3>1 DEF Lies
    <3>4. bytes[p + 1 - 1] = f[1]
      BY <2>6, <3>2 DEF Lies
    <3>5. bytes[p] = major * 32 + Info(w)
      BY <2>6, <3>3, <3>4
    <3>6. bytes[p] \div 32 = major /\ bytes[p] % 32 = Info(w)
      BY <1>0, <2>3, <3>5
    <3>7. Lies(bytes, q, d)
      BY <2>6, <3>2
    <3> HIDE DEF q
    <3>8. SubSeq(bytes, q, q + w - 1) = d
      BY <2>4, <3>3, <3>7, LiesPart
    <3>9. readLen(bytes, Info(w), q) = Read(n, q + w)
      <4> DEFINE k == Info(w)
      <4>1. WidthOf(k) = w /\ ~ (k > Direct + 3) /\ w # 0
        BY <2>3
      <4> HIDE DEF k
      <4>2. readLen(bytes, k, q) = Read(Number(SubSeq(bytes, q, q + w - 1), DigitBase), q + w)
        BY <3>3, <4>1, Zenon DEF readLen
      <4> QED
        BY <2>5, <3>8, <4>2 DEF k
    <3> QED
      BY <2>7, <3>3, <3>6, <3>9 DEF q, HeadAt
  <2>9. x # <<>>
    BY <2>3, <2>7, EmptySeq
  <2> QED
    BY <2>7, <2>8, <2>9 DEF Announces, x
<1> QED
  BY <1>1, <1>2, <1>3

-----------------------------------------------------------------------------
(* Wherever the bytes of a value lie, the value is read. *)
FoundAt(bytes, p, item, size) == decodeItem(bytes)[p] = Read(item, p + size)
Restores(item, x) ==
  /\ x \in Seq(Byte) /\ x # <<>>
  /\ \A bytes \in Seq(Byte) : \A p \in 1 .. Len(bytes) : Lies(bytes, p, x) => FoundAt(bytes, p, item, Len(x))

HeadedBy(bytes, p, major, n, body, size) ==
  \E q \in 1 .. Len(bytes) + 1 :
    /\ decodeItem(bytes)[p] = Content(bytes, major, Read(n, q), decodeItem(bytes))
    /\ Lies(bytes, q, body) /\ p + size = q + Len(body) /\ p < q

LEMMA Headed ==
  ASSUME NEW major \in 0 .. 6, NEW n \in Nat, Stated(n), NEW body \in Seq(Byte),
         NEW bytes \in Seq(Byte), NEW p \in 1 .. Len(bytes), Lies(bytes, p, writeHead(major, n) \o body)
  PROVE  HeadedBy(bytes, p, major, n, body, Len(writeHead(major, n) \o body))
<1> DEFINE x == writeHead(major, n)
           q == p + Len(x)
<1>1. Announces(x, major, n)
  BY HeadReads
<1>2. x \in Seq(Byte) /\ x # <<>> /\ Len(x) \in Nat /\ Len(x) # 0 /\ Len(body) \in Nat /\ Len(bytes) \in Nat
  BY <1>1, LenProperties, EmptySeq DEF Announces
<1>3. Lies(bytes, p, x \o body) /\ p \in Nat
  OBVIOUS
<1> HIDE DEF x
<1>4. Lies(bytes, p, x) /\ Lies(bytes, q, body)
  BY <1>2, <1>3, LiesApart
<1>5. Concatenates(x \o body, x, body, Byte)
  BY <1>2, ConcatParts
<1>6. Len(x \o body) = Len(x) + Len(body)
  BY <1>5 DEF Concatenates
<1>7. q \in 1 .. Len(bytes) + 1 /\ p + Len(x \o body) = q + Len(body) /\ p < q
  BY <1>2, <1>4, <1>6 DEF Lies
<1>8. HeadAt(bytes, p, major, n, Len(x))
  BY <1>1, <1>4 DEF Announces
<1>9. decodeItem(bytes)[p] = Content(bytes, major, Read(n, q), decodeItem(bytes))
  <2>1. p \in 1 .. Len(bytes) + 1 /\ ~ (p > Len(bytes))
    BY <1>2
  <2>2. decodeItem(bytes)[p] = ItemAt(bytes, p, decodeItem(bytes))
    BY <2>1, ItemsRead DEF Itemises
  <2> HIDE DEF q
  <2>3. bytes[p] \div 32 = major /\ major # 7 /\ readLen(bytes, bytes[p] % 32, p + 1) = Read(n, q)
    BY <1>8 DEF HeadAt, q
  <2> QED
    BY <2>1, <2>2, <2>3, Zenon DEF ItemAt
<1> QED
  BY <1>4, <1>7, <1>9 DEF HeadedBy, x

LEMMA SimpleFound ==
  ASSUME NEW k \in 0 .. 31, NEW bytes \in Seq(Byte), NEW p \in 1 .. Len(bytes), bytes[p] = 7 * 32 + k
  PROVE  decodeItem(bytes)[p] = Simple(bytes, k, p + 1)
<1>1. p \in 1 .. Len(bytes) + 1 /\ ~ (p > Len(bytes))
  BY LenProperties
<1>2. decodeItem(bytes)[p] = ItemAt(bytes, p, decodeItem(bytes))
  BY <1>1, ItemsRead DEF Itemises
<1>3. bytes[p] \div 32 = 7 /\ bytes[p] % 32 = k
  OBVIOUS
<1> QED
  BY <1>1, <1>2, <1>3 DEF ItemAt

Codes(k, item) == \A bytes, p : Simple(bytes, k, p) = Read(item, p)

LEMMA SimpleCodes ==
  Codes(20, [t |-> "bool", v |-> FALSE]) /\ Codes(21, [t |-> "bool", v |-> TRUE]) /\ Codes(22, [t |-> "null"])
<1>1. Direct \in Nat /\ Direct + 3 \notin 20 .. 23
  BY DigitsAssumption
<1> DEFINE no == [t |-> "bool", v |-> FALSE]
           yes == [t |-> "bool", v |-> TRUE]
           null == [t |-> "null"]
<1>2. \A bytes, p : Simple(bytes, 20, p) = Read(no, p)
  BY <1>1 DEF Simple
<1>3. \A bytes, p : Simple(bytes, 21, p) = Read(yes, p)
  BY <1>1 DEF Simple
<1>4. \A bytes, p : Simple(bytes, 22, p) = Read(null, p)
  BY <1>1 DEF Simple
<1> QED
  BY <1>2, <1>3, <1>4 DEF Codes

LEMMA ByteRestores ==
  ASSUME NEW k \in 0 .. 31, NEW item, Codes(k, item)
  PROVE  Restores(item, <<7 * 32 + k>>)
<1> DEFINE b == 7 * 32 + k
           x == <<b>>
<1>1. b \in Byte
  BY DEF Byte
<1> HIDE DEF b
<1>2. x \in Seq(Byte) /\ Len(x) = 1 /\ x[1] = b /\ x # <<>>
  BY <1>1
<1> HIDE DEF x
<1>3. ASSUME NEW bytes \in Seq(Byte), NEW p \in 1 .. Len(bytes), Lies(bytes, p, x)
      PROVE  FoundAt(bytes, p, item, Len(x))
  <2>1. bytes[p + 1 - 1] = b /\ p + 1 - 1 = p
    BY <1>2, <1>3, LenProperties DEF Lies
  <2>2. decodeItem(bytes)[p] = Simple(bytes, k, p + 1)
    BY <2>1, SimpleFound DEF b
  <2> QED
    BY <1>2, <2>2 DEF FoundAt, Codes
<1> QED
  BY <1>2, <1>3 DEF Restores, b, x

LEMMA FloatRestores ==
  ASSUME NEW s \in Seq(0 .. DigitBase - 1), Len(s) = 8
  PROVE  Restores([t |-> "float", v |-> s], <<7 * 32 + Direct + 3>> \o s)
<1> DEFINE k == Direct + 3
           b == 7 * 32 + Direct + 3
           f == <<b>>
           x == f \o s
<1>1. Direct \in Nat /\ k \in 0 .. 31 /\ b \in Byte /\ b = 7 * 32 + k /\ k \notin {20, 21, 22, 23}
  BY DigitsAssumption DEF Byte
<1>2. s \in Seq(Byte)
  <2>1. 0 .. DigitBase - 1 \subseteq Byte
    BY DigitsAssumption DEF Byte
  <2> QED
    BY <2>1, SeqMonotonic
<1> HIDE DEF b, k
<1>3. f \in Seq(Byte) /\ Len(f) = 1 /\ f[1] = b
  BY <1>1
<1> HIDE DEF f
<1>4. Concatenates(x, f, s, Byte)
  BY <1>2, <1>3, ConcatParts
<1>5. x \in Seq(Byte) /\ Len(x) = 9
  BY <1>3, <1>4 DEF Concatenates
<1>6. ASSUME NEW bytes \in Seq(Byte), NEW p \in 1 .. Len(bytes), Lies(bytes, p, x)
      PROVE  FoundAt(bytes, p, [t |-> "float", v |-> s], Len(x))
  <2> DEFINE q == p + 1
  <2>0. Len(bytes) \in Nat /\ p \in Nat
    BY LenProperties
  <2>1. Lies(bytes, p, f) /\ Lies(bytes, q, s)
    BY <1>2, <1>3, <1>6, <2>0, LiesApart
  <2>2. bytes[p + 1 - 1] = b /\ p + 1 - 1 = p
    BY <1>3, <2>0, <2>1 DEF Lies
  <2>3. decodeItem(bytes)[p] = Simple(bytes, k, q)
    BY <1>1, <2>2, SimpleFound
  <2>4. q \in 1 .. Len(bytes) + 1 /\ q + 8 - 1 = q + 7 /\ q + 8 <= Len(bytes) + 1 /\ q + 8 = p + 9
    BY <1>5, <1>6, <2>0 DEF Lies
  <2> HIDE DEF q
  <2>5. SubSeq(bytes, q, q + 7) = s
    BY <1>2, <2>1, <2>4, LiesPart
  <2>6. Simple(bytes, k, q) = Read([t |-> "float", v |-> SubSeq(bytes, q, q + 7)], q + 8)
    BY <1>1, <2>4 DEF Simple, k
  <2> QED
    BY <1>5, <2>3, <2>4, <2>5, <2>6 DEF FoundAt
<1>7. x # <<>>
  BY <1>5, EmptySeq
<1> QED
  BY <1>5, <1>6, <1>7 DEF Restores, x, f, b

(* An item that is its head and its body. *)
LEMMA HeadedRestores ==
  ASSUME NEW major \in 0 .. 6, NEW n \in Nat, Stated(n), NEW body \in Seq(Byte), NEW item,
         \A bytes \in Seq(Byte) : \A q \in 2 .. Len(bytes) + 1 : Lies(bytes, q, body) =>
           Content(bytes, major, Read(n, q), decodeItem(bytes)) = Read(item, q + Len(body))
  PROVE  Restores(item, writeHead(major, n) \o body)
<1> DEFINE x == writeHead(major, n) \o body
<1>1. Announces(writeHead(major, n), major, n)
  BY HeadReads
<1>2. writeHead(major, n) \in Seq(Byte) /\ writeHead(major, n) # <<>>
  BY <1>1 DEF Announces
<1>3. x \in Seq(Byte) /\ x # <<>>
  BY <1>2, ConcatProperties, ConcatSimplifications
<1>4. ASSUME NEW bytes \in Seq(Byte), NEW p \in 1 .. Len(bytes), Lies(bytes, p, x)
      PROVE  FoundAt(bytes, p, item, Len(x))
  <2>1. HeadedBy(bytes, p, major, n, body, Len(x))
    BY <1>4, Headed
  <2> HIDE DEF x
  <2>2. PICK q \in 1 .. Len(bytes) + 1 :
          /\ decodeItem(bytes)[p] = Content(bytes, major, Read(n, q), decodeItem(bytes))
          /\ Lies(bytes, q, body) /\ p + Len(x) = q + Len(body) /\ p < q
    BY <2>1 DEF HeadedBy
  <2>3. q \in 2 .. Len(bytes) + 1
    BY <2>2, LenProperties
  <2> QED
    BY <2>2, <2>3 DEF FoundAt
<1> QED
  BY <1>3, <1>4 DEF Restores

LEMMA TextWhole ==
  ASSUME NEW s \in Text
  PROVE  LET body == utf8Encode(s)
         IN /\ body \in Seq(Byte) /\ Stated(Len(body))
            /\ ~ utf8Decode(body).malformed /\ utf8Decode(body).units = s
<1> DEFINE body == utf8Encode(s)
<1>1. s \in Seq(Unit) /\ WellFormed(s) /\ Stated(Len(body))
  BY DEF Text
<1>2. Comes(s) /\ body \in Seq(Byte)
  BY <1>1, TextReads, EncodeTyped
<1>3. \A k \in DOMAIN s : Mended(s, k) = s[k]
  BY <1>1 DEF WellFormed, Mended, Scalar
<1>4. s = [k \in DOMAIN s |-> s[k]]
  BY <1>1
<1>5. ~ utf8Decode(body).malformed /\ utf8Decode(body).units = [k \in DOMAIN s |-> Mended(s, k)]
  BY <1>2 DEF Comes
<1>6. utf8Decode(body).units = s
  BY <1>3, <1>4, <1>5
<1> QED
  BY <1>1, <1>2, <1>5, <1>6

LEMMA IntegerRestores ==
  ASSUME NEW v \in Integer
  PROVE  Restores([t |-> "int", v |-> v], writeHead(IF v >= 0 THEN 0 ELSE 1, Magnitude(v)))
<1> DEFINE item == [t |-> "int", v |-> v]
           major == IF v >= 0 THEN 0 ELSE 1
           n == Magnitude(v)
<1>1. v \in Int /\ Stated(n) /\ n \in Nat /\ (major = 0 => v = n) /\ (major = 1 => v = -1 - n) /\ major \in {0, 1} /\ major \in 0 .. 6
  BY DEF Integer, Magnitude
<1> HIDE DEF n, major
<1>2. <<>> \in Seq(Byte) /\ Len(<<>>) = 0
  OBVIOUS
<1>3. ASSUME NEW bytes \in Seq(Byte), NEW q \in 2 .. Len(bytes) + 1
      PROVE  Content(bytes, major, Read(n, q), decodeItem(bytes)) = Read(item, q + Len(<<>>))
  <2>1. q + Len(<<>>) = q
    BY <1>2
  <2>2. major # 6 /\ Read(n, q).ok /\ Read(n, q).value = n /\ Read(n, q).next = q
    BY <1>1, OutcomeOk
  <2>3. major = 0 => Content(bytes, major, Read(n, q), decodeItem(bytes)) = Read([t |-> "int", v |-> n], q)
    BY <2>2 DEF Content
  <2>4. major = 1 => Content(bytes, major, Read(n, q), decodeItem(bytes)) = Read([t |-> "int", v |-> -1 - n], q)
    BY <2>2 DEF Content
  <2> QED
    BY <1>1, <2>1, <2>3, <2>4
<1>4. Restores(item, writeHead(major, n) \o <<>>)
  <2> HIDE DEF item
  <2> QED
    BY <1>1, <1>2, <1>3, HeadedRestores
<1>5. writeHead(major, n) \in Seq(Byte)
  BY <1>1, HeadReads DEF Announces
<1>6. writeHead(major, n) \o <<>> = writeHead(major, n)
  BY <1>5, ConcatEmptySeq
<1> QED
  BY <1>4, <1>6 DEF n, major

LEMMA StringRestores ==
  ASSUME NEW type \in {"text", "bytes"}, NEW s, NEW body \in Seq(Byte), Stated(Len(body)),
         type = "bytes" => s = body,
         type = "text" => ~ utf8Decode(body).malformed /\ utf8Decode(body).units = s
  PROVE  Restores([t |-> type, v |-> s], writeHead(IF type = "bytes" THEN 2 ELSE 3, Len(body)) \o body)
<1> DEFINE item == [t |-> type, v |-> s]
           major == IF type = "bytes" THEN 2 ELSE 3
           n == Len(body)
<1>1. n \in Nat /\ major \in 0 .. 6 /\ Stated(n)
  BY LenProperties
<1>2. ASSUME NEW bytes \in Seq(Byte), NEW q \in 2 .. Len(bytes) + 1, Lies(bytes, q, body)
      PROVE  Content(bytes, major, Read(n, q), decodeItem(bytes)) = Read(item, q + n)
  <2>1. Read(n, q).ok /\ Read(n, q).value = n /\ Read(n, q).next = q
    BY OutcomeOk
  <2>2. Content(bytes, major, Read(n, q), decodeItem(bytes)) = Span(bytes, q, n, type)
    BY <2>1 DEF Content
  <2>3. q \in 1 .. Len(bytes) + 1 /\ ~ (q + n > Len(bytes) + 1)
    BY <1>1, <1>2, LenProperties DEF Lies
  <2>4. SubSeq(bytes, q, q + n - 1) = body
    BY <1>2, <2>3, LiesPart
  <2> HIDE DEF n
  <2>5. Span(bytes, q, n, type) = Read(item, q + n)
    BY <2>3, <2>4 DEF Span
  <2> QED
    BY <2>2, <2>5
<1> HIDE DEF major
<1>3. Restores(item, writeHead(major, n) \o body)
  <2> HIDE DEF item
  <2> QED
    BY <1>1, <1>2, HeadedRestores
<1> QED
  BY <1>3 DEF major

LEMMA PlainRestores ==
  ASSUME NEW item \in Plain, NEW inner
  PROVE  Restores(item, ItemBytes(item, inner))
<1>1. CASE item \in [t : {"null"}]
  <2>1. item = [t |-> "null"]
    BY <1>1
  <2>2. Codes(22, item)
    BY <2>1, SimpleCodes
  <2>3. Restores(item, <<7 * 32 + 22>>)
    BY <2>2, ByteRestores
  <2> QED
    BY <2>1, <2>3 DEF ItemBytes
<1>2. CASE item \in [t : {"bool"}, v : BOOLEAN]
  <2>1. item = [t |-> "bool", v |-> item.v] /\ item.v \in BOOLEAN
    BY <1>2
  <2>2. CASE item.v = FALSE
    <3>1. Codes(20, item)
      BY <2>1, <2>2, SimpleCodes
    <3>2. Restores(item, <<7 * 32 + 20>>)
      BY <3>1, ByteRestores
    <3>3. ItemBytes(item, inner) = <<7 * 32 + 20>>
      BY <2>1, <2>2 DEF ItemBytes
    <3> QED
      BY <3>2, <3>3
  <2>3. CASE item.v = TRUE
    <3>1. Codes(21, item)
      BY <2>1, <2>3, SimpleCodes
    <3>2. Restores(item, <<7 * 32 + 21>>)
      BY <3>1, ByteRestores
    <3>3. ItemBytes(item, inner) = <<7 * 32 + 21>>
      BY <2>1, <2>3 DEF ItemBytes
    <3> QED
      BY <3>2, <3>3
  <2> QED
    BY <2>1, <2>2, <2>3
<1>3. CASE item \in [t : {"int"}, v : Integer]
  <2>1. item = [t |-> "int", v |-> item.v] /\ item.v \in Integer /\ item.t = "int"
    BY <1>3
  <2>2. ItemBytes(item, inner) = writeHead(IF item.v >= 0 THEN 0 ELSE 1, Magnitude(item.v))
    BY <2>1 DEF ItemBytes
  <2>3. Restores([t |-> "int", v |-> item.v], writeHead(IF item.v >= 0 THEN 0 ELSE 1, Magnitude(item.v)))
    BY <2>1, IntegerRestores
  <2> QED
    BY <2>1, <2>2, <2>3
<1>4. CASE item \in [t : {"float"}, v : {s \in Seq(0 .. DigitBase - 1) : Len(s) = 8}]
  <2>1. item = [t |-> "float", v |-> item.v] /\ item.v \in Seq(0 .. DigitBase - 1) /\ Len(item.v) = 8
    BY <1>4
  <2>2. ItemBytes(item, inner) = <<7 * 32 + Direct + 3>> \o item.v
    BY <2>1 DEF ItemBytes
  <2>3. Restores([t |-> "float", v |-> item.v], <<7 * 32 + Direct + 3>> \o item.v)
    BY <2>1, FloatRestores
  <2> QED
    BY <2>1, <2>2, <2>3
<1>5. CASE item \in [t : {"bytes"}, v : {s \in Seq(Byte) : Stated(Len(s))}]
  <2>1. item = [t |-> "bytes", v |-> item.v] /\ item.v \in Seq(Byte) /\ Stated(Len(item.v))
    BY <1>5
  <2>2. ItemBytes(item, inner) = writeHead(2, Len(item.v)) \o item.v
    BY <2>1 DEF ItemBytes
  <2>3. Restores([t |-> "bytes", v |-> item.v], writeHead(2, Len(item.v)) \o item.v)
    BY <2>1, StringRestores
  <2> QED
    BY <2>1, <2>2, <2>3
<1>6. CASE item \in Texts
  <2> DEFINE body == utf8Encode(item.v)
  <2>1. item = [t |-> "text", v |-> item.v] /\ item.v \in Text
    BY <1>6 DEF Texts
  <2>2. ItemBytes(item, inner) = writeHead(3, Len(body)) \o body
    BY <2>1 DEF ItemBytes
  <2>3. body \in Seq(Byte) /\ Stated(Len(body)) /\ ~ utf8Decode(body).malformed /\ utf8Decode(body).units = item.v
    BY <2>1, TextWhole
  <2> HIDE DEF body
  <2>4. Restores([t |-> "text", v |-> item.v], writeHead(3, Len(body)) \o body)
    BY <2>3, StringRestores
  <2> QED
    BY <2>1, <2>2, <2>4
<1> QED
  BY <1>1, <1>2, <1>3, <1>4, <1>5, <1>6, Zenon DEF Plain

-----------------------------------------------------------------------------
(* A list of items that lie one after the other. *)
ListRestores(m, x) ==
  /\ x \in Seq(Byte)
  /\ \A bytes \in Seq(Byte) : \A q \in 1 .. Len(bytes) + 1 : Lies(bytes, q, x) =>
       List(bytes, q, Len(m), decodeItem(bytes)) = Read(m, q + Len(x))

LEMMA ListReads ==
  ASSUME NEW T, NEW m \in Seq(T), NEW parts, Len(parts) = Len(m),
         \A i \in 1 .. Len(m) : Restores(m[i], parts[i])
  PROVE  ListRestores(m, Joined(parts))
<1> DEFINE n == Len(m)
<1>0. n \in Nat /\ Len(parts) = n
  BY LenProperties
<1>1. PICK f : JoinedBy(f, parts)
  BY <1>0, JoinedSteps
<1>2. f[0] = <<>> /\ (\A i \in 1 .. n : f[i] = f[i - 1] \o parts[i]) /\ Joined(parts) = f[n]
  BY <1>0, <1>1 DEF JoinedBy, Longer
<1> HIDE DEF n
<1>3. \A i \in 1 .. n : parts[i] \in Seq(Byte) /\ Len(parts[i]) \in Nat /\ Len(parts[i]) # 0
  <2> TAKE i \in 1 .. n
  <2>1. parts[i] \in Seq(Byte) /\ parts[i] # <<>>
    BY DEF Restores, n
  <2> QED
    BY <2>1, LenProperties, EmptySeq
<1> DEFINE G == {i \in 0 .. n : f[i] \in Seq(Byte) /\ Len(f[i]) >= i}
<1>4. 0 \in G
  <2>1. <<>> \in Seq(Byte) /\ Len(<<>>) = 0
    BY EmptySeq
  <2>2. f[0] \in Seq(Byte) /\ Len(f[0]) >= 0 /\ 0 \in 0 .. n
    BY <1>0, <1>2, <2>1
  <2> QED
    BY <2>2
<1>5. \A i \in 1 .. n : i - 1 \in G => i \in G
  <2> TAKE i \in 1 .. n
  <2> HAVE i - 1 \in G
  <2> DEFINE u == f[i - 1]
             v == parts[i]
  <2>1. u \in Seq(Byte) /\ Len(u) >= i - 1 /\ Len(u) \in Nat
    BY LenProperties
  <2>2. v \in Seq(Byte) /\ Len(v) \in Nat /\ Len(v) # 0 /\ f[i] = u \o v
    BY <1>2, <1>3
  <2> HIDE DEF u, v
  <2>3. Concatenates(u \o v, u, v, Byte)
    BY <2>1, <2>2, ConcatParts
  <2>4. f[i] \in Seq(Byte) /\ Len(f[i]) >= i
    BY <2>1, <2>2, <2>3 DEF Concatenates
  <2> QED
    BY <1>0, <2>4
<1>6. \A i \in 0 .. n : f[i] \in Seq(Byte) /\ Len(f[i]) \in Nat /\ Len(f[i]) >= i
  <2> HIDE DEF G
  <2>1. \A i \in 0 .. n : i \in G
    BY <1>0, <1>4, <1>5, Stepwise
  <2> QED
    BY <2>1, LenProperties DEF G
<1>7. n \in 0 .. n
  BY <1>0
<1>8. ASSUME NEW bytes \in Seq(Byte), NEW q \in 1 .. Len(bytes) + 1, Lies(bytes, q, f[n])
      PROVE  List(bytes, q, n, decodeItem(bytes)) = Read(m, q + Len(f[n]))
  <2>0. Len(bytes) \in Nat /\ q \in Nat
    BY LenProperties
  <2> DEFINE L == {k \in 0 .. n : Lies(bytes, q, f[n - k])}
             d == decodeItem(bytes)
  <2>1. \A i \in 1 .. n : Lies(bytes, q, f[i]) => Lies(bytes, q, f[i - 1]) /\ Lies(bytes, q + Len(f[i - 1]), parts[i])
    <3> TAKE i \in 1 .. n
    <3> HAVE Lies(bytes, q, f[i])
    <3> DEFINE u == f[i - 1]
               w == parts[i]
    <3>1. i - 1 \in 0 .. n
      BY <1>0
    <3>2. u \in Seq(Byte) /\ w \in Seq(Byte) /\ f[i] = u \o w
      BY <1>2, <1>3, <1>6, <3>1
    <3> HIDE DEF u, w
    <3>3. Lies(bytes, q, u \o w)
      BY <3>2
    <3>4. Lies(bytes, q, u) /\ Lies(bytes, q + Len(u), w)
      BY <2>0, <3>2, <3>3, LiesApart
    <3> QED
      BY <3>4 DEF u, w
  <2>2. 0 \in L
    BY <1>0, <1>8
  <2>3. \A k \in 1 .. n : k - 1 \in L => k \in L
    <3> TAKE k \in 1 .. n
    <3> HAVE k - 1 \in L
    <3>1. n - (k - 1) \in 1 .. n /\ n - (k - 1) - 1 = n - k
      BY <1>0
    <3>2. Lies(bytes, q, f[n - k])
      BY <2>1, <3>1
    <3> QED
      BY <1>0, <3>2
  <2>4. \A k \in 0 .. n : k \in L
    <3> HIDE DEF L
    <3> QED
      BY <1>0, <2>2, <2>3, Stepwise
  <2>5. \A i \in 0 .. n : Lies(bytes, q, f[i])
    <3> TAKE i \in 0 .. n
    <3>1. n - i \in 0 .. n /\ n - (n - i) = i
      BY <1>0
    <3> QED
      BY <2>4, <3>1
  <2> HIDE DEF d
  <2>6. PICK g : ListedBy(g, bytes, q, n, d)
    BY <1>0, ListSteps
  <2>7. /\ g[0] = Read(<<>>, q) /\ \A i \in 1 .. n : g[i] = Followed(g[i - 1], d)
        /\ List(bytes, q, n, d) = IF q + n > Len(bytes) + 1 THEN Refused ELSE g[n]
    BY <2>6 DEF ListedBy
  <2> DEFINE R == {i \in 0 .. n : g[i] = Read(SubSeq(m, 1, i), q + Len(f[i]))}
  <2>8. 0 \in R
    <3>1. SubSeq(m, 1, 0) = <<>>
      BY SubSeqEmpty
    <3>2. Len(<<>>) = 0
      OBVIOUS
    <3>3. q + Len(f[0]) = q
      BY <1>2, <2>0, <3>2
    <3>4. g[0] = Read(SubSeq(m, 1, 0), q + Len(f[0]))
      BY <2>7, <3>1, <3>3
    <3>5. 0 \in 0 .. n
      BY <1>0
    <3> QED
      BY <3>4, <3>5
  <2>9. \A i \in 1 .. n : i - 1 \in R => i \in R
    <3> TAKE i \in 1 .. n
    <3> HAVE i - 1 \in R
    <3> DEFINE p == q + Len(f[i - 1])
               v == SubSeq(m, 1, i - 1)
    <3>1. g[i - 1] = Read(v, p)
      OBVIOUS
    <3>2. i - 1 \in 0 .. n /\ i \in 0 .. n
      BY <1>0
    <3>3. Lies(bytes, p, parts[i]) /\ p \in Nat /\ p >= 1
      BY <1>6, <2>0, <2>1, <2>5, <3>2
    <3>4. p \in 1 .. Len(bytes)
      <4> DEFINE w == Len(parts[i])
      <4>1. w \in Nat /\ w # 0
        BY <1>3
      <4>2. p + w <= Len(bytes) + 1
        BY <3>3 DEF Lies
      <4> HIDE DEF p, w
      <4> QED
        BY <2>0, <3>3, <4>1, <4>2
    <3>5. d[p] = Read(m[i], p + Len(parts[i]))
      BY <3>3, <3>4 DEF Restores, FoundAt, d, n
    <3>6. p + Len(parts[i]) = q + Len(f[i])
      <4> DEFINE u == f[i - 1]
                 w == parts[i]
      <4>1. u \in Seq(Byte) /\ w \in Seq(Byte) /\ f[i] = u \o w
        BY <1>2, <1>3, <1>6, <3>2
      <4> HIDE DEF p, u, w
      <4>2. Concatenates(u \o w, u, w, Byte)
        BY <4>1, ConcatParts
      <4>3. Len(f[i]) = Len(u) + Len(w) /\ Len(u) \in Nat /\ Len(w) \in Nat
        BY <4>1, <4>2, LenProperties DEF Concatenates
      <4>4. p = q + Len(u) /\ parts[i] = w
        BY DEF p, u, w
      <4> QED
        BY <2>0, <4>3, <4>4
    <3>7. Append(v, m[i]) = SubSeq(m, 1, i)
      <4>1. 1 \in 1 .. Len(m) /\ i \in 1 .. Len(m)
        BY <1>0 DEF n
      <4>2. SubSeq(m, 1, i) = v \o <<m[i]>>
        BY <4>1, SubSeqRecursiveSecond
      <4>3. \A j \in 1 .. i - 1 : m[j] \in T
        BY <1>0, <4>1, ElementOfSeq DEF n
      <4>4. v \in Seq(T) /\ m[i] \in T
        BY <4>1, <4>3, SubSeqProperties, ElementOfSeq
      <4>5. Append(v, m[i]) = v \o <<m[i]>>
        BY <4>4, AppendIsConcat
      <4> QED
        BY <4>2, <4>5
    <3> HIDE DEF p, v
    <3>8. g[i] = Followed(Read(v, p), d)
      BY <2>7, <3>1
    <3>9. g[i] = Read(Append(v, m[i]), p + Len(parts[i]))
      BY <3>5, <3>8, OutcomeOk DEF Followed
    <3> QED
      BY <3>2, <3>6, <3>7, <3>9
  <2>10. n \in R
    <3> HIDE DEF R
    <3>1. \A i \in 0 .. n : i \in R
      BY <1>0, <2>8, <2>9, Stepwise
    <3> QED
      BY <1>7, <3>1
  <2>11. ~ (q + n > Len(bytes) + 1)
    BY <1>0, <1>6, <1>7, <1>8, <2>0 DEF Lies
  <2>12. SubSeq(m, 1, n) = m
    BY SubSeqFull DEF n
  <2> QED
    BY <2>7, <2>10, <2>11, <2>12 DEF d
<1> QED
  BY <1>2, <1>6, <1>7, <1>8 DEF ListRestores, n

(* What a map holds, key by key and value by value. *)
Halves(i) == (2 * i - 1 + 1) \div 2 = i /\ (2 * i + 1) \div 2 = i /\ (2 * i - 1) % 2 = 1 /\ (2 * i) % 2 = 0
Pairs(m, v) == Len(m) = 2 * Len(v) /\ \A i \in 1 .. Len(v) : m[2 * i - 1] = v[i][1] /\ m[2 * i] = v[i][2]

LEMMA PairsOf ==
  ASSUME NEW values, NEW v \in Seq(Texts \X values)
  PROVE  /\ Pairs(Members([t |-> "map", v |-> v]), v)
         /\ Members([t |-> "map", v |-> v]) \in Seq(values \cup Texts)
<1> DEFINE m == Members([t |-> "map", v |-> v])
           n == Len(v)
<1>1. n \in Nat
  BY LenProperties
<1>2. m = [i \in 1 .. 2 * n |-> v[(i + 1) \div 2][2 - (i % 2)]]
  BY DEF Members
<1>3. \A i \in 1 .. n : v[i][1] \in Texts /\ v[i][2] \in values
  <2> TAKE i \in 1 .. n
  <2>1. v[i] \in Texts \X values
    BY ElementOfSeq
  <2> QED
    BY <2>1
<1> HIDE DEF n
<1>4. \A i \in 1 .. 2 * n : (i + 1) \div 2 \in 1 .. n /\ (2 - (i % 2) = 1 \/ 2 - (i % 2) = 2)
  BY <1>1
<1>5. \A i \in 1 .. 2 * n : m[i] \in values \cup Texts
  <2> TAKE i \in 1 .. 2 * n
  <2> DEFINE j == (i + 1) \div 2
             s == 2 - (i % 2)
  <2>1. j \in 1 .. n /\ (s = 1 \/ s = 2) /\ m[i] = v[j][s]
    BY <1>2, <1>4
  <2> HIDE DEF j, s, m
  <2> QED
    BY <1>3, <2>1
<1>6. 2 * n \in Nat
  BY <1>1
<1>7. m \in Seq(values \cup Texts) /\ Len(m) = 2 * n
  <2> DEFINE k == 2 * n
  <2>1. m = [i \in 1 .. k |-> m[i]] /\ k \in Nat /\ \A i \in 1 .. k : m[i] \in values \cup Texts
    BY <1>2, <1>5, <1>6
  <2> HIDE DEF k, m
  <2>2. m \in [1 .. k -> values \cup Texts] /\ DOMAIN m = 1 .. k
    BY <2>1
  <2>3. m \in Seq(values \cup Texts) /\ Len(m) = k
    BY <2>1, <2>2
  <2> QED
    BY <2>3 DEF k
<1>8. ASSUME NEW i \in 1 .. n PROVE m[2 * i - 1] = v[i][1] /\ m[2 * i] = v[i][2]
  <2>1. 2 * i - 1 \in 1 .. 2 * n /\ 2 * i \in 1 .. 2 * n
    BY <1>1
  <2>2. Halves(i)
    BY <1>1 DEF Halves
  <2>3. m[2 * i - 1] = v[(2 * i - 1 + 1) \div 2][2 - ((2 * i - 1) % 2)]
        /\ m[2 * i] = v[(2 * i + 1) \div 2][2 - ((2 * i) % 2)]
    BY <1>2, <2>1
  <2>4. 2 - 1 = 1 /\ 2 - 0 = 2
    OBVIOUS
  <2> QED
    BY <2>2, <2>3, <2>4 DEF Halves
<1> QED
  BY <1>7, <1>8 DEF Pairs, n

LEMMA GroupRestores ==
  ASSUME NEW values, NEW inner, NEW item \in Grouped(values), \A x \in values \cup Texts : Restores(x, inner[x])
  PROVE  Restores(item, ItemBytes(item, inner))
<1> DEFINE m == Members(item)
           parts == [i \in DOMAIN m |-> inner[m[i]]]
           body == Joined(parts)
           n == Len(item.v)
           major == IF item.t = "array" THEN 4 ELSE 5
<1>1. item \in [t : {"array"}, v : {s \in Seq(values) : Stated(Len(s))}]
      \/ item \in [t : {"map"}, v : {s \in Seq(Texts \X values) : Stated(Len(s))}]
  BY DEF Grouped
<1>2. item.t \in {"array", "map"} /\ Stated(n) /\ n \in Nat /\ major \in 0 .. 6
  BY <1>1, LenProperties
<1>3. item.t = "array" => item = [t |-> "array", v |-> item.v] /\ item.v \in Seq(values) /\ m = item.v
  BY <1>1 DEF Members
<1>4. item.t = "map" => item = [t |-> "map", v |-> item.v] /\ item.v \in Seq(Texts \X values)
  BY <1>1
<1>5. m \in Seq(values \cup Texts)
  <2>1. CASE item.t = "array"
    BY <1>3, <2>1, SeqMonotonic
  <2>2. CASE item.t = "map"
    BY <1>4, <2>2, PairsOf
  <2> QED
    BY <1>2, <2>1, <2>2
<1>6. ItemBytes(item, inner) = writeHead(major, n) \o body
  BY <1>2 DEF ItemBytes
<1>7. item.t = "map" => Pairs(m, item.v)
  BY <1>4, PairsOf
<1> HIDE DEF m, n
<1>8. ListRestores(m, body)
  <2>1. Len(m) \in Nat /\ DOMAIN m = 1 .. Len(m)
    BY <1>5, LenProperties
  <2>2. Len(parts) = Len(m)
    BY <2>1
  <2>3. \A i \in 1 .. Len(m) : Restores(m[i], parts[i])
    <3> TAKE i \in 1 .. Len(m)
    <3>1. m[i] \in values \cup Texts /\ parts[i] = inner[m[i]]
      BY <1>5, <2>1, ElementOfSeq
    <3> HIDE DEF parts
    <3> QED
      BY <3>1
  <2> HIDE DEF parts
  <2> QED
    BY <1>5, <2>2, <2>3, ListReads
<1> HIDE DEF parts, body
<1>9. body \in Seq(Byte)
  BY <1>8 DEF ListRestores
<1>10. ASSUME NEW bytes \in Seq(Byte), NEW q \in 2 .. Len(bytes) + 1, Lies(bytes, q, body)
       PROVE  Content(bytes, major, Read(n, q), decodeItem(bytes)) = Read(item, q + Len(body))
  <2> DEFINE d == decodeItem(bytes)
             next == q + Len(body)
  <2>1. List(bytes, q, Len(m), d) = Read(m, next)
    <3>1. q \in 1 .. Len(bytes) + 1
      BY LenProperties
    <3> QED
      BY <1>8, <1>10, <3>1 DEF ListRestores
  <2>2. Read(n, q).ok /\ Read(n, q).value = n /\ Read(n, q).next = q
    BY OutcomeOk
  <2>3. Read(m, next).ok /\ Read(m, next).value = m /\ Read(m, next).next = next
    BY OutcomeOk
  <2> HIDE DEF d, next
  <2>4. CASE item.t = "array"
    <3>1. Content(bytes, 4, Read(n, q), d) = ArrayOf(List(bytes, q, n, d))
      BY <2>2 DEF Content
    <3>2. Len(m) = n /\ item = [t |-> "array", v |-> m]
      BY <1>3, <2>4 DEF n, m
    <3>3. ArrayOf(Read(m, next)) = Read(item, next)
      BY <2>3, <3>2 DEF ArrayOf
    <3> QED
      BY <2>1, <2>4, <3>1, <3>2, <3>3 DEF d, next
  <2>5. CASE item.t = "map"
    <3> DEFINE v == item.v
    <3>1. Content(bytes, 5, Read(n, q), d) = MapOf(List(bytes, q, 2 * n, d), n)
      BY <2>2 DEF Content
    <3>2. Len(m) = 2 * n /\ \A i \in 1 .. n : m[2 * i - 1] = v[i][1] /\ m[2 * i] = v[i][2]
      BY <1>7, <2>5 DEF Pairs, n
    <3>3. \A i \in 1 .. n : v[i] = <<v[i][1], v[i][2]>> /\ v[i][1].t = "text"
      <4> TAKE i \in 1 .. n
      <4>1. v[i] \in Texts \X values
        BY <1>4, <2>5, ElementOfSeq DEF n
      <4> QED
        BY <4>1 DEF Texts
    <3>4. v = [i \in 1 .. n |-> v[i]]
      BY <1>4, <2>5 DEF n
    <3> DEFINE z == [i \in 1 .. n |-> <<m[2 * i - 1], m[2 * i]>>]
    <3>5. z = v
      <4> HIDE DEF v
      <4> QED
        BY <3>2, <3>3, <3>4
    <3>6. item = [t |-> "map", v |-> z]
      BY <1>4, <2>5, <3>5
    <3>7. \A i \in 1 .. n : m[2 * i - 1].t = "text"
      BY <3>2, <3>3
    <3>8. MapOf(Read(m, next), n) = Read([t |-> "map", v |-> z], next)
      BY <2>3, <3>7 DEF MapOf
    <3> HIDE DEF z, v
    <3>9. major = 5
      BY <2>5
    <3>10. MapOf(List(bytes, q, 2 * n, d), n) = Read(item, next)
      BY <2>1, <3>2, <3>6, <3>8
    <3> QED
      BY <3>1, <3>9, <3>10 DEF d, next
  <2> QED
    BY <1>2, <2>4, <2>5
<1> HIDE DEF major
<1>11. Restores(item, writeHead(major, n) \o body)
  BY <1>2, <1>9, <1>10, HeadedRestores
<1> QED
  BY <1>6, <1>11

-----------------------------------------------------------------------------
(* Values by how deep they nest. *)
LEMMA PlainValues == \A n \in 0 .. Nesting : Plain \subseteq Values[n]
<1> DEFINE G == {n \in 0 .. Nesting : Plain \subseteq Values[n]}
<1>0. Nesting \in Nat
  BY DigitsAssumption
<1>1. 0 \in G
  BY <1>0, ValuesSteps
<1>2. \A n \in 1 .. Nesting : n - 1 \in G => n \in G
  BY <1>0, ValuesSteps
<1>3. \A n \in 0 .. Nesting : n \in G
  <2> HIDE DEF G
  <2> QED
    BY <1>0, <1>1, <1>2, Stepwise
<1> QED
  BY <1>3

LEMMA GroupedGrows == \A u, v : u \subseteq v => Grouped(u) \subseteq Grouped(v)
<1> TAKE u, v
<1> HAVE u \subseteq v
<1>1. Seq(u) \subseteq Seq(v) /\ Seq(Texts \X u) \subseteq Seq(Texts \X v)
  <2>1. Texts \X u \subseteq Texts \X v
    OBVIOUS
  <2> QED
    BY <2>1, SeqMonotonic
<1> QED
  BY <1>1 DEF Grouped

KindsOfValue(n) ==
  \A item \in Values[n] : item \in Plain \/ (n > 0 /\ item \in Grouped(Values[n - 1]))

LEMMA ValueKinds == \A n \in 0 .. Nesting : KindsOfValue(n)
<1> DEFINE G == {n \in 0 .. Nesting : KindsOfValue(n)}
<1>0. Nesting \in Nat
  BY DigitsAssumption
<1>1. 0 \in G
  BY <1>0, ValuesSteps DEF KindsOfValue
<1>2. \A n \in 1 .. Nesting : n - 1 \in G => n \in G
  <2> TAKE n \in 1 .. Nesting
  <2> HAVE n - 1 \in G
  <2> DEFINE k == n - 1
  <2>1. k \in 0 .. Nesting /\ KindsOfValue(k) /\ n > 0 /\ n \in 0 .. Nesting
    BY <1>0
  <2>2. Values[n] = Values[k] \cup Grouped(Values[k])
    BY ValuesSteps
  <2>3. k > 0 => Grouped(Values[k - 1]) \subseteq Grouped(Values[k])
    <3> HAVE k > 0
    <3>1. k \in 1 .. Nesting
      BY <1>0, <2>1
    <3>2. Values[k - 1] \subseteq Values[k]
      BY <3>1, ValuesSteps
    <3> QED
      BY <3>2, GroupedGrows
  <2> HIDE DEF k
  <2>4. \A item \in Values[n] : item \in Plain \/ item \in Grouped(Values[k])
    <3> TAKE item \in Values[n]
    <3>1. CASE item \in Values[k]
      <4>1. item \in Plain \/ (k > 0 /\ item \in Grouped(Values[k - 1]))
        BY <2>1, <3>1 DEF KindsOfValue
      <4> QED
        BY <2>3, <4>1
    <3> QED
      BY <2>2, <3>1
  <2>5. KindsOfValue(n)
    BY <2>1, <2>4 DEF KindsOfValue, k
  <2> QED
    BY <2>1, <2>5
<1>3. \A n \in 0 .. Nesting : n \in G
  <2> HIDE DEF G
  <2> QED
    BY <1>0, <1>1, <1>2, Stepwise
<1> QED
  BY <1>3

LEMMA TextsPlain == Texts \subseteq Plain
  BY DEF Plain

-----------------------------------------------------------------------------
(* encodeItem writes what decodeItem reads, wherever it lies among other   *)
(* bytes.                                                                  *)
RestoresAll(n) == \A item \in Values[n] : Restores(item, encodeItem[n][item])

LEMMA ItemsRestored == \A n \in 0 .. Nesting : RestoresAll(n)
<1> DEFINE G == {n \in 0 .. Nesting : RestoresAll(n)}
<1>0. Nesting \in Nat
  BY DigitsAssumption
<1>1. 0 \in G
  <2>1. RestoresAll(0)
    <3> SUFFICES ASSUME NEW item \in Values[0] PROVE Restores(item, encodeItem[0][item])
      BY DEF RestoresAll
    <3>1. item \in Plain /\ encodeItem[0][item] = ItemBytes(item, <<>>)
      BY <1>0, ValuesSteps, EncodeItemSteps
    <3> QED
      BY <3>1, PlainRestores
  <2> QED
    BY <1>0, <2>1
<1>2. \A n \in 1 .. Nesting : n - 1 \in G => n \in G
  <2> TAKE n \in 1 .. Nesting
  <2> HAVE n - 1 \in G
  <2> DEFINE k == n - 1
             inner == encodeItem[k]
  <2>1. k \in 0 .. Nesting /\ RestoresAll(k) /\ n > 0 /\ n \in 0 .. Nesting
    BY <1>0
  <2>2. RestoresAll(n)
    <3> SUFFICES ASSUME NEW item \in Values[n] PROVE Restores(item, encodeItem[n][item])
      BY DEF RestoresAll
    <3>1. encodeItem[n][item] = ItemBytes(item, inner)
      BY <2>1, EncodeItemSteps
    <3>2. item \in Plain \/ item \in Grouped(Values[k])
      BY <2>1, ValueKinds DEF KindsOfValue
    <3>3. \A x \in Values[k] \cup Texts : Restores(x, inner[x])
      <4>1. Texts \subseteq Values[k]
        BY <2>1, PlainValues, TextsPlain
      <4> QED
        BY <2>1, <4>1 DEF RestoresAll
    <3> HIDE DEF k, inner
    <3> QED
      BY <3>1, <3>2, <3>3, PlainRestores, GroupRestores
  <2> QED
    BY <2>1, <2>2
<1>3. \A n \in 0 .. Nesting : n \in G
  <2> HIDE DEF G
  <2> QED
    BY <1>0, <1>1, <1>2, Stepwise
<1> QED
  BY <1>3

(* Any CBOR value comes back as it was from the bytes that encodeCbor      *)
(* makes of it, and they are not empty.                                    *)
THEOREM CborRoundTrip ==
  \A item \in Values[Nesting] :
    /\ encodeCbor(item) \in Seq(Byte) /\ encodeCbor(item) # <<>>
    /\ decodeCbor(encodeCbor(item)) = Read(item, Len(encodeCbor(item)) + 1)
<1> TAKE item \in Values[Nesting]
<1> DEFINE x == encodeCbor(item)
<1>1. Restores(item, x)
  <2>1. Nesting \in 0 .. Nesting
    BY DigitsAssumption
  <2> QED
    BY <2>1, ItemsRestored DEF RestoresAll, encodeCbor
<1> HIDE DEF x
<1>2. x \in Seq(Byte) /\ x # <<>>
  BY <1>1 DEF Restores
<1>3. Len(x) \in Nat /\ 1 \in 1 .. Len(x) /\ 1 + Len(x) = Len(x) + 1
  BY <1>2, LenProperties, EmptySeq
<1>4. Lies(x, 1, x)
  <2>1. \A i \in 1 .. Len(x) : x[1 + i - 1] = x[i]
    BY <1>3
  <2> QED
    BY <1>3, <2>1 DEF Lies
<1>5. decodeItem(x)[1] = Read(item, Len(x) + 1)
  BY <1>1, <1>2, <1>3, <1>4 DEF Restores, FoundAt
<1>6. Read(item, Len(x) + 1).ok /\ Read(item, Len(x) + 1).next = Len(x) + 1
  BY OutcomeOk
<1>7. decodeCbor(x) = Read(item, Len(x) + 1)
  BY <1>5, <1>6 DEF decodeCbor, AllOf
<1> QED
  BY <1>2, <1>7 DEF x

-----------------------------------------------------------------------------
(* The constants, once and for all. *)
Fields == {"v", "msgId", "corrId", "kind", "method", "ts", "hlc",
           "causedBy", "traceparent", "ttl", "payload", "src", "dst", "x"}

LEMMA OneCharacter == \A u \in 0 .. 127 : <<u>> \in Text
<1> TAKE u \in 0 .. 127
<1>1. u \in Points /\ ~ High(u) /\ ~ Low(u) /\ UnitsOf(u) = <<u>> /\ BytesOf(u) = <<u>>
  BY DEF Points, High, Low, Page, UnitsOf, BytesOf
<1>2. utf8Encode(<<u>>) = <<u>>
  BY <1>1, PointEncodes
<1>3. <<u>> \in Seq(Unit) /\ Len(<<u>>) = 1
  BY DEF Unit, Page
<1>4. WellFormed(<<u>>)
  BY <1>1 DEF WellFormed
<1>5. Stated(Len(utf8Encode(<<u>>)))
  <2>1. Len(utf8Encode(<<u>>)) = 1 /\ 1 \in 0 .. 255
    BY <1>2, <1>3
  <2> HIDE DEF utf8Encode
  <2> QED
    BY <2>1, SmallStated
<1> QED
  BY <1>3, <1>4, <1>5 DEF Text

LEMMA KeysOfFields ==
  /\ InOrder \in Seq(Fields) /\ Len(InOrder) = 14 /\ Range(InOrder) = Fields /\ DOMAIN KeyOf = Fields
  /\ \A f \in Fields : Key(f) \in Texts
  /\ \A f, g \in Fields : Key(f) = Key(g) => f = g
<1>1. InOrder \in Seq(Fields) /\ Len(InOrder) = 14
  BY DEF InOrder, Fields
<1>2. Range(InOrder) = Fields
  <2>1. \A f \in Fields : \E i \in 1 .. 14 : InOrder[i] = f
    <3>1. \A i \in 1 .. 14 : i \in DOMAIN InOrder
      BY DEF InOrder
    <3>2. /\ InOrder[1] = "v" /\ InOrder[2] = "msgId" /\ InOrder[3] = "corrId" /\ InOrder[4] = "kind"
          /\ InOrder[5] = "method" /\ InOrder[6] = "ts" /\ InOrder[7] = "hlc" /\ InOrder[8] = "causedBy"
          /\ InOrder[9] = "traceparent" /\ InOrder[10] = "ttl" /\ InOrder[11] = "payload"
          /\ InOrder[12] = "src" /\ InOrder[13] = "dst" /\ InOrder[14] = "x"
      BY DEF InOrder
    <3> QED
      BY <3>2 DEF Fields
  <2>2. DOMAIN InOrder = 1 .. 14
    BY <1>1
  <2>3. \A i \in 1 .. 14 : InOrder[i] \in Fields
    BY <1>1, ElementOfSeq
  <2> QED
    BY <2>1, <2>2, <2>3 DEF Range
<1>3. DOMAIN KeyOf = Fields
  BY DEF KeyOf, Fields
<1>4. \A f \in Fields : KeyOf[f] \in 0 .. 127
  BY DEF KeyOf, Fields
<1>5. \A f \in Fields : Key(f) \in Texts /\ Key(f).v[1] = KeyOf[f]
  BY <1>4, OneCharacter DEF Key, TextItem, Texts
<1>6. \A f, g \in Fields : KeyOf[f] = KeyOf[g] => f = g
  BY DEF KeyOf, Fields
<1> QED
  BY <1>1, <1>2, <1>3, <1>5, <1>6

LEMMA NestingDeep == Nesting \in Nat /\ Nesting >= 2 /\ Nesting - 1 \in 1 .. Nesting /\ Nesting - 1 \in 0 .. Nesting
  BY DigitsAssumption, EnvelopesAssumption

(* What is plain, and an array of what is plain, goes into any map. *)
LEMMA Shallow == Plain \subseteq Values[Nesting - 1] /\ Grouped(Plain) \subseteq Values[Nesting - 1]
<1> DEFINE k == Nesting - 1
<1>1. Plain \subseteq Values[k - 1] /\ Values[k] = Values[k - 1] \cup Grouped(Values[k - 1])
  <2>1. k \in 1 .. Nesting /\ k - 1 \in 0 .. Nesting
    BY NestingDeep
  <2> QED
    BY <2>1, PlainValues, ValuesSteps
<1>2. Grouped(Plain) \subseteq Grouped(Values[k - 1])
  BY <1>1, GroupedGrows
<1> HIDE DEF k
<1>3. Plain \subseteq Values[k] /\ Grouped(Plain) \subseteq Values[k]
  BY <1>1, <1>2
<1> QED
  BY <1>3 DEF k

-----------------------------------------------------------------------------
(* An object and the map that stands for it. *)
ObjectOver(object, T) ==
  /\ DOMAIN object \subseteq Fields /\ object = [f \in DOMAIN object |-> object[f]]
  /\ \A f \in DOMAIN object : object[f] \in T

LEMMA MapTyped ==
  ASSUME NEW object, ObjectOver(object, Values[Nesting - 1])
  PROVE  MapItem(object) \in Values[Nesting] /\ ObjectOf(MapItem(object)) = object
<1> DEFINE D == DOMAIN object
           order == Only(InOrder, D)
           T == Values[Nesting - 1]
           v == [i \in DOMAIN order |-> <<Key(order[i]), object[order[i]]>>]
<1>1. D \subseteq Fields /\ object = [f \in D |-> object[f]] /\ \A f \in D : object[f] \in T
  BY DEF ObjectOver
<1>2. order \in Seq(Fields) /\ \E pos : OnlyAt(order, InOrder, D, Len(InOrder), pos)
  BY KeysOfFields, OnlyPlaces
<1>3. Range(order) = D
  <2> HIDE DEF D
  <2>1. InOrder \in Seq(Fields) /\ Range(InOrder) = Fields
    BY KeysOfFields
  <2>2. Range(Only(InOrder, D)) = Range(InOrder) \cap D
    BY <2>1, RangeOnly
  <2> QED
    BY <1>1, <2>1, <2>2
<1> HIDE DEF D, order
<1>4. Len(order) \in Nat /\ DOMAIN order = 1 .. Len(order) /\ \A i \in 1 .. Len(order) : order[i] \in D
  BY <1>2, <1>3, LenProperties DEF Range
<1>5. Len(order) \in 0 .. 255
  <2>1. PICK pos : OnlyAt(order, InOrder, D, Len(InOrder), pos)
    BY <1>2
  <2> DEFINE n == Len(order)
             G == {i \in 0 .. n : i > 0 => pos[i] >= i}
  <2>2. pos \in [1 .. n -> 1 .. 14] /\ \A i, j \in 1 .. n : i < j => pos[i] < pos[j]
    BY <2>1, KeysOfFields DEF OnlyAt
  <2>3. n \in Nat
    BY <1>4
  <2> HIDE DEF n
  <2>4. 0 \in G
    BY <2>3
  <2>5. \A i \in 1 .. n : i - 1 \in G => i \in G
    <3> TAKE i \in 1 .. n
    <3> HAVE i - 1 \in G
    <3>1. pos[i] \in 1 .. 14
      BY <2>2
    <3>2. CASE i = 1
      BY <2>3, <3>1, <3>2
    <3>3. CASE i # 1
      <4> DEFINE j == i - 1
      <4>1. j \in 1 .. n /\ j < i /\ i = j + 1 /\ i \in 0 .. n
        BY <2>3, <3>3
      <4>2. pos[j] >= j /\ pos[j] \in 1 .. 14
        BY <2>2, <4>1
      <4>3. pos[j] < pos[i]
        BY <2>2, <4>1
      <4> HIDE DEF j
      <4>4. pos[i] >= i
        BY <3>1, <4>1, <4>2, <4>3
      <4> QED
        BY <4>1, <4>4
    <3> QED
      BY <3>2, <3>3
  <2>6. \A i \in 0 .. n : i \in G
    <3> HIDE DEF G
    <3> QED
      BY <2>3, <2>4, <2>5, Stepwise
  <2>7. n > 0 => pos[n] >= n /\ pos[n] \in 1 .. 14
    BY <2>2, <2>3, <2>6
  <2>8. n \in 0 .. 255
    BY <2>3, <2>7
  <2> QED
    BY <2>8 DEF n
<1>6. v \in Seq(Texts \X T) /\ Len(v) = Len(order)
  <2> DEFINE n == Len(order)
  <2>1. \A i \in 1 .. n : Key(order[i]) \in Texts /\ object[order[i]] \in T
    BY <1>1, <1>4, KeysOfFields
  <2>2. v = [i \in 1 .. n |-> v[i]] /\ n \in Nat /\ \A i \in 1 .. n : v[i] \in Texts \X T
    BY <1>4, <2>1
  <2> HIDE DEF v, n, T
  <2>3. v \in [1 .. n -> Texts \X T]
    BY <2>2
  <2>4. v \in Seq(Texts \X T) /\ Len(v) = n
    BY <2>2, <2>3
  <2> QED
    BY <2>4 DEF n
<1>7. MapItem(object) = [t |-> "map", v |-> v]
  BY DEF MapItem, order, D
<1>8. MapItem(object) \in Values[Nesting]
  <2>1. MapItem(object) \in Grouped(T)
    <3> HIDE DEF v, T
    <3>1. Stated(Len(v))
      BY <1>5, <1>6, SmallStated
    <3> QED
      BY <1>6, <1>7, <3>1 DEF Grouped
  <2>2. Nesting \in 1 .. Nesting
    BY NestingDeep
  <2> QED
    BY <2>1, <2>2, ValuesSteps
<1> DEFINE m == [t |-> "map", v |-> v]
<1>9. \A e \in Range(m.v) : \E f \in D : e = <<Key(f), object[f]>>
  BY <1>4 DEF Range
<1>10. \A f \in D : <<Key(f), object[f]>> \in Range(m.v)
  <2> TAKE f \in D
  <2>1. PICK i \in DOMAIN order : order[i] = f
    BY <1>3 DEF Range
  <2>2. v[i] = <<Key(f), object[f]>> /\ i \in DOMAIN v /\ m.v = v
    BY <2>1
  <2> HIDE DEF v, m
  <2> QED
    BY <2>2 DEF Range
<1> HIDE DEF v, m
<1>11. {g \in DOMAIN KeyOf : \E e \in Range(m.v) : e[1] = Key(g)} = D
  <2>1. ASSUME NEW g \in Fields, NEW e \in Range(m.v), e[1] = Key(g) PROVE g \in D
    <3>1. PICK f \in D : e = <<Key(f), object[f]>>
      BY <1>9
    <3>2. Key(f) = Key(g) /\ f \in Fields
      BY <1>1, <2>1, <3>1
    <3> QED
      BY <3>1, <3>2, KeysOfFields
  <2>2. \A f \in D : f \in Fields /\ \E e \in Range(m.v) : e[1] = Key(f)
    <3> TAKE f \in D
    <3>1. <<Key(f), object[f]>>[1] = Key(f)
      OBVIOUS
    <3> QED
      BY <1>1, <1>10, <3>1
  <2> QED
    BY <2>1, <2>2, KeysOfFields
<1>12. \A f \in D : (CHOOSE e \in Range(m.v) : e[1] = Key(f))[2] = object[f]
  <2> TAKE f \in D
  <2> DEFINE c == CHOOSE e \in Range(m.v) : e[1] = Key(f)
  <2>1. <<Key(f), object[f]>> \in Range(m.v) /\ <<Key(f), object[f]>>[1] = Key(f)
    BY <1>10
  <2>2. c \in Range(m.v) /\ c[1] = Key(f)
    BY <2>1
  <2> HIDE DEF c
  <2>3. PICK g \in D : c = <<Key(g), object[g]>>
    BY <1>9, <2>2
  <2>4. Key(g) = Key(f) /\ f \in Fields /\ g \in Fields
    BY <1>1, <2>2, <2>3
  <2>5. f = g
    BY <2>4, KeysOfFields
  <2>6. c[2] = object[f]
    BY <2>3, <2>5
  <2> QED
    BY <2>6 DEF c
<1>13. ObjectOf(m) = [f \in D |-> object[f]]
  BY <1>11, <1>12, Zenon DEF ObjectOf
<1> QED
  BY <1>1, <1>7, <1>8, <1>13 DEF m

-----------------------------------------------------------------------------
(* Envelopes, whole or without their correlation, field by field. *)
Proper(env) ==
  /\ env = [f \in DOMAIN env |-> env[f]] /\ DOMAIN env \subseteq V1_FIELDS
  /\ {"msgId", "kind", "method", "src", "dst", "ts", "hlc"} \subseteq DOMAIN env
  /\ \A f \in DOMAIN env \cap (Ids \cup {"traceparent"}) : env[f] \in Text
  /\ \A f \in DOMAIN env \cap {"ts", "ttl"} : env[f] \in Integer
  /\ env["kind"] \in Range(Kinds) /\ env["src"] \in Peers \cup {Broadcast} /\ env["dst"] \in Peers \cup {Broadcast}
  /\ env["hlc"] = <<>> \/ env["hlc"] \in Integer \X Integer \X Text
  /\ "payload" \in DOMAIN env => env["payload"] \in Values[Nesting - 1]

Trimmed(env) == Restrict(env, DOMAIN env \ {"corrId"})

LEMMA EnvelopesProper == \A env \in Envelopes : Proper(env) /\ "corrId" \in DOMAIN env
  BY EnvelopesAssumption DEF Proper, V1_FIELDS, Ids

LEMMA TrimmedProper ==
  ASSUME NEW env, Proper(env)
  PROVE  Proper(Trimmed(env)) /\ DOMAIN Trimmed(env) = DOMAIN env \ {"corrId"}
         /\ \A f \in DOMAIN env \ {"corrId"} : Trimmed(env)[f] = env[f]
<1> DEFINE D == DOMAIN env \ {"corrId"}
           e == Trimmed(env)
<1>1. e = [f \in D |-> env[f]]
  BY DEF Trimmed, Restrict
<1>2. DOMAIN e = D /\ \A f \in D : e[f] = env[f]
  BY <1>1
<1>3. e = [f \in DOMAIN e |-> e[f]]
  BY <1>1
<1> HIDE DEF e
<1>4. {"msgId", "kind", "method", "src", "dst", "ts", "hlc"} \subseteq D
  BY DEF Proper
<1>5. Proper(e)
  BY <1>2, <1>3, <1>4 DEF Proper
<1> QED
  BY <1>2, <1>5 DEF e

(* ulidToBytes and bytesToUlid: a ULID comes back from its bytes, character*)
(* by character, if they can hold its value.                               *)
THEOREM UlidWhole ==
  ASSUME NEW chars \in Text, IsUlid(chars)
  PROVE  /\ ulidToBytes(chars) \in Seq(Byte) /\ Len(ulidToBytes(chars)) = UlidBytes
         /\ bytesToUlid(ulidToBytes(chars)) = chars
<1> DEFINE n == Number(chars, 32)
           d == Digits(n, 256, UlidBytes)
<1>1. chars \in Seq(0 .. 32 - 1) /\ Len(chars) = UlidLength /\ Fits(n, 256, UlidBytes)
  <2>1. chars \in Seq(Unit) /\ \A i \in 1 .. Len(chars) : chars[i] < 32
    BY DEF Text, IsUlid
  <2>2. \A i \in 1 .. Len(chars) : chars[i] \in 0 .. 31
    <3> TAKE i \in 1 .. Len(chars)
    <3>1. chars[i] \in Unit /\ chars[i] < 32
      BY <2>1, ElementOfSeq
    <3> HIDE DEF n, d
    <3> DEFINE c == chars[i]
    <3>2. c \in Nat /\ c < 32
      BY <3>1 DEF Unit
    <3> HIDE DEF c
    <3>3. c \in 0 .. 31
      BY <3>2
    <3> QED
      BY <3>3 DEF c
  <2> DEFINE k == Len(chars)
  <2>3. k \in Nat /\ chars = [i \in 1 .. k |-> chars[i]] /\ \A i \in 1 .. k : chars[i] \in 0 .. 31
    BY <2>1, <2>2
  <2> HIDE DEF k
  <2>4. chars \in [1 .. k -> 0 .. 31]
    BY <2>3
  <2>5. chars \in Seq(0 .. 31)
    BY <2>3, <2>4
  <2>6. 0 .. 32 - 1 = 0 .. 31
    OBVIOUS
  <2> QED
    BY <2>5, <2>6 DEF IsUlid
<1>2. UlidBytes \in Nat /\ 32 \in Nat \ {0} /\ 256 \in Nat \ {0}
  BY NodesAssumption
<1>3. n \in Nat /\ Digits(n, 32, UlidLength) = chars
  BY <1>1, <1>2, DigitsOfNumber
<1> HIDE DEF n
<1>4. d \in Seq(0 .. 256 - 1) /\ Len(d) = UlidBytes
  <2> DEFINE base == 256
  <2>1. base \in Nat \ {0}
    BY <1>2
  <2> HIDE DEF base
  <2>2. Digits(n, base, UlidBytes) \in Seq(0 .. base - 1) /\ Len(Digits(n, base, UlidBytes)) = UlidBytes
    BY <1>2, <1>3, <2>1, DigitsTyped
  <2> QED
    BY <2>2 DEF base
<1>5. Number(d, 256) = n
  BY <1>1, <1>2, <1>3, NumberOfDigits
<1>6. 0 .. 256 - 1 = Byte
  BY DEF Byte
<1> QED
  BY <1>3, <1>4, <1>5, <1>6 DEF ulidToBytes, bytesToUlid, n

LEMMA KindWhole ==
  ASSUME NEW kind \in Range(Kinds)
  PROVE  KindToInt(kind) \in 0 .. 4 /\ Kinds[KindToInt(kind) + 1] = kind
<1> DEFINE c == CHOOSE n \in DOMAIN Kinds : Kinds[n] = kind
<1>1. DOMAIN Kinds = 1 .. 5
  BY DEF Kinds
<1>2. \E n \in DOMAIN Kinds : Kinds[n] = kind
  BY DEF Range
<1>3. c \in 1 .. 5 /\ Kinds[c] = kind
  BY <1>1, <1>2
<1>4. KindToInt(kind) = c - 1
  BY DEF KindToInt
<1> HIDE DEF c
<1> QED
  BY <1>3, <1>4

LEMMA SmallInteger == \A n \in 0 .. 255 : n \in Integer
<1> TAKE n \in 0 .. 255
<1>1. Magnitude(n) = n /\ n \in Int
  BY DEF Magnitude
<1> QED
  BY <1>1, SmallStated DEF Integer

(* What stands for a peer is known for it. *)
LEMMA SymbolTyped ==
  ASSUME NEW peer \in Peers \cup {Broadcast}, NEW binary \in BOOLEAN
  PROVE  StringItem(Symbol(peer, binary), binary) \in Plain
<1>1. CASE binary = TRUE
  <2>1. Symbol(peer, binary) \in {s \in Seq(Byte) : Stated(Len(s))}
    <3>1. CASE peer = Broadcast
      <4>1. Symbol(peer, binary) = <<>>
        BY <1>1, <3>1 DEF Symbol
      <4>2. <<>> \in Seq(Byte) /\ Len(<<>>) = 0 /\ 0 \in 0 .. 255
        OBVIOUS
      <4>3. Stated(Len(<<>>))
        BY <4>2, SmallStated
      <4> QED
        BY <4>1, <4>2, <4>3
    <3>2. CASE peer # Broadcast
      BY <1>1, <3>2, SymbolsAssumption DEF Symbol
    <3> QED
      BY <3>1, <3>2
  <2> QED
    BY <1>1, <2>1 DEF StringItem, BytesItem, Plain
<1>2. CASE binary = FALSE
  <2>1. Symbol(peer, binary) \in Text
    <3>1. CASE peer = Broadcast
      <4>1. Symbol(peer, binary) = <<42>> /\ 42 \in 0 .. 127
        BY <1>2, <3>1 DEF Symbol
      <4> QED
        BY <4>1, OneCharacter
    <3>2. CASE peer # Broadcast
      BY <1>2, <3>2, SymbolsAssumption DEF Symbol
    <3> QED
      BY <3>1, <3>2
  <2> QED
    BY <1>2, <2>1, TextsPlain DEF StringItem, TextItem, Texts
<1> QED
  BY <1>1, <1>2

Encodable(env, binary, id) ==
  /\ Proper(env) /\ binary \in BOOLEAN /\ id \in Nat /\ Stated(id) /\ env["hlc"] # <<>>
  /\ binary => \A f \in Ids \cap DOMAIN env : IsUlid(env[f])

IntsPlain == \A n \in Integer : IntItem(n) \in Plain
LEMMA IntsArePlain == IntsPlain
  BY DEF IntsPlain, IntItem, Plain

LEMMA FieldFits ==
  ASSUME NEW env, NEW binary, NEW id, Encodable(env, binary, id), NEW f \in DOMAIN env \cup {"v", "x"}
  PROVE  FieldItem(f, env, binary, id) \in Values[Nesting - 1]
<1> DEFINE item == FieldItem(f, env, binary, id)
<1>0. Proper(env) /\ binary \in BOOLEAN /\ f \in V1_FIELDS \cup {"v", "x"}
  BY DEF Encodable, Proper
<1>1. CASE f \in Ids
  <2>1. f \in DOMAIN env
    BY <1>1 DEF Ids
  <2>2. env[f] \in Text
    BY <1>0, <1>1, <2>1 DEF Proper
  <2>3. item = StringItem(IF binary THEN ulidToBytes(env[f]) ELSE env[f], binary)
    BY <1>0, <1>1 DEF FieldItem, Ids
  <2>4. CASE binary = TRUE
    <3>1. IsUlid(env[f])
      BY <1>1, <2>1, <2>4 DEF Encodable
    <3>2. ulidToBytes(env[f]) \in Seq(Byte) /\ Stated(Len(ulidToBytes(env[f])))
      BY <2>2, <3>1, UlidWhole, EnvelopesAssumption
    <3>3. item = BytesItem(ulidToBytes(env[f]))
      BY <2>3, <2>4 DEF StringItem
    <3>4. item \in Plain
      BY <3>2, <3>3 DEF BytesItem, Plain
    <3> QED
      BY <3>4, Shallow
  <2>5. CASE binary = FALSE
    <3>1. item = TextItem(env[f])
      BY <2>3, <2>5 DEF StringItem
    <3>2. item \in Plain
      BY <2>2, <3>1, TextsPlain DEF TextItem, Texts
    <3> QED
      BY <3>2, Shallow
  <2> QED
    BY <1>0, <2>4, <2>5
<1>2. CASE f \in {"src", "dst"}
  <2>1. item = StringItem(Symbol(env[f], binary), binary)
    BY <1>2 DEF FieldItem, Ids
  <2>2. env[f] \in Peers \cup {Broadcast}
    BY <1>0, <1>2 DEF Proper
  <2>3. item \in Plain
    BY <1>0, <2>1, <2>2, SymbolTyped
  <2> QED
    BY <2>3, Shallow
<1>3. CASE f = "kind"
  <2>1. item = IntItem(KindToInt(env["kind"]))
    BY <1>3 DEF FieldItem, Ids
  <2>2. KindToInt(env["kind"]) \in 0 .. 255
    <3>1. KindToInt(env["kind"]) \in 0 .. 4
      BY <1>0, KindWhole DEF Proper
    <3> QED
      BY <3>1
  <2>3. item \in Plain
    BY <2>1, <2>2, SmallInteger, IntsArePlain DEF IntsPlain
  <2> QED
    BY <2>3, Shallow
<1>4. CASE f = "method"
  <2>1. item = IntItem(id)
    BY <1>4 DEF FieldItem, Ids
  <2>2. id \in Integer
    BY DEF Encodable, Integer, Magnitude
  <2>3. item \in Plain
    BY <2>1, <2>2, IntsArePlain DEF IntsPlain
  <2> QED
    BY <2>3, Shallow
<1>5. CASE f = "hlc"
  <2> DEFINE h == env["hlc"]
             parts == <<IntItem(h[1]), IntItem(h[2]), TextItem(h[3])>>
  <2>1. item = [t |-> "array", v |-> parts]
    BY <1>5 DEF FieldItem, Ids
  <2>2. h \in Integer \X Integer \X Text
    BY <1>0 DEF Proper, Encodable
  <2>3. h[1] \in Integer /\ h[2] \in Integer /\ h[3] \in Text
    BY <2>2
  <2>4. IntItem(h[1]) \in Plain /\ IntItem(h[2]) \in Plain /\ TextItem(h[3]) \in Plain
    BY <2>3, IntsArePlain, TextsPlain DEF IntsPlain, TextItem, Texts
  <2>5. parts \in Seq(Plain) /\ Len(parts) = 3 /\ 3 \in 0 .. 255
    BY <2>4
  <2>6. Stated(Len(parts))
    BY <2>5, SmallStated
  <2> HIDE DEF parts, item
  <2>7. item \in Grouped(Plain)
    BY <2>1, <2>5, <2>6 DEF Grouped
  <2> QED
    BY <2>7, Shallow DEF item
<1>6. CASE f = "traceparent"
  <2>1. item = TextItem(env[f]) /\ f \in DOMAIN env
    BY <1>6 DEF FieldItem, Ids
  <2>2. env[f] \in Text
    BY <1>0, <1>6, <2>1 DEF Proper
  <2>3. item \in Plain
    BY <2>1, <2>2, TextsPlain DEF TextItem, Texts
  <2> QED
    BY <2>3, Shallow
<1>7. CASE f = "payload"
  <2>1. item = env["payload"] /\ f \in DOMAIN env
    BY <1>7 DEF FieldItem, Ids
  <2> QED
    BY <1>0, <1>7, <2>1 DEF Proper
<1>8. CASE f \in {"ts", "ttl"}
  <2>1. item = IntItem(env[f]) /\ f \in DOMAIN env
    BY <1>8 DEF FieldItem, Ids
  <2>2. env[f] \in Integer
    BY <1>0, <1>8, <2>1 DEF Proper
  <2>3. item \in Plain
    BY <2>1, <2>2, IntsArePlain DEF IntsPlain
  <2> QED
    BY <2>3, Shallow
<1>9. CASE f \in {"v", "x"}
  <2>1. item = IntItem(1) /\ 1 \in 0 .. 255
    BY <1>9 DEF FieldItem, Ids
  <2>2. item \in Plain
    BY <2>1, SmallInteger, IntsArePlain DEF IntsPlain
  <2> QED
    BY <2>2, Shallow
<1> QED
  BY <1>0, <1>1, <1>2, <1>3, <1>4, <1>5, <1>6, <1>7, <1>8, <1>9 DEF V1_FIELDS, Ids


(* What FieldValue makes of it: the field again, but that symbols still    *)
(* stand for peers, and that the method is the one the table knows by it.  *)
Regained(n, f, env, binary, id) ==
  IF f \in {"src", "dst"} THEN Symbol(env[f], binary)
  ELSE IF f = "method" THEN lookup(methods[n], id) ELSE env[f]

LEMMA FieldBack ==
  ASSUME NEW env, NEW binary, NEW id, Encodable(env, binary, id), NEW f \in DOMAIN env, NEW n
  PROVE  FieldValue(n, f, FieldItem(f, env, binary, id), binary) = Regained(n, f, env, binary, id)
<1> DEFINE item == FieldItem(f, env, binary, id)
<1>0. Proper(env) /\ binary \in BOOLEAN /\ f \in V1_FIELDS
  BY DEF Encodable, Proper
<1>1. CASE f \in Ids
  <2>1. item = StringItem(IF binary THEN ulidToBytes(env[f]) ELSE env[f], binary)
    BY <1>0, <1>1 DEF FieldItem, Ids
  <2>2. Regained(n, f, env, binary, id) = env[f]
    BY <1>1 DEF Regained, Ids
  <2>3. CASE binary = TRUE
    <3>1. IsUlid(env[f]) /\ env[f] \in Text
      BY <1>0, <1>1, <2>3 DEF Encodable, Proper
    <3>2. item.v = ulidToBytes(env[f])
      BY <2>1, <2>3 DEF StringItem, BytesItem
    <3>3. FieldValue(n, f, item, binary) = bytesToUlid(item.v)
      BY <1>1, <2>3 DEF FieldValue, Ids
    <3> QED
      BY <2>2, <3>1, <3>2, <3>3, UlidWhole
  <2>4. CASE binary = FALSE
    <3>1. item.v = env[f]
      BY <2>1, <2>4 DEF StringItem, TextItem
    <3>2. FieldValue(n, f, item, binary) = item.v
      BY <1>1, <2>4 DEF FieldValue, Ids
    <3> QED
      BY <2>2, <3>1, <3>2
  <2> QED
    BY <1>0, <2>3, <2>4
<1>2. CASE f \in {"src", "dst"}
  <2>1. item = StringItem(Symbol(env[f], binary), binary)
    BY <1>2 DEF FieldItem, Ids
  <2>2. item.v = Symbol(env[f], binary)
    BY <1>0, <2>1 DEF StringItem, BytesItem, TextItem
  <2>3. FieldValue(n, f, item, binary) = item.v
    BY <1>0, <1>2 DEF FieldValue, Ids
  <2> QED
    BY <1>2, <2>2, <2>3 DEF Regained
<1>3. CASE f = "kind"
  <2>1. item.v = KindToInt(env["kind"])
    BY <1>3 DEF FieldItem, Ids, IntItem
  <2>2. FieldValue(n, f, item, binary) = Kinds[item.v + 1]
    BY <1>0, <1>3 DEF FieldValue, Ids
  <2>3. Kinds[KindToInt(env["kind"]) + 1] = env["kind"]
    BY <1>0, KindWhole DEF Proper
  <2> QED
    BY <1>3, <2>1, <2>2, <2>3 DEF Regained
<1>4. CASE f = "method"
  <2>1. item.v = id
    BY <1>4 DEF FieldItem, Ids, IntItem
  <2>2. FieldValue(n, f, item, binary) = lookup(methods[n], item.v)
    BY <1>0, <1>4 DEF FieldValue, Ids
  <2> QED
    BY <1>4, <2>1, <2>2 DEF Regained
<1>5. CASE f = "hlc"
  <2> DEFINE h == env["hlc"]
             parts == <<IntItem(h[1]), IntItem(h[2]), TextItem(h[3])>>
  <2>1. item = [t |-> "array", v |-> parts]
    BY <1>5 DEF FieldItem, Ids
  <2>2. h \in Integer \X Integer \X Text
    BY <1>0 DEF Proper, Encodable
  <2>3. h = <<h[1], h[2], h[3]>>
    BY <2>2
  <2>4. \A i \in 1 .. 3 : parts[i].v = h[i]
    <3>1. parts[1].v = h[1] /\ parts[2].v = h[2] /\ parts[3].v = h[3]
      BY DEF IntItem, TextItem
    <3> QED
      BY <3>1
  <2>5. item.v = parts
    BY <2>1
  <2>6. FieldValue(n, f, item, binary) = [i \in 1 .. 3 |-> item.v[i].v]
    BY <1>0, <1>5 DEF FieldValue, Ids
  <2> HIDE DEF parts, item
  <2>7. FieldValue(n, f, item, binary) = [i \in 1 .. 3 |-> h[i]]
    BY <2>4, <2>5, <2>6
  <2> HIDE DEF h
  <2>8. [i \in 1 .. 3 |-> h[i]] = h
    <3>1. [i \in 1 .. 3 |-> h[i]] = <<h[1], h[2], h[3]>>
      OBVIOUS
    <3> QED
      BY <2>3, <3>1
  <2> QED
    BY <1>5, <2>7, <2>8 DEF Regained, item, h
<1>6. CASE f = "traceparent"
  <2>1. item.v = env[f]
    BY <1>6 DEF FieldItem, Ids, TextItem
  <2>2. FieldValue(n, f, item, binary) = item.v
    BY <1>0, <1>6 DEF FieldValue, Ids
  <2> QED
    BY <1>6, <2>1, <2>2 DEF Regained
<1>7. CASE f = "payload"
  <2>1. item = env[f]
    BY <1>7 DEF FieldItem, Ids
  <2>2. FieldValue(n, f, item, binary) = item
    BY <1>0, <1>7 DEF FieldValue, Ids
  <2> QED
    BY <1>7, <2>1, <2>2 DEF Regained
<1>8. CASE f \in {"ts", "ttl"}
  <2>1. item.v = env[f]
    BY <1>8 DEF FieldItem, Ids, IntItem
  <2>2. FieldValue(n, f, item, binary) = item.v
    BY <1>0, <1>8 DEF FieldValue, Ids
  <2> QED
    BY <1>8, <2>1, <2>2 DEF Regained
<1> QED
  BY <1>0, <1>1, <1>2, <1>3, <1>4, <1>5, <1>6, <1>7, <1>8 DEF V1_FIELDS, Ids

-----------------------------------------------------------------------------
(* Objects go into bytes and come out again. *)
WithX(object) == [f \in DOMAIN object \cup {"x"} |-> IF f = "x" THEN IntItem(0) ELSE object[f]]

Unpacks(wire, object) ==
  wire \in Seq(Byte) /\ decodeCbor(wire).ok /\ ObjectOf(decodeCbor(wire).value) = object

LEMMA Unpacked ==
  ASSUME NEW object, ObjectOver(object, Values[Nesting - 1])
  PROVE  Unpacks(encodeCbor(MapItem(object)), object)
<1> DEFINE item == MapItem(object)
           x == encodeCbor(item)
<1>1. item \in Values[Nesting] /\ ObjectOf(item) = object
  BY MapTyped
<1> HIDE DEF item
<1>2. x \in Seq(Byte) /\ decodeCbor(x) = Read(item, Len(x) + 1)
  BY <1>1, CborRoundTrip
<1> HIDE DEF x
<1>3. Unpacks(x, object)
  BY <1>1, <1>2, OutcomeOk DEF Unpacks
<1> QED
  BY <1>3 DEF x, item

LEMMA ObjectFits ==
  ASSUME NEW env, NEW binary, NEW id, Encodable(env, binary, id), NEW drop \in BOOLEAN
  PROVE  /\ ObjectOver(CborObject(env, binary, id, drop), Values[Nesting - 1])
         /\ ObjectOver(WithX(CborObject(env, binary, id, drop)), Values[Nesting - 1])
<1> DEFINE D == {"v"} \cup Without(DOMAIN env, drop)
           o == CborObject(env, binary, id, drop)
           T == Values[Nesting - 1]
<1>1. DOMAIN env \subseteq V1_FIELDS
  BY DEF Encodable, Proper
<1>2. D \subseteq DOMAIN env \cup {"v", "x"} /\ D \subseteq Fields
  BY <1>1 DEF Without, V1_FIELDS, Ids, Fields
<1>3. o = [f \in D |-> FieldItem(f, env, binary, id)]
  BY DEF CborObject
<1>4. \A f \in D : FieldItem(f, env, binary, id) \in T
  BY <1>2, FieldFits
<1> HIDE DEF o, D, T
<1>5. DOMAIN o = D /\ \A f \in D : o[f] \in T
  BY <1>3, <1>4
<1>6. ObjectOver(o, T)
  BY <1>2, <1>3, <1>5 DEF ObjectOver
<1>7. IntItem(0) \in T
  <2>1. 0 \in Integer
    BY SmallInteger
  <2> QED
    BY <2>1, IntsArePlain, Shallow DEF IntsPlain, T
<1>8. ObjectOver(WithX(o), T)
  <2> DEFINE w == WithX(o)
  <2>1. w = [f \in D \cup {"x"} |-> IF f = "x" THEN IntItem(0) ELSE o[f]]
    BY <1>5 DEF WithX
  <2> HIDE DEF w
  <2>2. DOMAIN w = D \cup {"x"} /\ \A f \in D \cup {"x"} : w[f] \in T
    BY <1>5, <1>7, <2>1
  <2>3. D \cup {"x"} \subseteq Fields
    BY <1>2 DEF Fields
  <2> QED
    BY <2>1, <2>2, <2>3 DEF ObjectOver, w
<1> QED
  BY <1>6, <1>8 DEF o, T

FieldsOf(n, object, binary) == [f \in DOMAIN object \cap V1_FIELDS |-> FieldValue(n, f, object[f], binary)]

(* What is left of an envelope before its peers are named. *)
Abridged(env, binary, drop) ==
  [f \in Without(DOMAIN env, drop) |-> IF f \in {"src", "dst"} THEN Symbol(env[f], binary) ELSE env[f]]

LEMMA FieldsBack ==
  ASSUME NEW env, NEW binary, NEW id, Encodable(env, binary, id), NEW drop \in BOOLEAN, NEW n,
         NEW object \in {CborObject(env, binary, id, drop), WithX(CborObject(env, binary, id, drop))},
         lookup(methods[n], id) = env["method"]
  PROVE  FieldsOf(n, object, binary) = Abridged(env, binary, drop)
<1> DEFINE o == CborObject(env, binary, id, drop)
           D == Without(DOMAIN env, drop)
<1>1. DOMAIN env \subseteq V1_FIELDS /\ D \subseteq DOMAIN env
  BY DEF Encodable, Proper, Without
<1>2. o = [f \in {"v"} \cup D |-> FieldItem(f, env, binary, id)]
  BY DEF CborObject
<1>3. "v" \notin V1_FIELDS /\ "x" \notin V1_FIELDS
  BY DEF V1_FIELDS, Ids
<1> HIDE DEF o, D
<1>4. DOMAIN o = {"v"} \cup D /\ \A f \in D : o[f] = FieldItem(f, env, binary, id)
  BY <1>2
<1>5. DOMAIN WithX(o) = {"v", "x"} \cup D /\ \A f \in D : WithX(o)[f] = FieldItem(f, env, binary, id)
  <2>1. WithX(o) = [f \in {"v"} \cup D \cup {"x"} |-> IF f = "x" THEN IntItem(0) ELSE o[f]]
    BY <1>4 DEF WithX
  <2>2. DOMAIN WithX(o) = {"v"} \cup D \cup {"x"}
    BY <2>1
  <2>3. \A f \in D : f # "x" /\ f \in {"v"} \cup D \cup {"x"}
    BY <1>1, <1>3
  <2> QED
    BY <1>4, <2>1, <2>2, <2>3
<1>6. DOMAIN object \cap V1_FIELDS = D /\ \A f \in D : object[f] = FieldItem(f, env, binary, id)
  <2>1. object = o \/ object = WithX(o)
    BY DEF o
  <2> QED
    BY <1>1, <1>3, <1>4, <1>5, <2>1
<1>7. \A f \in D : FieldValue(n, f, object[f], binary) = IF f \in {"src", "dst"} THEN Symbol(env[f], binary) ELSE env[f]
  <2> TAKE f \in D
  <2>1. FieldValue(n, f, FieldItem(f, env, binary, id), binary) = Regained(n, f, env, binary, id)
    BY <1>1, FieldBack
  <2>2. object[f] = FieldItem(f, env, binary, id)
    BY <1>6
  <2> QED
    BY <2>1, <2>2, Zenon DEF Regained
<1>8. FieldsOf(n, object, binary) = [f \in D |-> FieldValue(n, f, object[f], binary)]
  BY <1>6 DEF FieldsOf
<1>9. Abridged(env, binary, drop) = [f \in D |-> IF f \in {"src", "dst"} THEN Symbol(env[f], binary) ELSE env[f]]
  BY DEF Abridged, D
<1> QED
  BY <1>7, <1>8, <1>9, Zenon

-----------------------------------------------------------------------------
(* Who an envelope is from and for. *)
LEMMA Outcomes == Threw.threw = TRUE /\ \A e : Decoded(e).threw = FALSE /\ Decoded(e).env = e
  BY DEF Threw, Decoded

Vouched(env, from, b) ==
  b.resolves /\ env["src"] = PeerOf[from] /\ \E k \in Nodes \ {from} : env["dst"] = PeerOf[k]

LEMMA OtherNode ==
  ASSUME NEW from \in Nodes, NEW k \in Nodes \ {from}
  PROVE  (CHOOSE j \in Nodes : j # from) = k
<1>1. PICK a \in Nodes, b \in Nodes : a # b /\ Nodes = {a, b}
  BY NodesAssumption
<1>2. \A j \in Nodes : j # from => j = k
  BY <1>1
<1> QED
  BY <1>2

LEMMA Recovered ==
  ASSUME NEW env, Proper(env), NEW msg, msg.from \in Nodes, Vouched(env, msg.from, binding), NEW binary
  PROVE  recoverIdentity(Abridged(env, binary, TRUE), msg) = Decoded(env)
<1> DEFINE D == DOMAIN env
           fields == Abridged(env, binary, TRUE)
           back == [f \in DOMAIN fields \cup {"src", "dst"} |->
                      CASE f = "src" -> PeerOf[msg.from]
                        [] f = "dst" -> PeerOf[CHOOSE k \in Nodes : k # msg.from]
                        [] OTHER -> fields[f]]
<1>1. env = [f \in D |-> env[f]] /\ {"src", "dst"} \subseteq D
  BY DEF Proper
<1>2. recoverIdentity(fields, msg) = Decoded(back)
  BY DEF recoverIdentity, Vouched
<1>3. fields = [f \in D \ {"src", "dst"} |-> env[f]]
  BY DEF Abridged, Without
<1> HIDE DEF D, fields
<1>4. DOMAIN fields \cup {"src", "dst"} = D /\ \A f \in D \ {"src", "dst"} : fields[f] = env[f]
  BY <1>1, <1>3
<1>5. PeerOf[CHOOSE k \in Nodes : k # msg.from] = env["dst"] /\ PeerOf[msg.from] = env["src"]
  <2>1. PICK k \in Nodes \ {msg.from} : env["dst"] = PeerOf[k]
    BY DEF Vouched
  <2>2. (CHOOSE j \in Nodes : j # msg.from) = k
    BY OtherNode
  <2> QED
    BY <2>1, <2>2 DEF Vouched
<1>6. back = [f \in D |-> env[f]]
  <2>1. \A f \in D : f = "src" \/ f = "dst" \/ f \in D \ {"src", "dst"}
    OBVIOUS
  <2> DEFINE other == CHOOSE k \in Nodes : k # msg.from
  <2> HIDE DEF other
  <2>2. back = [f \in D |-> CASE f = "src" -> PeerOf[msg.from] [] f = "dst" -> PeerOf[other] [] OTHER -> fields[f]]
    BY <1>4 DEF other
  <2>3. \A f \in D : (CASE f = "src" -> PeerOf[msg.from] [] f = "dst" -> PeerOf[other] [] OTHER -> fields[f]) = env[f]
    BY <1>4, <1>5, <2>1 DEF other
  <2> HIDE DEF back
  <2> QED
    BY <2>2, <2>3
<1> QED
  BY <1>1, <1>2, <1>6 DEF fields

(* No peer the table holds is taken for another. *)
TableOf(n, binary) == IF binary THEN byHash[n] ELSE byHandle[n]
TellsApart(n, peer, binary) ==
  \A p \in TableOf(n, binary) \cup {Broadcast} : Symbol(p, binary) = Symbol(peer, binary) => p = peer
Met(n, peer, binary) == peer \in TableOf(n, binary) \cup {Broadcast}

LEMMA Named ==
  ASSUME NEW env, Proper(env), NEW n, NEW binary \in BOOLEAN,
         TellsApart(n, env["src"], binary), TellsApart(n, env["dst"], binary)
  PROVE  LET back == NamePeers(n, Abridged(env, binary, FALSE), binary) IN
         /\ back = Threw \/ back = Decoded(env)
         /\ Met(n, env["src"], binary) /\ Met(n, env["dst"], binary) => back = Decoded(env)
<1> DEFINE D == DOMAIN env
           fields == Abridged(env, binary, FALSE)
           T == TableOf(n, binary) \cup {Broadcast}
           N(f) == {p \in T : Symbol(p, binary) = fields[f]}
           named == [f \in DOMAIN fields |-> IF f \in {"src", "dst"} THEN CHOOSE p \in N(f) : TRUE ELSE fields[f]]
<1>1. env = [f \in D |-> env[f]] /\ {"src", "dst"} \subseteq D
  BY DEF Proper
<1>2. NamePeers(n, fields, binary) = IF N("src") = {} \/ N("dst") = {} THEN Threw ELSE Decoded(named)
  BY DEF NamePeers, TableOf
<1>3. fields = [f \in D |-> IF f \in {"src", "dst"} THEN Symbol(env[f], binary) ELSE env[f]]
  BY DEF Abridged, Without
<1> HIDE DEF fields, D
<1>4. DOMAIN fields = D /\ \A f \in D : fields[f] = IF f \in {"src", "dst"} THEN Symbol(env[f], binary) ELSE env[f]
  BY <1>3
<1>5. ASSUME NEW f \in {"src", "dst"} PROVE N(f) \subseteq {env[f]} /\ (Met(n, env[f], binary) => N(f) # {})
  <2>1. fields[f] = Symbol(env[f], binary)
    BY <1>1, <1>4
  <2>2. \A p \in T : Symbol(p, binary) = Symbol(env[f], binary) => p = env[f]
    BY DEF TellsApart
  <2> QED
    BY <2>1, <2>2 DEF Met
<1>6. ASSUME N("src") # {}, N("dst") # {} PROVE named = env
  <2>1. \A f \in {"src", "dst"} : (CHOOSE p \in N(f) : TRUE) = env[f]
    <3> TAKE f \in {"src", "dst"}
    <3>1. N(f) # {} /\ N(f) \subseteq {env[f]}
      BY <1>5, <1>6
    <3> HIDE DEF N
    <3> QED
      BY <3>1
  <2>2. named = [f \in D |-> IF f \in {"src", "dst"} THEN CHOOSE p \in N(f) : TRUE ELSE fields[f]]
    BY <1>4
  <2>3. \A f \in D : (IF f \in {"src", "dst"} THEN CHOOSE p \in N(f) : TRUE ELSE fields[f]) = env[f]
    BY <1>4, <2>1
  <2> HIDE DEF named, N
  <2> QED
    BY <1>1, <2>2, <2>3
<1> HIDE DEF N, named
<1>7. NamePeers(n, fields, binary) = Threw \/ NamePeers(n, fields, binary) = Decoded(env)
  BY <1>2, <1>6
<1>8. Met(n, env["src"], binary) /\ Met(n, env["dst"], binary) => NamePeers(n, fields, binary) = Decoded(env)
  BY <1>2, <1>5, <1>6
<1> QED
  BY <1>7, <1>8 DEF fields

-----------------------------------------------------------------------------
(* What decode() makes of a message: nothing, or the envelope.             *)
Returns(back, env, must) == (back = Threw \/ back = Decoded(env)) /\ (must => back = Decoded(env))

Discerned(n, env, binary) == TellsApart(n, env["src"], binary) /\ TellsApart(n, env["dst"], binary)
Acquainted(n, env, binary) == Met(n, env["src"], binary) /\ Met(n, env["dst"], binary)

LEMMA JsonSent ==
  ASSUME NEW n, NEW msg, NEW env, NEW drop \in BOOLEAN, Proper(env), "corrId" \in DOMAIN env,
         msg.from \in Nodes, msg.encoding \in Json, msg.wire = JsonObject(env, msg.encoding = "json-short", drop),
         drop => Vouched(env, msg.from, binding),
         msg.encoding = "json-short" /\ ~ drop => Discerned(n, env, FALSE)
  PROVE  Returns(decode(n, msg), env, msg.encoding = "json-short" /\ ~ drop => Acquainted(n, env, FALSE))
<1> DEFINE short == msg.encoding = "json-short"
           D == DOMAIN env
           w == msg.wire
           fields == Restrict(w, DOMAIN w \cap V1_FIELDS)
<1>1. env = [f \in D |-> env[f]] /\ D \subseteq V1_FIELDS /\ {"method", "src", "dst", "corrId"} \subseteq D
  BY DEF Proper
<1>2. w = [f \in Without(D, drop) |-> IF short /\ f \in {"src", "dst"} THEN Symbol(env[f], FALSE) ELSE env[f]]
  BY DEF JsonObject
<1>3. Without(D, drop) = IF drop THEN D \ {"src", "dst"} ELSE D
  BY DEF Without
<1>4. decode(n, msg) = decodeJson(n, msg)
  BY DEF decode
<1> HIDE DEF w, D
<1>5. DOMAIN w = Without(D, drop) /\ fields = w /\ DOMAIN fields = Without(D, drop)
  <2>1. DOMAIN w = Without(D, drop)
    BY <1>2
  <2>2. DOMAIN w \cap V1_FIELDS = DOMAIN w
    BY <1>1, <1>3, <2>1
  <2>3. fields = [f \in DOMAIN w |-> w[f]]
    BY <2>2 DEF Restrict
  <2>4. w = [f \in DOMAIN w |-> w[f]]
    BY <1>2
  <2> QED
    BY <2>1, <2>3, <2>4
<1>6. {"corrId", "method"} \subseteq DOMAIN w
  BY <1>1, <1>3, <1>5
<1> HIDE DEF short
<1>7. CASE drop = TRUE
  <2>1. ~ {"src", "dst"} \subseteq DOMAIN fields
    BY <1>3, <1>5, <1>7
  <2>2. decodeJson(n, msg) = recoverIdentity(fields, msg)
    BY <1>6, <2>1 DEF decodeJson, w
  <2>3. fields = Abridged(env, FALSE, TRUE)
    <3>1. w = [f \in D \ {"src", "dst"} |-> env[f]]
      BY <1>2, <1>3, <1>7
    <3>2. Abridged(env, FALSE, TRUE) = [f \in D \ {"src", "dst"} |-> env[f]]
      BY DEF Abridged, Without, D
    <3> QED
      BY <1>5, <3>1, <3>2
  <2>4. recoverIdentity(fields, msg) = Decoded(env)
    BY <1>7, <2>3, Recovered
  <2> QED
    BY <1>4, <2>2, <2>4 DEF Returns
<1>8. CASE drop = FALSE /\ ~ short
  <2>1. {"src", "dst"} \subseteq DOMAIN fields
    BY <1>1, <1>3, <1>5, <1>8
  <2>2. msg.encoding = "json-full"
    BY <1>8 DEF Json, short
  <2>3. decodeJson(n, msg) = Decoded(fields)
    BY <1>6, <2>1, <2>2 DEF decodeJson, w
  <2>4. fields = env
    <3>1. w = [f \in D |-> env[f]]
      BY <1>2, <1>3, <1>8
    <3> QED
      BY <1>1, <1>5, <3>1
  <2> QED
    BY <1>4, <2>3, <2>4 DEF Returns
<1>9. CASE drop = FALSE /\ short
  <2>1. {"src", "dst"} \subseteq DOMAIN fields
    BY <1>1, <1>3, <1>5, <1>9
  <2>2. msg.encoding = "json-short" /\ msg.encoding # "json-full"
    BY <1>9 DEF short
  <2>3. decodeJson(n, msg) = NamePeers(n, fields, FALSE)
    BY <1>6, <2>1, <2>2 DEF decodeJson, w
  <2>4. fields = Abridged(env, FALSE, FALSE)
    <3>1. w = [f \in D |-> IF f \in {"src", "dst"} THEN Symbol(env[f], FALSE) ELSE env[f]]
      BY <1>2, <1>3, <1>9
    <3>2. Abridged(env, FALSE, FALSE) = [f \in D |-> IF f \in {"src", "dst"} THEN Symbol(env[f], FALSE) ELSE env[f]]
      BY DEF Abridged, Without, D
    <3> QED
      BY <1>5, <3>1, <3>2
  <2>5. Discerned(n, env, FALSE)
    BY <1>9, <2>2
  <2>6. Returns(NamePeers(n, Abridged(env, FALSE, FALSE), FALSE), env, Acquainted(n, env, FALSE))
    BY <2>5, Named DEF Returns, Discerned, Acquainted
  <2> QED
    BY <1>4, <1>9, <2>2, <2>3, <2>4, <2>6 DEF Returns
<1> QED
  BY <1>7, <1>8, <1>9

LEMMA JsonLater ==
  ASSUME NEW n, NEW msg, NEW env, Proper(env), msg.encoding = "json-full",
         msg.wire = [f \in DOMAIN env \cup {"x"} |-> IF f = "x" THEN 0 ELSE env[f]]
  PROVE  decode(n, msg) = IF "corrId" \in DOMAIN env THEN Decoded(env) ELSE Threw
<1> DEFINE D == DOMAIN env
           w == msg.wire
           fields == Restrict(w, DOMAIN w \cap V1_FIELDS)
<1>1. env = [f \in D |-> env[f]] /\ D \subseteq V1_FIELDS /\ {"method", "src", "dst"} \subseteq D
  BY DEF Proper
<1>2. "x" \notin V1_FIELDS
  BY DEF V1_FIELDS, Ids
<1>3. decode(n, msg) = decodeJson(n, msg)
  BY DEF decode, Json
<1>4. w = [f \in D \cup {"x"} |-> IF f = "x" THEN 0 ELSE env[f]]
  OBVIOUS
<1> HIDE DEF w, D
<1>5. DOMAIN w = D \cup {"x"} /\ \A f \in D : w[f] = env[f]
  BY <1>1, <1>2, <1>4
<1>6. fields = env /\ DOMAIN fields = D
  <2>1. DOMAIN w \cap V1_FIELDS = D
    BY <1>1, <1>2, <1>5
  <2>2. fields = [f \in D |-> w[f]]
    BY <2>1 DEF Restrict
  <2> QED
    BY <1>1, <1>5, <2>2
<1> HIDE DEF fields
<1>7. decodeJson(n, msg) = IF "corrId" \in D THEN Decoded(fields) ELSE Threw
  <2>1. {"corrId", "method"} \subseteq DOMAIN w <=> "corrId" \in D
    BY <1>1, <1>5
  <2>2. {"src", "dst"} \subseteq DOMAIN fields
    BY <1>1, <1>6
  <2> QED
    BY <2>1, <2>2 DEF decodeJson, w, fields
<1> QED
  BY <1>3, <1>6, <1>7 DEF D

LEMMA CborSent ==
  ASSUME NEW n, NEW msg, NEW env, NEW binary, NEW id, NEW drop \in BOOLEAN, Encodable(env, binary, id),
         NEW object \in {CborObject(env, binary, id, drop), WithX(CborObject(env, binary, id, drop))},
         msg.from \in Nodes, msg.encoding \in {"cbor-compact", "cbor-binary"}, binary = (msg.encoding = "cbor-binary"),
         msg.wire = encodeCbor(MapItem(object)),
         drop => Vouched(env, msg.from, binding), ~ drop => Discerned(n, env, binary),
         id + 1 \in DOMAIN methods[n] => methods[n][id + 1] = env["method"]
  PROVE  Returns(decode(n, msg), env,
           id + 1 \in DOMAIN methods[n] /\ "corrId" \in DOMAIN env /\ (~ drop => Acquainted(n, env, binary)))
<1> DEFINE must == id + 1 \in DOMAIN methods[n] /\ "corrId" \in DOMAIN env /\ (~ drop => Acquainted(n, env, binary))
           fields == FieldsOf(n, object, binary)
           D == Without(DOMAIN env, drop)
           map == decodeCbor(msg.wire)
<1>1. Proper(env) /\ binary \in BOOLEAN
  BY DEF Encodable
<1>2. ObjectOver(object, Values[Nesting - 1])
  BY ObjectFits
<1>3. map.ok /\ ObjectOf(map.value) = object
  BY <1>2, Unpacked DEF Unpacks
<1>4. decode(n, msg) = FromObject(n, msg, object)
  BY <1>3 DEF decode, decodeCborTier, Json
<1>5. DOMAIN object \subseteq D \cup {"v", "x"} /\ D \subseteq DOMAIN object /\ object["method"].v = id
  <2> DEFINE o == CborObject(env, binary, id, drop)
  <2>1. o = [f \in {"v"} \cup D |-> FieldItem(f, env, binary, id)]
    BY DEF CborObject
  <2>2. "method" \in D
    BY <1>1 DEF Proper, Without
  <2>3. FieldItem("method", env, binary, id).v = id
    BY DEF FieldItem, Ids, IntItem
  <2> HIDE DEF o, D
  <2>4. DOMAIN o = {"v"} \cup D /\ o["method"].v = id
    BY <2>1, <2>2, <2>3
  <2>5. WithX(o) = [f \in {"v"} \cup D \cup {"x"} |-> IF f = "x" THEN IntItem(0) ELSE o[f]]
    BY <2>4 DEF WithX
  <2>6. DOMAIN WithX(o) = {"v"} \cup D \cup {"x"} /\ WithX(o)["method"].v = id
    BY <2>2, <2>4, <2>5
  <2>7. object = o \/ object = WithX(o)
    BY DEF o
  <2> QED
    BY <2>4, <2>6, <2>7
<1> HIDE DEF fields, must
<1>6. CASE ~ (id + 1 \in DOMAIN methods[n]) \/ (binary /\ "corrId" \notin DOMAIN object)
  <2>1. FromObject(n, msg, object) = Threw
    BY <1>5, <1>6 DEF FromObject, Knows
  <2>2. ~ must
    BY <1>5, <1>6 DEF must, Without
  <2> QED
    BY <1>4, <2>1, <2>2 DEF Returns, must
<1>7. CASE id + 1 \in DOMAIN methods[n] /\ ~ (binary /\ "corrId" \notin DOMAIN object)
  <2>1. FromObject(n, msg, object) =
          IF ~ {"src", "dst"} \subseteq DOMAIN object THEN recoverIdentity(fields, msg) ELSE NamePeers(n, fields, binary)
    BY <1>5, <1>7 DEF FromObject, Knows, fields, FieldsOf
  <2>2. fields = Abridged(env, binary, drop)
    <3>1. lookup(methods[n], id) = env["method"]
      BY <1>7 DEF lookup
    <3> QED
      BY <3>1, FieldsBack DEF fields
  <2>3. CASE drop = TRUE
    <3>1. ~ {"src", "dst"} \subseteq DOMAIN object
      BY <1>5, <2>3 DEF Without
    <3>2. recoverIdentity(fields, msg) = Decoded(env)
      BY <1>1, <2>2, <2>3, Recovered
    <3> QED
      BY <1>4, <2>1, <3>1, <3>2 DEF Returns, must
  <2>4. CASE drop = FALSE
    <3>1. {"src", "dst"} \subseteq DOMAIN object
      BY <1>1, <1>5, <2>4 DEF Without, Proper
    <3>2. Returns(NamePeers(n, fields, binary), env, Acquainted(n, env, binary))
      BY <1>1, <2>2, <2>4, Named DEF Returns, Discerned, Acquainted
    <3> QED
      BY <1>4, <2>1, <2>4, <3>1, <3>2 DEF Returns, must
  <2> QED
    BY <2>3, <2>4
<1> QED
  BY <1>6, <1>7

-----------------------------------------------------------------------------
(* The tables: what they may hold, and that they only grow. *)
KnownMethods == Range(Seed) \cup {env.method : env \in Envelopes}

MethodTable(s) == /\ s \in Seq(KnownMethods) /\ IsInjective(s) /\ Len(Seed) <= Len(s)
                  /\ \A i \in 1 .. Len(Seed) : s[i] = Seed[i]
PeerTable(T, code) == T \subseteq Peers /\ \A p, q \in T : code[p] = code[q] => p = q

Extends(s, r) == Len(s) <= Len(r) /\ \A i \in 1 .. Len(s) : r[i] = s[i]

LEMMA SeedTable == MethodTable(Seed)
<1>1. Seed \in Seq(KnownMethods)
  <2>1. Range(Seed) \subseteq KnownMethods
    BY DEF KnownMethods
  <2> QED
    BY <2>1, SeedAssumption, SeqMonotonic
<1>2. Len(Seed) \in Nat
  BY <1>1, LenProperties
<1> QED
  BY <1>1, <1>2, SeedAssumption DEF MethodTable

LEMMA IdsStated ==
  ASSUME NEW s, MethodTable(s)
  PROVE  \A i \in 1 .. Len(s) : i - 1 \in Nat /\ Stated(i - 1)
<1>1. s \in Seq(KnownMethods) /\ IsInjective(s)
  BY DEF MethodTable
<1>2. IsFiniteSet(KnownMethods) /\ \A n \in 0 .. Cardinality(KnownMethods) : Stated(n)
  BY MethodsAssumption DEF KnownMethods
<1>3. Len(s) \in Nat /\ DOMAIN s = 1 .. Len(s)
  BY <1>1, LenProperties
<1>4. Cardinality(KnownMethods) \in Nat
  BY <1>2, FS_CardinalityType
<1>5. s \in Injection(1 .. Len(s), KnownMethods)
  <2>1. s \in [1 .. Len(s) -> KnownMethods]
    BY <1>1, <1>3, ElementOfSeq
  <2>2. \A i, j \in 1 .. Len(s) : s[i] = s[j] => i = j
    BY <1>1, <1>3 DEF IsInjective
  <2> QED
    BY <2>1, <2>2 DEF Injection, IsInjective
<1>6. Cardinality(1 .. Len(s)) <= Cardinality(KnownMethods)
  BY <1>2, <1>5, FS_Injection
<1>7. Cardinality(1 .. Len(s)) = Len(s)
  <2>1. 1 \in Int /\ Len(s) \in Int
    BY <1>3
  <2>2. Cardinality(1 .. Len(s)) = IF 1 > Len(s) THEN 0 ELSE Len(s) - 1 + 1
    BY <2>1, FS_Interval
  <2> QED
    BY <1>3, <2>2
<1> QED
  BY <1>2, <1>3, <1>4, <1>6, <1>7

LEMMA Interned ==
  ASSUME NEW s, MethodTable(s), NEW m \in KnownMethods
  PROVE  /\ MethodTable(intern(s, m)) /\ Extends(s, intern(s, m))
         /\ IdOf(intern(s, m), m) + 1 \in 1 .. Len(intern(s, m)) /\ intern(s, m)[IdOf(intern(s, m), m) + 1] = m
         /\ IdOf(intern(s, m), m) \in Nat /\ Stated(IdOf(intern(s, m), m))
<1> DEFINE r == intern(s, m)
           c == CHOOSE i \in DOMAIN r : r[i] = m
<1>1. s \in Seq(KnownMethods) /\ IsInjective(s) /\ Len(s) \in Nat /\ DOMAIN s = 1 .. Len(s)
      /\ Len(Seed) <= Len(s) /\ (\A i \in 1 .. Len(Seed) : s[i] = Seed[i]) /\ Len(Seed) \in Nat
  BY LenProperties, SeedAssumption DEF MethodTable
<1>2. MethodTable(r) /\ Extends(s, r) /\ \E i \in DOMAIN r : r[i] = m
  <2>1. CASE \E i \in DOMAIN s : s[i] = m
    <3>1. r = s
      BY <2>1 DEF intern
    <3> QED
      BY <1>1, <2>1, <3>1 DEF Extends
  <2>2. CASE ~ \E i \in DOMAIN s : s[i] = m
    <3>1. r = Append(s, m)
      BY <2>2 DEF intern
    <3> HIDE DEF r
    <3>2. r \in Seq(KnownMethods) /\ Len(r) = Len(s) + 1 /\ (\A i \in 1 .. Len(s) : r[i] = s[i]) /\ r[Len(s) + 1] = m
      BY <1>1, <3>1, AppendProperties
    <3>3. DOMAIN r = 1 .. Len(s) + 1
      BY <3>2, LenProperties
    <3>4. IsInjective(r)
      <4> SUFFICES ASSUME NEW i \in 1 .. Len(s) + 1, NEW j \in 1 .. Len(s) + 1, r[i] = r[j] PROVE i = j
        BY <3>3 DEF IsInjective
      <4>1. (i \in 1 .. Len(s) \/ i = Len(s) + 1) /\ (j \in 1 .. Len(s) \/ j = Len(s) + 1)
        BY <1>1
      <4>2. \A k \in 1 .. Len(s) : s[k] # m
        BY <1>1, <2>2
      <4> QED
        BY <1>1, <3>2, <4>1, <4>2 DEF IsInjective
    <3>5. \A i \in 1 .. Len(Seed) : i \in 1 .. Len(s)
      BY <1>1
    <3>6. MethodTable(r)
      BY <1>1, <3>2, <3>4, <3>5 DEF MethodTable
    <3>7. Extends(s, r) /\ Len(s) + 1 \in DOMAIN r
      BY <1>1, <3>2, <3>3 DEF Extends
    <3> QED
      BY <3>2, <3>6, <3>7
  <2> QED
    BY <2>1, <2>2
<1>3. c \in DOMAIN r /\ r[c] = m
  BY <1>2
<1>4. r \in Seq(KnownMethods) /\ DOMAIN r = 1 .. Len(r) /\ Len(r) \in Nat
  BY <1>2, LenProperties DEF MethodTable
<1>5. IdOf(r, m) = c - 1
  BY DEF IdOf
<1> HIDE DEF c, r
<1>6. c - 1 \in Nat /\ Stated(c - 1)
  BY <1>2, <1>3, <1>4, IdsStated
<1>7. c - 1 + 1 = c
  BY <1>3, <1>4
<1> QED
  BY <1>2, <1>3, <1>4, <1>5, <1>6, <1>7 DEF r

LEMMA SeedPlace ==
  ASSUME NEW s, MethodTable(s), NEW i \in 1 .. Len(s), s[i] \in Range(Seed)
  PROVE  i \in DOMAIN Seed /\ Seed[i] = s[i]
<1>1. PICK j \in DOMAIN Seed : Seed[j] = s[i]
  BY DEF Range
<1>2. DOMAIN Seed = 1 .. Len(Seed) /\ Len(Seed) \in Nat
  BY SeedAssumption, LenProperties
<1>3. DOMAIN s = 1 .. Len(s) /\ Len(s) \in Nat
  BY LenProperties DEF MethodTable
<1>4. j \in 1 .. Len(s) /\ s[j] = Seed[j]
  BY <1>2, <1>3 DEF MethodTable
<1>5. i = j
  BY <1>1, <1>3, <1>4 DEF MethodTable, IsInjective
<1> QED
  BY <1>1, <1>5

LEMMA EnteredTable ==
  ASSUME NEW T, NEW code, PeerTable(T, code), NEW peer \in Peers \cup {Broadcast}, ~ Collides(T, peer, code)
  PROVE  PeerTable(Entered(T, peer), code) /\ T \subseteq Entered(T, peer)
         /\ peer \in Entered(T, peer) \cup {Broadcast}
<1>1. CASE peer = Broadcast
  BY <1>1 DEF Entered
<1>2. CASE peer # Broadcast
  <2>1. Entered(T, peer) = T \cup {peer} /\ \A q \in T : code[q] = code[peer] => q = peer
    BY <1>2 DEF Entered, Collides
  <2> QED
    BY <1>2, <2>1 DEF PeerTable
<1> QED
  BY <1>1, <1>2

(* The peer tables of all the nodes. *)
PeerTables(table, code) ==
  /\ \A k \in Nodes : PeerTable(table[k], code)
  /\ shared => \A j, k \in Nodes : table[j] = table[k]
GrowsTo(table, grown) == \A k \in Nodes : table[k] \subseteq grown[k]
Entries(grown, n, env) ==
  \A k \in Nodes : k = n \/ shared => {env["src"], env["dst"]} \subseteq grown[k] \cup {Broadcast}

LEMMA PeersEntered ==
  ASSUME NEW n \in Nodes, NEW table, NEW code, NEW env \in Envelopes, PeerTables(table, code)
  PROVE  LET grown == WithPeers(n, table, code, env) IN
         /\ PeerTables(grown, code) /\ GrowsTo(table, grown)
         /\ ~ Clash(n, table, code, env) => Entries(grown, n, env)
<1> DEFINE grown == WithPeers(n, table, code, env)
           first == Entered(table[n], env.src)
           both == Entered(first, env.dst)
<1>1. env.src = env["src"] /\ env.dst = env["dst"] /\ env.src \in Peers \cup {Broadcast} /\ env.dst \in Peers \cup {Broadcast}
  BY EnvelopesProper DEF Proper
<1>2. PeerTable(table[n], code)
  BY DEF PeerTables
<1>3. CASE Collides(table[n], env.src, code)
  <2>1. grown = table
    BY <1>3 DEF WithPeers
  <2> QED
    BY <1>3, <2>1 DEF GrowsTo, Clash
<1>4. CASE ~ Collides(table[n], env.src, code)
  <2> DEFINE value == IF Collides(first, env.dst, code) THEN first ELSE both
  <2>1. PeerTable(first, code) /\ table[n] \subseteq first /\ env.src \in first \cup {Broadcast}
    BY <1>1, <1>2, <1>4, EnteredTable
  <2> HIDE DEF first
  <2>2. ~ Collides(first, env.dst, code) =>
          PeerTable(both, code) /\ first \subseteq both /\ env.dst \in both \cup {Broadcast}
    BY <1>1, <2>1, EnteredTable
  <2>3. grown = Updated(table, n, value)
    BY <1>4 DEF WithPeers, first
  <2> HIDE DEF both
  <2>4. PeerTable(value, code) /\ table[n] \subseteq value
    BY <2>1, <2>2
  <2>5. ~ Clash(n, table, code, env) => {env.src, env.dst} \subseteq value \cup {Broadcast}
    <3> HAVE ~ Clash(n, table, code, env)
    <3>1. ~ Collides(first, env.dst, code)
      BY DEF Clash, first
    <3> QED
      BY <2>1, <2>2, <3>1
  <2> HIDE DEF value, grown
  <2>6. \A k \in Nodes : grown[k] = IF k = n \/ shared THEN value ELSE table[k]
    BY <2>3 DEF Updated
  <2>7. PeerTables(grown, code)
    BY <2>4, <2>6 DEF PeerTables
  <2>8. GrowsTo(table, grown)
    BY <2>4, <2>6 DEF GrowsTo, PeerTables
  <2>9. ~ Clash(n, table, code, env) => Entries(grown, n, env)
    BY <1>1, <2>5, <2>6 DEF Entries
  <2> QED
    BY <2>7, <2>8, <2>9 DEF grown
<1> QED
  BY <1>3, <1>4

MethodTables(table) ==
  /\ \A k \in Nodes : MethodTable(table[k])
  /\ shared => \A j, k \in Nodes : table[j] = table[k]
ExtendTo(table, grown) == \A k \in Nodes : Extends(table[k], grown[k])

LEMMA MethodsEntered ==
  ASSUME NEW n \in Nodes, NEW table, NEW m \in KnownMethods, MethodTables(table)
  PROVE  LET grown == Updated(table, n, intern(table[n], m)) IN
         MethodTables(grown) /\ ExtendTo(table, grown)
         /\ \A k \in Nodes : k = n \/ shared => grown[k] = intern(table[n], m)
<1> DEFINE value == intern(table[n], m)
           grown == Updated(table, n, value)
<1>1. MethodTable(table[n])
  BY DEF MethodTables
<1>2. MethodTable(value) /\ Extends(table[n], value)
  BY <1>1, Interned
<1> HIDE DEF value
<1>3. \A k \in Nodes : grown[k] = IF k = n \/ shared THEN value ELSE table[k]
  BY DEF Updated
<1> HIDE DEF grown
<1>4. MethodTables(grown)
  BY <1>2, <1>3 DEF MethodTables
<1>5. \A k \in Nodes : Extends(table[k], table[k])
  <2> TAKE k \in Nodes
  <2>1. Len(table[k]) \in Nat
    BY LenProperties DEF MethodTables, MethodTable
  <2> QED
    BY <2>1 DEF Extends
<1>6. ExtendTo(table, grown)
  <2> SUFFICES ASSUME NEW k \in Nodes PROVE Extends(table[k], grown[k])
    BY DEF ExtendTo
  <2>1. k = n \/ shared => table[k] = table[n]
    BY DEF MethodTables
  <2> QED
    BY <1>2, <1>3, <1>5, <2>1
<1> QED
  BY <1>3, <1>4, <1>6 DEF grown, value

-----------------------------------------------------------------------------
(* What is known of a message, given the channel and everybody's tables.   *)
IsBinary(msg) == msg.encoding = "cbor-binary"
Labels(s, id, env) == id + 1 \in 1 .. Len(s) /\ s[id + 1] = env["method"]

JsonCarried(msg, drop) == msg.wire = JsonObject(msg.env, msg.encoding = "json-short", drop)
CborCarried(msg, drop, sh, ms) == \E id \in Nat :
  /\ Encodable(msg.env, IsBinary(msg), id)
  /\ msg.wire = encodeCbor(MapItem(CborObject(msg.env, IsBinary(msg), id, drop)))
  /\ msg.env["method"] \in Range(Seed) => Labels(Seed, id, msg.env)
  /\ sh => \A k \in Nodes : Labels(ms[k], id, msg.env)
KnownToAll(msg, table) == \A k \in Nodes : {msg.env["src"], msg.env["dst"]} \subseteq table[k] \cup {Broadcast}

Original(msg, sh, b, ms, hd, hs) == \E drop \in BOOLEAN :
  /\ msg.env \in Envelopes
  /\ drop => Vouched(msg.env, msg.from, b)
  /\ msg.encoding \in Json => JsonCarried(msg, drop)
  /\ msg.encoding \notin Json => CborCarried(msg, drop, sh, ms)
  /\ sh /\ ~ drop /\ msg.encoding # "json-full" => KnownToAll(msg, IF IsBinary(msg) THEN hs ELSE hd)

Later(msg) ==
  /\ \E e \in Envelopes : e["method"] = Seed[1] /\ msg.env \in {e, Trimmed(e)}
  /\ msg.encoding # "json-short"
  /\ msg.encoding \in Json =>
       msg.wire = [f \in DOMAIN msg.env \cup {"x"} |-> IF f = "x" THEN 0 ELSE msg.env[f]]
  /\ msg.encoding \notin Json =>
       /\ Encodable(msg.env, IsBinary(msg), 0)
       /\ msg.wire = encodeCbor(MapItem(WithX(CborObject(msg.env, IsBinary(msg), 0, FALSE))))

Carried(msg, sh, b, ms, hd, hs) ==
  /\ msg.from \in Nodes /\ msg.encoding \in Encodings /\ msg.newer \in BOOLEAN
  /\ msg.newer => Later(msg)
  /\ ~ msg.newer => Original(msg, sh, b, ms, hd, hs)

EnvelopeInv ==
  /\ MethodTables(methods) /\ PeerTables(byHandle, HandleOf) /\ PeerTables(byHash, HashOf)
  /\ messages \in Seq(Range(messages))
  /\ \A k \in DOMAIN messages : Carried(messages[k], shared, binding, methods, byHandle, byHash)

LEMMA StaysCarried ==
  ASSUME NEW msg, NEW sh, NEW b, NEW ms, NEW hd, NEW hs, NEW ms2, NEW hd2, NEW hs2,
         Carried(msg, sh, b, ms, hd, hs), MethodTables(ms), MethodTables(ms2),
         ExtendTo(ms, ms2), GrowsTo(hd, hd2), GrowsTo(hs, hs2)
  PROVE  Carried(msg, sh, b, ms2, hd2, hs2)
<1>1. SUFFICES ASSUME ~ msg.newer PROVE Original(msg, sh, b, ms2, hd2, hs2)
  BY DEF Carried
<1>2. PICK drop \in BOOLEAN :
        /\ msg.env \in Envelopes
        /\ drop => Vouched(msg.env, msg.from, b)
        /\ msg.encoding \in Json => JsonCarried(msg, drop)
        /\ msg.encoding \notin Json => CborCarried(msg, drop, sh, ms)
        /\ sh /\ ~ drop /\ msg.encoding # "json-full" => KnownToAll(msg, IF IsBinary(msg) THEN hs ELSE hd)
  BY <1>1, Zenon DEF Carried, Original
<1>3. ASSUME CborCarried(msg, drop, sh, ms) PROVE CborCarried(msg, drop, sh, ms2)
  <2>1. PICK id \in Nat :
          /\ Encodable(msg.env, IsBinary(msg), id)
          /\ msg.wire = encodeCbor(MapItem(CborObject(msg.env, IsBinary(msg), id, drop)))
          /\ msg.env["method"] \in Range(Seed) => Labels(Seed, id, msg.env)
          /\ sh => \A k \in Nodes : Labels(ms[k], id, msg.env)
    BY <1>3, Zenon DEF CborCarried
  <2>2. ASSUME NEW k \in Nodes, Labels(ms[k], id, msg.env) PROVE Labels(ms2[k], id, msg.env)
    <3> DEFINE s == ms[k]
               r == ms2[k]
    <3>1. Len(s) \in Nat /\ Len(r) \in Nat
      BY LenProperties DEF MethodTables, MethodTable
    <3>2. Extends(s, r) /\ Labels(s, id, msg.env)
      BY <2>2 DEF ExtendTo
    <3> HIDE DEF s, r
    <3>3. Labels(r, id, msg.env)
      BY <3>1, <3>2 DEF Extends, Labels
    <3> QED
      BY <3>3 DEF r
  <2>3. sh => \A k \in Nodes : Labels(ms2[k], id, msg.env)
    BY <2>1, <2>2
  <2> QED
    BY <2>1, <2>3, Zenon DEF CborCarried
<1>4. ASSUME KnownToAll(msg, IF IsBinary(msg) THEN hs ELSE hd) PROVE KnownToAll(msg, IF IsBinary(msg) THEN hs2 ELSE hd2)
  BY <1>4 DEF KnownToAll, GrowsTo
<1> QED
  BY <1>2, <1>3, <1>4, Zenon DEF Original

Progress ==
  /\ MethodTables(methods') /\ PeerTables(byHandle', HandleOf) /\ PeerTables(byHash', HashOf)
  /\ ExtendTo(methods, methods') /\ GrowsTo(byHandle, byHandle') /\ GrowsTo(byHash, byHash')

LEMMA Progressed ==
  ASSUME EnvelopeInv, Progress, UNCHANGED <<shared, binding>>,
         messages' = messages \/
           \E msg : messages' = Append(messages, msg) /\ Carried(msg, shared, binding, methods', byHandle', byHash')
  PROVE  EnvelopeInv'
<1>1. (MethodTables(methods) /\ PeerTables(byHandle, HandleOf) /\ PeerTables(byHash, HashOf))'
  BY DEF Progress, MethodTables, PeerTables
<1>2. \A k \in DOMAIN messages : Carried(messages[k], shared, binding, methods', byHandle', byHash')
  <2> TAKE k \in DOMAIN messages
  <2>1. Carried(messages[k], shared, binding, methods, byHandle, byHash) /\ MethodTables(methods)
    BY DEF EnvelopeInv
  <2> QED
    BY <2>1, StaysCarried DEF Progress
<1>3. messages \in Seq(Range(messages)) /\ Len(messages) \in Nat /\ DOMAIN messages = 1 .. Len(messages)
  BY LenProperties DEF EnvelopeInv
<1>4. /\ messages' \in Seq(Range(messages'))
      /\ \A k \in DOMAIN messages' : Carried(messages'[k], shared, binding, methods', byHandle', byHash')
  <2>1. CASE messages' = messages
    BY <1>2, <1>3, <2>1
  <2>2. ASSUME NEW msg, messages' = Append(messages, msg), Carried(msg, shared, binding, methods', byHandle', byHash')
        PROVE  /\ messages' \in Seq(Range(messages'))
               /\ \A k \in DOMAIN messages' : Carried(messages'[k], shared, binding, methods', byHandle', byHash')
    <3> DEFINE T == Range(messages) \cup {msg}
               m == messages'
               n == Len(messages)
    <3>1. messages \in Seq(T)
      BY <1>3, SeqMonotonic
    <3>2. m \in Seq(T) /\ Len(m) = n + 1 /\ (\A k \in 1 .. n : m[k] = messages[k]) /\ m[n + 1] = msg
      BY <2>2, <3>1, AppendProperties
    <3> HIDE DEF m, n, T
    <3>3. DOMAIN m = 1 .. n + 1 /\ n \in Nat /\ m = [k \in 1 .. n + 1 |-> m[k]]
      BY <1>3, <3>2 DEF n
    <3>4. m \in Seq(Range(m))
      <4> DEFINE j == n + 1
      <4>1. j \in Nat /\ DOMAIN m = 1 .. j /\ m = [k \in 1 .. j |-> m[k]] /\ \A k \in 1 .. j : m[k] \in Range(m)
        BY <3>3 DEF Range
      <4> HIDE DEF j
      <4>2. m \in [1 .. j -> Range(m)]
        BY <4>1
      <4> QED
        BY <4>1, <4>2
    <3>5. \A k \in 1 .. n + 1 : k \in 1 .. n \/ k = n + 1
      BY <3>3
    <3>6. \A k \in 1 .. n : Carried(messages[k], shared, binding, methods', byHandle', byHash')
      BY <1>2, <1>3 DEF n
    <3>7. \A k \in DOMAIN m : Carried(m[k], shared, binding, methods', byHandle', byHash')
      <4> TAKE k \in DOMAIN m
      <4>1. CASE k \in 1 .. n
        BY <3>2, <3>6, <4>1
      <4>2. CASE k = n + 1
        BY <2>2, <3>2, <4>2
      <4> QED
        BY <3>3, <3>5, <4>1, <4>2
    <3> QED
      BY <3>4, <3>7 DEF m
  <2> QED
    BY <2>1, <2>2
<1> QED
  BY <1>1, <1>4 DEF EnvelopeInv


LEMMA Unmoved ==
  ASSUME EnvelopeInv
  PROVE  /\ MethodTables(methods) /\ PeerTables(byHandle, HandleOf) /\ PeerTables(byHash, HashOf)
         /\ ExtendTo(methods, methods) /\ GrowsTo(byHandle, byHandle) /\ GrowsTo(byHash, byHash)
<1>1. MethodTables(methods) /\ PeerTables(byHandle, HandleOf) /\ PeerTables(byHash, HashOf)
  BY DEF EnvelopeInv
<1>2. ExtendTo(methods, methods)
  <2> SUFFICES ASSUME NEW k \in Nodes PROVE Extends(methods[k], methods[k])
    BY DEF ExtendTo
  <2>1. Len(methods[k]) \in Nat
    BY <1>1, LenProperties DEF MethodTables, MethodTable
  <2> QED
    BY <2>1 DEF Extends
<1> QED
  BY <1>1, <1>2 DEF GrowsTo

LEMMA InitCarries == EnvelopeInit => EnvelopeInv
<1> SUFFICES ASSUME EnvelopeInit PROVE EnvelopeInv
  OBVIOUS
<1>1. MethodTables(methods)
  BY SeedTable DEF EnvelopeInit, MethodTables
<1>2. PeerTables(byHandle, HandleOf) /\ PeerTables(byHash, HashOf)
  BY DEF EnvelopeInit, PeerTables, PeerTable
<1>3. messages = <<>>
  BY DEF EnvelopeInit
<1>4. messages \in Seq(Range(messages)) /\ DOMAIN messages = {}
  BY <1>3
<1> QED
  BY <1>1, <1>2, <1>4 DEF EnvelopeInv

(* Who is left out is vouched for by the channel. *)
LEMMA DropVouched ==
  ASSUME NEW n \in Nodes, NEW env, NEW encoding, NEW drop, Encode(n, env, encoding, drop)
  PROVE  drop => Vouched(env, n, binding)
  BY Zenon DEF Encode, MayDrop, Vouched

LEMMA JsonKeeps ==
  ASSUME EnvelopeInv, NEW n \in Nodes, NEW env \in Envelopes, NEW encoding \in Json, NEW drop \in BOOLEAN,
         Encode(n, env, encoding, drop)
  PROVE  EnvelopeInv'
<1> DEFINE naming == encoding = "json-short" /\ ~ drop
           grown == WithPeers(n, byHandle, HandleOf, env)
           clash == Clash(n, byHandle, HandleOf, env)
           msg == [from |-> n, env |-> env, encoding |-> encoding, newer |-> FALSE,
                   wire |-> JsonObject(env, encoding = "json-short", drop)]
<1>1. EncodeJson(n, env, encoding, drop) /\ UNCHANGED <<shared, binding>>
  BY DEF Encode
<1>2. /\ byHandle' = (IF naming THEN grown ELSE byHandle) /\ methods' = methods /\ byHash' = byHash
      /\ IF naming /\ clash THEN messages' = messages ELSE messages' = Append(messages, msg)
  BY <1>1 DEF EncodeJson, Sends
<1>3. PeerTables(grown, HandleOf) /\ GrowsTo(byHandle, grown) /\ (~ clash => Entries(grown, n, env))
  BY PeersEntered DEF EnvelopeInv
<1> HIDE DEF grown, clash
<1>4. Progress
  <2>1. CASE naming
    BY <1>2, <1>3, <2>1, Unmoved DEF Progress
  <2>2. CASE ~ naming
    BY <1>2, <2>2, Unmoved DEF Progress
  <2> QED
    BY <2>1, <2>2
<1>5. ASSUME messages' # messages PROVE messages' = Append(messages, msg) /\ Carried(msg, shared, binding, methods', byHandle', byHash')
  <2>1. messages' = Append(messages, msg) /\ ~ (naming /\ clash)
    BY <1>2, <1>5
  <2>2. /\ msg.from = n /\ msg.env = env /\ msg.encoding = encoding /\ msg.newer = FALSE
        /\ msg.wire = JsonObject(env, encoding = "json-short", drop)
    OBVIOUS
  <2> HIDE DEF msg
  <2>3. drop => Vouched(env, n, binding)
    BY DropVouched
  <2>4. ASSUME shared, ~ drop, encoding # "json-full" PROVE KnownToAll(msg, byHandle')
    <3>1. naming
      BY <2>4 DEF Json
    <3>2. byHandle' = grown /\ Entries(grown, n, env)
      BY <1>2, <1>3, <2>1, <3>1
    <3> QED
      BY <2>2, <2>4, <3>2 DEF KnownToAll, Entries
  <2>5. ~ IsBinary(msg) /\ encoding \in Encodings
    BY <2>2 DEF IsBinary, Json, Encodings
  <2>6. JsonCarried(msg, drop)
    BY <2>2 DEF JsonCarried
  <2>7. Original(msg, shared, binding, methods', byHandle', byHash')
    BY <2>2, <2>3, <2>4, <2>5, <2>6 DEF Original
  <2> QED
    BY <2>1, <2>2, <2>5, <2>7 DEF Carried
<1> HIDE DEF msg
<1> QED
  BY <1>1, <1>4, <1>5, Progressed

LEMMA CborKeeps ==
  ASSUME EnvelopeInv, NEW n \in Nodes, NEW env \in Envelopes, NEW encoding \in Encodings \ Json, NEW drop \in BOOLEAN,
         Encode(n, env, encoding, drop)
  PROVE  EnvelopeInv'
<1> DEFINE binary == encoding = "cbor-binary"
           table == IF binary THEN byHash ELSE byHandle
           code == IF binary THEN HashOf ELSE HandleOf
           interned == intern(methods[n], env.method)
           begun == env.hlc # <<>> /\ (binary => IsUlid(env.msgId) /\ IsUlid(env.corrId))
           late == binary /\ "causedBy" \in DOMAIN env
           naming == begun /\ (late => IsUlid(env.causedBy)) /\ ~ drop
           grown == WithPeers(n, table, code, env)
           named == IF naming THEN grown ELSE table
           clash == Clash(n, table, code, env)
           id == IdOf(interned, env.method)
           fields == CborObject(env, binary, id, drop)
           msg == [from |-> n, env |-> env, encoding |-> encoding, newer |-> FALSE, wire |-> encodeCbor(MapItem(fields))]
           sent == begun /\ (late => IsUlid(env.causedBy)) /\ (naming => ~ clash)
<1>1. EncodeCbor(n, env, encoding, drop) /\ UNCHANGED <<shared, binding>>
  BY DEF Encode
<1>2. /\ methods' = (IF begun THEN Updated(methods, n, interned) ELSE methods)
      /\ byHash' = (IF binary THEN named ELSE byHash) /\ byHandle' = (IF binary THEN byHandle ELSE named)
      /\ IF sent THEN messages' = Append(messages, msg) ELSE messages' = messages
  BY <1>1 DEF EncodeCbor, Sends
<1>3. Proper(env) /\ "corrId" \in DOMAIN env
  BY EnvelopesProper
<1>4. PeerTables(table, code) /\ PeerTables(grown, code) /\ GrowsTo(table, grown) /\ (~ clash => Entries(grown, n, env))
  <2>1. PeerTables(table, code)
    BY DEF EnvelopeInv
  <2> HIDE DEF table, code
  <2> QED
    BY <2>1, PeersEntered
<1>5. env.method \in KnownMethods /\ MethodTables(methods) /\ MethodTable(methods[n])
  BY DEF KnownMethods, EnvelopeInv, MethodTables
<1>6. LET table2 == Updated(methods, n, interned) IN
        MethodTables(table2) /\ ExtendTo(methods, table2) /\ \A k \in Nodes : k = n \/ shared => table2[k] = interned
  BY <1>5, MethodsEntered
<1>7. /\ MethodTable(interned) /\ id + 1 \in 1 .. Len(interned) /\ interned[id + 1] = env.method
      /\ id \in Nat /\ Stated(id)
  BY <1>5, Interned
<1> HIDE DEF grown, clash, interned, id
<1>8. PeerTables(named, code) /\ GrowsTo(table, named)
  BY <1>4 DEF GrowsTo
<1>9. Progress
  <2>1. MethodTables(methods') /\ ExtendTo(methods, methods')
    BY <1>2, <1>6, Unmoved
  <2>2. PeerTables(byHandle', HandleOf) /\ PeerTables(byHash', HashOf) /\ GrowsTo(byHandle, byHandle') /\ GrowsTo(byHash, byHash')
    <3>1. CASE binary
      <4>1. PeerTables(named, HashOf) /\ GrowsTo(byHash, named)
        BY <1>8, <3>1
      <4> HIDE DEF named
      <4> QED
        BY <1>2, <3>1, <4>1, Unmoved
    <3>2. CASE ~ binary
      <4>1. PeerTables(named, HandleOf) /\ GrowsTo(byHandle, named)
        BY <1>8, <3>2
      <4> HIDE DEF named
      <4> QED
        BY <1>2, <3>2, <4>1, Unmoved
    <3> QED
      BY <3>1, <3>2
  <2> QED
    BY <2>1, <2>2 DEF Progress
<1>10. ASSUME sent PROVE Carried(msg, shared, binding, methods', byHandle', byHash')
  <2>1. /\ msg.from = n /\ msg.env = env /\ msg.encoding = encoding /\ msg.newer = FALSE
        /\ msg.wire = encodeCbor(MapItem(fields))
    OBVIOUS
  <2>2. begun /\ (late => IsUlid(env.causedBy)) /\ (~ drop => naming /\ ~ clash)
    BY <1>10
  <2> HIDE DEF msg
  <2>3. IsBinary(msg) = binary /\ encoding \notin Json /\ encoding \in Encodings
    BY <2>1 DEF IsBinary
  <2>4. Encodable(env, binary, id)
    <3>1. env["hlc"] # <<>>
      BY <2>2
    <3>2. binary => \A f \in Ids \cap DOMAIN env : IsUlid(env[f])
      BY <2>2 DEF Ids
    <3> QED
      BY <1>3, <1>7, <3>1, <3>2 DEF Encodable
  <2>5. env["method"] \in Range(Seed) => Labels(Seed, id, env)
    <3> HAVE env["method"] \in Range(Seed)
    <3>1. id + 1 \in DOMAIN Seed /\ Seed[id + 1] = env["method"]
      BY <1>7, SeedPlace
    <3>2. DOMAIN Seed = 1 .. Len(Seed)
      BY SeedAssumption, LenProperties
    <3> QED
      BY <3>1, <3>2 DEF Labels
  <2>6. shared => \A k \in Nodes : Labels(methods'[k], id, env)
    BY <1>2, <1>6, <1>7, <2>2 DEF Labels
  <2>7. CborCarried(msg, drop, shared, methods')
    BY <1>7, <2>1, <2>3, <2>4, <2>5, <2>6 DEF CborCarried
  <2>8. shared /\ ~ drop => KnownToAll(msg, IF IsBinary(msg) THEN byHash' ELSE byHandle')
    <3> HAVE shared /\ ~ drop
    <3>1. named = grown /\ Entries(grown, n, env)
      BY <1>4, <2>2
    <3> HIDE DEF named
    <3>2. (IF IsBinary(msg) THEN byHash' ELSE byHandle') = named
      BY <1>2, <2>3
    <3> QED
      BY <2>1, <3>1, <3>2 DEF KnownToAll, Entries
  <2>9. drop => Vouched(env, n, binding)
    BY DropVouched
  <2>10. Original(msg, shared, binding, methods', byHandle', byHash')
    BY <2>1, <2>3, <2>7, <2>8, <2>9, Zenon DEF Original
  <2> QED
    BY <2>1, <2>3, <2>10 DEF Carried
<1> HIDE DEF msg, sent
<1>11. messages' = messages \/ (messages' = Append(messages, msg) /\ Carried(msg, shared, binding, methods', byHandle', byHash'))
  BY <1>2, <1>10
<1> QED
  BY <1>1, <1>9, <1>11, Progressed

LEMMA LaterKeeps ==
  ASSUME EnvelopeInv, NEW n \in Nodes, NEW env \in Envelopes, NEW encoding \in Encodings \ {"json-short"},
         NEW whole \in BOOLEAN, NewerSends(n, env, encoding, whole)
  PROVE  EnvelopeInv'
<1> DEFINE binary == encoding = "cbor-binary"
           trimmed == IF whole THEN env ELSE Restrict(env, DOMAIN env \ {"corrId"})
           fields == CborObject(trimmed, binary, 0, FALSE)
           wire == IF encoding \in Json
                     THEN [f \in DOMAIN trimmed \cup {"x"} |-> IF f = "x" THEN 0 ELSE trimmed[f]]
                     ELSE encodeCbor(MapItem([f \in DOMAIN fields \cup {"x"} |-> IF f = "x" THEN IntItem(0) ELSE fields[f]]))
           msg == [from |-> n, env |-> trimmed, encoding |-> encoding, newer |-> TRUE, wire |-> wire]
<1>1. /\ env.method = Seed[1] /\ env.hlc # <<>> /\ (\A f \in Ids \cap DOMAIN env : IsUlid(env[f]))
      /\ messages' = Append(messages, msg) /\ UNCHANGED <<shared, binding, tables>>
  BY DEF NewerSends, Sends
<1>2. Progress
  BY <1>1, Unmoved DEF Progress, tables
<1>3. /\ msg.from = n /\ msg.env = trimmed /\ msg.encoding = encoding /\ msg.newer = TRUE /\ msg.wire = wire
  OBVIOUS
<1>4. trimmed \in {env, Trimmed(env)}
  BY DEF Trimmed
<1>5. Encodable(trimmed, binary, 0)
  <2>1. Proper(env)
    BY EnvelopesProper
  <2>2. Proper(trimmed) /\ DOMAIN trimmed \subseteq DOMAIN env /\ \A f \in DOMAIN trimmed : trimmed[f] = env[f]
    BY <1>4, <2>1, TrimmedProper
  <2> HIDE DEF trimmed
  <2>3. trimmed["hlc"] # <<>> /\ \A f \in Ids \cap DOMAIN trimmed : IsUlid(trimmed[f])
    BY <1>1, <2>2 DEF Proper
  <2>4. 0 \in Nat /\ Stated(0)
    BY SmallStated
  <2> QED
    BY <2>2, <2>3, <2>4 DEF Encodable
<1> HIDE DEF trimmed, msg
<1>6. Later(msg)
  <2>1. IsBinary(msg) = binary
    BY <1>3 DEF IsBinary
  <2>2. \E e \in Envelopes : e["method"] = Seed[1] /\ msg.env \in {e, Trimmed(e)}
    BY <1>1, <1>3, <1>4
  <2>3. encoding \in Json => wire = [f \in DOMAIN trimmed \cup {"x"} |-> IF f = "x" THEN 0 ELSE trimmed[f]]
    BY Zenon
  <2>4. encoding \notin Json => wire = encodeCbor(MapItem(WithX(fields)))
    BY DEF WithX
  <2> HIDE DEF fields, wire
  <2> QED
    BY <1>3, <1>5, <2>1, <2>2, <2>3, <2>4 DEF Later, fields
<1>7. Carried(msg, shared, binding, methods', byHandle', byHash')
  BY <1>3, <1>6 DEF Carried
<1> QED
  BY <1>1, <1>2, <1>7, Progressed

LEMMA EnvelopeStep == EnvelopeInv /\ [EnvelopeNext]_envelopeVars => EnvelopeInv'
<1> SUFFICES ASSUME EnvelopeInv, [EnvelopeNext]_envelopeVars PROVE EnvelopeInv'
  OBVIOUS
<1>1. ASSUME NEW n \in Nodes, NEW env \in Envelopes, NEW encoding \in Encodings, NEW drop \in BOOLEAN,
             Encode(n, env, encoding, drop)
      PROVE  EnvelopeInv'
  <2>1. CASE encoding \in Json
    BY <1>1, <2>1, JsonKeeps
  <2>2. CASE encoding \notin Json
    BY <1>1, <2>2, CborKeeps
  <2> QED
    BY <2>1, <2>2
<1>2. ASSUME NEW n \in Nodes, NEW env \in Envelopes, NEW encoding \in Encodings \ {"json-short"}, NEW whole \in BOOLEAN,
             NewerSends(n, env, encoding, whole)
      PROVE  EnvelopeInv'
  BY <1>2, LaterKeeps
<1>3. CASE UNCHANGED envelopeVars
  <2>1. UNCHANGED <<shared, binding>> /\ messages' = messages /\ Progress
    BY <1>3, Unmoved DEF envelopeVars, tables, Progress
  <2> QED
    BY <2>1, Progressed
<1> QED
  BY <1>1, <1>2, <1>3 DEF EnvelopeNext

(* The invariant that says what every message on the wire is made of. *)
THEOREM MessagesCarried == EnvelopeSpec => []EnvelopeInv
  BY InitCarries, EnvelopeStep, PTL DEF EnvelopeSpec


-----------------------------------------------------------------------------
(* Peers that the table of a node tells apart. *)
LEMMA PeerApart ==
  ASSUME NEW n, NEW peer \in Peers \cup {Broadcast}, NEW binary \in BOOLEAN, TableOf(n, binary) \subseteq Peers,
         peer # Broadcast => \A p \in TableOf(n, binary) :
           (IF binary THEN HashOf[p] = HashOf[peer] ELSE HandleOf[p] = HandleOf[peer]) => p = peer
  PROVE  TellsApart(n, peer, binary)
<1> SUFFICES ASSUME NEW p \in TableOf(n, binary) \cup {Broadcast}, Symbol(p, binary) = Symbol(peer, binary)
             PROVE  p = peer
  BY DEF TellsApart
<1>1. Broadcast \notin Peers
  BY HandlesAssumption
<1>2. \A q \in Peers : HandleOf[q] # <<42>> /\ HashOf[q] # <<>>
  BY SymbolsAssumption
<1>3. CASE binary = TRUE
  <2>1. \A q \in Peers : Symbol(q, binary) = HashOf[q]
    BY <1>1, <1>3 DEF Symbol
  <2>2. Symbol(Broadcast, binary) = <<>>
    BY <1>3 DEF Symbol
  <2> QED
    BY <1>1, <1>2, <1>3, <2>1, <2>2
<1>4. CASE binary = FALSE
  <2>1. \A q \in Peers : Symbol(q, binary) = HandleOf[q]
    BY <1>1, <1>4 DEF Symbol
  <2>2. Symbol(Broadcast, binary) = <<42>>
    BY <1>4 DEF Symbol
  <2> QED
    BY <1>1, <1>2, <1>4, <2>1, <2>2
<1> QED
  BY <1>3, <1>4

LEMMA ForetoldApart ==
  ASSUME EnvelopeInv, NEW n \in Nodes, NEW msg, Foretold(n, msg), Proper(msg.env), NEW binary \in BOOLEAN
  PROVE  Discerned(n, msg.env, binary)
<1>1. TableOf(n, binary) \subseteq Peers /\ TableOf(n, binary) \subseteq byHandle[n] \cup byHash[n]
  BY DEF EnvelopeInv, PeerTables, PeerTable, TableOf
<1>2. ASSUME NEW q \in {msg.env["src"], msg.env["dst"]} PROVE TellsApart(n, q, binary)
  <2>1. q \in Peers \cup {Broadcast}
    BY DEF Proper
  <2>2. q # Broadcast => \A p \in TableOf(n, binary) : HandleOf[p] = HandleOf[q] => p = q
    BY <1>1, <1>2 DEF Foretold
  <2>3. q # Broadcast => \A p \in TableOf(n, binary) : HashOf[p] = HashOf[q] => HandleOf[p] = HandleOf[q]
    BY <1>1, <2>1, HandlesAssumption
  <2> QED
    BY <1>1, <2>1, <2>2, <2>3, PeerApart
<1> QED
  BY <1>2 DEF Discerned

LEMMA AcquaintedApart ==
  ASSUME EnvelopeInv, NEW n \in Nodes, NEW env, Proper(env), NEW binary \in BOOLEAN, Acquainted(n, env, binary)
  PROVE  Discerned(n, env, binary)
<1> DEFINE code == IF binary THEN HashOf ELSE HandleOf
<1>1. PeerTable(TableOf(n, binary), code)
  BY DEF EnvelopeInv, PeerTables, TableOf
<1>2. ASSUME NEW q \in Peers \cup {Broadcast}, Met(n, q, binary) PROVE TellsApart(n, q, binary)
  <2>1. q # Broadcast => \A p \in TableOf(n, binary) : code[p] = code[q] => p = q
    BY <1>1, <1>2 DEF PeerTable, Met
  <2>2. TableOf(n, binary) \subseteq Peers
    BY <1>1 DEF PeerTable
  <2> QED
    BY <2>1, <2>2, PeerApart
<1> QED
  BY <1>2 DEF Discerned, Acquainted, Proper

LEMMA OriginalReturns ==
  ASSUME EnvelopeInv, NEW n \in Nodes, NEW msg, msg.from \in Nodes, msg.encoding \in Encodings, msg.newer \in BOOLEAN,
         Original(msg, shared, binding, methods, byHandle, byHash), shared \/ Foretold(n, msg)
  PROVE  Returns(decode(n, msg), msg.env, shared) /\ "corrId" \in DOMAIN msg.env
<1> DEFINE env == msg.env
           binary == IsBinary(msg)
<1>1. PICK drop \in BOOLEAN :
        /\ msg.env \in Envelopes
        /\ drop => Vouched(msg.env, msg.from, binding)
        /\ msg.encoding \in Json => JsonCarried(msg, drop)
        /\ msg.encoding \notin Json => CborCarried(msg, drop, shared, methods)
        /\ shared /\ ~ drop /\ msg.encoding # "json-full" =>
             KnownToAll(msg, IF IsBinary(msg) THEN byHash ELSE byHandle)
  BY Zenon DEF Original
<1>2. Proper(env) /\ "corrId" \in DOMAIN env /\ binary \in BOOLEAN
  BY <1>1, EnvelopesProper DEF IsBinary
<1>3. shared /\ ~ drop /\ msg.encoding # "json-full" => Acquainted(n, env, binary)
  BY <1>1 DEF KnownToAll, Acquainted, Met, TableOf
<1>4. ~ drop /\ msg.encoding # "json-full" => Discerned(n, env, binary)
  BY <1>2, <1>3, ForetoldApart, AcquaintedApart
<1>5. CASE msg.encoding \in Json
  <2>1. binary = FALSE /\ msg.wire = JsonObject(env, msg.encoding = "json-short", drop)
    BY <1>1, <1>5 DEF IsBinary, Json, JsonCarried
  <2>2. msg.encoding = "json-short" /\ ~ drop => Discerned(n, env, FALSE)
    BY <1>4, <2>1
  <2> HIDE DEF env, binary
  <2>3. Returns(decode(n, msg), env, msg.encoding = "json-short" /\ ~ drop => Acquainted(n, env, FALSE))
    BY <1>1, <1>2, <1>5, <2>1, <2>2, JsonSent DEF env
  <2>4. shared => (msg.encoding = "json-short" /\ ~ drop => Acquainted(n, env, FALSE))
    BY <1>3, <2>1
  <2> QED
    BY <1>2, <2>3, <2>4 DEF Returns, env
<1>6. CASE msg.encoding \notin Json
  <2>1. PICK id \in Nat :
          /\ Encodable(env, binary, id)
          /\ msg.wire = encodeCbor(MapItem(CborObject(env, binary, id, drop)))
          /\ env["method"] \in Range(Seed) => Labels(Seed, id, env)
          /\ shared => \A k \in Nodes : Labels(methods[k], id, env)
    BY <1>1, <1>6, Zenon DEF CborCarried
  <2>2. msg.encoding \in {"cbor-compact", "cbor-binary"} /\ binary = (msg.encoding = "cbor-binary")
        /\ msg.encoding # "json-full"
    BY <1>6 DEF Encodings, Json, IsBinary
  <2>3. MethodTable(methods[n]) /\ DOMAIN methods[n] = 1 .. Len(methods[n])
    BY LenProperties DEF EnvelopeInv, MethodTables, MethodTable
  <2>4. id + 1 \in DOMAIN methods[n] => methods[n][id + 1] = env["method"]
    <3>1. CASE shared
      BY <2>1, <3>1 DEF Labels
    <3>2. CASE ~ shared
      <4>1. env["method"] \in Range(Seed)
        <5>1. msg.env.method \in Range(Seed)
          BY <1>6, <3>2 DEF Foretold
        <5> QED
          BY <5>1
      <4>2. Labels(Seed, id, env)
        BY <2>1, <4>1
      <4> QED
        BY <2>3, <4>2 DEF Labels, MethodTable
    <3> QED
      BY <3>1, <3>2
  <2>5. shared => id + 1 \in DOMAIN methods[n]
    BY <2>1, <2>3 DEF Labels
  <2> DEFINE object == CborObject(env, binary, id, drop)
             must == id + 1 \in DOMAIN methods[n] /\ "corrId" \in DOMAIN env /\ (~ drop => Acquainted(n, env, binary))
  <2>6. shared => must
    BY <1>2, <1>3, <2>2, <2>5
  <2>7. (drop => Vouched(env, msg.from, binding)) /\ (~ drop => Discerned(n, env, binary))
    BY <1>1, <1>4, <2>2
  <2>8. object \in {CborObject(env, binary, id, drop), WithX(CborObject(env, binary, id, drop))}
        /\ msg.wire = encodeCbor(MapItem(object))
    BY <2>1
  <2> HIDE DEF env, binary, object
  <2>9. Returns(decode(n, msg), env, must)
    BY <2>1, <2>2, <2>4, <2>7, <2>8, CborSent
  <2> HIDE DEF must
  <2> QED
    BY <1>2, <2>6, <2>9 DEF Returns, env
<1> QED
  BY <1>5, <1>6

LEMMA LaterReturns ==
  ASSUME EnvelopeInv, NEW n \in Nodes, NEW msg, msg.from \in Nodes, msg.encoding \in Encodings, Later(msg)
  PROVE  /\ msg.encoding \in Json => decode(n, msg) = IF "corrId" \in DOMAIN msg.env THEN Decoded(msg.env) ELSE Threw
         /\ msg.encoding \notin Json /\ Foretold(n, msg) => Returns(decode(n, msg), msg.env, FALSE)
<1> DEFINE env == msg.env
           binary == IsBinary(msg)
           object == WithX(CborObject(env, binary, 0, FALSE))
<1>1. PICK e \in Envelopes : e["method"] = Seed[1] /\ env \in {e, Trimmed(e)}
  BY DEF Later
<1>2. Proper(env) /\ env["method"] = Seed[1] /\ binary \in BOOLEAN
  <2>1. Proper(e)
    BY EnvelopesProper
  <2>2. Proper(Trimmed(e)) /\ Trimmed(e)["method"] = e["method"]
    BY <2>1, TrimmedProper DEF Proper
  <2>3. env = e \/ env = Trimmed(e)
    BY <1>1
  <2> HIDE DEF env
  <2> QED
    BY <1>1, <2>1, <2>2, <2>3 DEF IsBinary
<1>3. CASE msg.encoding \in Json
  <2>1. msg.encoding = "json-full" /\ msg.wire = [f \in DOMAIN env \cup {"x"} |-> IF f = "x" THEN 0 ELSE env[f]]
    BY <1>3 DEF Later, Json
  <2> HIDE DEF env
  <2>2. decode(n, msg) = IF "corrId" \in DOMAIN env THEN Decoded(env) ELSE Threw
    BY <1>2, <2>1, JsonLater
  <2> QED
    BY <1>3, <2>2 DEF env
<1>4. ASSUME msg.encoding \notin Json, Foretold(n, msg) PROVE Returns(decode(n, msg), env, FALSE)
  <2>1. Encodable(env, binary, 0) /\ msg.wire = encodeCbor(MapItem(object))
    BY <1>4, Zenon DEF Later
  <2>2. msg.encoding \in {"cbor-compact", "cbor-binary"} /\ binary = (msg.encoding = "cbor-binary")
    BY <1>4 DEF Encodings, Json, IsBinary
  <2>3. Discerned(n, env, binary)
    BY <1>2, <1>4, ForetoldApart
  <2>4. methods[n][1] = env["method"]
    <3>1. MethodTable(methods[n])
      BY DEF EnvelopeInv, MethodTables
    <3>2. Len(Seed) \in Nat /\ Len(Seed) # 0
      BY SeedAssumption, LenProperties, EmptySeq
    <3>3. 1 \in 1 .. Len(Seed)
      BY <3>2
    <3> QED
      BY <1>2, <3>1, <3>3 DEF MethodTable
  <2> DEFINE id == 0
             drop == FALSE
  <2>5. id \in Nat /\ drop \in BOOLEAN /\ id + 1 = 1
    OBVIOUS
  <2>6. object \in {CborObject(env, binary, id, drop), WithX(CborObject(env, binary, id, drop))} /\ Encodable(env, binary, id)
        /\ (drop => Vouched(env, msg.from, binding)) /\ (~ drop => Discerned(n, env, binary))
    BY <2>1, <2>3
  <2>7. id + 1 \in DOMAIN methods[n] => methods[n][id + 1] = env["method"]
    BY <2>4, <2>5
  <2> HIDE DEF id, drop, object, binary, env
  <2>8. Returns(decode(n, msg), env,
           id + 1 \in DOMAIN methods[n] /\ "corrId" \in DOMAIN env /\ (~ drop => Acquainted(n, env, binary)))
    BY <2>1, <2>2, <2>5, <2>6, <2>7, CborSent
  <2> QED
    BY <2>8 DEF Returns
<1> QED
  BY <1>3, <1>4

(* Envelopes come back as they were: see EnvelopesSurvive.                 *)
THEOREM EnvelopesReturn == EnvelopeSpec => []EnvelopesSurvive
<1>1. EnvelopeInv => EnvelopesSurvive
  <2> SUFFICES ASSUME EnvelopeInv, NEW n \in Nodes, NEW k \in DOMAIN messages
               PROVE  LET msg == messages[k]
                          back == decode(n, msg)
                      IN /\ shared /\ ~ msg.newer => ~ back.threw
                         /\ ~ back.threw /\ (Foretold(n, msg) \/ (shared /\ ~ msg.newer)) => back.env = msg.env
                         /\ msg.encoding \in Json /\ "corrId" \notin DOMAIN msg.env => back.threw
    BY Zenon DEF EnvelopesSurvive
  <2> DEFINE msg == messages[k]
             back == decode(n, msg)
  <2>1. Carried(msg, shared, binding, methods, byHandle, byHash)
    BY DEF EnvelopeInv
  <2>2. msg.from \in Nodes /\ msg.encoding \in Encodings /\ msg.newer \in BOOLEAN
    BY <2>1 DEF Carried
  <2> HIDE DEF msg
  <2>3. CASE ~ msg.newer
    <3>1. Original(msg, shared, binding, methods, byHandle, byHash)
      BY <2>1, <2>3 DEF Carried
    <3>2. "corrId" \in DOMAIN msg.env
      BY <3>1, EnvelopesProper DEF Original
    <3>3. shared \/ Foretold(n, msg) => Returns(back, msg.env, shared)
      BY <2>2, <3>1, OriginalReturns
    <3> HIDE DEF back
    <3> QED
      BY <2>3, <3>2, <3>3, Outcomes DEF Returns, msg, back
  <2>4. CASE msg.newer
    <3>1. Later(msg)
      BY <2>1, <2>4 DEF Carried
    <3>2. /\ msg.encoding \in Json => back = IF "corrId" \in DOMAIN msg.env THEN Decoded(msg.env) ELSE Threw
          /\ msg.encoding \notin Json /\ Foretold(n, msg) => Returns(back, msg.env, FALSE)
      BY <2>2, <3>1, LaterReturns
    <3> HIDE DEF back
    <3> QED
      BY <2>4, <3>2, Outcomes DEF Returns, msg, back
  <2> QED
    BY <2>3, <2>4
<1> QED
  BY <1>1, MessagesCarried, PTL

(* Bytes that were cut short, or that more bytes follow, are refused,      *)
(* whatever arrives and whatever was sent: see DamageRefused.              *)
THEOREM DamageNeverRead == EnvelopeSpec /\ Utf8Spec => []DamageRefused
<1>1. EnvelopeInv /\ Utf8TypeOK => DamageRefused
  <2> SUFFICES ASSUME EnvelopeInv, Utf8TypeOK PROVE DamageRefused
    OBVIOUS
  <2>1. EndsOnce(octets)
    BY CutRefused DEF Utf8TypeOK
  <2>2. ASSUME Len(messages) = 1, messages[1].encoding \notin Json
        PROVE  decodeCbor(messages[1].wire).ok /\ EndsOnce(messages[1].wire)
    <3> DEFINE msg == messages[1]
    <3>1. 1 \in DOMAIN messages
      BY <2>2, LenProperties DEF EnvelopeInv
    <3>2. Carried(msg, shared, binding, methods, byHandle, byHash) /\ msg.encoding \notin Json
      BY <2>2, <3>1 DEF EnvelopeInv
    <3> HIDE DEF msg
    <3>3. \E object : ObjectOver(object, Values[Nesting - 1]) /\ msg.wire = encodeCbor(MapItem(object))
      <4>1. CASE msg.newer
        <5>1. Later(msg)
          BY <3>2, <4>1 DEF Carried
        <5>2. Encodable(msg.env, IsBinary(msg), 0)
              /\ msg.wire = encodeCbor(MapItem(WithX(CborObject(msg.env, IsBinary(msg), 0, FALSE))))
          BY <3>2, <5>1, Zenon DEF Later
        <5> QED
          BY <5>2, ObjectFits
      <4>2. CASE ~ msg.newer
        <5>1. PICK drop \in BOOLEAN : CborCarried(msg, drop, shared, methods)
          BY <3>2, <4>2, Zenon DEF Carried, Original
        <5>2. PICK id \in Nat :
                /\ Encodable(msg.env, IsBinary(msg), id)
                /\ msg.wire = encodeCbor(MapItem(CborObject(msg.env, IsBinary(msg), id, drop)))
          BY <5>1, Zenon DEF CborCarried
        <5> QED
          BY <5>2, ObjectFits
      <4> QED
        BY <4>1, <4>2
    <3>4. msg.wire \in Seq(Byte) /\ decodeCbor(msg.wire).ok
      BY <3>3, Unpacked DEF Unpacks
    <3>5. EndsOnce(msg.wire)
      BY <3>4, CutRefused
    <3> QED
      BY <3>4, <3>5 DEF msg
  <2> QED
    BY <2>1, <2>2 DEF DamageRefused, EndsOnce
<1> QED
  BY <1>1, MessagesCarried, Utf8Typed, PTL

-----------------------------------------------------------------------------
(* The ring. *)
USE CapacityAssumption, MaxPushesAssumption, UndefinedAssumption

(* The live items are items, in push order, and none is newer than the     *)
(* last push; evictions and live items are among the pushes.               *)
LiveInOrder ==
  /\ \A i \in 1 .. count : ToArray[i] \in 1 .. pushes
  /\ \A i, j \in 1 .. count : i < j => ToArray[i] < ToArray[j]
  /\ dropped + count <= pushes

(* What the open iterator has yet to visit is newer than what it yielded.  *)
IteratorBehind ==
  /\ \A k \in 1 .. Len(yielded) : yielded[k] \in 1 .. pushes
  /\ cursor # Undefined =>
       \A k \in 1 .. Len(yielded), i \in cursor + 1 .. count : yielded[k] < ToArray[i]

IInv == TypeOK /\ NoStaleSlot /\ LiveInOrder /\ IteratorBehind /\ IterationMovesForward

-----------------------------------------------------------------------------
LEMMA ModSmall ==
  ASSUME NEW c \in Nat \ {0}, NEW a \in Nat, a < c
  PROVE  a % c = a
  BY SMT

LEMMA ModOnce ==
  ASSUME NEW c \in Nat \ {0}, NEW a \in Nat, c <= a, a < 2 * c
  PROVE  a % c = a - c
  BY SMT

(* From any head, the slots lie in one turn of the ring. *)
LEMMA Turn ==
  ASSUME NEW h \in Slots, NEW i \in 0 .. Capacity
  PROVE  (h + i) % Capacity = IF h + i < Capacity THEN h + i ELSE h + i - Capacity
<1>1. /\ h + i \in Nat
      /\ h + i < 2 * Capacity
      /\ Capacity \in Nat \ {0}
  BY DEF Slots
<1>2. CASE h + i < Capacity
  <2>1. (h + i) % Capacity = h + i
    BY <1>1, <1>2, ModSmall
  <2> QED
    BY <1>2, <2>1
<1>3. CASE ~ (h + i < Capacity)
  <2>1. Capacity <= h + i
    BY <1>1, <1>3
  <2>2. \A a \in Nat : Capacity <= a /\ a < 2 * Capacity => a % Capacity = a - Capacity
    BY <1>1, ModOnce
  <2>3. (h + i) % Capacity = h + i - Capacity
    BY <1>1, <2>1, <2>2 DEF Slots
  <2> QED
    BY <1>3, <2>3
<1> QED
  BY <1>2, <1>3

LEMMA SlotOfTurn ==
  ASSUME head \in Slots, NEW i \in 0 .. Capacity - 1
  PROVE  /\ SlotOf(i) = IF head + i < Capacity THEN head + i ELSE head + i - Capacity
         /\ SlotOf(i) \in Slots
<1>1. i \in 0 .. Capacity
  OBVIOUS
<1>2. SlotOf(i) = IF head + i < Capacity THEN head + i ELSE head + i - Capacity
  BY <1>1, Turn DEF SlotOf
<1> QED
  BY <1>2 DEF Slots

LEMMA SlotOfInjective ==
  ASSUME head \in Slots, NEW i \in 0 .. Capacity - 1, NEW j \in 0 .. Capacity - 1,
         SlotOf(i) = SlotOf(j)
  PROVE  i = j
  BY SlotOfTurn DEF Slots

LEMMA TurnOnto ==
  ASSUME NEW h \in Slots, NEW s \in Slots
  PROVE  \E i \in 0 .. Capacity - 1 : s = (h + i) % Capacity
<1> DEFINE i == IF h <= s THEN s - h ELSE s - h + Capacity
<1>1. i \in 0 .. Capacity - 1
  BY DEF Slots
<1>2. s = IF h + i < Capacity THEN h + i ELSE h + i - Capacity
  BY DEF Slots
<1> HIDE DEF i
<1>3. i \in 0 .. Capacity
  BY <1>1
<1>4. s = (h + i) % Capacity
  BY <1>2, <1>3, Turn
<1> QED
  BY <1>1, <1>4

(* A push onto a full ring moves every item one place towards the head and *)
(* puts the new one last.                                                  *)
LEMMA PushFullMoves ==
  ASSUME TypeOK, PushFull
  PROVE  /\ head' \in Slots
         /\ ToArray' = [i \in 1 .. Capacity |-> IF i = Capacity THEN pushes + 1
                                                                ELSE ToArray[i + 1]]
<1>1. /\ head \in Slots /\ count = Capacity /\ buf \in [Slots -> Items \cup {Undefined}]
      /\ buf' = [buf EXCEPT ![head] = pushes + 1]
      /\ count' = Capacity
  BY DEF TypeOK, PushFull
<1>2. head' = IF head + 1 < Capacity THEN head + 1 ELSE head + 1 - Capacity
  BY <1>1, Turn DEF PushFull, NextHead
<1>3. head' \in Slots
  BY <1>1, <1>2 DEF Slots
<1>4. \A i \in 0 .. Capacity - 1 :
        SlotOf(i)' = IF head' + i < Capacity THEN head' + i ELSE head' + i - Capacity
  <2> TAKE i \in 0 .. Capacity - 1
  <2>1. i \in 0 .. Capacity
    OBVIOUS
  <2> QED
    BY <1>3, <2>1, Turn DEF SlotOf
<1>5. ASSUME NEW i \in 1 .. Capacity
      PROVE  ToArray'[i] = IF i = Capacity THEN pushes + 1 ELSE ToArray[i + 1]
  <2>1. ToArray'[i] = buf'[SlotOf(i - 1)']
    BY <1>1 DEF ToArray, SlotOf
  <2>2. CASE i = Capacity
    <3>1. SlotOf(i - 1)' = head
      BY <1>1, <1>2, <1>4, <2>2 DEF Slots
    <3> QED
      BY <1>1, <2>1, <2>2, <3>1
  <2>3. CASE i # Capacity
    <3>1. i \in 0 .. Capacity - 1 /\ i - 1 \in 0 .. Capacity - 1
      BY <2>3
    <3>2. /\ SlotOf(i) = IF head + i < Capacity THEN head + i ELSE head + i - Capacity
          /\ SlotOf(i) \in Slots
      BY <1>1, <3>1, SlotOfTurn
    <3>3. SlotOf(i - 1)' = SlotOf(i) /\ SlotOf(i) # head
      BY <1>1, <1>2, <1>4, <3>1, <3>2 DEF Slots
    <3>4. ToArray[i + 1] = buf[SlotOf(i)]
      BY <1>1, <3>1 DEF ToArray
    <3> QED
      BY <1>1, <2>1, <2>3, <3>2, <3>3, <3>4
  <2> QED
    BY <2>2, <2>3
<1>6. ToArray' = [i \in 1 .. Capacity |-> ToArray'[i]]
  BY <1>1 DEF ToArray
<1> QED
  BY <1>3, <1>5, <1>6

(* A push onto a ring with room leaves every item in place and adds one.   *)
LEMMA PushFreeMoves ==
  ASSUME TypeOK, PushFree
  PROVE  /\ count + 1 \in 1 .. Capacity
         /\ SlotOf(count) \in Slots
         /\ ToArray' = [i \in 1 .. count + 1 |-> IF i = count + 1 THEN pushes + 1
                                                                  ELSE ToArray[i]]
<1>1. /\ head \in Slots /\ count \in 0 .. Capacity - 1
      /\ buf \in [Slots -> Items \cup {Undefined}]
      /\ head' = head
      /\ count' = count + 1
      /\ buf' = [buf EXCEPT ![SlotOf(count)] = pushes + 1]
  BY DEF TypeOK, PushFree
<1>2. SlotOf(count) \in Slots
  BY <1>1, SlotOfTurn
<1>3. ASSUME NEW i \in 1 .. count + 1
      PROVE  ToArray'[i] = IF i = count + 1 THEN pushes + 1 ELSE ToArray[i]
  <2>1. ToArray'[i] = buf'[SlotOf(i - 1)]
    BY <1>1 DEF ToArray, SlotOf
  <2>2. CASE i = count + 1
    <3>1. i - 1 = count
      BY <1>1, <2>2
    <3> QED
      BY <1>1, <1>2, <2>1, <2>2, <3>1
  <2>3. CASE i # count + 1
    <3>1. i - 1 \in 0 .. Capacity - 1 /\ i - 1 # count /\ i \in 1 .. count
      BY <1>1, <2>3
    <3>2. SlotOf(i - 1) \in Slots /\ SlotOf(i - 1) # SlotOf(count)
      BY <1>1, <3>1, SlotOfTurn, SlotOfInjective
    <3>3. ToArray[i] = buf[SlotOf(i - 1)]
      BY <3>1 DEF ToArray
    <3> QED
      BY <1>1, <2>1, <2>3, <3>2, <3>3
  <2> QED
    BY <2>2, <2>3
<1>4. ToArray' = [i \in 1 .. count + 1 |-> ToArray'[i]]
  BY <1>1 DEF ToArray
<1> QED
  BY <1>1, <1>2, <1>3, <1>4

(* Either way the new item is last, and a shift of one evicts the first.   *)
LEMMA PushMoves ==
  ASSUME TypeOK, Push
  PROVE  \E shift \in {0, 1} :
           /\ shift <= count
           /\ count' = count + 1 - shift
           /\ count' \in 1 .. Capacity
           /\ shift = 1 <=> count = Capacity
           /\ dropped' = dropped + shift
           /\ ToArray' = [i \in 1 .. count' |-> IF i = count' THEN pushes + 1
                                                              ELSE ToArray[i + shift]]
<1>1. count \in 0 .. Capacity
  BY DEF TypeOK
<1>2. CASE PushFull
  <2>1. count = Capacity /\ count' = Capacity /\ dropped' = dropped + 1
    BY <1>2 DEF PushFull
  <2>2. ToArray' = [i \in 1 .. count' |-> IF i = count' THEN pushes + 1 ELSE ToArray[i + 1]]
    BY <1>2, <2>1, PushFullMoves
  <2> QED
    BY <1>1, <2>1, <2>2
<1>3. CASE PushFree
  <2>1. count # Capacity /\ count' = count + 1 /\ dropped' = dropped
    BY <1>3 DEF PushFree
  <2>2. ToArray' = [i \in 1 .. count' |-> IF i = count' THEN pushes + 1 ELSE ToArray[i]]
    BY <1>3, <2>1, PushFreeMoves
  <2>3. ToArray' = [i \in 1 .. count' |-> IF i = count' THEN pushes + 1 ELSE ToArray[i + 0]]
    BY <1>1, <2>1, <2>2
  <2>4. dropped' = dropped + 0
    BY <2>1 DEF TypeOK
  <2> QED
    BY <1>1, <2>1, <2>3, <2>4
<1> QED
  BY <1>2, <1>3 DEF Push

-----------------------------------------------------------------------------
LEMMA InitHolds == Init => IInv
<1> SUFFICES ASSUME Init PROVE IInv
  OBVIOUS
<1>1. TypeOK
  BY DEF Init, TypeOK, Slots, Items
<1>2. NoStaleSlot
  BY DEF Init, NoStaleSlot
<1>3. LiveInOrder /\ IteratorBehind /\ IterationMovesForward
  BY DEF Init, LiveInOrder, IteratorBehind, IterationMovesForward
<1> QED
  BY <1>1, <1>2, <1>3 DEF IInv
LEMMA PushKeeps ==
  ASSUME IInv, Push
  PROVE  IInv'
<1>1. /\ TypeOK /\ NoStaleSlot /\ LiveInOrder /\ IteratorBehind /\ IterationMovesForward
      /\ pushes' = pushes + 1 /\ pushes < MaxPushes
      /\ UNCHANGED <<drained, cursor, yielded>>
  BY DEF IInv, Push, iterVars
<1>2. /\ count \in 0 .. Capacity /\ pushes \in Nat /\ dropped \in Nat
      /\ yielded \in Seq(Items) /\ cursor \in Nat \cup {Undefined}
      /\ head \in Slots /\ buf \in [Slots -> Items \cup {Undefined}]
  BY <1>1 DEF TypeOK
<1>3. PICK shift \in {0, 1} :
        /\ shift <= count
        /\ count' = count + 1 - shift
        /\ count' \in 1 .. Capacity
        /\ shift = 1 <=> count = Capacity
        /\ dropped' = dropped + shift
        /\ ToArray' = [i \in 1 .. count' |-> IF i = count' THEN pushes + 1
                                                           ELSE ToArray[i + shift]]
  BY <1>1, PushMoves
<1>4. \A i \in 1 .. count' - 1 : i + shift \in 1 .. count /\ ToArray'[i] = ToArray[i + shift]
  BY <1>2, <1>3
<1>5. ToArray'[count'] = pushes + 1
  BY <1>2, <1>3
<1>6. \A i \in 1 .. count : ToArray[i] \in 1 .. pushes
  BY <1>1 DEF LiveInOrder
<1>7. LiveInOrder'
  <2>1. \A i \in 1 .. count' : ToArray'[i] \in 1 .. pushes'
    BY <1>1, <1>2, <1>3, <1>4, <1>5, <1>6
  <2>2. ASSUME NEW i \in 1 .. count', NEW j \in 1 .. count', i < j
        PROVE  ToArray'[i] < ToArray'[j]
    <3>1. i \in 1 .. count' - 1 /\ i + shift \in 1 .. count /\ ToArray'[i] = ToArray[i + shift]
      <4>1. i \in 1 .. count' - 1
        BY <1>3, <2>2
      <4> QED
        BY <1>4, <4>1
    <3>2. CASE j = count'
      BY <1>2, <1>5, <1>6, <3>1, <3>2
    <3>3. CASE j # count'
      <4>1. j \in 1 .. count' - 1 /\ j + shift \in 1 .. count /\ ToArray'[j] = ToArray[j + shift]
        <5>1. j \in 1 .. count' - 1
          BY <1>3, <2>2, <3>3
        <5> QED
          BY <1>4, <5>1
      <4>2. i + shift < j + shift
        BY <1>3, <2>2
      <4> QED
        BY <1>1, <3>1, <4>1, <4>2 DEF LiveInOrder
    <3> QED
      BY <3>2, <3>3
  <2>3. dropped' + count' <= pushes'
    BY <1>1, <1>2, <1>3 DEF LiveInOrder
  <2> QED
    BY <2>1, <2>2, <2>3 DEF LiveInOrder
<1>8. IteratorBehind'
  <2>1. \A k \in 1 .. Len(yielded) : yielded[k] \in 1 .. pushes
    BY <1>1 DEF IteratorBehind
  <2>2. ASSUME cursor # Undefined, NEW k \in 1 .. Len(yielded), NEW i \in cursor + 1 .. count'
        PROVE  yielded[k] < ToArray'[i]
    <3>1. CASE i = count'
      BY <1>2, <1>5, <2>1, <2>2, <3>1
    <3>2. CASE i # count'
      <4>1. i \in 1 .. count' - 1 /\ i + shift \in cursor + 1 .. count
        BY <1>2, <1>3, <2>2, <3>2
      <4> QED
        BY <1>1, <1>4, <2>2, <4>1 DEF IteratorBehind
    <3> QED
      BY <3>1, <3>2
  <2> QED
    BY <1>1, <1>2, <2>1, <2>2 DEF IteratorBehind
<1>9. TypeOK' /\ NoStaleSlot'
  <2>1. /\ dropped' \in 0 .. MaxPushes /\ pushes' \in 0 .. MaxPushes /\ count' \in 0 .. Capacity
        /\ pushes + 1 \in Items
    BY <1>1, <1>2, <1>3, <1>7 DEF LiveInOrder, Items
  <2>2. CASE PushFull
    <3>1. head' \in Slots /\ count' = Capacity /\ buf' = [buf EXCEPT ![head] = pushes + 1]
      BY <1>1, <2>2, PushFullMoves DEF PushFull
    <3>2. TypeOK'
      BY <1>1, <1>2, <2>1, <3>1 DEF TypeOK
    <3>3. NoStaleSlot'
      BY <3>1, TurnOnto DEF NoStaleSlot, SlotOf
    <3> QED
      BY <3>2, <3>3
  <2>3. CASE PushFree
    <3>1. /\ SlotOf(count) \in Slots /\ head' = head /\ count' = count + 1
          /\ buf' = [buf EXCEPT ![SlotOf(count)] = pushes + 1]
      BY <1>1, <2>3, PushFreeMoves DEF PushFree
    <3>2. TypeOK'
      BY <1>1, <1>2, <2>1, <3>1 DEF TypeOK
    <3>3. ASSUME NEW s \in Slots, buf'[s] # Undefined
          PROVE  \E i \in 0 .. count : s = SlotOf(i)
      <4>1. CASE s = SlotOf(count)
        BY <1>2, <4>1
      <4>2. CASE s # SlotOf(count)
        <5>1. PICK i \in 0 .. count - 1 : s = SlotOf(i)
          BY <1>1, <1>2, <3>1, <3>3, <4>2 DEF NoStaleSlot
        <5> QED
          BY <1>2, <5>1
      <4> QED
        BY <4>1, <4>2
    <3>4. NoStaleSlot'
      <4>1. count' - 1 = count
        BY <1>2, <3>1
      <4> QED
        BY <3>1, <3>3, <4>1 DEF NoStaleSlot, SlotOf
    <3> QED
      BY <3>2, <3>4
  <2> QED
    BY <2>2, <2>3 DEF Push
<1>10. IterationMovesForward'
  BY <1>1 DEF IterationMovesForward
<1> QED
  BY <1>7, <1>8, <1>9, <1>10 DEF IInv

(* clear(), and the clear() that ends a drain(). *)
LEMMA ClearKeeps ==
  ASSUME IInv, buf' = Vacate, head' = 0, count' = 0, drained' \in Seq(Items),
         UNCHANGED <<dropped, pushes, iterVars>>
  PROVE  IInv'
<1>1. /\ TypeOK /\ NoStaleSlot /\ LiveInOrder /\ IteratorBehind /\ IterationMovesForward
      /\ UNCHANGED <<cursor, yielded>>
  BY DEF IInv, iterVars
<1>2. \A s \in Slots : buf'[s] = Undefined
  BY <1>1 DEF Vacate, NoStaleSlot
<1>3. TypeOK'
  <2>1. buf' \in [Slots -> Items \cup {Undefined}]
    BY <1>2 DEF Vacate
  <2> QED
    BY <1>1, <2>1 DEF TypeOK, Slots
<1>4. NoStaleSlot'
  BY <1>2 DEF NoStaleSlot
<1>5. LiveInOrder'
  BY <1>1 DEF TypeOK, LiveInOrder
<1>6. IteratorBehind'
  BY <1>1 DEF TypeOK, IteratorBehind
<1>7. IterationMovesForward'
  BY <1>1 DEF IterationMovesForward
<1> QED
  BY <1>3, <1>4, <1>5, <1>6, <1>7 DEF IInv

LEMMA ToArrayType ==
  ASSUME TypeOK, LiveInOrder
  PROVE  /\ ToArray \in Seq(Items)
         /\ Len(ToArray) = count
<1>1. /\ count \in Nat /\ pushes \in 0 .. MaxPushes
  BY DEF TypeOK
<1>2. \A i \in 1 .. count : ToArray[i] \in Items
  BY <1>1 DEF LiveInOrder, Items
<1>3. ToArray = [i \in 1 .. count |-> ToArray[i]]
  BY DEF ToArray
<1> QED
  BY <1>1, <1>2, <1>3

LEMMA IterNextKeeps ==
  ASSUME IInv, IterNext
  PROVE  IInv'
<1>1. /\ TypeOK /\ NoStaleSlot /\ LiveInOrder /\ IteratorBehind /\ IterationMovesForward
      /\ cursor # Undefined /\ cursor < count /\ cursor' = cursor + 1
      /\ yielded' = Append(yielded, buf[SlotOf(cursor)])
      /\ UNCHANGED ringVars
  BY DEF IInv, IterNext
<1>2. /\ count \in Nat /\ cursor \in Nat /\ yielded \in Seq(Items) /\ pushes \in 0 .. MaxPushes
      /\ Len(yielded) \in Nat
  BY <1>1 DEF TypeOK
<1>3. cursor + 1 \in 1 .. count /\ buf[SlotOf(cursor)] = ToArray[cursor + 1]
  BY <1>1, <1>2 DEF ToArray
<1> DEFINE item == ToArray[cursor + 1]
<1>4. item \in 1 .. pushes /\ item \in Items
  BY <1>1, <1>2, <1>3 DEF LiveInOrder, Items
<1>5. \A k \in 1 .. Len(yielded) : yielded[k] \in 1 .. pushes /\ yielded[k] < item
  BY <1>1, <1>2, <1>3 DEF IteratorBehind
<1>6. \A i \in cursor + 2 .. count : item < ToArray[i]
  BY <1>1, <1>2, <1>3 DEF LiveInOrder
<1> HIDE DEF item
<1>7. yielded' = Append(yielded, item)
  BY <1>1, <1>3 DEF item
<1>8. /\ yielded' \in Seq(Items) /\ Len(yielded') = Len(yielded) + 1
      /\ \A k \in 1 .. Len(yielded) : yielded'[k] = yielded[k]
      /\ yielded'[Len(yielded) + 1] = item
  BY <1>2, <1>4, <1>7
<1>9. ToArray' = ToArray
  BY <1>1 DEF ToArray, SlotOf, ringVars
<1>10. TypeOK' /\ NoStaleSlot' /\ LiveInOrder'
  BY <1>1, <1>2, <1>8, <1>9 DEF TypeOK, NoStaleSlot, LiveInOrder, SlotOf, ringVars
<1>11. IteratorBehind'
  <2>1. \A k \in 1 .. Len(yielded) + 1 : yielded'[k] \in 1 .. pushes
    BY <1>2, <1>4, <1>5, <1>8
  <2>2. ASSUME NEW k \in 1 .. Len(yielded) + 1, NEW i \in cursor + 2 .. count
        PROVE  yielded'[k] < ToArray[i]
    <3>1. i \in cursor + 1 .. count
      BY <1>2
    <3>2. CASE k = Len(yielded) + 1
      BY <1>6, <1>8, <3>2
    <3>3. CASE k # Len(yielded) + 1
      BY <1>1, <1>2, <1>8, <3>1, <3>3 DEF IteratorBehind
    <3> QED
      BY <3>2, <3>3
  <2>3. cursor' + 1 = cursor + 2 /\ pushes' = pushes /\ count' = count
    BY <1>1, <1>2 DEF ringVars
  <2> QED
    BY <1>8, <1>9, <2>1, <2>2, <2>3 DEF IteratorBehind
<1>12. IterationMovesForward'
  <2>1. ASSUME NEW i \in 1 .. Len(yielded) + 1, NEW j \in 1 .. Len(yielded) + 1
        PROVE  yielded'[i] \in Items /\ (i < j => yielded'[i] < yielded'[j])
    <3>1. yielded'[i] \in Items
      BY <1>8
    <3>2. CASE j = Len(yielded) + 1
      BY <1>2, <1>5, <1>8, <3>1, <3>2
    <3>3. CASE j # Len(yielded) + 1
      BY <1>1, <1>2, <1>8, <3>1, <3>3 DEF IterationMovesForward
    <3> QED
      BY <3>2, <3>3
  <2> QED
    BY <1>8, <2>1 DEF IterationMovesForward
<1> QED
  BY <1>10, <1>11, <1>12 DEF IInv

LEMMA NextKeeps == IInv /\ [Next]_vars => IInv'
<1> SUFFICES ASSUME IInv, [Next]_vars PROVE IInv'
  OBVIOUS
<1>1. CASE Push
  BY <1>1, PushKeeps
<1>2. CASE Clear
  <2>1. drained' \in Seq(Items)
    BY <1>2 DEF Clear, IInv, TypeOK
  <2> QED
    BY <1>2, <2>1, ClearKeeps DEF Clear
<1>3. CASE Drain
  <2>1. drained' \in Seq(Items)
    BY <1>3, ToArrayType DEF Drain, IInv
  <2> QED
    BY <1>3, <2>1, ClearKeeps DEF Drain
<1>4. CASE IterOpen
  BY <1>4 DEF IterOpen, ringVars, IInv, TypeOK, NoStaleSlot, LiveInOrder, IteratorBehind,
              IterationMovesForward, ToArray, SlotOf
<1>5. CASE IterNext
  BY <1>5, IterNextKeeps
<1>6. CASE IterDone
  BY <1>6 DEF IterDone, ringVars, IInv, TypeOK, NoStaleSlot, LiveInOrder, IteratorBehind,
              IterationMovesForward, ToArray, SlotOf
<1>7. CASE UNCHANGED vars
  BY <1>7 DEF vars, ringVars, iterVars, IInv, TypeOK, NoStaleSlot, LiveInOrder,
              IteratorBehind, IterationMovesForward, ToArray, SlotOf
<1> QED
  BY <1>1, <1>2, <1>3, <1>4, <1>5, <1>6, <1>7 DEF Next

THEOREM Invariance == Spec => []IInv
  BY InitHolds, NextKeeps, PTL DEF Spec

(* The ring's state keeps its type, for every capacity. *)
THEOREM TypeCorrect == Spec => []TypeOK
<1>1. IInv => TypeOK
  BY DEF IInv
<1> QED
  BY <1>1, Invariance, PTL

(* A slot that holds no live item holds nothing, for every capacity. *)
THEOREM NothingStale == Spec => []NoStaleSlot
<1>1. IInv => NoStaleSlot
  BY DEF IInv
<1> QED
  BY <1>1, Invariance, PTL

(* An iteration yields real items, each newer than the one before, however *)
(* its consumer pushes, clears and drains in between.                      *)
THEOREM Iteration == Spec => []IterationMovesForward
<1>1. IInv => IterationMovesForward
  BY DEF IInv
<1> QED
  BY <1>1, Invariance, PTL

-----------------------------------------------------------------------------
LEMMA AbstractPush ==
  ASSUME IInv, Push
  PROVE  Abstract!Push
<1>1. /\ TypeOK /\ LiveInOrder
      /\ pushes' = pushes + 1 /\ pushes < MaxPushes /\ drained' = drained
  BY DEF IInv, Push
<1>2. count \in 0 .. Capacity /\ pushes \in Nat /\ pushes + 1 \in Items /\ dropped \in Nat
  BY <1>1 DEF TypeOK, Items
<1>3. PICK shift \in {0, 1} :
        /\ shift <= count
        /\ count' = count + 1 - shift
        /\ count' \in 1 .. Capacity
        /\ shift = 1 <=> count = Capacity
        /\ dropped' = dropped + shift
        /\ ToArray' = [i \in 1 .. count' |-> IF i = count' THEN pushes + 1
                                                           ELSE ToArray[i + shift]]
  BY <1>1, PushMoves
<1> DEFINE long == Append(ToArray, pushes + 1)
<1>4. /\ long \in Seq(Items) /\ Len(long) = count + 1
      /\ \A i \in 1 .. count : long[i] = ToArray[i]
      /\ long[count + 1] = pushes + 1
  BY <1>1, <1>2, ToArrayType
<1> HIDE DEF long
<1>5. /\ Newest(long, Capacity) \in Seq(Items)
      /\ Len(Newest(long, Capacity)) + Excess(long, Capacity) = count + 1
      /\ Excess(long, Capacity) \in Nat
  BY <1>4, NewestBounded
<1>6. Excess(long, Capacity) = shift
  BY <1>2, <1>3, <1>4 DEF Excess
<1>7. Len(Newest(long, Capacity)) = count'
  BY <1>2, <1>3, <1>5, <1>6
<1>8. ASSUME NEW i \in 1 .. count'
      PROVE  Newest(long, Capacity)[i] = ToArray'[i]
  <2>1. /\ i + shift \in 1 .. count + 1
        /\ Newest(long, Capacity)[i] = long[i + shift]
    BY <1>4, <1>6, <1>7, NewestElement
  <2>2. CASE i = count'
    BY <1>2, <1>3, <1>4, <2>1, <2>2
  <2>3. CASE i # count'
    BY <1>2, <1>3, <1>4, <2>1, <2>3
  <2> QED
    BY <2>2, <2>3
<1>9. ToArray' = Newest(long, Capacity)
  BY <1>3, <1>5, <1>7, <1>8
<1>10. dropped' = dropped + Excess(long, Capacity)
  BY <1>3, <1>6
<1> QED
  BY <1>1, <1>9, <1>10 DEF Abstract!Push, Abstract!Newest, Abstract!Excess, Newest, Excess, long

LEMMA AbstractStep == IInv /\ [Next]_vars => [Abstract!Next]_(Abstract!vars)
<1> SUFFICES ASSUME IInv, [Next]_vars PROVE [Abstract!Next]_(Abstract!vars)
  OBVIOUS
<1>1. CASE Push
  BY <1>1, AbstractPush DEF Abstract!Next
<1>2. ASSUME Clear \/ Drain PROVE ToArray' = <<>>
  BY <1>2 DEF Clear, Drain, ToArray
<1>3. CASE Clear
  BY <1>2, <1>3 DEF Clear, Abstract!Clear, Abstract!Next
<1>4. CASE Drain
  BY <1>2, <1>4 DEF Drain, Abstract!Drain, Abstract!Next
<1>5. CASE IterOpen \/ IterNext \/ IterDone \/ UNCHANGED vars
  BY <1>5 DEF IterOpen, IterNext, IterDone, vars, ringVars, ToArray, SlotOf, Abstract!vars
<1> QED
  BY <1>1, <1>3, <1>4, <1>5 DEF Next

(* The ring implements the bounded queue: after any wrap-around, clear or  *)
(* drain toArray() is the newest items in push order, and dropped counts   *)
(* the evictions, for every capacity.                                      *)
THEOREM Refinement == Spec => RingIsBoundedFifo
<1>1. Init => Abstract!Init
  BY DEF Init, Abstract!Init, ToArray
<1> QED
  BY <1>1, AbstractStep, Invariance, PTL DEF Spec, RingIsBoundedFifo, Abstract!Spec
=============================================================================
