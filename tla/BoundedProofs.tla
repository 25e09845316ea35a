---------------------------- MODULE BoundedProofs ----------------------------
(***************************************************************************)
(* Facts about the bounded sequences of module Bounded, the filter of      *)
(* module Selection and the digits of module Numerals, and the least       *)
(* element of a set of naturals, from which the other proofs argue where   *)
(* they would otherwise need an induction.                                 *)
(***************************************************************************)
EXTENDS Bounded, Selection, Numerals, Integers, Functions, SequenceTheorems, WellFoundedInduction, TLAPS

(* A non-empty set of naturals has a least element: induction as a choice  *)
(* of the minimal counterexample.                                          *)
LEMMA LeastElement ==
  ASSUME NEW S \in SUBSET Nat, S # {}
  PROVE  \E n \in S : \A m \in S : n <= m
<1>1. IsWellFoundedOn(OpToRel(<, Nat), Nat)
  BY NatLessThanWellFounded
<1>2. PICK n \in S : \A m \in S : ~ (<<m, n>> \in OpToRel(<, Nat))
  BY <1>1, WFMin
<1>3. \A m \in S : ~ (m < n)
  BY <1>2 DEF OpToRel
<1> QED
  BY <1>3

(* What holds at 0, and at each number if at the one before, holds up to n.*)
LEMMA Stepwise ==
  ASSUME NEW n \in Nat, NEW G, 0 \in G, \A k \in 1 .. n : k - 1 \in G => k \in G
  PROVE  \A k \in 0 .. n : k \in G
<1> DEFINE Missed == {k \in 0 .. n : k \notin G}
<1>1. SUFFICES ASSUME Missed # {} PROVE FALSE
  OBVIOUS
<1>2. Missed \in SUBSET Nat
  OBVIOUS
<1>3. PICK k \in Missed : \A m \in Missed : k <= m
  BY <1>1, <1>2, LeastElement
<1>4. k \in 1 .. n /\ k - 1 \in 0 .. n /\ ~ (k <= k - 1)
  OBVIOUS
<1> QED
  BY <1>3, <1>4

(* Newest keeps a sequence within its limit and drops exactly the excess.  *)
LEMMA NewestBounded ==
  ASSUME NEW T, NEW s \in Seq(T), NEW n \in Nat
  PROVE  /\ Newest(s, n) \in Seq(T)
         /\ Len(Newest(s, n)) <= n
         /\ Excess(s, n) \in Nat
         /\ Len(Newest(s, n)) + Excess(s, n) = Len(s)
<1>1. CASE Len(s) <= n
  BY <1>1 DEF Newest, Excess
<1>2. CASE Len(s) > n
  <2>1. /\ Len(s) - n + 1 \in 1 .. Len(s) + 1
        /\ Len(s) \in Nat
    BY <1>2
  <2>2. /\ SubSeq(s, Len(s) - n + 1, Len(s)) \in Seq(T)
        /\ Len(SubSeq(s, Len(s) - n + 1, Len(s))) = n
    BY <2>1, SubSeqProperties
  <2> QED
    BY <1>2, <2>2 DEF Newest, Excess
<1> QED
  BY <1>1, <1>2

(* Newest s is s with a prefix cut off. *)
LEMMA NewestElement ==
  ASSUME NEW T, NEW s \in Seq(T), NEW n \in Nat,
         NEW i \in 1 .. Len(Newest(s, n))
  PROVE  /\ i + Excess(s, n) \in 1 .. Len(s)
         /\ Newest(s, n)[i] = s[i + Excess(s, n)]
<1>1. CASE Len(s) <= n
  BY <1>1 DEF Newest, Excess
<1>2. CASE Len(s) > n
  <2>1. /\ Len(s) - n + 1 \in 1 .. Len(s) + 1
        /\ Len(s) \in Nat
    BY <1>2
  <2>2. /\ Len(SubSeq(s, Len(s) - n + 1, Len(s))) = n
        /\ \A k \in 1 .. n : SubSeq(s, Len(s) - n + 1, Len(s))[k]
                               = s[Len(s) - n + 1 + k - 1]
    BY <2>1, SubSeqProperties
  <2>3. Newest(s, n) = SubSeq(s, Len(s) - n + 1, Len(s)) /\ Excess(s, n) = Len(s) - n
    BY <1>2 DEF Newest, Excess
  <2>4. i \in 1 .. n
    BY <2>2, <2>3
  <2>5. Len(s) - n + 1 + i - 1 = i + (Len(s) - n)
    BY <2>1, <2>4
  <2> QED
    BY <1>2, <2>1, <2>2, <2>3, <2>4, <2>5
<1> QED
  BY <1>1, <1>2

(* Cutting a prefix off an injective sequence leaves it injective. *)
LEMMA NewestInjective ==
  ASSUME NEW T, NEW s \in Seq(T), NEW n \in Nat, IsInjective(s)
  PROVE  IsInjective(Newest(s, n))
<1>1. Newest(s, n) \in Seq(T) /\ Excess(s, n) \in Nat
  BY NewestBounded
<1>2. SUFFICES ASSUME NEW i \in 1 .. Len(Newest(s, n)),
                      NEW j \in 1 .. Len(Newest(s, n)),
                      Newest(s, n)[i] = Newest(s, n)[j]
               PROVE  i = j
  BY <1>1 DEF IsInjective
<1>3. /\ i + Excess(s, n) \in 1 .. Len(s)
      /\ j + Excess(s, n) \in 1 .. Len(s)
      /\ s[i + Excess(s, n)] = s[j + Excess(s, n)]
  BY <1>2, NewestElement
<1>4. i + Excess(s, n) = j + Excess(s, n)
  BY <1>3 DEF IsInjective
<1> QED
  BY <1>1, <1>4

(* Appending an element that does not occur keeps a sequence injective. *)
LEMMA AppendFresh ==
  ASSUME NEW T, NEW s \in Seq(T), NEW x \in T, IsInjective(s), x \notin Range(s)
  PROVE  IsInjective(Append(s, x))
<1>1. /\ Append(s, x) \in Seq(T)
      /\ Len(Append(s, x)) = Len(s) + 1
      /\ \A i \in 1 .. Len(s) : Append(s, x)[i] = s[i]
      /\ Append(s, x)[Len(s) + 1] = x
  BY AppendProperties
<1>2. Len(s) \in Nat /\ DOMAIN s = 1 .. Len(s)
  BY LenProperties
<1>3. \A i \in 1 .. Len(s) : s[i] # x
  BY <1>2 DEF Range
<1>4. SUFFICES ASSUME NEW i \in 1 .. Len(s) + 1, NEW j \in 1 .. Len(s) + 1,
                      Append(s, x)[i] = Append(s, x)[j]
               PROVE  i = j
  BY <1>1 DEF IsInjective
<1>5. CASE i \in 1 .. Len(s) /\ j \in 1 .. Len(s)
  BY <1>1, <1>2, <1>4, <1>5 DEF IsInjective
<1>6. CASE i = Len(s) + 1 \/ j = Len(s) + 1
  BY <1>1, <1>2, <1>3, <1>4, <1>6
<1> QED
  BY <1>2, <1>5, <1>6

LEMMA RangeAppend ==
  ASSUME NEW T, NEW s \in Seq(T), NEW x \in T
  PROVE  Range(Append(s, x)) = Range(s) \cup {x}
<1> DEFINE r == Append(s, x)
<1>1. /\ r \in Seq(T) /\ Len(r) = Len(s) + 1
      /\ \A i \in 1 .. Len(s) : r[i] = s[i]
      /\ r[Len(s) + 1] = x
  BY AppendProperties
<1>2. Len(s) \in Nat /\ DOMAIN s = 1 .. Len(s) /\ DOMAIN r = 1 .. Len(s) + 1
  BY <1>1, LenProperties
<1> HIDE DEF r
<1>3. 1 .. Len(s) + 1 = 1 .. Len(s) \cup {Len(s) + 1}
  BY <1>2
<1>4. Range(r) = Range(s) \cup {x}
  BY <1>1, <1>2, <1>3 DEF Range
<1> QED
  BY <1>4 DEF r

LEMMA RangeNewest ==
  ASSUME NEW T, NEW s \in Seq(T), NEW n \in Nat
  PROVE  Range(Newest(s, n)) \subseteq Range(s)
<1>1. Newest(s, n) \in Seq(T)
  BY NewestBounded
<1>2. DOMAIN Newest(s, n) = 1 .. Len(Newest(s, n)) /\ DOMAIN s = 1 .. Len(s)
  BY <1>1, LenProperties
<1>3. \A i \in 1 .. Len(Newest(s, n)) : \E j \in 1 .. Len(s) : Newest(s, n)[i] = s[j]
  BY NewestElement
<1> QED
  BY <1>2, <1>3 DEF Range

(* Concatenation, part by part. *)
Concatenates(both, u, v, T) ==
  /\ both \in Seq(T) /\ Len(both) = Len(u) + Len(v)
  /\ \A k \in 1 .. Len(u) : both[k] = u[k]
  /\ \A k \in 1 .. Len(v) : both[Len(u) + k] = v[k]

LEMMA ConcatParts ==
  ASSUME NEW T, NEW u \in Seq(T), NEW v \in Seq(T)
  PROVE  Concatenates(u \o v, u, v, T)
  BY DEF Concatenates

Regroups(u, v, x) == (u \o v) \o x = u \o (v \o x)

LEMMA Regrouped ==
  ASSUME NEW T, NEW u \in Seq(T), NEW v \in Seq(T), NEW x \in Seq(T)
  PROVE  Regroups(u, v, x)
  BY ConcatAssociative DEF Regroups

(* A function defined by steps from its start exists, one place at a time. *)
Follows(T, n, start, step) ==
  \E f \in [0 .. n -> T] : f[0] = start /\ \A i \in 1 .. n : f[i] = step[i][f[i - 1]]

LEMMA Iterates ==
  ASSUME NEW T, NEW n \in Nat, NEW start \in T, NEW step \in [1 .. n -> [T -> T]]
  PROVE  Follows(T, n, start, step)
<1> DEFINE Upto(f, k) == /\ f \in [0 .. k -> T] /\ f[0] = start
                         /\ \A i \in 1 .. k : f[i] = step[i][f[i - 1]]
           Bad == {k \in 0 .. n : ~ \E f : Upto(f, k)}
<1>1. SUFFICES Bad = {}
  <2>1. n \in 0 .. n
    OBVIOUS
  <2> QED
    BY <2>1 DEF Follows
<1>2. SUFFICES ASSUME Bad # {} PROVE FALSE
  OBVIOUS
<1>3. Bad \in SUBSET Nat
  OBVIOUS
<1>4. PICK k \in Bad : \A m \in Bad : k <= m
  BY <1>2, <1>3, LeastElement
<1>5. k \in 0 .. n /\ ~ \E f : Upto(f, k)
  OBVIOUS
<1>6. k # 0
  <2>1. Upto([i \in 0 .. 0 |-> start], 0)
    OBVIOUS
  <2> QED
    BY <1>5, <2>1
<1>7. k - 1 \in 0 .. n /\ k \in 1 .. n /\ ~ (k <= k - 1)
  BY <1>5, <1>6
<1>8. k - 1 \notin Bad
  BY <1>4, <1>7
<1>9. PICK f : Upto(f, k - 1)
  BY <1>7, <1>8
<1> DEFINE g == [i \in 0 .. k |-> IF i = k THEN step[k][f[k - 1]] ELSE f[i]]
<1>10. step[k] \in [T -> T] /\ f[k - 1] \in T
  BY <1>7, <1>9
<1>11. step[k][f[k - 1]] \in T
  BY <1>10
<1>12. \A i \in 0 .. k : i = k \/ i \in 0 .. k - 1
  BY <1>7
<1>13. g \in [0 .. k -> T]
  BY <1>9, <1>11, <1>12
<1>14. g[0] = start
  BY <1>7, <1>9
<1>15. \A i \in 1 .. k : g[i] = step[i][g[i - 1]]
  <2> TAKE i \in 1 .. k
  <2>1. CASE i = k
    BY <1>7, <2>1
  <2>2. CASE i # k
    <3>1. i \in 1 .. k - 1 /\ i \in 0 .. k /\ i - 1 \in 0 .. k /\ i - 1 # k
      BY <1>7, <2>2
    <3>2. f[i] = step[i][f[i - 1]]
      BY <1>9, <3>1
    <3> QED
      BY <2>2, <3>1, <3>2
  <2> QED
    BY <2>1, <2>2
<1> HIDE DEF g
<1>16. Upto(g, k)
  BY <1>13, <1>14, <1>15
<1> QED
  BY <1>5, <1>16

-----------------------------------------------------------------------------
(* The steps of the recursive function that defines Only. *)
Kept(f, s, S, n) == f = [i \in 0 .. n |-> IF i = 0 THEN <<>> ELSE KeepIf(f[i - 1], s[i], S)]

(* The recursive function exists, so that Only is its last value. *)
LEMMA OnlyKept ==
  ASSUME NEW T, NEW s \in Seq(T), NEW S
  PROVE  \E f : /\ f[0] = <<>>
                /\ \A n \in 1 .. Len(s) : f[n] = KeepIf(f[n - 1], s[n], S)
                /\ Only(s, S) = f[Len(s)]
<1> DEFINE Bad == {n \in 0 .. Len(s) : ~ \E f : Kept(f, s, S, n)}
<1>0. Len(s) \in Nat
  BY LenProperties
<1>1. Bad = {}
  <2>1. SUFFICES ASSUME Bad # {} PROVE FALSE
    OBVIOUS
  <2>2. Bad \in SUBSET Nat
    BY <1>0
  <2>3. PICK n \in Bad : \A m \in Bad : n <= m
    BY <2>1, <2>2, LeastElement
  <2>4. n \in 0 .. Len(s) /\ ~ \E f : Kept(f, s, S, n)
    OBVIOUS
  <2>5. n # 0
    <3>1. Kept([i \in 0 .. 0 |-> <<>>], s, S, 0)
      BY DEF Kept
    <3> QED
      BY <2>4, <3>1
  <2>6. n - 1 \in 0 .. Len(s) /\ n - 1 \notin Bad
    BY <1>0, <2>3, <2>4, <2>5
  <2>7. PICK f : Kept(f, s, S, n - 1)
    BY <2>6
  <2>8. Kept([i \in 0 .. n |-> IF i = n THEN KeepIf(f[n - 1], s[n], S) ELSE f[i]], s, S, n)
    BY <1>0, <2>4, <2>5, <2>7 DEF Kept
  <2> QED
    BY <2>4, <2>8
<1> DEFINE kept == CHOOSE f : Kept(f, s, S, Len(s))
<1>2. Kept(kept, s, S, Len(s))
  BY <1>0, <1>1
<1>3. Only(s, S) = kept[Len(s)]
  BY DEF Only, Kept
<1> HIDE DEF kept
<1>4. kept[0] = <<>> /\ \A n \in 1 .. Len(s) : kept[n] = KeepIf(kept[n - 1], s[n], S)
  BY <1>0, <1>2 DEF Kept
<1> QED
  BY <1>3, <1>4

(* Only keeps elements of the set, from increasing places, and misses none. *)
OnlyAt(r, s, S, n, pos) ==
  /\ pos \in [1 .. Len(r) -> 1 .. n]
  /\ \A i \in 1 .. Len(r) : r[i] = s[pos[i]] /\ s[pos[i]] \in S
  /\ \A i, j \in 1 .. Len(r) : i < j => pos[i] < pos[j]
  /\ \A k \in 1 .. n : s[k] \in S => \E i \in 1 .. Len(r) : pos[i] = k

LEMMA OnlyPlaces ==
  ASSUME NEW T, NEW s \in Seq(T), NEW S
  PROVE  /\ Only(s, S) \in Seq(T)
         /\ \E pos : OnlyAt(Only(s, S), s, S, Len(s), pos)
<1>0. Len(s) \in Nat
  BY LenProperties
<1>1. PICK f : /\ f[0] = <<>>
               /\ \A n \in 1 .. Len(s) : f[n] = KeepIf(f[n - 1], s[n], S)
               /\ Only(s, S) = f[Len(s)]
  BY OnlyKept
<1> DEFINE Wrong == {n \in 0 .. Len(s) : ~ (/\ f[n] \in Seq(T)
                                            /\ \E pos : OnlyAt(f[n], s, S, n, pos))}
<1>2. Wrong = {}
  <2>1. SUFFICES ASSUME Wrong # {} PROVE FALSE
    OBVIOUS
  <2>2. Wrong \in SUBSET Nat
    BY <1>0
  <2>3. PICK n \in Wrong : \A m \in Wrong : n <= m
    BY <2>1, <2>2, LeastElement
  <2>4. n \in 0 .. Len(s)
    OBVIOUS
  <2>5. n # 0
    <3>1. f[0] = <<>>
      BY <1>1
    <3>2. <<>> \in Seq(T) /\ Len(<<>>) = 0
      OBVIOUS
    <3>3. OnlyAt(<<>>, s, S, 0, [i \in {} |-> 1])
      BY <3>2 DEF OnlyAt
    <3> QED
      BY <3>1, <3>2, <3>3
  <2>6. n - 1 \in 0 .. Len(s) /\ n - 1 \notin Wrong /\ n \in 1 .. Len(s)
    BY <1>0, <2>3, <2>4, <2>5
  <2>7. f[n - 1] \in Seq(T)
    BY <2>6
  <2>8. PICK pos : OnlyAt(f[n - 1], s, S, n - 1, pos)
    BY <2>6
  <2>9. s[n] \in T
    BY <2>6, ElementOfSeq
  <2>10. Len(f[n - 1]) \in Nat
    BY <2>7, LenProperties
  <2>11. CASE s[n] \in S
    <3> DEFINE r == Append(f[n - 1], s[n])
               m == Len(f[n - 1])
               at == [i \in 1 .. m + 1 |-> IF i = m + 1 THEN n ELSE pos[i]]
    <3>1. f[n] = r
      BY <1>1, <2>6, <2>11 DEF KeepIf
    <3>2. /\ r \in Seq(T) /\ Len(r) = m + 1 /\ r[m + 1] = s[n]
          /\ \A i \in 1 .. m : r[i] = f[n - 1][i]
      BY <2>7, <2>9, AppendProperties
    <3> HIDE DEF r
    <3>3. /\ m \in Nat /\ n \in Nat /\ pos \in [1 .. m -> 1 .. n - 1]
          /\ \A i \in 1 .. m : f[n - 1][i] = s[pos[i]] /\ s[pos[i]] \in S
          /\ \A i, j \in 1 .. m : i < j => pos[i] < pos[j]
          /\ \A k \in 1 .. n - 1 : s[k] \in S => \E i \in 1 .. m : pos[i] = k
      BY <2>6, <2>8, <2>10 DEF OnlyAt
    <3> HIDE DEF m
    <3>4. /\ at \in [1 .. m + 1 -> 1 .. n]
          /\ at[m + 1] = n
          /\ \A i \in 1 .. m : at[i] = pos[i] /\ at[i] \in 1 .. n - 1
      <4>1. n \in 1 .. n
        BY <2>6, <3>3
      <4>2. \A i \in 1 .. m : i # m + 1 /\ i \in 1 .. m + 1 /\ pos[i] \in 1 .. n - 1
        BY <3>3
      <4>3. \A i \in 1 .. m + 1 : i = m + 1 \/ i \in 1 .. m
        BY <3>3
      <4>4. m + 1 \in 1 .. m + 1 /\ \A k \in 1 .. n - 1 : k \in 1 .. n
        BY <3>3
      <4> QED
        BY <4>1, <4>2, <4>3, <4>4
    <3> HIDE DEF at
    <3>5. \A i \in 1 .. m + 1 : r[i] = s[at[i]] /\ s[at[i]] \in S
      BY <2>11, <3>2, <3>3, <3>4
    <3>6. \A i, j \in 1 .. m + 1 : i < j => at[i] < at[j]
      <4> TAKE i, j \in 1 .. m + 1
      <4> HAVE i < j
      <4>1. i \in 1 .. m /\ at[i] = pos[i] /\ pos[i] \in 1 .. n - 1
        BY <3>3, <3>4
      <4>2. CASE j = m + 1
        <5>1. at[j] = n
          BY <3>4, <4>2
        <5>2. \A k \in 1 .. n - 1 : k < n
          BY <3>3
        <5> QED
          BY <4>1, <5>1, <5>2
      <4>3. CASE j \in 1 .. m
        <5>1. at[j] = pos[j] /\ pos[i] < pos[j]
          BY <3>3, <3>4, <4>1, <4>3
        <5> QED
          BY <4>1, <5>1
      <4>4. m \in Nat
        BY <3>3
      <4>5. j = m + 1 \/ j \in 1 .. m
        BY <4>4
      <4> QED
        BY <4>2, <4>3, <4>5
    <3>7. \A k \in 1 .. n : s[k] \in S => \E i \in 1 .. m + 1 : at[i] = k
      <4> TAKE k \in 1 .. n
      <4> HAVE s[k] \in S
      <4>1. CASE k = n
        BY <3>3, <3>4, <4>1
      <4>2. CASE k # n
        <5>1. k \in 1 .. n - 1
          BY <3>3, <4>2
        <5>2. PICK i \in 1 .. m : pos[i] = k
          BY <3>3, <5>1
        <5>3. i \in 1 .. m + 1 /\ at[i] = k
          BY <3>3, <3>4, <5>2
        <5> QED
          BY <5>3
      <4> QED
        BY <4>1, <4>2
    <3>8. OnlyAt(r, s, S, n, at)
      BY <3>2, <3>4, <3>5, <3>6, <3>7 DEF OnlyAt
    <3> QED
      BY <3>1, <3>2, <3>8
  <2>12. CASE s[n] \notin S
    <3>1. f[n] = f[n - 1]
      BY <1>1, <2>6, <2>12 DEF KeepIf
    <3>2. OnlyAt(f[n - 1], s, S, n, pos)
      BY <2>6, <2>8, <2>12 DEF OnlyAt
    <3> QED
      BY <2>7, <3>1, <3>2
  <2> QED
    BY <2>11, <2>12
<1> QED
  BY <1>0, <1>1, <1>2

LEMMA RangeOnly ==
  ASSUME NEW T, NEW s \in Seq(T), NEW S
  PROVE  Range(Only(s, S)) = Range(s) \cap S
<1> DEFINE r == Only(s, S)
<1>1. r \in Seq(T) /\ \E pos : OnlyAt(r, s, S, Len(s), pos)
  BY OnlyPlaces
<1> HIDE DEF r
<1>2. PICK pos : OnlyAt(r, s, S, Len(s), pos)
  BY <1>1
<1>3. DOMAIN r = 1 .. Len(r) /\ DOMAIN s = 1 .. Len(s)
  BY <1>1, LenProperties
<1>4. \A i \in 1 .. Len(r) : pos[i] \in 1 .. Len(s) /\ r[i] = s[pos[i]] /\ s[pos[i]] \in S
  BY <1>2 DEF OnlyAt
<1>5. \A k \in 1 .. Len(s) : s[k] \in S => \E i \in 1 .. Len(r) : r[i] = s[k]
  BY <1>2, <1>4 DEF OnlyAt
<1>6. Range(r) = Range(s) \cap S
  BY <1>3, <1>4, <1>5 DEF Range
<1> QED
  BY <1>6 DEF r

(* What is kept of a sequence starts with its first element, if that is kept. *)
LEMMA OnlyFirst ==
  ASSUME NEW T, NEW s \in Seq(T), NEW S, s # <<>>, s[1] \in S
  PROVE  Only(s, S) # <<>> /\ Only(s, S)[1] = s[1]
<1> DEFINE r == Only(s, S)
<1>1. r \in Seq(T) /\ \E pos : OnlyAt(r, s, S, Len(s), pos)
  BY OnlyPlaces
<1> HIDE DEF r
<1>2. PICK pos : OnlyAt(r, s, S, Len(s), pos)
  BY <1>1
<1>3. 1 \in 1 .. Len(s) /\ Len(r) \in Nat
  BY <1>1, LenProperties, EmptySeq
<1>4. PICK i \in 1 .. Len(r) : pos[i] = 1
  BY <1>2, <1>3 DEF OnlyAt
<1>5. 1 \in 1 .. Len(r)
  BY <1>3, <1>4
<1>6. pos[1] \in 1 .. Len(s) /\ (1 < i => pos[1] < pos[i]) /\ r[1] = s[pos[1]]
  BY <1>2, <1>4, <1>5 DEF OnlyAt
<1>7. i = 1
  BY <1>3, <1>4, <1>6
<1>8. r # <<>> /\ r[1] = s[1]
  BY <1>1, <1>4, <1>5, <1>6, <1>7, EmptySeq
<1> QED
  BY <1>8 DEF r

(* The elements of a concatenation, by the part they come from. *)
LEMMA ConcatPlaces ==
  ASSUME NEW T, NEW a \in Seq(T), NEW b \in Seq(T)
  PROVE  /\ Len(a) \in Nat /\ Len(b) \in Nat
         /\ a \o b \in Seq(T) /\ Len(a \o b) = Len(a) + Len(b)
         /\ \A n \in 1 .. Len(a) : (a \o b)[n] = a[n]
         /\ \A n \in 1 .. Len(b) : (a \o b)[Len(a) + n] = b[n]
<1>1. a \o b \in Seq(T) /\ Len(a \o b) = Len(a) + Len(b)
  BY ConcatProperties
<1>2. \A n \in 1 .. Len(a) + Len(b) :
        (a \o b)[n] = IF n <= Len(a) THEN a[n] ELSE b[n - Len(a)]
  BY ConcatProperties
<1>3. Len(a) \in Nat /\ Len(b) \in Nat
  BY LenProperties
<1>4. \A n \in 1 .. Len(b) : /\ Len(a) + n \in 1 .. Len(a) + Len(b)
                              /\ ~ (Len(a) + n <= Len(a))
                              /\ Len(a) + n - Len(a) = n
  BY <1>3
<1>5. \A n \in 1 .. Len(a) : n \in 1 .. Len(a) + Len(b) /\ n <= Len(a)
  BY <1>3
<1> QED
  BY <1>1, <1>2, <1>3, <1>4, <1>5

(* A filter works on the parts of a sequence separately. *)
LEMMA OnlyConcat ==
  ASSUME NEW T, NEW a \in Seq(T), NEW b \in Seq(T), NEW S
  PROVE  Only(a \o b, S) = Only(a, S) \o Only(b, S)
<1>0. /\ Len(a) \in Nat /\ Len(b) \in Nat
      /\ a \o b \in Seq(T) /\ Len(a \o b) = Len(a) + Len(b)
      /\ \A n \in 1 .. Len(a) : (a \o b)[n] = a[n]
      /\ \A n \in 1 .. Len(b) : (a \o b)[Len(a) + n] = b[n]
  BY ConcatPlaces
<1>1. PICK f : /\ f[0] = <<>>
               /\ \A n \in 1 .. Len(a) : f[n] = KeepIf(f[n - 1], a[n], S)
               /\ Only(a, S) = f[Len(a)]
  BY OnlyKept
<1>2. PICK g : /\ g[0] = <<>>
               /\ \A n \in 1 .. Len(b) : g[n] = KeepIf(g[n - 1], b[n], S)
               /\ Only(b, S) = g[Len(b)]
  BY OnlyKept
<1>3. PICK h : /\ h[0] = <<>>
               /\ \A n \in 1 .. Len(a \o b) : h[n] = KeepIf(h[n - 1], (a \o b)[n], S)
               /\ Only(a \o b, S) = h[Len(a \o b)]
  BY <1>0, OnlyKept
<1> DEFINE c == a \o b
<1>8. /\ Len(c) = Len(a) + Len(b)
      /\ \A n \in 1 .. Len(a) : c[n] = a[n]
      /\ \A n \in 1 .. Len(b) : c[Len(a) + n] = b[n]
      /\ \A n \in 1 .. Len(c) : h[n] = KeepIf(h[n - 1], c[n], S)
  BY <1>0, <1>3
<1> HIDE DEF c
<1> DEFINE Early == {n \in 0 .. Len(a) : h[n] # f[n]}
<1>4. Early = {}
  <2>1. SUFFICES ASSUME Early # {} PROVE FALSE
    OBVIOUS
  <2>2. Early \in SUBSET Nat
    BY <1>0
  <2>3. PICK n \in Early : \A m \in Early : n <= m
    BY <2>1, <2>2, LeastElement
  <2>4. n # 0
    BY <1>1, <1>3
  <2>5. n \in 1 .. Len(a) /\ n \in 1 .. Len(c) /\ n - 1 \in 0 .. Len(a) /\ n - 1 \notin Early
    <3>1. n \in 0 .. Len(a) /\ Len(a) \in Nat /\ Len(b) \in Nat
      BY <1>0
    <3>2. /\ n \in 1 .. Len(a) /\ n - 1 \in 0 .. Len(a) /\ ~ (n <= n - 1)
          /\ n \in 1 .. Len(a) + Len(b)
      BY <2>4, <3>1
    <3> QED
      BY <1>8, <2>3, <3>2
  <2>6. h[n] = KeepIf(h[n - 1], a[n], S) /\ f[n] = KeepIf(f[n - 1], a[n], S)
    BY <1>1, <1>8, <2>5
  <2> QED
    BY <2>5, <2>6
<1> DEFINE Joint(n) == g[n] \in Seq(T) /\ h[Len(a) + n] = f[Len(a)] \o g[n]
           Late == {n \in 0 .. Len(b) : ~ Joint(n)}
<1>5. f[Len(a)] \in Seq(T)
  BY <1>1, OnlyPlaces
<1> HIDE DEF Joint
<1>6. Late = {}
  <2>1. SUFFICES ASSUME Late # {} PROVE FALSE
    OBVIOUS
  <2>2. Late \in SUBSET Nat
    BY <1>0
  <2>3. PICK n \in Late : \A m \in Late : n <= m
    BY <2>1, <2>2, LeastElement
  <2>4. n # 0
    <3>1. Len(a) \in 0 .. Len(a) /\ Len(a) + 0 = Len(a)
      BY <1>0
    <3>2. h[Len(a) + 0] = f[Len(a)]
      BY <1>4, <3>1
    <3>3. <<>> \in Seq(T) /\ f[Len(a)] \o <<>> = f[Len(a)]
      BY <1>5, ConcatEmptySeq
    <3>4. Joint(0)
      BY <1>2, <3>2, <3>3, Zenon DEF Joint
    <3> QED
      BY <3>4
  <2>5. n \in 1 .. Len(b) /\ n - 1 \in 0 .. Len(b) /\ n - 1 \notin Late
    BY <1>0, <2>3, <2>4
  <2>6. /\ Joint(n - 1)
        /\ b[n] \in T
    BY <2>5, ElementOfSeq
  <2>7. Len(a) + n \in 1 .. Len(c) /\ Len(a) + n - 1 = Len(a) + (n - 1)
    BY <1>0, <1>8, <2>5
  <2>8. h[Len(a) + n] = KeepIf(h[Len(a) + (n - 1)], b[n], S)
    BY <1>8, <2>5, <2>7
  <2>9. g[n] = KeepIf(g[n - 1], b[n], S)
    BY <1>2, <2>5, Zenon
  <2> DEFINE p == f[Len(a)]
             q == g[n - 1]
             x == b[n]
             one == <<x>>
  <2>10. Append(p \o q, x) = p \o Append(q, x)
    <3>1. p \in Seq(T) /\ q \in Seq(T) /\ x \in T
      BY <1>5, <2>6 DEF Joint
    <3> HIDE DEF p, q, x
    <3>2. p \o q \in Seq(T) /\ one \in Seq(T)
      BY <3>1
    <3>3. Append(p \o q, x) = (p \o q) \o one /\ Append(q, x) = q \o one
      BY <3>1, <3>2, AppendIsConcat, Zenon
    <3> HIDE DEF one
    <3>4. (p \o q) \o one = p \o (q \o one)
      <4>1. p \in Seq(T)
        BY <3>1
      <4>2. q \in Seq(T)
        BY <3>1
      <4>3. one \in Seq(T)
        BY <3>2
      <4> QED
        BY <4>1, <4>2, <4>3, ConcatAssociative
    <3> QED
      BY <3>3, <3>4, Zenon
  <2>11. Append(g[n - 1], b[n]) \in Seq(T)
    BY <2>6, AppendProperties, Zenon DEF Joint
  <2>12. Joint(n)
    BY <2>6, <2>8, <2>9, <2>10, <2>11, Zenon DEF KeepIf, Joint
  <2> QED
    BY <2>12
<1>7. Joint(Len(b)) /\ h[Len(a \o b)] = h[Len(a) + Len(b)]
  BY <1>0, <1>6
<1> QED
  BY <1>1, <1>2, <1>3, <1>7, Zenon DEF Joint
-----------------------------------------------------------------------------
(* Numbers and their digits. *)
LessDigit(x, base) == x \div base
Shifts(f, n, base, width) ==
  f = [k \in 0 .. width |-> IF k = 0 THEN n ELSE LessDigit(f[k - 1], base)]

LEMMA ShiftedSteps ==
  ASSUME NEW n \in Nat, NEW base \in Nat \ {0}, NEW width \in Nat
  PROVE  /\ Shifted(n, base, width) \in [0 .. width -> Nat]
         /\ Shifted(n, base, width)[0] = n
         /\ \A k \in 1 .. width :
              Shifted(n, base, width)[k] = Shifted(n, base, width)[k - 1] \div base
<1> DEFINE step == [k \in 1 .. width |-> [x \in Nat |-> x \div base]]
<1>1. step \in [1 .. width -> [Nat -> Nat]]
  OBVIOUS
<1>2. \A k \in 1 .. width : \A x \in Nat : step[k][x] = x \div base
  OBVIOUS
<1> HIDE DEF step
<1>3. PICK f \in [0 .. width -> Nat] :
        f[0] = n /\ \A k \in 1 .. width : f[k] = step[k][f[k - 1]]
  <2>1. Follows(Nat, width, n, step)
    BY <1>1, Iterates
  <2> QED
    BY <2>1 DEF Follows
<1>4. \A k \in 1 .. width : f[k - 1] \in Nat /\ f[k] = f[k - 1] \div base
  <2> TAKE k \in 1 .. width
  <2>1. k - 1 \in 0 .. width
    OBVIOUS
  <2>2. f[k - 1] \in Nat
    BY <2>1
  <2> QED
    BY <1>2, <1>3, <2>2
<1>5. Shifts(f, n, base, width)
  <2>1. \A k \in 1 .. width : f[k] = LessDigit(f[k - 1], base)
    BY <1>4 DEF LessDigit
  <2> QED
    BY <1>3, <2>1 DEF Shifts
<1> DEFINE g == CHOOSE h : Shifts(h, n, base, width)
<1>6. Shifts(g, n, base, width)
  BY <1>5
<1>7. Shifted(n, base, width) = g
  BY DEF Shifted, Shifts, LessDigit
<1> HIDE DEF g
<1>8. g[0] = n /\ \A k \in 1 .. width : g[k] = LessDigit(g[k - 1], base)
  BY <1>6 DEF Shifts
<1>9. \A k \in 0 .. width : g[k] = f[k]
  <2> DEFINE Wrong == {k \in 0 .. width : g[k] # f[k]}
  <2>1. SUFFICES ASSUME Wrong # {} PROVE FALSE
    OBVIOUS
  <2>2. Wrong \in SUBSET Nat
    OBVIOUS
  <2>3. PICK k \in Wrong : \A m \in Wrong : k <= m
    BY <2>1, <2>2, LeastElement
  <2>4. k \in 0 .. width /\ g[k] # f[k]
    OBVIOUS
  <2>5. k # 0
    BY <1>3, <1>8, <2>4
  <2>6. k \in 1 .. width /\ k - 1 \in 0 .. width /\ ~ (k <= k - 1)
    BY <2>4, <2>5
  <2>7. g[k - 1] = f[k - 1]
    BY <2>3, <2>6
  <2> QED
    BY <1>4, <1>8, <2>4, <2>6, <2>7 DEF LessDigit
<1>10. g = f
  BY <1>6, <1>9 DEF Shifts
<1> QED
  BY <1>3, <1>4, <1>7, <1>10

LEMMA DigitsTyped ==
  ASSUME NEW n \in Nat, NEW base \in Nat \ {0}, NEW width \in Nat
  PROVE  Digits(n, base, width) \in Seq(0 .. base - 1) /\ Len(Digits(n, base, width)) = width
<1> DEFINE s == Shifted(n, base, width)
           d == Digits(n, base, width)
<1>1. s \in [0 .. width -> Nat]
  BY ShiftedSteps
<1>2. d = [i \in 1 .. width |-> s[width - i] % base]
  BY DEF Digits
<1> HIDE DEF s, d
<1>3. \A i \in 1 .. width : s[width - i] \in Nat
  <2> TAKE i \in 1 .. width
  <2>1. width - i \in 0 .. width
    OBVIOUS
  <2> QED
    BY <1>1, <2>1
<1>4. \A x \in Nat : x % base \in 0 .. base - 1
  OBVIOUS
<1>5. d \in [1 .. width -> 0 .. base - 1]
  BY <1>2, <1>3, <1>4
<1>6. d \in Seq(0 .. base - 1) /\ Len(d) = width
  BY <1>5
<1> QED
  BY <1>6 DEF d

WithDigit(x, base, digit) == x * base + digit
ReadOff(f, s, base) == f = [i \in 0 .. Len(s) |-> IF i = 0 THEN 0 ELSE WithDigit(f[i - 1], base, s[i])]

LEMMA NumberSteps ==
  ASSUME NEW base \in Nat, NEW s \in Seq(Nat)
  PROVE  \E f \in [0 .. Len(s) -> Nat] :
           /\ f[0] = 0 /\ \A i \in 1 .. Len(s) : f[i] = f[i - 1] * base + s[i]
           /\ Number(s, base) = f[Len(s)]
<1>0. Len(s) \in Nat /\ \A i \in 1 .. Len(s) : s[i] \in Nat
  BY LenProperties, ElementOfSeq
<1> DEFINE n == Len(s)
           step == [k \in 1 .. n |-> [x \in Nat |-> x * base + s[k]]]
<1>1. step \in [1 .. n -> [Nat -> Nat]]
  BY <1>0
<1>2. \A k \in 1 .. n : \A x \in Nat : step[k][x] = x * base + s[k]
  OBVIOUS
<1> HIDE DEF step
<1>3. PICK f \in [0 .. n -> Nat] :
        f[0] = 0 /\ \A k \in 1 .. n : f[k] = step[k][f[k - 1]]
  <2>1. 0 \in Nat /\ n \in Nat
    BY <1>0
  <2>2. Follows(Nat, n, 0, step)
    BY <2>1, <1>1, Iterates
  <2> QED
    BY <2>2 DEF Follows
<1>4. \A k \in 1 .. n : f[k - 1] \in Nat /\ f[k] = f[k - 1] * base + s[k]
  <2> TAKE k \in 1 .. n
  <2>1. k - 1 \in 0 .. n
    BY <1>0
  <2>2. f[k - 1] \in Nat
    BY <2>1
  <2> QED
    BY <1>2, <1>3, <2>2
<1>5. ReadOff(f, s, base)
  <2>1. \A k \in 1 .. n : f[k] = WithDigit(f[k - 1], base, s[k])
    BY <1>4 DEF WithDigit
  <2> QED
    BY <1>0, <1>3, <2>1 DEF ReadOff
<1> DEFINE g == CHOOSE h : ReadOff(h, s, base)
<1>6. ReadOff(g, s, base)
  BY <1>5
<1>7. Number(s, base) = g[n]
  BY DEF Number, ReadOff, WithDigit
<1> HIDE DEF g
<1>8. g[0] = 0 /\ \A k \in 1 .. n : g[k] = WithDigit(g[k - 1], base, s[k])
  BY <1>0, <1>6 DEF ReadOff
<1>9. \A k \in 0 .. n : g[k] = f[k]
  <2> DEFINE Wrong == {k \in 0 .. n : g[k] # f[k]}
  <2>1. SUFFICES ASSUME Wrong # {} PROVE FALSE
    OBVIOUS
  <2>2. Wrong \in SUBSET Nat
    BY <1>0
  <2>3. PICK k \in Wrong : \A m \in Wrong : k <= m
    BY <2>1, <2>2, LeastElement
  <2>4. k \in 0 .. n /\ g[k] # f[k]
    OBVIOUS
  <2>5. k # 0
    BY <1>3, <1>8, <2>4
  <2>6. k \in 1 .. n /\ k - 1 \in 0 .. n /\ ~ (k <= k - 1)
    BY <1>0, <2>4, <2>5
  <2>7. g[k - 1] = f[k - 1]
    BY <2>3, <2>6
  <2> QED
    BY <1>4, <1>8, <2>4, <2>6, <2>7 DEF WithDigit
<1>10. n \in 0 .. n
  BY <1>0
<1>11. Number(s, base) = f[n]
  BY <1>7, <1>9, <1>10
<1> QED
  BY <1>3, <1>4, <1>11

(* A number comes back from its digits, if they hold it. *)
LEMMA NumberOfDigits ==
  ASSUME NEW n \in Nat, NEW base \in Nat \ {0}, NEW width \in Nat, Fits(n, base, width)
  PROVE  Number(Digits(n, base, width), base) = n
<1> DEFINE s == Shifted(n, base, width)
           d == Digits(n, base, width)
<1>1. /\ s \in [0 .. width -> Nat] /\ s[0] = n /\ s[width] = 0
      /\ \A k \in 1 .. width : s[k] = s[k - 1] \div base
  <2>1. s[width] = 0
    BY DEF Fits
  <2>2. /\ s \in [0 .. width -> Nat] /\ s[0] = n
        /\ \A k \in 1 .. width : s[k] = s[k - 1] \div base
    BY ShiftedSteps
  <2> QED
    BY <2>1, <2>2
<1>2. d \in Seq(0 .. base - 1) /\ Len(d) = width
  BY DigitsTyped
<1>3. \A i \in 1 .. width : d[i] = s[width - i] % base
  BY DEF Digits
<1> HIDE DEF s, d
<1>4. d \in Seq(Nat)
  <2>1. \A i \in 1 .. Len(d) : d[i] \in 0 .. base - 1
    BY <1>2, ElementOfSeq
  <2>2. \A x \in 0 .. base - 1 : x \in Nat
    OBVIOUS
  <2> QED
    BY <1>2, <2>1, <2>2
<1>5. PICK f \in [0 .. width -> Nat] :
        /\ f[0] = 0 /\ \A i \in 1 .. width : f[i] = f[i - 1] * base + d[i]
        /\ Number(d, base) = f[width]
  BY <1>2, <1>4, NumberSteps
<1>6. \A k \in 0 .. width : f[k] = s[width - k]
  <2> DEFINE Wrong == {k \in 0 .. width : f[k] # s[width - k]}
  <2>1. SUFFICES ASSUME Wrong # {} PROVE FALSE
    OBVIOUS
  <2>2. Wrong \in SUBSET Nat
    OBVIOUS
  <2>3. PICK k \in Wrong : \A m \in Wrong : k <= m
    BY <2>1, <2>2, LeastElement
  <2>4. k # 0
    BY <1>1, <1>5
  <2>5. k \in 1 .. width /\ k - 1 \in 0 .. width /\ ~ (k <= k - 1)
    BY <2>4
  <2>6. /\ f[k - 1] = s[width - (k - 1)]
        /\ width - (k - 1) \in 1 .. width /\ width - (k - 1) - 1 = width - k /\ width - k \in 0 .. width
    BY <2>3, <2>5
  <2>7. f[k - 1] = s[width - k] \div base /\ s[width - k] \in Nat
    BY <1>1, <2>6
  <2>8. \A x \in Nat : (x \div base) * base + (x % base) = x
    OBVIOUS
  <2>9. f[k] = s[width - k]
    BY <1>3, <1>5, <2>5, <2>7, <2>8
  <2> QED
    BY <2>9
<1>7. width \in 0 .. width /\ width - width = 0
  OBVIOUS
<1> QED
  BY <1>1, <1>5, <1>6, <1>7 DEF d

(* Digits come back from the number they make. *)
LEMMA DigitsOfNumber ==
  ASSUME NEW base \in Nat \ {0}, NEW d \in Seq(0 .. base - 1)
  PROVE  /\ Number(d, base) \in Nat
         /\ Digits(Number(d, base), base, Len(d)) = d
<1> DEFINE width == Len(d)
           n == Number(d, base)
           s == Shifted(n, base, width)
<1>1. width \in Nat /\ \A i \in 1 .. width : d[i] \in 0 .. base - 1
  BY LenProperties, ElementOfSeq
<1>2. d \in Seq(Nat)
  <2>1. \A x \in 0 .. base - 1 : x \in Nat
    OBVIOUS
  <2> QED
    BY <1>1, <2>1
<1>3. PICK f \in [0 .. width -> Nat] :
        /\ f[0] = 0 /\ \A i \in 1 .. width : f[i] = f[i - 1] * base + d[i]
        /\ n = f[width]
  BY <1>2, NumberSteps
<1>4. n \in Nat
  BY <1>1, <1>3
<1> HIDE DEF n, width
<1>5. /\ s \in [0 .. width -> Nat] /\ s[0] = n
      /\ \A k \in 1 .. width : s[k] = s[k - 1] \div base
  BY <1>1, <1>4, ShiftedSteps
<1> HIDE DEF s
<1>6. \A x \in Nat : \A y \in 0 .. base - 1 : (x * base + y) \div base = x /\ (x * base + y) % base = y
  OBVIOUS
<1>7. \A k \in 0 .. width : s[k] = f[width - k]
  <2> DEFINE Wrong == {k \in 0 .. width : s[k] # f[width - k]}
  <2>1. SUFFICES ASSUME Wrong # {} PROVE FALSE
    OBVIOUS
  <2>2. Wrong \in SUBSET Nat
    BY <1>1
  <2>3. PICK k \in Wrong : \A m \in Wrong : k <= m
    BY <2>1, <2>2, LeastElement
  <2>4. k # 0
    BY <1>1, <1>3, <1>5
  <2>5. k \in 1 .. width /\ k - 1 \in 0 .. width /\ ~ (k <= k - 1)
    BY <1>1, <2>4
  <2>6. /\ s[k - 1] = f[width - (k - 1)]
        /\ width - (k - 1) \in 1 .. width /\ width - (k - 1) - 1 = width - k /\ width - k \in 0 .. width
    BY <1>1, <2>3, <2>5
  <2>7. f[width - (k - 1)] = f[width - k] * base + d[width - (k - 1)] /\ f[width - k] \in Nat
    BY <1>3, <2>6
  <2>8. f[width - (k - 1)] \div base = f[width - k]
    BY <1>1, <1>6, <2>6, <2>7
  <2>9. s[k] = f[width - k]
    BY <1>5, <2>5, <2>6, <2>8
  <2> QED
    BY <2>9
<1>8. \A i \in 1 .. width : s[width - i] % base = d[i]
  <2> TAKE i \in 1 .. width
  <2>1. width - i \in 0 .. width /\ width - (width - i) = i /\ i - 1 \in 0 .. width
    BY <1>1
  <2>2. s[width - i] = f[i] /\ f[i] = f[i - 1] * base + d[i] /\ f[i - 1] \in Nat
    BY <1>3, <1>7, <2>1
  <2>3. d[i] \in 0 .. base - 1
    BY <1>1
  <2>4. (f[i - 1] * base + d[i]) % base = d[i]
    BY <1>6, <2>2, <2>3
  <2> QED
    BY <2>2, <2>4
<1>9. Digits(n, base, width) = [i \in 1 .. width |-> s[width - i] % base]
  BY DEF Digits, s
<1>10. d = [i \in 1 .. width |-> d[i]]
  BY <1>1 DEF width
<1>11. Digits(n, base, width) = d
  BY <1>8, <1>9, <1>10
<1> QED
  BY <1>4, <1>11 DEF n, width
=============================================================================
