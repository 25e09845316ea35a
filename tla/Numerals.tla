------------------------------- MODULE Numerals -------------------------------
(***************************************************************************)
(* Numbers and their digits, most significant first, as the prefix of a    *)
(* frame, the head of a CBOR item and the bytes and characters of a ULID   *)
(* hold them.                                                              *)
(***************************************************************************)
EXTENDS Naturals, Sequences

(* By k: n without its last k digits. *)
Shifted(n, base, width) ==
  LET shifted[k \in 0 .. width] == IF k = 0 THEN n ELSE shifted[k - 1] \div base IN shifted

(* What overflows the width is cut off. *)
Fits(n, base, width) == Shifted(n, base, width)[width] = 0
Digits(n, base, width) == [i \in 1 .. width |-> Shifted(n, base, width)[width - i] % base]

Number(digits, base) ==
  LET read[i \in 0 .. Len(digits)] == IF i = 0 THEN 0 ELSE read[i - 1] * base + digits[i]
  IN read[Len(digits)]
=============================================================================
