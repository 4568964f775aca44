------------------------------ MODULE Numerals ------------------------------
(***************************************************************************)
(* Numbers as sequences of digits, most significant first, which are       *)
(* numbers themselves.                                                     *)
(***************************************************************************)
EXTENDS Integers, Sequences

\* The digits of n: as few as it has, and one at least.
InBase(n, base) ==
  LET digits[k \in Nat] ==
        IF k < base THEN <<k>> ELSE Append(digits[k \div base], k % base)
  IN  digits[n]

\* The number with these digits.
NumberOf(digits, base) ==
  LET sum[i \in 0..Len(digits)] ==
        IF i = 0 THEN 0 ELSE sum[i - 1] * base + digits[i]
  IN  sum[Len(digits)]
=============================================================================
