------------------------------ MODULE Numerals ------------------------------
(***************************************************************************)
(* Numbers and their digits, for intToStr of libsa/stdio.c and itoa of     *)
(* libsa/string.c.                                                         *)
(***************************************************************************)
EXTENDS Integers, Sequences

\* What both loops write: the remainders of n, divided until nothing is left of it, so
\* that the last digit comes first.
Digits(n, radix) ==
  LET of[k \in Nat] == IF k = 0 THEN <<>> ELSE <<k % radix>> \o of[k \div radix]
  IN  of[n]

\* What both do with them then, swapping the ends.
Reversed(s) == [k \in 1 .. Len(s) |-> s[Len(s) + 1 - k]]

\* The number that digits stand for, the first digit first.
ValueOf(digits, radix) ==
  LET upto[k \in 0 .. Len(digits)] ==
        IF k = 0 THEN 0 ELSE radix * upto[k - 1] + digits[k]
  IN  upto[Len(digits)]
=============================================================================
