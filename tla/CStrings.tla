------------------------------ MODULE CStrings ------------------------------
(***************************************************************************)
(* The texts of libsa/string.c and strlen, on a memory: a function from    *)
(* addresses to bytes.  Each operator makes the accesses of the C loop in  *)
(* their order, so that what is written early is read later where operands *)
(* overlap.                                                                *)
(***************************************************************************)
EXTENDS Numerals, FiniteSetsExt

\* How far one can go from an address.
From(m, s) == {a - s : a \in {b \in DOMAIN m : b >= s}}

strlen(m, s) == Min({n \in From(m, s) : m[s + n] = 0})

memcpy(m, dst, src, n) ==
  LET after[k \in 0 .. n] ==
        IF k = 0 THEN m
        ELSE [after[k - 1] EXCEPT ![dst + k - 1] = after[k - 1][src + k - 1]]
  IN  after[n]

\* A plausible slip: the strings are equal as soon as one of them ends.
StopsEqual_Either(m, s1, s2, i) == m[s1 + i] = 0 \/ m[s2 + i] = 0

StopsEqual(m, s1, s2, i) == m[s1 + i] = m[s2 + i] /\ m[s2 + i] = 0

strcmp(m, s1, s2) ==
  LET last == Min({i \in From(m, s1) \cap From(m, s2) :
                     StopsEqual(m, s1, s2, i) \/ m[s1 + i] # m[s2 + i]})
  IN  IF StopsEqual(m, s1, s2, last) THEN 0 ELSE 1

\* The memory and the result.  The loop copies as memcpy does, and ends with the NUL
\* it has copied.
strcpy(m, dst, src) ==
  LET copied(i) == memcpy(m, dst, src, i + 1)
      length    == Min({i \in From(m, dst) \cap From(m, src) : copied(i)[dst + i] = 0})
  IN  [memory |-> copied(length), length |-> length]

strcat(m, dest, src) ==
  LET end    == dest + strlen(m, dest)
      copied == memcpy(m, end, src, strlen(m, src))
  IN  [copied EXCEPT ![end + strlen(copied, src)] = 0]

(***************************************************************************)
(* itoa.  WORD is the number of values of an int: 2^32.                    *)
(***************************************************************************)
DigitChar(r) == IF r < 10 THEN r + 48 ELSE r + 97 - 10

\* do ... while: one digit for 0.
DigitsOf(ud, divisor) ==
  LET digits == IF ud = 0 THEN <<0>> ELSE Digits(ud, divisor)
  IN  [k \in DOMAIN digits |-> DigitChar(digits[k])]

\* The reversal leaves the sign where it is.
itoa(base, d, WORD) ==
  IF base = "d" /\ d < 0 THEN <<45>> \o Reversed(DigitsOf(-d, 10))
  ELSE Reversed(DigitsOf(d % WORD,   \* unsigned long ud = d
                         IF base = "x" THEN 16 ELSE 10))

-----------------------------------------------------------------------------
\* The string at an address.
StringAt(m, s) == [k \in 1 .. strlen(m, s) |-> m[s + k - 1]]

\* The value that a text stands for, with a - in front or without.
Value(text, radix) ==
  LET digits(t) == [k \in DOMAIN t |-> IF t[k] >= 97 THEN t[k] - 87 ELSE t[k] - 48]
  IN  IF text[1] = 45 THEN -ValueOf(digits(Tail(text)), radix)
      ELSE ValueOf(digits(text), radix)
=============================================================================
