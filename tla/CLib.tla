-------------------------------- MODULE CLib --------------------------------
(***************************************************************************)
(* The pure functions of util.c (the loader's C library) that the other    *)
(* modules call.  A C string is the sequence of its character codes        *)
(* without the terminating NUL.  Loops are recursive functions over the    *)
(* iteration count, so that modules using them can be proved about.        *)
(***************************************************************************)
EXTENDS Integers, Sequences

CONSTANT ULLMod  \* 2^64 in the code: unsigned long long wraps modulo ULLMod

ASSUME ULLModAssumption == ULLMod \in Nat \ {0}

NUL == 0

\* s[i], the terminating NUL included.
CharAt(s, i) == IF i <= Len(s) THEN s[i] ELSE NUL

\* Position of the first character of s that is not in Skip, or of its NUL.
FirstAt(s, from, Skip) ==
  CHOOSE i \in from..(Len(s) + 1) :
    /\ i = Len(s) + 1 \/ s[i] \notin Skip
    /\ \A j \in from..(i - 1) : s[j] \in Skip

-----------------------------------------------------------------------------

strcmp_(s1, s2) ==
  LET k == CHOOSE i \in 1..(Len(s1) + 1) :
             /\ CharAt(s1, i) = NUL \/ CharAt(s1, i) # CharAt(s2, i)
             /\ \A j \in 1..(i - 1) : CharAt(s1, j) = CharAt(s2, j)
  IN  CharAt(s1, k) - CharAt(s2, k)

\* strnlen_(&s[at], n) and strndup_(&s[at], n) in a block of memory s.
strnlen_(s, at, n) ==
  (CHOOSE p \in at..(at + n) :
     /\ p = at + n \/ s[p] = NUL
     /\ \A q \in at..(p - 1) : s[q] # NUL) - at

strndup_(s, at, n) == [i \in 1..strnlen_(s, at, n) |-> s[at + i - 1]]

\* Mutant of char_to_digit: upper case starts at 0.
UpperFromZero(c) ==
  IF c \in 48..57 THEN c - 48
  ELSE IF c \in 97..102 THEN c - 97 + 10
  ELSE IF c \in 65..70 THEN c - 65
  ELSE -1

char_to_digit(c) ==
  IF c \in 48..57 THEN c - 48               \* '0'..'9'
  ELSE IF c \in 97..102 THEN c - 97 + 10    \* 'a'..'f'
  ELSE IF c \in 65..70 THEN c - 65 + 10     \* 'A'..'F'
  ELSE -1

\* The value the digit loop accumulates over s[from..upto], modulo ULLMod.
DigitsValue(s, from, upto, base) ==
  LET acc[k \in (from - 1)..upto] ==
        IF k = from - 1 THEN 0
        ELSE (acc[k - 1] * base + char_to_digit(s[k])) % ULLMod
  IN  acc[upto]

\* strtoull_(str, NULL, base): spaces are skipped, base 0 looks for a prefix,
\* conversion stops at the first character that is no digit of the base.
strtoull_(str, base) ==
  LET start  == FirstAt(str, 1, {32})
      hex    == /\ base = 0
                /\ CharAt(str, start) = 48
                /\ CharAt(str, start + 1) \in {120, 88}   \* 'x', 'X'
      zero   == base = 0 /\ CharAt(str, start) = 48
      radix  == IF base # 0 THEN base ELSE IF hex THEN 16 ELSE 10
      digits == start + (IF hex THEN 2 ELSE IF zero THEN 1 ELSE 0)
      Digit  == {c \in 48..102 : char_to_digit(c) \in 0..(radix - 1)}
      stop   == FirstAt(str, digits, Digit)
  IN  DigitsValue(str, digits, stop - 1, radix)

=============================================================================
