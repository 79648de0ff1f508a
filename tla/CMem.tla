-------------------------------- MODULE CMem --------------------------------
(***************************************************************************)
(* The memory functions of util.c.  Memory is a function from addresses to *)
(* what is stored there; a function that stores returns the new memory.    *)
(* The loops run byte by byte, in the code's order, because source and     *)
(* destination may overlap.                                                *)
(***************************************************************************)
EXTENDS Integers

\* The highest address.
Top(m) == CHOOSE x \in DOMAIN m : \A y \in DOMAIN m : y <= x

\* Mutant of memcpy_: from the last byte to the first.
CopyBackwards(m, d, s, n) ==
  LET copy[i \in 0..n] ==
        IF i = 0 THEN m
        ELSE LET c == copy[i - 1] IN [c EXCEPT ![d + n - i] = c[s + n - i]]
  IN  copy[n]

memcpy_(m, d, s, n) ==
  LET copy[i \in 0..n] ==
        IF i = 0 THEN m
        ELSE LET c == copy[i - 1] IN [c EXCEPT ![d + i - 1] = c[s + i - 1]]
  IN  copy[n]

memset_(m, b, c, len) ==
  LET set[i \in 0..len] == IF i = 0 THEN m ELSE [set[i - 1] EXCEPT ![b + i - 1] = c]
  IN  set[len]

\* Mutant of memmove_: always from the first byte to the last.
MoveForwards(m, dest, src, n) == memcpy_(m, dest, src, n)

memmove_(m, dest, src, n) ==
  IF dest < src THEN memcpy_(m, dest, src, n)
  ELSE LET move[i \in 0..n] ==
             IF i = 0 THEN m
             ELSE LET c == move[i - 1]
                  IN  [c EXCEPT ![dest + n - i] = c[src + n - i]]
       IN  move[n]

\* How many bytes the loops of memchr_ and memcmp_ pass over.
Passed(n, Stop) ==
  CHOOSE k \in 0..n : (k = n \/ k \in Stop) /\ \A j \in 0..(k - 1) : j \notin Stop

\* The address found, or 0 for NULL.
memchr_(m, s, c, n) ==
  LET k == Passed(n, {i \in 0..(n - 1) : m[s + i] = c})
  IN  IF k = n THEN 0 ELSE s + k

memcmp_(m, s1, s2, n) ==
  LET k == Passed(n, {i \in 0..(n - 1) : m[s1 + i] # m[s2 + i]})
  IN  IF k = n THEN 0 ELSE IF m[s1 + k] < m[s2 + k] THEN -1 ELSE 1

-----------------------------------------------------------------------------
(***************************************************************************)
(* Strings in memory, with their NUL.                                      *)
(***************************************************************************)

strlen_(m, s) ==
  CHOOSE n \in 0..(Top(m) - s) : m[s + n] = 0 /\ \A k \in 0..(n - 1) : m[s + k] # 0

strcpy_(m, dest, src) == memcpy_(m, dest, src, strlen_(m, src) + 1)

\* The loop keeps the address of the last c it has seen; 0 for NULL.
strrchr_(m, s, c) ==
  LET last[k \in 0..strlen_(m, s)] ==
        IF k = 0 THEN 0 ELSE IF m[s + k - 1] = c THEN s + k - 1 ELSE last[k - 1]
  IN  last[strlen_(m, s)]

=============================================================================
