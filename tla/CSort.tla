------------------------------- MODULE CSort --------------------------------
(***************************************************************************)
(* qsort_ of util.c, which is a bubble sort.  An array is the sequence of  *)
(* its elements, and a pointer to a comparison is a function of pairs     *)
(* of them.                                                                *)
(***************************************************************************)
EXTENDS Integers, Sequences

\* Mutant of BubblePass: equal elements are swapped too.
BubblePassEqual(arr, m, compar) ==
  LET pass[j \in 0..m] ==
        IF j = 0 THEN arr
        ELSE LET a == pass[j - 1]
             IN  IF compar[<<a[j], a[j + 1]>>] >= 0
                 THEN [a EXCEPT ![j] = a[j + 1], ![j + 1] = a[j]]
                 ELSE a
  IN  pass[m]

\* One pass of the inner loop, over the first m + 1 elements.
BubblePass(arr, m, compar) ==
  LET pass[j \in 0..m] ==
        IF j = 0 THEN arr
        ELSE LET a == pass[j - 1]
             IN  IF compar[<<a[j], a[j + 1]>>] > 0
                 THEN [a EXCEPT ![j] = a[j + 1], ![j + 1] = a[j]]
                 ELSE a
  IN  pass[m]

\* qsort_ for nel >= 1; with nel = 0 the code's nel - 1 wraps, callers avoid it.
qsort_(arr, compar) ==
  LET nel == Len(arr)
      sorted[i \in 0..(nel - 1)] ==
        IF i = 0 THEN arr ELSE BubblePass(sorted[i - 1], nel - i, compar)
  IN  sorted[nel - 1]

=============================================================================
