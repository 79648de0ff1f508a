----------------------------- MODULE Fdt_proofs -----------------------------
(***************************************************************************)
(* Theorems about load_dtb and fdt_add_bootargs, for every command line    *)
(* and every device tree, damaged ones included; what the edited tree      *)
(* means (the last two theorems) is stated for sound ones.                 *)
(***************************************************************************)
EXTENDS Fdt, SetInduction, SequenceTheorems

\* The least element of a set of positions, which a search returns.
LEMMA EarliestIsLeast ==
  ASSUME NEW S, S \subseteq Nat, S # {}
  PROVE  Earliest(S) \in S /\ \A j \in S : Earliest(S) <= j
<1>1. \E i \in S : \A j \in S : i <= j
  BY LeastNatural
<1> QED
  BY <1>1 DEF Earliest

-----------------------------------------------------------------------------
(***************************************************************************)
(* Sizes.                                                                  *)
(***************************************************************************)

LEMMA AlignType ==
  ASSUME NEW n \in Nat
  PROVE  FDT_TAGALIGN(n) \in Nat /\ FDT_TAGALIGN(12 + n) = 12 + FDT_TAGALIGN(n)
BY DEF FDT_TAGALIGN

LEMMA TagSizeType ==
  ASSUME NEW t \in Tags
  PROVE  TagSize(t) \in Nat
<1>1. TagLen(t) \in Nat
  BY DEF Tags, TagLen, FDT_TAGSIZE
<1> QED
  BY <1>1, AlignType DEF TagSize

\* A property takes a header of 12 bytes and its data, padded.
LEMMA PropSize ==
  ASSUME NEW t \in Tags, t.tag = "FDT_PROP"
  PROVE  t.data \in Seq(Nat) /\ TagSize(t) = 12 + FDT_TAGALIGN(Len(t.data))
<1>1. t.data \in Seq(Nat)
  BY DEF Tags
<1>2. TagLen(t) = 12 + Len(t.data) /\ Len(t.data) \in Nat
  BY <1>1 DEF TagLen, FDT_TAGSIZE
<1> QED
  BY <1>1, <1>2, AlignType DEF TagSize

\* sum holds the bytes of each number of tags.
IsOffsets(sum, tags) ==
  /\ sum \in [0..Len(tags) -> Nat]
  /\ sum[0] = 0
  /\ \A k \in 1..Len(tags) : sum[k] = sum[k - 1] + TagSize(tags[k])

LEMMA OffsetsSteps ==
  ASSUME NEW tags \in Seq(Tags)
  PROVE  IsOffsets(Offsets(tags), tags)
<1> DEFINE n == Len(tags)
           size == [i \in 1..n |-> TagSize(tags[i])]
           F == [i \in 1..n |-> [v \in Nat |-> v + size[i]]]
<1>1. n \in Nat
  OBVIOUS
<1>2. size \in [1..n -> Nat]
  <2>1. ASSUME NEW i \in 1..n
        PROVE  TagSize(tags[i]) \in Nat
    <3>1. tags[i] \in Tags
      BY ElementOfSeq
    <3> QED
      BY <3>1, TagSizeType
  <2> QED
    BY <2>1
<1>3. \A i \in 1..n : size[i] = TagSize(tags[i])
  OBVIOUS
<1> HIDE DEF n, size
<1>4. F \in [1..n -> [Nat -> Nat]]
  BY <1>2
<1>5. PICK g : IsLoop(g, n, Nat, 0, F)
  <2> HIDE DEF F
  <2> QED
    BY <1>1, <1>4, LoopDefined
<1>6. g \in [0..n -> Nat] /\ g[0] = 0 /\ \A i \in 1..n : g[i] = g[i - 1] + size[i]
  <2>1. g \in [0..n -> Nat] /\ g[0] = 0 /\ \A i \in 1..n : g[i] = F[i][g[i - 1]]
    <3> HIDE DEF F
    <3> QED
      BY <1>5 DEF IsLoop
  <2>2. ASSUME NEW i \in 1..n
        PROVE  F[i][g[i - 1]] = g[i - 1] + size[i]
    <3>1. g[i - 1] \in Nat
      BY <1>1, <2>1
    <3> QED
      BY <3>1
  <2> HIDE DEF F
  <2> QED
    BY <2>1, <2>2
<1> DEFINE Loop(x) == x = [k \in 0..n |-> IF k = 0 THEN 0
                                         ELSE x[k - 1] + TagSize(tags[k])]
           sum == CHOOSE x : Loop(x)
<1>7. Loop(g)
  <2>1. g = [i \in 0..n |-> g[i]]
    BY <1>6
  <2>2. \A i \in 0..n : g[i] = IF i = 0 THEN 0 ELSE g[i - 1] + TagSize(tags[i])
    BY <1>1, <1>3, <1>6
  <2> QED
    BY <2>1, <2>2
<1>8. Loop(sum)
  <2> HIDE DEF Loop
  <2> QED
    BY <1>7
<1>9. Offsets(tags) = sum
  BY DEF Offsets, n
<1> HIDE DEF sum
<1>10. \A i \in 0..n : sum[i] = IF i = 0 THEN 0 ELSE sum[i - 1] + TagSize(tags[i])
  BY <1>8
<1>11. ASSUME NEW i \in 0..n
       PROVE  sum[i] = g[i]
  <2>1. sum[0] = g[0]
    BY <1>1, <1>6, <1>10
  <2>2. \A j \in 1..i : sum[j - 1] = g[j - 1] => sum[j] = g[j]
    BY <1>1, <1>3, <1>6, <1>10
  <2>3. i \in Nat
    BY <1>1
  <2> QED
    BY <2>1, <2>2, <2>3, SameLoop
<1>12. sum = [i \in 0..n |-> sum[i]]
  BY <1>8
<1>13. sum = g
  BY <1>6, <1>11, <1>12
<1> QED
  BY <1>3, <1>6, <1>9, <1>13 DEF IsOffsets, n

\* The n tags behind the first p of x are those behind the first q of y.
SameRun(x, p, y, q, n) ==
  /\ p + n <= Len(x) /\ q + n <= Len(y)
  /\ \A j \in 1..n : x[p + j] = y[q + j]

\* Equal tags in a row take the same number of bytes wherever they are.
LEMMA RunsAlike ==
  ASSUME NEW x \in Seq(Tags), NEW y \in Seq(Tags),
         NEW p \in Nat, NEW q \in Nat, NEW n \in Nat, SameRun(x, p, y, q, n)
  PROVE  Offsets(x)[p + n] - Offsets(x)[p] = Offsets(y)[q + n] - Offsets(y)[q]
<1> USE DEF SameRun
<1>1. PICK X : X = Offsets(x)
  OBVIOUS
<1>2. PICK Y : Y = Offsets(y)
  OBVIOUS
<1>3. IsOffsets(X, x) /\ IsOffsets(Y, y)
  BY <1>1, <1>2, OffsetsSteps
<1> DEFINE S == {j \in Nat : j <= n => X[p + j] - X[p] = Y[q + j] - Y[q]}
<1>4. X[p] \in Nat /\ Y[q] \in Nat
  BY <1>3 DEF IsOffsets
<1>5. 0 \in S
  BY <1>4
<1>6. ASSUME NEW j \in Nat, j \in S
      PROVE  j + 1 \in S
  <2> SUFFICES ASSUME j + 1 <= n
               PROVE  X[p + (j + 1)] - X[p] = Y[q + (j + 1)] - Y[q]
    OBVIOUS
  <2>1. X[p + j] - X[p] = Y[q + j] - Y[q]
    BY <1>6
  <2>2. /\ p + (j + 1) \in 1..Len(x) /\ (p + (j + 1)) - 1 = p + j
        /\ q + (j + 1) \in 1..Len(y) /\ (q + (j + 1)) - 1 = q + j
        /\ p + j \in 0..Len(x) /\ q + j \in 0..Len(y)
    OBVIOUS
  <2>3. /\ X[p + (j + 1)] = X[p + j] + TagSize(x[p + (j + 1)])
        /\ Y[q + (j + 1)] = Y[q + j] + TagSize(y[q + (j + 1)])
    BY <1>3, <2>2 DEF IsOffsets
  <2>4. x[p + (j + 1)] = y[q + (j + 1)]
    <3>1. j + 1 \in 1..n
      OBVIOUS
    <3> QED
      BY <3>1
  <2>5. TagSize(x[p + (j + 1)]) \in Nat
    <3>1. x[p + (j + 1)] \in Tags
      BY <2>2, ElementOfSeq
    <3> QED
      BY <3>1, TagSizeType
  <2>6. X[p + j] \in Nat /\ Y[q + j] \in Nat
    BY <1>3, <2>2 DEF IsOffsets
  <2>7. PICK u \in Nat : u = TagSize(x[p + (j + 1)])
    BY <2>5
  <2>8. X[p + (j + 1)] = X[p + j] + u /\ Y[q + (j + 1)] = Y[q + j] + u
    BY <2>3, <2>4, <2>7
  <2>9. PICK x0 \in Nat, x1 \in Nat, y0 \in Nat, y1 \in Nat :
          x0 = X[p] /\ x1 = X[p + j] /\ y0 = Y[q] /\ y1 = Y[q + j]
    BY <1>4, <2>6
  <2>10. x1 - x0 = y1 - y0
    BY <2>1, <2>9
  <2>11. (x1 + u) - x0 = (y1 + u) - y0
    BY <2>10
  <2> QED
    BY <2>8, <2>9, <2>11
<1>7. n \in S
  <2> HIDE DEF S
  <2> QED
    BY <1>5, <1>6, NatSetInduction
<1> QED
  BY <1>1, <1>2, <1>7

LEMMA SizeIsNat ==
  ASSUME NEW tags \in Seq(Tags)
  PROVE  SizeOf(tags) = Offsets(tags)[Len(tags)] /\ SizeOf(tags) \in Nat
<1>1. (Len(tags) + 1) - 1 = Len(tags) /\ Len(tags) \in Nat
  OBVIOUS
<1>2. SizeOf(tags) = Offsets(tags)[Len(tags)]
  BY <1>1 DEF SizeOf, Offset
<1> QED
  BY <1>1, <1>2, OffsetsSteps DEF IsOffsets

\* What a sequence with tags inserted holds.
LEMMA InsertedProperties ==
  ASSUME NEW a \in Seq(Tags), NEW new \in Seq(Tags), NEW k \in 1..(Len(a) + 1)
  PROVE  LET b == Inserted(a, k, new)
         IN  /\ b \in Seq(Tags)
             /\ Len(b) = Len(a) + Len(new)
             /\ \A j \in 1..(k - 1) : b[j] = a[j]
             /\ \A j \in 1..Len(new) : b[(k - 1) + j] = new[j]
             /\ \A j \in 1..(Len(a) - (k - 1)) :
                  b[((k - 1) + Len(new)) + j] = a[(k - 1) + j]
<1>1. PICK n \in Nat : n = Len(a)
  OBVIOUS
<1>2. PICK l \in Nat : l = Len(new)
  OBVIOUS
<1>3. PICK h : h = SubSeq(a, 1, k - 1)
  OBVIOUS
<1>4. PICK t : t = SubSeq(a, k, Len(a))
  OBVIOUS
<1>5. k \in 1..(n + 1) /\ \A i \in 1..n : a[i] \in Tags
  BY <1>1, ElementOfSeq
<1>6. h \in Seq(Tags) /\ Len(h) = k - 1 /\ \A j \in 1..(k - 1) : h[j] = a[j]
  <2>1. \A i \in 1..(k - 1) : a[i] \in Tags
    BY <1>5
  <2>2. /\ h \in Seq(Tags)
        /\ Len(h) = IF 1 <= k - 1 THEN (k - 1) - 1 + 1 ELSE 0
        /\ \A j \in 1..((k - 1) - 1 + 1) : h[j] = a[1 + j - 1]
    BY <1>3, <1>5, <2>1, SubSeqProperties
  <2> QED
    BY <1>5, <2>2
<1>7. /\ t \in Seq(Tags) /\ Len(t) = n - (k - 1)
      /\ \A j \in 1..(n - (k - 1)) : t[j] = a[(k - 1) + j]
  <2>1. \A i \in k..n : a[i] \in Tags
    BY <1>5
  <2>2. /\ t \in Seq(Tags)
        /\ Len(t) = IF k <= n THEN n - k + 1 ELSE 0
        /\ \A j \in 1..(n - k + 1) : t[j] = a[k + j - 1]
    BY <1>1, <1>4, <1>5, <2>1, SubSeqProperties
  <2>3. /\ n - k + 1 = n - (k - 1)
        /\ \A j \in 1..(n - (k - 1)) : k + j - 1 = (k - 1) + j
    BY <1>5
  <2> QED
    BY <1>5, <2>2, <2>3
<1>8. PICK g : g = h \o new
  OBVIOUS
<1>9. /\ g \in Seq(Tags) /\ Len(g) = (k - 1) + l
      /\ \A i \in 1..((k - 1) + l) :
           g[i] = IF i <= k - 1 THEN h[i] ELSE new[i - (k - 1)]
  <2>1. /\ h \o new \in Seq(Tags) /\ Len(h \o new) = Len(h) + Len(new)
        /\ \A i \in 1..(Len(h) + Len(new)) :
             (h \o new)[i] = IF i <= Len(h) THEN h[i] ELSE new[i - Len(h)]
    BY <1>6, ConcatProperties
  <2> QED
    BY ONLY <1>2, <1>6, <1>8, <2>1
<1>10. PICK b : b = g \o t
  OBVIOUS
<1>11. /\ b \in Seq(Tags) /\ Len(b) = ((k - 1) + l) + (n - (k - 1))
       /\ \A i \in 1..(((k - 1) + l) + (n - (k - 1))) :
            b[i] = IF i <= (k - 1) + l THEN g[i] ELSE t[i - ((k - 1) + l)]
  <2>1. /\ g \o t \in Seq(Tags) /\ Len(g \o t) = Len(g) + Len(t)
        /\ \A i \in 1..(Len(g) + Len(t)) :
             (g \o t)[i] = IF i <= Len(g) THEN g[i] ELSE t[i - Len(g)]
    BY <1>7, <1>9, ConcatProperties
  <2> QED
    BY ONLY <1>7, <1>9, <1>10, <2>1
<1>12. b = Inserted(a, k, new)
  BY <1>3, <1>4, <1>8, <1>10 DEF Inserted
<1>13. ASSUME NEW j \in 1..(k - 1)
       PROVE  b[j] = a[j]
  <2>1. /\ j <= k - 1 /\ j <= (k - 1) + l
        /\ j \in 1..((k - 1) + l)
        /\ j \in 1..(((k - 1) + l) + (n - (k - 1)))
    BY <1>5
  <2>2. b[j] = g[j]
    BY <1>11, <2>1
  <2>3. g[j] = h[j]
    BY <1>9, <2>1
  <2> QED
    BY <1>6, <2>2, <2>3
<1>14. ASSUME NEW j \in 1..l
       PROVE  b[(k - 1) + j] = new[j]
  <2>1. /\ (k - 1) + j \in 1..((k - 1) + l) /\ ((k - 1) + j) - (k - 1) = j
        /\ ~((k - 1) + j <= k - 1)
        /\ (k - 1) + j \in 1..(((k - 1) + l) + (n - (k - 1)))
    BY <1>5
  <2> QED
    BY <1>9, <1>11, <2>1
<1>15. ASSUME NEW j \in 1..(n - (k - 1))
       PROVE  b[((k - 1) + l) + j] = a[(k - 1) + j]
  <2>1. /\ ((k - 1) + l) + j \in 1..(((k - 1) + l) + (n - (k - 1)))
        /\ (((k - 1) + l) + j) - ((k - 1) + l) = j
        /\ ~(((k - 1) + l) + j <= (k - 1) + l)
    BY <1>5
  <2> QED
    BY <1>7, <1>11, <2>1
<1>16. Len(b) = n + l
  BY <1>5, <1>11
<1> QED
  BY <1>1, <1>2, <1>11, <1>12, <1>13, <1>14, <1>15, <1>16

\* Tags that are inserted add their own size and no more.
LEMMA SizeOfInserted ==
  ASSUME NEW a \in Seq(Tags), NEW new \in Seq(Tags), NEW k \in 1..(Len(a) + 1)
  PROVE  /\ Inserted(a, k, new) \in Seq(Tags)
         /\ Len(Inserted(a, k, new)) = Len(a) + Len(new)
         /\ SizeOf(Inserted(a, k, new)) = SizeOf(a) + SizeOf(new)
<1>1. PICK n \in Nat : n = Len(a)
  OBVIOUS
<1>2. PICK l \in Nat : l = Len(new)
  OBVIOUS
<1>3. PICK b : b = Inserted(a, k, new)
  OBVIOUS
<1>4. PICK p \in 0..n : p = k - 1
  BY <1>1
<1>5. /\ b \in Seq(Tags) /\ Len(b) = n + l
      /\ \A j \in 1..p : b[j] = a[j]
      /\ \A j \in 1..l : b[p + j] = new[j]
      /\ \A j \in 1..(n - p) : b[(p + l) + j] = a[p + j]
  BY <1>1, <1>2, <1>3, <1>4, InsertedProperties
<1>6. PICK A : A = Offsets(a) /\ IsOffsets(A, a)
  BY OffsetsSteps
<1>7. PICK B : B = Offsets(b) /\ IsOffsets(B, b)
  BY <1>5, OffsetsSteps
<1>8. PICK C : C = Offsets(new) /\ IsOffsets(C, new)
  BY OffsetsSteps
<1>9. B[0 + p] - B[0] = A[0 + p] - A[0]
  <2>1. \A j \in 1..p : b[0 + j] = a[0 + j]
    BY <1>5
  <2>2. 0 + p <= Len(b) /\ 0 + p <= Len(a)
    BY <1>1, <1>5
  <2>3. SameRun(b, 0, a, 0, p)
    BY <2>1, <2>2 DEF SameRun
  <2> QED
    BY <1>5, <1>6, <1>7, <2>3, RunsAlike
<1>10. B[p + l] - B[p] = C[0 + l] - C[0]
  <2>1. \A j \in 1..l : b[p + j] = new[0 + j]
    BY <1>5
  <2>2. p + l <= Len(b) /\ 0 + l <= Len(new)
    BY <1>2, <1>5
  <2>3. SameRun(b, p, new, 0, l)
    BY <2>1, <2>2 DEF SameRun
  <2> QED
    BY <1>5, <1>7, <1>8, <2>3, RunsAlike
<1>11. B[(p + l) + (n - p)] - B[p + l] = A[p + (n - p)] - A[p]
  <2>1. (p + l) + (n - p) <= Len(b) /\ p + (n - p) <= Len(a)
    BY <1>1, <1>5
  <2>2. p + l \in Nat /\ n - p \in Nat
    OBVIOUS
  <2>3. SameRun(b, p + l, a, p, n - p)
    BY <1>5, <2>1 DEF SameRun
  <2> QED
    BY <1>5, <1>6, <1>7, <2>2, <2>3, RunsAlike
<1>12. /\ 0 + p = p /\ 0 + l = l /\ (p + l) + (n - p) = n + l
       /\ p + (n - p) = n
  OBVIOUS
<1>13. /\ A[0] = 0 /\ A[p] \in Nat /\ A[n] \in Nat
       /\ B[0] = 0 /\ B[p] \in Nat /\ B[p + l] \in Nat /\ B[n + l] \in Nat
       /\ C[0] = 0 /\ C[l] \in Nat
  <2>1. /\ p \in 0..n /\ n \in 0..n /\ p \in 0..(n + l)
        /\ p + l \in 0..(n + l) /\ n + l \in 0..(n + l) /\ l \in 0..l
    OBVIOUS
  <2> QED
    BY <1>1, <1>2, <1>5, <1>6, <1>7, <1>8, <2>1 DEF IsOffsets
<1>14. B[n + l] = A[n] + C[l]
  <2>1. /\ B[p] - B[0] = A[p] - A[0] /\ B[p + l] - B[p] = C[l] - C[0]
        /\ B[n + l] - B[p + l] = A[n] - A[p]
    BY ONLY <1>9, <1>10, <1>11, <1>12
  <2>2. PICK a1 \in Nat, a2 \in Nat, b1 \in Nat, b2 \in Nat, b3 \in Nat, c \in Nat :
          /\ a1 = A[p] /\ a2 = A[n] /\ c = C[l]
          /\ b1 = B[p] /\ b2 = B[p + l] /\ b3 = B[n + l]
    BY <1>13
  <2>3. b1 - 0 = a1 - 0 /\ b2 - b1 = c - 0 /\ b3 - b2 = a2 - a1
    BY <1>13, <2>1, <2>2
  <2>4. b3 = a2 + c
    BY <2>3
  <2> QED
    BY <2>2, <2>4
<1>15. SizeOf(a) = A[n] /\ SizeOf(b) = B[n + l] /\ SizeOf(new) = C[l]
  BY <1>1, <1>2, <1>5, <1>6, <1>7, <1>8, SizeIsNat
<1> QED
  BY <1>1, <1>2, <1>3, <1>5, <1>14, <1>15

\* A tag that is replaced adds its own size and takes the old one's away.
LEMMA SizeOfReplaced ==
  ASSUME NEW a \in Seq(Tags), NEW k \in 1..Len(a), NEW t \in Tags
  PROVE  /\ [a EXCEPT ![k] = t] \in Seq(Tags)
         /\ SizeOf([a EXCEPT ![k] = t]) = SizeOf(a) + TagSize(t) - TagSize(a[k])
<1>1. PICK n \in Nat : n = Len(a)
  OBVIOUS
<1>2. PICK b : b = [a EXCEPT ![k] = t]
  OBVIOUS
<1>3. /\ b \in Seq(Tags) /\ Len(b) = n /\ k \in 1..n
      /\ \A j \in 1..n : b[j] = IF j = k THEN t ELSE a[j]
  BY <1>1, <1>2, ExceptSeq
<1>4. PICK p \in Nat : p = k - 1
  BY <1>3
<1>5. PICK A : A = Offsets(a) /\ IsOffsets(A, a)
  BY OffsetsSteps
<1>6. PICK B : B = Offsets(b) /\ IsOffsets(B, b)
  BY <1>3, OffsetsSteps
<1>7. B[0 + p] - B[0] = A[0 + p] - A[0]
  <2>1. \A j \in 1..p : b[0 + j] = a[0 + j]
    BY <1>3, <1>4
  <2>2. 0 + p <= Len(b) /\ 0 + p <= Len(a)
    BY <1>1, <1>3, <1>4
  <2>3. SameRun(b, 0, a, 0, p)
    BY <2>1, <2>2 DEF SameRun
  <2> QED
    BY <1>3, <1>5, <1>6, <2>3, RunsAlike
<1>8. B[k + (n - k)] - B[k] = A[k + (n - k)] - A[k]
  <2>1. \A j \in 1..(n - k) : b[k + j] = a[k + j]
    BY <1>3
  <2>2. k + (n - k) <= Len(b) /\ k + (n - k) <= Len(a)
    BY <1>1, <1>3
  <2>3. k \in Nat /\ n - k \in Nat
    BY <1>3
  <2>4. SameRun(b, k, a, k, n - k)
    BY <2>1, <2>2 DEF SameRun
  <2> QED
    BY <1>3, <1>5, <1>6, <2>3, <2>4, RunsAlike
<1>9. 0 + p = p /\ k + (n - k) = n /\ k - 1 = p
  BY <1>3, <1>4
<1>10. A[k] = A[k - 1] + TagSize(a[k]) /\ B[k] = B[k - 1] + TagSize(b[k])
  BY <1>1, <1>3, <1>5, <1>6 DEF IsOffsets
<1>11. /\ A[0] = 0 /\ A[p] \in Nat /\ A[k] \in Nat /\ A[n] \in Nat
       /\ B[0] = 0 /\ B[p] \in Nat /\ B[k] \in Nat /\ B[n] \in Nat
  <2>1. p \in 0..n /\ k \in 0..n /\ n \in 0..n
    BY <1>3, <1>4
  <2> QED
    BY <1>1, <1>3, <1>5, <1>6, <2>1 DEF IsOffsets
<1>12. PICK u \in Nat : u = TagSize(a[k])
  <2>1. a[k] \in Tags
    BY <1>1, <1>3, ElementOfSeq
  <2> QED
    BY <2>1, TagSizeType
<1>13. PICK v \in Nat : v = TagSize(t)
  BY TagSizeType
<1>14. B[n] = A[n] + v - u
  <2>1. /\ B[p] - B[0] = A[p] - A[0] /\ B[n] - B[k] = A[n] - A[k]
        /\ A[k] = A[p] + u /\ B[k] = B[p] + v
    BY <1>3, <1>7, <1>8, <1>9, <1>10, <1>12, <1>13
  <2>2. PICK a1 \in Nat, a2 \in Nat, a3 \in Nat, b1 \in Nat, b2 \in Nat, b3 \in Nat :
          /\ a1 = A[p] /\ a2 = A[k] /\ a3 = A[n]
          /\ b1 = B[p] /\ b2 = B[k] /\ b3 = B[n]
    BY <1>11
  <2>3. /\ b1 - 0 = a1 - 0 /\ b3 - b2 = a3 - a2
        /\ a2 = a1 + u /\ b2 = b1 + v
    BY <1>11, <2>1, <2>2
  <2>4. b3 = a3 + v - u
    BY <2>3
  <2> QED
    BY <2>2, <2>4
<1>15. SizeOf(a) = A[n] /\ SizeOf(b) = B[n]
  BY <1>1, <1>3, <1>5, <1>6, SizeIsNat
<1> QED
  BY <1>2, <1>3, <1>12, <1>13, <1>14, <1>15

-----------------------------------------------------------------------------
(***************************************************************************)
(* Blobs: a header field may lose its relation to the contents in a        *)
(* damaged tree, so sizes that libfdt subtracts from are only integers.    *)
(***************************************************************************)

Trees ==
  [magic : BOOLEAN, version : Nat, last_comp_version : Nat, totalsize : Nat,
   off_mem_rsvmap : Nat, off_dt_struct : Nat, size_dt_struct : Int,
   off_dt_strings : Int, size_dt_strings : Nat,
   tags : Seq(Tags), strings : Seq(Nat)]

LEMMA BlobIsTree ==
  ASSUME NEW f \in Blobs
  PROVE  f \in Trees
BY DEF Blobs, Trees

LEMMA WritableTree ==
  ASSUME NEW f \in Trees
  PROVE  LET g == Writable(f)
         IN  /\ g \in Trees
             /\ g.totalsize = f.totalsize
             /\ g.size_dt_struct = f.size_dt_struct
             /\ g.off_dt_struct = f.off_dt_struct
             /\ g.off_dt_strings = f.off_dt_strings
             /\ g.size_dt_strings = f.size_dt_strings
             /\ g.tags = f.tags /\ g.strings = f.strings
BY DEF Trees, Writable

LEMMA ResizedTree ==
  ASSUME NEW f \in Trees, NEW tags \in Seq(Tags), NEW delta \in Int
  PROVE  LET g == Resized(f, tags, delta)
         IN  /\ g \in Trees
             /\ g.totalsize = f.totalsize
             /\ g.size_dt_struct = f.size_dt_struct + delta
             /\ g.off_dt_strings = f.off_dt_strings + delta
             /\ g.size_dt_strings = f.size_dt_strings
             /\ g.tags = tags /\ g.strings = f.strings
<1>1. PICK size \in Int, off \in Int :
        size = f.size_dt_struct + delta /\ off = f.off_dt_strings + delta
  <2>1. f.size_dt_struct \in Int /\ f.off_dt_strings \in Int
    BY DEF Trees
  <2>2. f.size_dt_struct + delta \in Int /\ f.off_dt_strings + delta \in Int
    BY <2>1
  <2> QED
    BY ONLY <2>2
<1>2. PICK g : g = [f EXCEPT !.tags = tags, !.size_dt_struct = size,
                             !.off_dt_strings = off]
  OBVIOUS
<1>3. Resized(f, tags, delta) = g
  BY <1>1, <1>2 DEF Resized, Trees
<1>4. /\ g \in Trees /\ g.totalsize = f.totalsize
      /\ g.size_dt_struct = size /\ g.off_dt_strings = off
      /\ g.size_dt_strings = f.size_dt_strings
      /\ g.tags = tags /\ g.strings = f.strings
  BY <1>2 DEF Trees
<1> QED
  BY <1>1, <1>3, <1>4

\* A tag that is read is there.
LEMMA TagInBlock ==
  ASSUME NEW f \in Trees, NEW i \in Nat \ {0}, Tag(f, i) \notin NoTag
  PROVE  i \in 1..Len(f.tags) /\ Tag(f, i) = f.tags[i].tag /\ f.tags[i] \in Tags
<1>1. f.tags \in Seq(Tags)
  BY DEF Trees
<1>2. ~(i > Len(f.tags)) /\ Tag(f, i) = f.tags[i].tag
  BY DEF Tag, NoTag
<1>3. i \in 1..Len(f.tags)
  BY <1>1, <1>2
<1> QED
  BY <1>1, <1>2, <1>3, ElementOfSeq

LEMMA NoTagBehind ==
  ASSUME NEW f \in Trees
  PROVE  /\ Len(f.tags) \in Nat
         /\ Tag(f, Len(f.tags) + 1) = "TRUNCATED"
<1>1. Len(f.tags) \in Nat
  BY DEF Trees
<1>2. Len(f.tags) + 1 > Len(f.tags)
  BY <1>1
<1> QED
  BY <1>1, <1>2 DEF Tag

\* The walk over a node's properties ends at a tag, or just behind the last.
LEMMA PropsEndInBlock ==
  ASSUME NEW f \in Trees, NEW n \in 1..Len(f.tags)
  PROVE  PropsEnd(f, n) \in (n + 1)..(Len(f.tags) + 1)
<1> DEFINE S == {i \in (n + 1)..(Len(f.tags) + 1) :
                   Tag(f, i) \notin {"FDT_PROP", "FDT_NOP"}}
<1>1. Len(f.tags) \in Nat /\ Tag(f, Len(f.tags) + 1) = "TRUNCATED"
  BY NoTagBehind
<1>2. Len(f.tags) + 1 \in S /\ S \subseteq Nat
  BY <1>1
<1>3. PropsEnd(f, n) = Earliest(S)
  BY DEF PropsEnd
<1>4. Earliest(S) \in S
  <2> HIDE DEF S
  <2> QED
    BY <1>2, EarliestIsLeast
<1> QED
  BY <1>3, <1>4

\* /chosen is found among the tags.
LEMMA ChosenInBlock ==
  ASSUME NEW f \in Trees, NEW s
  PROVE  LET r == fdt_subnode_offset(f, s)
         IN  /\ r.err = "OK" => r.at \in 1..Len(f.tags)
             /\ r.err = "NOTFOUND" => 1 \in 1..Len(f.tags)
<1> DEFINE r == fdt_subnode_offset(f, s)
           Stop == {i \in 2..(Len(f.tags) + 1) :
                      \/ Tag(f, i) \in NoTag \cup {"FDT_END"}
                      \/ Depth(f, i) < 0}
           Found == {i \in 2..(WalkEnd(f) - 1) :
                       /\ Tag(f, i) = "FDT_BEGIN_NODE"
                       /\ Depth(f, i) = 1
                       /\ fdt_nodename_eq_(f.tags[i].name, s)}
<1>1. CASE Tag(f, 1) # "FDT_BEGIN_NODE" \/ fdt_ro_probe_(f) # "OK"
  BY <1>1 DEF fdt_subnode_offset, fdt_ro_probe_
<1>2. CASE Tag(f, 1) = "FDT_BEGIN_NODE" /\ fdt_ro_probe_(f) = "OK"
  <2>1. 1 \in 1..Len(f.tags)
    BY <1>2, TagInBlock DEF NoTag
  <2>2. Len(f.tags) \in Nat /\ Tag(f, Len(f.tags) + 1) = "TRUNCATED"
    BY NoTagBehind
  <2>3. Len(f.tags) + 1 \in Stop /\ Stop \subseteq Nat
    BY <2>1, <2>2 DEF NoTag
  <2>4. WalkEnd(f) = Earliest(Stop)
    BY DEF WalkEnd
  <2>5. Earliest(Stop) \in Stop
    <3> HIDE DEF Stop
    <3> QED
      BY <2>3, EarliestIsLeast
  <2>6. WalkEnd(f) \in 2..(Len(f.tags) + 1)
    BY <2>4, <2>5
  <2>7. CASE Found # {}
    <3>1. r = [err |-> "OK", at |-> Earliest(Found)]
      BY <1>2, <2>7 DEF fdt_subnode_offset
    <3>2. Found \subseteq 1..Len(f.tags) /\ Found \subseteq Nat
      BY <2>2, <2>6
    <3>3. Earliest(Found) \in Found
      <4> HIDE DEF Found
      <4> QED
        BY <2>7, <3>2, EarliestIsLeast
    <3>4. r.err = "OK" /\ r.at \in 1..Len(f.tags)
      <4> HIDE DEF Found, r
      <4> QED
        BY <3>1, <3>2, <3>3
    <3> QED
      BY <3>4
  <2>8. CASE Found = {}
    <3>1. r.err # "OK"
      BY <1>2, <2>8 DEF fdt_subnode_offset, NoTag
    <3> QED
      BY <2>1, <3>1
  <2> QED
    BY <2>7, <2>8
<1> QED
  BY <1>1, <1>2 DEF fdt_ro_probe_

\* A property that is found is a property among the tags.
LEMMA PropertyInBlock ==
  ASSUME NEW f \in Trees, NEW n \in 1..Len(f.tags), NEW s,
         fdt_get_property(f, n, s).err = "OK"
  PROVE  LET at == fdt_get_property(f, n, s).at
         IN  /\ at \in 1..Len(f.tags)
             /\ f.tags[at] \in Tags /\ f.tags[at].tag = "FDT_PROP"
<1> DEFINE Found == {i \in (n + 1)..(PropsEnd(f, n) - 1) :
                       /\ Tag(f, i) = "FDT_PROP"
                       /\ fdt_get_string(f, f.tags[i].nameoff) = s}
<1>1. Found # {}
  BY DEF fdt_get_property, NoTag
<1>2. fdt_get_property(f, n, s) = [err |-> "OK", at |-> Earliest(Found)]
  BY <1>1 DEF fdt_get_property
<1>3. PropsEnd(f, n) \in (n + 1)..(Len(f.tags) + 1) /\ Len(f.tags) \in Nat
  BY PropsEndInBlock, NoTagBehind
<1>4. Found \subseteq Nat
  BY <1>3
<1>5. Earliest(Found) \in Found
  <2> HIDE DEF Found
  <2> QED
    BY <1>1, <1>4, EarliestIsLeast
<1>6. PICK at : at = Earliest(Found)
  OBVIOUS
<1>7. at \in Nat \ {0} /\ Tag(f, at) = "FDT_PROP"
  BY <1>3, <1>5, <1>6
<1>8. at \in 1..Len(f.tags) /\ f.tags[at] \in Tags /\ f.tags[at].tag = "FDT_PROP"
  BY <1>7, TagInBlock DEF NoTag
<1> HIDE DEF Found
<1> QED
  BY <1>2, <1>6, <1>8

-----------------------------------------------------------------------------
(***************************************************************************)
(* The inductive invariant.                                                *)
(***************************************************************************)

InStep(f, src) ==
  /\ f \in Trees
  /\ f.totalsize = src.totalsize
  /\ f.size_dt_struct - src.size_dt_struct = SizeOf(f.tags) - SizeOf(src.tags)
  /\ f.off_dt_strings - src.off_dt_strings = SizeOf(f.tags) - SizeOf(src.tags)

Fits(f) == fdt_data_size_(f) <= f.totalsize

\* The tags of the source, perhaps with an empty /chosen.
SameTree(f, src) ==
  \/ f.tags = src.tags
  \/ \E at \in 2..(Len(src.tags) + 1) :
       f.tags = Inserted(src.tags, at, EmptyChosen)

SameStrings(f, src) == /\ f.strings = src.strings
                       /\ f.size_dt_strings = src.size_dt_strings

NameAdded(f, src) ==
  /\ f.strings = src.strings \o Append(Bootargs, NUL)
  /\ f.size_dt_strings = src.size_dt_strings + Len(Bootargs) + 1

\* The strings block that the header delimits is the source's.
StringsKept(f, src) == SubSeq(f.strings, 1, f.size_dt_strings) = src.strings

Loaded == fdt # NULL \/ pc \notin {"load_dtb", "fatal"}
Untouched == pc \in {"check_header", "find_chosen", "add_subnode"}
AtNode == pc \in {"resize_property", "add_string", "add_property"}

TreeInv ==
  /\ source \in Sources /\ bootargs \in Args \cup {NULL}
  /\ pc = "load_dtb" => fdt = NULL
  /\ Untouched \/ AtNode => bootargs # NULL
  /\ Loaded => InStep(fdt, source)
  /\ /\ Loaded /\ bootargs # NULL /\ pc # "check_header"
     /\ HeaderError(source) = "OK"
     => Fits(fdt)
  /\ Untouched => fdt = source
  /\ pc = "add_subnode" => 1 \in 1..Len(fdt.tags)
  /\ AtNode => node \in 1..Len(fdt.tags) /\ SameTree(fdt, source)
  /\ pc \in {"resize_property", "add_string"} => SameStrings(fdt, source)
  /\ pc = "add_property" =>
       /\ name \in Nat
       /\ IF allocated THEN NameAdded(fdt, source) ELSE SameStrings(fdt, source)
  /\ pc = "fatal" /\ fdt # NULL => StringsKept(fdt, source) /\ SameTree(fdt, source)

LEMMA SourceInStep ==
  ASSUME NEW f \in Sources
  PROVE  /\ f \in Blobs /\ InStep(f, f)
         /\ SameTree(f, f) /\ SameStrings(f, f) /\ StringsKept(f, f)
<1>1. f \in Blobs /\ f \in Trees /\ f.size_dt_strings = Len(f.strings)
  BY SourceAssumption, BlobIsTree
<1>2. f.tags \in Seq(Tags) /\ f.strings \in Seq(Nat)
      /\ f.size_dt_struct \in Int /\ f.off_dt_strings \in Int
  BY <1>1 DEF Trees
<1>3. SizeOf(f.tags) \in Nat
  BY <1>2, SizeIsNat
<1>4. InStep(f, f)
  BY <1>1, <1>2, <1>3 DEF InStep
<1>5. StringsKept(f, f)
  BY <1>1, <1>2, SubSeqFull DEF StringsKept
<1> QED
  BY <1>1, <1>4, <1>5 DEF SameTree, SameStrings

\* fdt_rw_probe_ changes the version only.
LEMMA WritableInStep ==
  ASSUME NEW f, NEW src, InStep(f, src)
  PROVE  /\ InStep(Writable(f), src)
         /\ Fits(f) => Fits(Writable(f))
         /\ SameTree(f, src) => SameTree(Writable(f), src)
         /\ SameStrings(f, src) => SameStrings(Writable(f), src)
         /\ Writable(f).tags = f.tags
BY WritableTree DEF InStep, Fits, SameTree, SameStrings, fdt_data_size_

\* What fdt_splice_ accepts fits.
LEMMA SpliceFits ==
  ASSUME NEW f \in Trees, NEW soff, NEW oldlen \in Int, NEW newlen \in Int,
         fdt_splice_(f, soff, oldlen, newlen) = "OK",
         NEW tags \in Seq(Tags), NEW delta \in Int, delta = newlen - oldlen
  PROVE  Fits(Resized(f, tags, delta))
<1>1. PICK g : g = Resized(f, tags, delta)
  OBVIOUS
<1>2. /\ g.totalsize = f.totalsize
      /\ g.off_dt_strings = f.off_dt_strings + delta
      /\ g.size_dt_strings = f.size_dt_strings
  BY <1>1, ResizedTree
<1>3. /\ f.totalsize \in Int /\ f.off_dt_strings \in Int
      /\ f.size_dt_strings \in Int
  BY DEF Trees
<1>4. ~(fdt_data_size_(f) - oldlen + newlen > f.totalsize)
  BY DEF fdt_splice_
<1>5. f.off_dt_strings + f.size_dt_strings - oldlen + newlen <= f.totalsize
  BY <1>3, <1>4 DEF fdt_data_size_
<1>6. (f.off_dt_strings + delta) + f.size_dt_strings <= f.totalsize
  BY <1>3, <1>5
<1> QED
  BY <1>1, <1>2, <1>6 DEF Fits, fdt_data_size_

\* Header and contents grow by the same number of bytes.
LEMMA ResizedInStep ==
  ASSUME NEW f, NEW src \in Blobs, InStep(f, src),
         NEW tags \in Seq(Tags), NEW delta \in Int,
         SizeOf(tags) = SizeOf(f.tags) + delta
  PROVE  InStep(Resized(f, tags, delta), src)
<1>1. f \in Trees
  BY DEF InStep
<1>2. PICK g : g = Resized(f, tags, delta)
  OBVIOUS
<1>3. /\ g \in Trees /\ g.totalsize = f.totalsize /\ g.tags = tags
      /\ g.size_dt_struct = f.size_dt_struct + delta
      /\ g.off_dt_strings = f.off_dt_strings + delta
  BY <1>1, <1>2, ResizedTree
<1>4. PICK a \in Int, b \in Int, c \in Int, d \in Int :
        /\ a = f.size_dt_struct /\ b = f.off_dt_strings
        /\ c = src.size_dt_struct /\ d = src.off_dt_strings
  BY <1>1 DEF Trees, Blobs
<1>5. PICK x \in Int, y \in Int : x = SizeOf(f.tags) /\ y = SizeOf(src.tags)
  <2>1. f.tags \in Seq(Tags) /\ src.tags \in Seq(Tags)
    BY <1>1 DEF Trees, Blobs
  <2> QED
    BY <2>1, SizeIsNat
<1>6. a - c = x - y /\ b - d = x - y
  BY <1>4, <1>5 DEF InStep
<1>7. (a + delta) - c = (x + delta) - y /\ (b + delta) - d = (x + delta) - y
  BY <1>6
<1> QED
  BY <1>2, <1>3, <1>4, <1>5, <1>7 DEF InStep

LEMMA InitTree == Init => TreeInv
BY DEF Init, TreeInv, Loaded, Untouched, AtNode

\* A step that gives up keeps the invariant if what it leaves in the blob is
\* the source's tree.
LEMMA GivesUp ==
  ASSUME TreeInv, NEW e, Fatal(e), InStep(fdt', source),
         bootargs # NULL /\ HeaderError(source) = "OK" => Fits(fdt'),
         StringsKept(fdt', source), SameTree(fdt', source)
  PROVE  TreeInv'
BY DEF TreeInv, Fatal, Loaded, Untouched, AtNode

LEMMA LoadDtbKeeps == TreeInv /\ LoadDtb => TreeInv'
<1> SUFFICES ASSUME TreeInv, LoadDtb PROVE TreeInv'
  OBVIOUS
<1>1. source \in Sources /\ bootargs \in Args \cup {NULL} /\ fdt = NULL
  BY DEF TreeInv, LoadDtb
<1>2. InStep(source, source)
  BY <1>1, SourceInStep
<1>3. CASE source.magic
  <2>1. /\ fdt' = source /\ source' = source /\ bootargs' = bootargs
        /\ pc' = IF bootargs = NULL THEN "done" ELSE "check_header"
    BY <1>3 DEF LoadDtb
  <2> QED
    BY <1>1, <1>2, <2>1 DEF TreeInv, Loaded, Untouched, AtNode
<1>4. CASE ~source.magic
  <2>1. /\ fdt' = NULL /\ source' = source /\ bootargs' = bootargs
        /\ pc' = "fatal"
    BY <1>1, <1>4 DEF LoadDtb, Fatal
  <2> QED
    BY <1>1, <2>1 DEF TreeInv, Loaded, Untouched, AtNode
<1> QED
  BY <1>3, <1>4

LEMMA CheckHeaderKeeps == TreeInv /\ fdt_check_header => TreeInv'
<1> SUFFICES ASSUME TreeInv, fdt_check_header PROVE TreeInv'
  OBVIOUS
<1>1. /\ source \in Sources /\ bootargs \in Args \cup {NULL} /\ bootargs # NULL
      /\ fdt = source /\ fdt' = fdt
  BY DEF TreeInv, fdt_check_header, Untouched
<1>2. source \in Blobs /\ InStep(source, source)
  BY <1>1, SourceInStep
<1>3. HeaderError(source) = "OK" => Fits(source)
  BY DEF HeaderError, check_block_, Fits, fdt_data_size_
<1>4. CASE HeaderError(fdt) = "OK"
  <2>1. /\ source' = source /\ bootargs' = bootargs /\ pc' = "find_chosen"
    BY <1>4 DEF fdt_check_header
  <2> QED
    BY <1>1, <1>2, <1>3, <2>1 DEF TreeInv, Loaded, Untouched, AtNode
<1>5. CASE HeaderError(fdt) # "OK"
  <2>1. Fatal(HeaderError(fdt))
    BY <1>5 DEF fdt_check_header
  <2>2. StringsKept(source, source) /\ SameTree(source, source)
    BY <1>1, SourceInStep
  <2> QED
    BY <1>1, <1>2, <1>3, <2>1, <2>2, GivesUp
<1> QED
  BY <1>4, <1>5

LEMMA FindChosenKeeps == TreeInv /\ FindChosen => TreeInv'
<1> SUFFICES ASSUME TreeInv, FindChosen PROVE TreeInv'
  OBVIOUS
<1>1. /\ source \in Sources /\ bootargs \in Args \cup {NULL} /\ bootargs # NULL
      /\ fdt = source /\ fdt' = fdt
      /\ HeaderError(source) = "OK" => Fits(fdt)
  BY DEF TreeInv, FindChosen, Untouched, Loaded
<1>2. /\ InStep(source, source) /\ SameTree(source, source)
      /\ SameStrings(source, source) /\ StringsKept(source, source)
  BY <1>1, SourceInStep
<1>3. PICK r : r = fdt_subnode_offset(fdt, Chosen)
  OBVIOUS
<1>4. /\ r.err = "OK" => r.at \in 1..Len(fdt.tags)
      /\ r.err = "NOTFOUND" => 1 \in 1..Len(fdt.tags)
  <2>1. fdt \in Trees
    BY <1>1, <1>2 DEF InStep
  <2> QED
    BY <1>3, <2>1, ChosenInBlock
<1>5. CASE /\ r.err = "OK" /\ node' = r.at /\ pc' = "resize_property"
           /\ source' = source /\ bootargs' = bootargs
  BY <1>1, <1>2, <1>4, <1>5 DEF TreeInv, Loaded, Untouched, AtNode
<1>6. CASE /\ r.err = "NOTFOUND" /\ pc' = "add_subnode"
           /\ source' = source /\ bootargs' = bootargs
  BY <1>1, <1>2, <1>4, <1>6 DEF TreeInv, Loaded, Untouched, AtNode
<1>7. CASE Fatal(r.err)
  BY <1>1, <1>2, <1>7, GivesUp
<1> QED
  BY <1>3, <1>5, <1>6, <1>7 DEF FindChosen

LEMMA ChosenTags == EmptyChosen \in Seq(Tags) /\ SizeOf(EmptyChosen) \in Nat
                    /\ Len(EmptyChosen) = 2
<1>1. BeginNode(Chosen) \in Tags /\ EndNode \in Tags
  BY SourceAssumption DEF BeginNode, EndNode, Tags
<1>2. EmptyChosen \in Seq(Tags) /\ Len(EmptyChosen) = 2
  BY <1>1 DEF EmptyChosen
<1> QED
  BY <1>2, SizeIsNat

LEMMA AddSubnodeKeeps == TreeInv /\ AddSubnode => TreeInv'
<1> SUFFICES ASSUME TreeInv, AddSubnode PROVE TreeInv'
  OBVIOUS
<1> DEFINE at == PropsEnd(fdt, 1)
           new == EmptyChosen
           probe == fdt_rw_probe_(fdt)
           soff == fdt.off_dt_struct + Offset(fdt.tags, at)
           e == IF probe # "OK" THEN probe
                ELSE fdt_splice_(fdt, soff, 0, SizeOf(new))
           tags == Inserted(fdt.tags, at, new)
           w == Writable(fdt)
           g == Resized(w, tags, SizeOf(new))
<1>1. /\ source \in Sources /\ bootargs \in Args \cup {NULL} /\ bootargs # NULL
      /\ fdt = source /\ 1 \in 1..Len(fdt.tags)
      /\ HeaderError(source) = "OK" => Fits(fdt)
  BY DEF TreeInv, AddSubnode, Untouched, Loaded
<1>2. /\ source \in Blobs /\ InStep(fdt, source) /\ SameTree(fdt, source)
      /\ SameStrings(fdt, source) /\ StringsKept(fdt, source)
  BY <1>1, SourceInStep
<1>3. fdt \in Trees /\ fdt.tags \in Seq(Tags)
  BY <1>2 DEF InStep, Trees
<1>4. /\ w \in Trees /\ w.tags = fdt.tags /\ InStep(w, source)
      /\ Fits(fdt) => Fits(w)
      /\ SameTree(w, source) /\ SameStrings(w, source)
  <2>1. w \in Trees
    BY <1>3, WritableTree
  <2> QED
    BY <1>2, <2>1, WritableInStep
<1>5. StringsKept(w, source)
  BY <1>2, <1>4 DEF StringsKept, SameStrings
<1>6. CASE e = "OK"
  <2>1. /\ fdt' = g /\ node' = at /\ pc' = "resize_property"
        /\ source' = source /\ bootargs' = bootargs
    BY <1>6 DEF AddSubnode
  <2>2. at \in 2..(Len(fdt.tags) + 1)
    BY <1>1, <1>3, PropsEndInBlock
  <2>3. at \in 1..(Len(fdt.tags) + 1) /\ Len(fdt.tags) \in Nat
    BY <1>3, <2>2
  <2>4. new \in Seq(Tags) /\ SizeOf(new) \in Nat /\ Len(new) = 2
    BY ChosenTags
  <2> HIDE DEF at, new, w, soff
  <2>5. /\ tags \in Seq(Tags) /\ Len(tags) = Len(fdt.tags) + 2
        /\ SizeOf(tags) = SizeOf(fdt.tags) + SizeOf(new)
    BY <1>3, <2>3, <2>4, SizeOfInserted
  <2> HIDE DEF tags
  <2>6. InStep(g, source)
    BY <1>2, <1>4, <2>4, <2>5, ResizedInStep
  <2>7. Fits(g)
    <3>1. fdt_splice_(w, soff, 0, SizeOf(new)) = "OK"
      <4>1. fdt_splice_(fdt, soff, 0, SizeOf(new)) = "OK"
        BY <1>6
      <4> QED
        BY <1>3, <4>1, WritableTree DEF fdt_splice_, fdt_data_size_, w
    <3>2. SizeOf(new) = SizeOf(new) - 0 /\ SizeOf(new) \in Int /\ 0 \in Int
      BY <2>4
    <3> QED
      BY <1>4, <2>5, <3>1, <3>2, SpliceFits
  <2>8. g.tags = tags /\ SameStrings(g, source)
    <3>1. PICK size \in Int : size = SizeOf(new)
      BY <2>4
    <3>2. LET h == Resized(w, tags, size)
          IN  /\ h.tags = tags /\ h.strings = w.strings
              /\ h.size_dt_strings = w.size_dt_strings
      BY <1>4, <2>5, ResizedTree
    <3> QED
      BY <1>4, <3>1, <3>2 DEF SameStrings
  <2>9. SameTree(g, source)
    BY <1>1, <2>2, <2>8 DEF SameTree, tags, new
  <2>10. at \in 1..Len(tags)
    BY <2>3, <2>5
  <2> HIDE DEF g, e
  <2> QED
    BY <1>1, <2>1, <2>6, <2>7, <2>8, <2>9, <2>10
       DEF TreeInv, Loaded, Untouched, AtNode
<1>7. CASE e # "OK"
  <2>1. Fatal(e) /\ fdt' = IF probe = "OK" THEN w ELSE fdt
    BY <1>7 DEF AddSubnode
  <2> HIDE DEF e, probe, w
  <2> QED
    BY <1>1, <1>2, <1>4, <1>5, <2>1, GivesUp
<1> QED
  BY <1>6, <1>7

LEMMA ResizePropertyKeeps == TreeInv /\ ResizeProperty => TreeInv'
<1> SUFFICES ASSUME TreeInv, ResizeProperty PROVE TreeInv'
  OBVIOUS
<1>1. /\ source \in Sources /\ bootargs \in Args \cup {NULL} /\ bootargs # NULL
      /\ InStep(fdt, source) /\ node \in 1..Len(fdt.tags)
      /\ SameTree(fdt, source) /\ SameStrings(fdt, source)
      /\ HeaderError(source) = "OK" => Fits(fdt)
  BY DEF TreeInv, ResizeProperty, AtNode, Loaded
<1>2. PICK f : f = Writable(fdt)
  OBVIOUS
<1>3. /\ InStep(f, source) /\ SameTree(f, source) /\ SameStrings(f, source)
      /\ Fits(fdt) => Fits(f)
      /\ node \in 1..Len(f.tags)
  BY <1>1, <1>2, WritableInStep
<1>4. source \in Blobs /\ StringsKept(source, source)
  BY <1>1, SourceInStep
<1>5. StringsKept(fdt, source) /\ StringsKept(f, source)
  BY <1>1, <1>3, <1>4 DEF StringsKept, SameStrings
<1>6. PICK r : r = fdt_get_property(f, node, Bootargs)
  OBVIOUS
<1>7. PICK oldlen : oldlen = FDT_TAGALIGN(Len(f.tags[r.at].data))
  OBVIOUS
<1>8. PICK newlen : newlen = FDT_TAGALIGN(Len(bootargs))
  OBVIOUS
<1>9. PICK e : e = fdt_splice_(f, f.off_dt_struct + Offset(f.tags, r.at) + 12,
                               oldlen, newlen)
  OBVIOUS
<1>10. CASE fdt' \in {fdt, f} /\ \E x : Fatal(x)
  BY <1>1, <1>3, <1>5, <1>10, GivesUp
<1>11. CASE /\ fdt' = f /\ pc' = "add_string"
            /\ UNCHANGED <<source, bootargs, node>>
  BY <1>1, <1>3, <1>11 DEF TreeInv, Loaded, Untouched, AtNode
<1>12. CASE /\ r.err = "OK" /\ e = "OK"
            /\ fdt' = Resized(f, [f.tags EXCEPT ![r.at].data = bootargs],
                              newlen - oldlen)
            /\ pc' = "done" /\ UNCHANGED <<source, bootargs>>
  <2>1. PICK a : a = f.tags
    OBVIOUS
  <2>2. PICK k : k = r.at
    OBVIOUS
  <2>3. f \in Trees /\ a \in Seq(Tags)
    BY <1>3, <2>1 DEF InStep, Trees
  <2>4. k \in 1..Len(a) /\ a[k] \in Tags /\ a[k].tag = "FDT_PROP"
    BY <1>3, <1>6, <1>12, <2>1, <2>2, <2>3, PropertyInBlock
  <2>5. PICK t : t = [a[k] EXCEPT !.data = bootargs]
    OBVIOUS
  <2>6. bootargs \in Seq(Nat)
    BY <1>1, SourceAssumption
  <2>7. t \in Tags /\ t.tag = "FDT_PROP" /\ t.data = bootargs
    BY <2>4, <2>5, <2>6 DEF Tags
  <2>8. PICK tags : tags = [a EXCEPT ![k] = t]
    OBVIOUS
  <2>9. tags = [f.tags EXCEPT ![r.at].data = bootargs]
    BY <2>1, <2>2, <2>5, <2>8
  <2>10. /\ tags \in Seq(Tags)
         /\ SizeOf(tags) = SizeOf(a) + TagSize(t) - TagSize(a[k])
    BY <2>3, <2>4, <2>7, <2>8, SizeOfReplaced
  <2>11. /\ TagSize(t) = 12 + newlen /\ newlen \in Nat
         /\ TagSize(a[k]) = 12 + oldlen /\ oldlen \in Nat
    <3>1. t.data \in Seq(Nat) /\ TagSize(t) = 12 + FDT_TAGALIGN(Len(t.data))
      BY <2>7, PropSize
    <3>2. /\ a[k].data \in Seq(Nat)
          /\ TagSize(a[k]) = 12 + FDT_TAGALIGN(Len(a[k].data))
      BY <2>4, PropSize
    <3>3. Len(t.data) \in Nat /\ Len(a[k].data) \in Nat
      BY <3>1, <3>2
    <3> QED
      BY <1>7, <1>8, <2>1, <2>2, <2>7, <3>1, <3>2, <3>3, AlignType
  <2>12. PICK delta \in Int : delta = newlen - oldlen
    BY <2>11
  <2>13. SizeOf(tags) = SizeOf(f.tags) + delta
    <3>1. SizeOf(a) \in Nat
      BY <2>3, SizeIsNat
    <3> QED
      BY <2>1, <2>10, <2>11, <2>12, <3>1
  <2>14. fdt' = Resized(f, tags, delta)
    BY <1>12, <2>9, <2>12
  <2>15. InStep(fdt', source)
    BY <1>3, <1>4, <2>10, <2>13, <2>14, ResizedInStep
  <2>16. Fits(fdt')
    BY <1>9, <1>12, <2>3, <2>10, <2>11, <2>12, <2>14, SpliceFits
  <2> QED
    BY <1>1, <1>12, <2>15, <2>16 DEF TreeInv, Loaded, Untouched, AtNode
<1> QED
  <2>1. \/ \E x : Fatal(x) /\ fdt' \in {fdt, f}
        \/ /\ fdt' = f /\ pc' = "add_string"
           /\ UNCHANGED <<source, bootargs, node>>
        \/ /\ r.err = "OK" /\ e = "OK"
           /\ fdt' = Resized(f, [f.tags EXCEPT ![r.at].data = bootargs],
                             newlen - oldlen)
           /\ pc' = "done" /\ UNCHANGED <<source, bootargs>>
    BY <1>2, <1>6, <1>7, <1>8, <1>9, Zenon DEF ResizeProperty
  <2> QED
    BY <1>10, <1>11, <1>12, <2>1

LEMMA AddStringKeeps == TreeInv /\ AddString => TreeInv'
<1> SUFFICES ASSUME TreeInv, AddString PROVE TreeInv'
  OBVIOUS
<1>1. /\ source \in Sources /\ bootargs \in Args \cup {NULL} /\ bootargs # NULL
      /\ InStep(fdt, source) /\ node \in 1..Len(fdt.tags)
      /\ SameTree(fdt, source) /\ SameStrings(fdt, source)
      /\ HeaderError(source) = "OK" => Fits(fdt)
  BY DEF TreeInv, AddString, AtNode, Loaded
<1>2. source \in Blobs /\ StringsKept(source, source)
  BY <1>1, SourceInStep
<1>3. StringsKept(fdt, source)
  BY <1>1, <1>2 DEF StringsKept, SameStrings
<1>4. fdt \in Trees /\ fdt.size_dt_strings \in Nat /\ fdt.off_dt_strings \in Int
      /\ fdt.totalsize \in Nat
  BY <1>1 DEF InStep, Trees
<1>5. PICK s : s = Append(Bootargs, NUL)
  OBVIOUS
<1>6. s \in Seq(Nat) /\ Len(s) = Len(Bootargs) + 1 /\ Len(Bootargs) \in Nat
  BY <1>5, SourceAssumption DEF NUL
<1>7. PICK e : e = fdt_splice_(fdt, fdt_data_size_(fdt), 0, Len(s))
  OBVIOUS
<1> DEFINE Found == fdt_find_string_(fdt, Bootargs)
           g == [fdt EXCEPT !.strings = SubSeq(@, 1, fdt.size_dt_strings) \o s,
                            !.size_dt_strings = @ + Len(s)]
<1>8. CASE /\ Found # {} /\ name' = Earliest(Found) /\ allocated' = FALSE
           /\ pc' = "add_property" /\ UNCHANGED <<source, bootargs, fdt, node>>
  <2>1. Found \subseteq Nat
    BY DEF fdt_find_string_
  <2>2. name' \in Nat
    <3> HIDE DEF Found
    <3> QED
      BY <1>8, <2>1, EarliestIsLeast
  <2> QED
    BY <1>1, <1>8, <2>2 DEF TreeInv, Loaded, Untouched, AtNode
<1>9. CASE Fatal(e) /\ fdt' = fdt
  BY <1>1, <1>3, <1>9, GivesUp
<1>10. CASE /\ e = "OK" /\ name' = fdt.size_dt_strings /\ allocated' = TRUE
            /\ fdt' = g
            /\ pc' = "add_property" /\ UNCHANGED <<source, bootargs, node>>
  <2>1. PICK text : text = source.strings \o s
    OBVIOUS
  <2>2. PICK size \in Nat : size = fdt.size_dt_strings + Len(s)
    BY <1>4, <1>6
  <2>3. text \in Seq(Nat)
    <3>1. source.strings \in Seq(Nat)
      BY <1>2 DEF Blobs
    <3> QED
      BY <1>6, <2>1, <3>1, ConcatProperties
  <2>4. g = [fdt EXCEPT !.strings = text, !.size_dt_strings = size]
    <3>1. SubSeq(fdt.strings, 1, fdt.size_dt_strings) = source.strings
      BY <1>3 DEF StringsKept
    <3> QED
      BY <1>4, <2>1, <2>2, <3>1 DEF Trees
  <2>5. /\ g \in Trees /\ g.totalsize = fdt.totalsize /\ g.tags = fdt.tags
        /\ g.size_dt_struct = fdt.size_dt_struct
        /\ g.off_dt_strings = fdt.off_dt_strings
        /\ g.size_dt_strings = size /\ g.strings = text
    <3> HIDE DEF g
    <3> QED
      BY <1>4, <2>3, <2>4 DEF Trees
  <2> HIDE DEF g
  <2>6. InStep(g, source) /\ SameTree(g, source)
    BY <1>1, <2>5 DEF InStep, SameTree
  <2>7. Fits(g)
    <3>1. ~((fdt.off_dt_strings + fdt.size_dt_strings) - 0 + Len(s) > fdt.totalsize)
      BY <1>7, <1>10 DEF fdt_splice_, fdt_data_size_
    <3>2. fdt.off_dt_strings + size <= fdt.totalsize
      BY <1>4, <1>6, <2>2, <3>1
    <3> QED
      BY <2>5, <3>2 DEF Fits, fdt_data_size_
  <2>8. NameAdded(g, source)
    <3>1. fdt.size_dt_strings = source.size_dt_strings
      BY <1>1 DEF SameStrings
    <3>2. size = source.size_dt_strings + Len(Bootargs) + 1
      BY <1>4, <1>6, <2>2, <3>1
    <3> QED
      BY <1>5, <2>1, <2>5, <3>2 DEF NameAdded
  <2> QED
    BY <1>1, <1>4, <1>10, <2>5, <2>6, <2>7, <2>8
       DEF TreeInv, Loaded, Untouched, AtNode
<1> QED
  BY <1>5, <1>7, <1>8, <1>9, <1>10 DEF AddString

\* fdt_del_last_string_ gives the strings block back its size.
LEMMA RollBackKeeps ==
  ASSUME TreeInv, pc = "add_property"
  PROVE  LET g == RollBack(fdt)
         IN  /\ InStep(g, source) /\ SameTree(g, source)
             /\ StringsKept(g, source)
             /\ Fits(fdt) => Fits(g)
<1>1. /\ source \in Sources /\ InStep(fdt, source) /\ SameTree(fdt, source)
      /\ IF allocated THEN NameAdded(fdt, source) ELSE SameStrings(fdt, source)
  BY DEF TreeInv, AtNode, Loaded
<1>2. /\ source \in Blobs /\ StringsKept(source, source)
      /\ source.size_dt_strings = Len(source.strings)
  BY <1>1, SourceInStep, SourceAssumption
<1>3. CASE ~allocated
  <2>1. RollBack(fdt) = fdt
    BY <1>3 DEF RollBack
  <2>2. StringsKept(fdt, source)
    BY <1>1, <1>2, <1>3 DEF StringsKept, SameStrings
  <2> QED
    BY <1>1, <2>1, <2>2
<1>4. CASE allocated
  <2>1. /\ fdt \in Trees /\ fdt.size_dt_strings \in Nat
        /\ fdt.off_dt_strings \in Int /\ fdt.totalsize \in Nat
        /\ source.size_dt_strings \in Nat /\ source.strings \in Seq(Nat)
        /\ Bootargs \in Seq(Nat) /\ Len(Bootargs) \in Nat
    <3>1. Bootargs \in Seq(Nat)
      BY SourceAssumption
    <3>2. source.size_dt_strings \in Nat /\ source.strings \in Seq(Nat)
      BY ONLY <1>2 DEF Blobs
    <3>3. fdt \in Trees
      BY <1>1 DEF InStep
    <3>4. /\ fdt.size_dt_strings \in Nat
          /\ fdt.off_dt_strings \in Int /\ fdt.totalsize \in Nat
      BY ONLY <3>3 DEF Trees
    <3> QED
      BY <3>1, <3>2, <3>3, <3>4
  <2>2. /\ fdt.strings = source.strings \o Append(Bootargs, NUL)
        /\ fdt.size_dt_strings = source.size_dt_strings + Len(Bootargs) + 1
    BY <1>1, <1>4 DEF NameAdded
  <2>3. PICK g : g = [fdt EXCEPT !.size_dt_strings = source.size_dt_strings]
    OBVIOUS
  <2>4. RollBack(fdt) = g
    <3>1. fdt.size_dt_strings - Len(Bootargs) - 1 = source.size_dt_strings
      BY <2>1, <2>2
    <3> QED
      BY <1>4, <2>1, <2>3, <3>1 DEF RollBack, Trees
  <2>5. /\ g \in Trees /\ g.totalsize = fdt.totalsize /\ g.tags = fdt.tags
        /\ g.size_dt_struct = fdt.size_dt_struct
        /\ g.off_dt_strings = fdt.off_dt_strings
        /\ g.size_dt_strings = source.size_dt_strings
        /\ g.strings = fdt.strings
    BY <2>1, <2>3 DEF Trees
  <2>6. InStep(g, source) /\ SameTree(g, source)
    BY <1>1, <2>5 DEF InStep, SameTree
  <2>7. Fits(fdt) => Fits(g)
    BY <2>1, <2>2, <2>5 DEF Fits, fdt_data_size_
  <2>8. StringsKept(g, source)
    <3>1. Append(Bootargs, NUL) \in Seq(Nat)
      BY <2>1 DEF NUL
    <3>2. PICK a \in Seq(Nat), b \in Seq(Nat) :
             a = source.strings /\ b = Append(Bootargs, NUL)
      BY <2>1, <3>1
    <3>3. SubSeq(a \o b, 1, Len(a)) = a
      <4>1. /\ a \o b \in Seq(Nat) /\ Len(a \o b) = Len(a) + Len(b)
            /\ \A i \in 1..(Len(a) + Len(b)) :
                 (a \o b)[i] = IF i <= Len(a) THEN a[i] ELSE b[i - Len(a)]
        BY ConcatProperties
      <4>2. PICK c : c = SubSeq(a \o b, 1, Len(a))
        OBVIOUS
      <4>3. /\ c \in Seq(Nat) /\ Len(c) = Len(a)
            /\ \A i \in 1..Len(a) : c[i] = (a \o b)[i]
        BY <4>1, <4>2
      <4>4. \A i \in 1..Len(c) : c[i] = a[i]
        BY <4>1, <4>3
      <4> QED
        BY <4>2, <4>3, <4>4, SeqEqual
    <3> QED
      BY <1>2, <2>2, <2>5, <3>2, <3>3 DEF StringsKept
  <2> QED
    BY <2>4, <2>6, <2>7, <2>8
<1> QED
  BY <1>3, <1>4

LEMMA AddPropertyKeeps == TreeInv /\ AddProperty => TreeInv'
<1> SUFFICES ASSUME TreeInv, AddProperty PROVE TreeInv'
  OBVIOUS
<1>1. /\ source \in Sources /\ bootargs \in Args \cup {NULL} /\ bootargs # NULL
      /\ InStep(fdt, source) /\ node \in 1..Len(fdt.tags)
      /\ HeaderError(source) = "OK" => Fits(fdt)
      /\ name \in Nat /\ pc = "add_property"
  BY DEF TreeInv, AddProperty, AtNode, Loaded
<1>2. PICK at, new : at = node + 1 /\ new = Prop(name, bootargs)
  OBVIOUS
<1>3. PICK e : e = fdt_splice_(fdt, fdt.off_dt_struct + Offset(fdt.tags, at), 0,
                               TagSize(new))
  OBVIOUS
<1>4. CASE /\ e = "OK"
           /\ fdt' = Resized(fdt, Inserted(fdt.tags, at, <<new>>), TagSize(new))
           /\ pc' = "done" /\ UNCHANGED <<source, bootargs>>
  <2>1. fdt \in Trees /\ fdt.tags \in Seq(Tags) /\ source \in Blobs
    BY <1>1, SourceInStep DEF InStep, Trees
  <2>2. new \in Tags
    <3>1. bootargs \in Seq(Nat)
      BY <1>1, SourceAssumption
    <3> QED
      BY <1>1, <1>2, <3>1 DEF Prop, Tags
  <2>3. PICK size \in Int : size = TagSize(new)
    BY <2>2, TagSizeType
  <2>4. <<new>> \in Seq(Tags) /\ SizeOf(<<new>>) = size
    <3>1. <<new>> \in Seq(Tags) /\ Len(<<new>>) = 1 /\ <<new>>[1] = new
      BY <2>2
    <3>2. PICK one : one = <<new>>
      OBVIOUS
    <3>3. PICK sum : sum = Offsets(one) /\ IsOffsets(sum, one)
      BY <3>1, <3>2, OffsetsSteps
    <3>4. sum[0] = 0 /\ sum[1] = sum[1 - 1] + TagSize(one[1])
      BY <3>1, <3>2, <3>3 DEF IsOffsets
    <3>5. sum[1] = size
      BY <2>3, <3>1, <3>2, <3>4
    <3> QED
      BY <3>1, <3>2, <3>3, <3>5, SizeIsNat
  <2>5. at \in 1..(Len(fdt.tags) + 1)
    BY <1>1, <1>2, <2>1
  <2>6. PICK tags : tags = Inserted(fdt.tags, at, <<new>>)
    OBVIOUS
  <2>7. tags \in Seq(Tags) /\ SizeOf(tags) = SizeOf(fdt.tags) + size
    BY <2>1, <2>4, <2>5, <2>6, SizeOfInserted
  <2>8. fdt' = Resized(fdt, tags, size)
    BY <1>4, <2>3, <2>6
  <2>9. InStep(fdt', source)
    BY <1>1, <2>1, <2>7, <2>8, ResizedInStep
  <2>10. Fits(fdt')
    <3>1. size = size - 0 /\ 0 \in Int
      OBVIOUS
    <3> QED
      BY <1>3, <1>4, <2>1, <2>3, <2>7, <2>8, <3>1, SpliceFits
  <2> QED
    BY <1>1, <1>4, <2>9, <2>10 DEF TreeInv, Loaded, Untouched, AtNode
<1>5. CASE Fatal(e) /\ fdt' = RollBack(fdt)
  <2>1. PICK g : g = RollBack(fdt)
    OBVIOUS
  <2>2. /\ InStep(g, source) /\ SameTree(g, source) /\ StringsKept(g, source)
        /\ Fits(fdt) => Fits(g)
    BY <1>1, <2>1, RollBackKeeps
  <2> QED
    BY <1>1, <1>5, <2>1, <2>2, GivesUp
<1> QED
  BY <1>2, <1>3, <1>4, <1>5 DEF AddProperty

LEMMA TreeInvariance == Spec => []TreeInv
<1>1. TreeInv /\ UNCHANGED vars => TreeInv'
  BY DEF TreeInv, vars, Loaded, Untouched, AtNode
<1>2. TreeInv /\ [Next]_vars => TreeInv'
  BY <1>1, LoadDtbKeeps, CheckHeaderKeeps, FindChosenKeeps, AddSubnodeKeeps,
     ResizePropertyKeeps, AddStringKeeps, AddPropertyKeeps
     DEF Next, fdt_add_bootargs, fdt_setprop
<1> QED
  BY InitTree, <1>2, PTL DEF Spec

\* libfdt keeps the header in step with the blob's contents through every
\* splice and roll back, and never lets the data outgrow the total size, for
\* every tree, also one whose header is wrong.
THEOREM HeaderFollowsContents == Spec => []HeaderInStep
<1>1. TreeInv => HeaderInStep
  BY DEF TreeInv, HeaderInStep, Loaded, InStep, Fits
<1> QED
  BY TreeInvariance, <1>1, PTL

\* Whatever step of fdt_add_bootargs fails, what is left behind is the tree that
\* QEMU passed, at most with an empty /chosen.
THEOREM FailedEditLeavesSource == Spec => []FailureRollsBack
<1>1. TreeInv => FailureRollsBack
  BY DEF TreeInv, FailureRollsBack, StringsKept, SameTree
<1> QED
  BY TreeInvariance, <1>1, PTL

-----------------------------------------------------------------------------
(***************************************************************************)
(* Room.  What the tree holds so far and what is still to be added sum up  *)
(* to the same number of bytes in every step.                              *)
(***************************************************************************)

Goal == fdt_data_size_(source) + RoomNeeded(source)

\* What a property that is not there yet takes.
Missing(f) ==
  12 + FDT_TAGALIGN(Len(bootargs))
    + IF fdt_find_string_(f, Bootargs) = {} THEN Len(Bootargs) + 1 ELSE 0

RoomInv ==
  /\ pc # "fatal" => err = "OK"
  /\ err = "NOSPACE" => Goal > source.totalsize
  /\ pc = "done" /\ bootargs # NULL => ~(Goal > source.totalsize)
  /\ pc = "add_subnode" => fdt_subnode_offset(source, Chosen).err # "OK"
  /\ pc = "resize_property" /\ fdt_rw_probe_(fdt) = "OK" =>
       LET r == fdt_get_property(Writable(fdt), node, Bootargs)
       IN  IF r.err = "OK"
           THEN fdt_data_size_(fdt) + FDT_TAGALIGN(Len(bootargs))
                  - FDT_TAGALIGN(Len(fdt.tags[r.at].data)) = Goal
           ELSE fdt_data_size_(fdt) + Missing(fdt) = Goal
  /\ pc = "add_string" => fdt_data_size_(fdt) + Missing(fdt) = Goal
  /\ pc = "add_property" =>
       fdt_data_size_(fdt) + 12 + FDT_TAGALIGN(Len(bootargs)) = Goal

\* Only fdt_splice_ runs out of space.
LEMMA OtherErrors ==
  ASSUME NEW f, NEW n, NEW s
  PROVE  /\ HeaderError(f) # "NOSPACE" /\ fdt_rw_probe_(f) # "NOSPACE"
         /\ fdt_subnode_offset(f, s).err # "NOSPACE"
         /\ fdt_get_property(f, n, s).err # "NOSPACE"
<1>1. HeaderError(f) # "NOSPACE" /\ fdt_rw_probe_(f) # "NOSPACE"
      /\ fdt_ro_probe_(f) # "NOSPACE"
  BY DEF HeaderError, fdt_rw_probe_, fdt_ro_probe_
<1>2. fdt_subnode_offset(f, s).err # "NOSPACE"
  BY <1>1 DEF fdt_subnode_offset, NoTag
<1>3. fdt_get_property(f, n, s).err # "NOSPACE"
  BY DEF fdt_get_property, NoTag
<1> QED
  BY <1>1, <1>2, <1>3

\* Setting the version of a writable tree changes nothing that is read.
LEMMA WritableReadsSame ==
  ASSUME NEW f \in Trees, f.version >= 17, NEW n, NEW s
  PROVE  fdt_get_property(Writable(f), n, s) = fdt_get_property(f, n, s)
<1>1. PICK g : g = Writable(f)
  OBVIOUS
<1>2. /\ g.tags = f.tags /\ g.strings = f.strings
      /\ g.size_dt_strings = f.size_dt_strings
      /\ g.off_dt_struct = f.off_dt_struct /\ g.totalsize = f.totalsize
      /\ g.size_dt_struct = f.size_dt_struct /\ g.version = 17
  <2>1. g.version = 17
    BY <1>1 DEF Writable, Trees
  <2> QED
    BY <1>1, <2>1, WritableTree
<1>3. \A m : Reaches(g, m) <=> Reaches(f, m)
  BY <1>2 DEF Reaches
<1>4. \A i : Tag(g, i) = Tag(f, i)
  BY <1>2, <1>3 DEF Tag
<1>5. \A off : fdt_get_string(g, off) = fdt_get_string(f, off)
  BY <1>2 DEF fdt_get_string
<1>6. PropsEnd(g, n) = PropsEnd(f, n)
  BY <1>2, <1>4 DEF PropsEnd
<1>7. {i \in (n + 1)..(PropsEnd(g, n) - 1) :
         Tag(g, i) = "FDT_PROP" /\ fdt_get_string(g, g.tags[i].nameoff) = s}
      = {i \in (n + 1)..(PropsEnd(f, n) - 1) :
           Tag(f, i) = "FDT_PROP" /\ fdt_get_string(f, f.tags[i].nameoff) = s}
  BY <1>2, <1>4, <1>5, <1>6
<1>8. Tag(g, PropsEnd(g, n)) = Tag(f, PropsEnd(f, n))
  BY <1>4, <1>6
<1>9. fdt_get_property(g, n, s) = fdt_get_property(f, n, s)
  BY <1>7, <1>8 DEF fdt_get_property
<1> QED
  BY <1>1, <1>9

\* The empty node takes its two tags and its name, padded.
LEMMA ChosenSize ==
  /\ SizeOf(EmptyChosen) = 8 + FDT_TAGALIGN(Len(Chosen) + 1)
  /\ FDT_TAGALIGN(Len(Chosen) + 1) \in Nat
<1>1. PICK a : a = EmptyChosen
  OBVIOUS
<1>2. Chosen \in Seq(Nat) /\ Len(Chosen) \in Nat
  BY SourceAssumption
<1>3. PICK b \in Tags, c \in Tags : b = BeginNode(Chosen) /\ c = EndNode
  BY <1>2 DEF BeginNode, EndNode, Tags
<1>4. a \in Seq(Tags) /\ Len(a) = 2 /\ a[1] = b /\ a[2] = c
  BY <1>1, <1>3 DEF EmptyChosen
<1>5. PICK n \in Nat : n = Len(Chosen) + 1
  BY <1>2
<1>6. FDT_TAGALIGN(4 + n) = 4 + FDT_TAGALIGN(n) /\ FDT_TAGALIGN(n) \in Nat
  BY DEF FDT_TAGALIGN
<1>7. TagSize(b) = 4 + FDT_TAGALIGN(n)
  BY <1>3, <1>5, <1>6 DEF TagSize, TagLen, BeginNode, FDT_TAGSIZE
<1>8. TagSize(c) = 4
  BY <1>3 DEF TagSize, TagLen, EndNode, FDT_TAGSIZE, FDT_TAGALIGN
<1>9. PICK sum : sum = Offsets(a) /\ IsOffsets(sum, a)
  BY <1>4, OffsetsSteps
<1>10. /\ sum[0] = 0 /\ sum[1] = sum[1 - 1] + TagSize(a[1])
       /\ sum[2] = sum[2 - 1] + TagSize(a[2])
  BY <1>4, <1>9 DEF IsOffsets
<1>11. sum[2] = 8 + FDT_TAGALIGN(n)
  BY <1>4, <1>6, <1>7, <1>8, <1>10
<1>12. SizeOf(a) = sum[2]
  BY <1>4, <1>9, SizeIsNat
<1> QED
  BY <1>1, <1>5, <1>6, <1>11, <1>12

\* A node that ends at once has no property.
LEMMA BareNode ==
  ASSUME NEW f \in Trees, NEW n \in 1..Len(f.tags), NEW s,
         n + 1 \in 1..Len(f.tags), f.tags[n + 1] = EndNode
  PROVE  fdt_get_property(f, n, s).err # "OK"
<1> DEFINE S == {i \in (n + 1)..(Len(f.tags) + 1) :
                   Tag(f, i) \notin {"FDT_PROP", "FDT_NOP"}}
<1>1. Len(f.tags) \in Nat /\ n \in Nat
  BY NoTagBehind
<1>2. Tag(f, n + 1) \notin {"FDT_PROP", "FDT_NOP"}
  BY DEF Tag, EndNode
<1>3. n + 1 \in S /\ S \subseteq Nat /\ \A i \in S : n + 1 <= i
  BY <1>1, <1>2
<1>4. PropsEnd(f, n) = Earliest(S)
  BY DEF PropsEnd
<1>5. PropsEnd(f, n) = n + 1
  <2> HIDE DEF S
  <2>1. Earliest(S) \in S /\ \A j \in S : Earliest(S) <= j
    BY <1>3, EarliestIsLeast
  <2>2. PICK m \in Nat : m = Earliest(S)
    BY <1>3, <2>1
  <2>3. m <= n + 1 /\ n + 1 <= m
    BY <1>3, <2>1, <2>2
  <2> QED
    BY <1>1, <1>4, <2>2, <2>3
<1>6. (n + 1)..(PropsEnd(f, n) - 1) = {}
  BY <1>1, <1>5
<1> QED
  BY <1>6 DEF fdt_get_property, NoTag
\* Goal is about the source and the command line only.
LEMMA GoalStays == UNCHANGED <<source, bootargs>> => Goal' = Goal
BY DEF Goal, RoomNeeded

\* Whether the name is there is a matter of the strings block.
LEMMA SameMissing ==
  ASSUME NEW f, NEW g, SameStrings(f, g)
  PROVE  Missing(f) = Missing(g)
BY DEF Missing, fdt_find_string_, SameStrings

\* The three ways the command line gets into a tree.
LEMMA GoalCases ==
  ASSUME NEW n, n = fdt_subnode_offset(source, Chosen)
  PROVE  LET r == fdt_get_property(source, n.at, Bootargs)
             data == FDT_TAGALIGN(Len(bootargs))
         IN  Goal = fdt_data_size_(source)
                      + IF n.err # "OK"
                        THEN 8 + FDT_TAGALIGN(Len(Chosen) + 1) + Missing(source)
                        ELSE IF r.err # "OK" THEN Missing(source)
                        ELSE data - FDT_TAGALIGN(Len(source.tags[r.at].data))
BY DEF Goal, RoomNeeded, Missing

\* Giving up for want of space needs a reason.
LEMMA RoomGivesUp ==
  ASSUME RoomInv, NEW e, Fatal(e), e = "NOSPACE" => Goal > source.totalsize
  PROVE  RoomInv'
<1>1. /\ pc' = "fatal" /\ err' = e /\ source' = source /\ bootargs' = bootargs
  BY DEF Fatal
<1>2. Goal' = Goal
  BY <1>1, GoalStays
<1> HIDE DEF Goal
<1> QED
  BY <1>1, <1>2 DEF RoomInv

LEMMA InitRoom == Init => RoomInv
BY DEF Init, RoomInv

LEMMA LoadDtbRoom == TreeInv /\ RoomInv /\ LoadDtb => RoomInv'
<1> SUFFICES ASSUME TreeInv, RoomInv, LoadDtb PROVE RoomInv'
  OBVIOUS
<1>1. CASE source.magic
  <2>1. /\ pc' = IF bootargs = NULL THEN "done" ELSE "check_header"
        /\ UNCHANGED <<source, bootargs, err>> /\ pc = "load_dtb"
    BY <1>1 DEF LoadDtb
  <2> QED
    BY <2>1 DEF RoomInv
<1>2. CASE ~source.magic
  BY <1>2, RoomGivesUp DEF LoadDtb
<1> QED
  BY <1>1, <1>2

LEMMA CheckHeaderRoom == TreeInv /\ RoomInv /\ fdt_check_header => RoomInv'
<1> SUFFICES ASSUME TreeInv, RoomInv, fdt_check_header PROVE RoomInv'
  OBVIOUS
<1>1. CASE HeaderError(fdt) = "OK"
  <2>1. /\ pc' = "find_chosen" /\ UNCHANGED <<source, bootargs, err>>
        /\ pc = "check_header"
    BY <1>1 DEF fdt_check_header
  <2> QED
    BY <2>1 DEF RoomInv
<1>2. CASE HeaderError(fdt) # "OK"
  BY <1>2, RoomGivesUp, OtherErrors DEF fdt_check_header
<1> QED
  BY <1>1, <1>2

LEMMA FindChosenRoom == TreeInv /\ RoomInv /\ FindChosen => RoomInv'
<1> SUFFICES ASSUME TreeInv, RoomInv, FindChosen PROVE RoomInv'
  OBVIOUS
<1>1. /\ source \in Sources /\ fdt = source /\ fdt' = fdt /\ pc = "find_chosen"
      /\ err = "OK"
  BY DEF TreeInv, RoomInv, FindChosen, Untouched
<1>2. PICK n : n = fdt_subnode_offset(source, Chosen)
  OBVIOUS
<1>3. CASE n.err = "OK" /\ node' = n.at /\ pc' = "resize_property"
           /\ UNCHANGED <<source, bootargs, err>>
  <2>1. source \in Trees
    BY <1>1, SourceInStep DEF InStep
  <2>2. Goal' = Goal
    BY <1>3, GoalStays
  <2>3. ASSUME fdt_rw_probe_(fdt) = "OK"
        PROVE  LET r == fdt_get_property(Writable(fdt), n.at, Bootargs)
               IN  IF r.err = "OK"
                   THEN fdt_data_size_(fdt) + FDT_TAGALIGN(Len(bootargs))
                          - FDT_TAGALIGN(Len(fdt.tags[r.at].data)) = Goal
                   ELSE fdt_data_size_(fdt) + Missing(fdt) = Goal
    <3>1. source.version >= 17
      <4>1. source.version \in Nat
        BY <2>1 DEF Trees
      <4> QED
        BY <1>1, <2>3, <4>1 DEF fdt_rw_probe_
    <3>2. PICK r : r = fdt_get_property(source, n.at, Bootargs)
      OBVIOUS
    <3>3. fdt_get_property(Writable(fdt), n.at, Bootargs) = r
      BY <1>1, <2>1, <3>1, <3>2, WritableReadsSame
    <3>4. CASE r.err # "OK"
      BY <1>1, <1>2, <1>3, <3>2, <3>3, <3>4, GoalCases
    <3>5. CASE r.err = "OK"
      <4>1. Goal = fdt_data_size_(source) + (FDT_TAGALIGN(Len(bootargs))
                     - FDT_TAGALIGN(Len(source.tags[r.at].data)))
        BY <1>2, <1>3, <3>2, <3>5, GoalCases
      <4>2. PICK x \in Int : x = fdt_data_size_(source)
        <5>1. source.off_dt_strings \in Int /\ source.size_dt_strings \in Int
          BY <2>1 DEF Trees
        <5> QED
          BY <5>1 DEF fdt_data_size_
      <4>3. PICK y \in Int : y = FDT_TAGALIGN(Len(bootargs))
        <5>1. bootargs \in Seq(Nat)
          BY <1>1, SourceAssumption DEF TreeInv, Untouched
        <5> QED
          BY <5>1, AlignType
      <4>4. PICK z \in Int : z = FDT_TAGALIGN(Len(source.tags[r.at].data))
        <5>1. n.at \in 1..Len(source.tags)
          BY <1>2, <1>3, <2>1, ChosenInBlock
        <5>2. source.tags[r.at] \in Tags /\ source.tags[r.at].tag = "FDT_PROP"
          BY <2>1, <3>2, <3>5, <5>1, PropertyInBlock
        <5>3. Len(source.tags[r.at].data) \in Nat
          BY <5>2, PropSize
        <5>4. PICK m \in Nat : m = Len(source.tags[r.at].data)
          BY <5>3
        <5>5. FDT_TAGALIGN(m) \in Int
          BY AlignType
        <5> QED
          BY <5>4, <5>5, Zenon
      <4>5. Goal = x + y - z
        BY <4>1, <4>2, <4>3, <4>4
      <4> QED
        BY <1>1, <3>3, <3>5, <4>2, <4>3, <4>4, <4>5
    <3> QED
      BY <3>4, <3>5
  <2>4. Missing(fdt)' = Missing(fdt)
    BY <1>1, <1>3 DEF Missing
  <2> HIDE DEF Goal, Missing
  <2> QED
    BY <1>1, <1>3, <2>2, <2>3, <2>4 DEF RoomInv
<1>4. CASE /\ n.err # "OK" /\ pc' = "add_subnode"
           /\ UNCHANGED <<source, bootargs, err>>
  BY <1>1, <1>2, <1>4 DEF RoomInv
<1>5. CASE Fatal(n.err)
  BY <1>2, <1>5, RoomGivesUp, OtherErrors
<1> QED
  BY <1>1, <1>2, <1>3, <1>4, <1>5 DEF FindChosen

LEMMA MissingType ==
  ASSUME NEW f, bootargs \in Args
  PROVE  /\ FDT_TAGALIGN(Len(bootargs)) \in Nat /\ Missing(f) \in Nat
         /\ Missing(f) >= 12 + FDT_TAGALIGN(Len(bootargs))
<1>1. bootargs \in Seq(Nat) /\ Bootargs \in Seq(Nat)
  BY SourceAssumption
<1>2. PICK m \in Nat, n \in Nat : m = Len(bootargs) /\ n = Len(Bootargs)
  BY <1>1
<1>3. PICK d \in Nat : d = FDT_TAGALIGN(m)
  BY AlignType
<1>4. Missing(f) = 12 + d + IF fdt_find_string_(f, Bootargs) = {} THEN n + 1 ELSE 0
  BY <1>2, <1>3 DEF Missing
<1> QED
  BY <1>2, <1>3, <1>4

LEMMA DataSizeType ==
  ASSUME NEW f \in Trees
  PROVE  fdt_data_size_(f) \in Int /\ f.totalsize \in Nat
BY DEF Trees, fdt_data_size_

LEMMA ResizedData ==
  ASSUME NEW f \in Trees, NEW tags \in Seq(Tags), NEW delta \in Int
  PROVE  fdt_data_size_(Resized(f, tags, delta)) = fdt_data_size_(f) + delta
<1>1. PICK g : g = Resized(f, tags, delta)
  OBVIOUS
<1>2. /\ g.off_dt_strings = f.off_dt_strings + delta
      /\ g.size_dt_strings = f.size_dt_strings
  BY <1>1, ResizedTree
<1>3. f.off_dt_strings \in Int /\ f.size_dt_strings \in Int
  BY DEF Trees
<1>4. fdt_data_size_(g) = fdt_data_size_(f) + delta
  BY <1>2, <1>3 DEF fdt_data_size_
<1> QED
  BY <1>1, <1>4

LEMMA AddSubnodeRoom == TreeInv /\ RoomInv /\ AddSubnode => RoomInv'
<1> SUFFICES ASSUME TreeInv, RoomInv, AddSubnode PROVE RoomInv'
  OBVIOUS
<1>1. /\ source \in Sources /\ bootargs \in Args /\ pc = "add_subnode"
      /\ fdt = source /\ 1 \in 1..Len(fdt.tags)
  BY DEF TreeInv, AddSubnode, Untouched
<1>2. err = "OK" /\ fdt_subnode_offset(source, Chosen).err # "OK"
  BY <1>1 DEF RoomInv
<1>3. fdt \in Trees /\ fdt.tags \in Seq(Tags)
  BY <1>1, SourceInStep DEF InStep, Trees
<1>4. PICK x \in Int : x = fdt_data_size_(fdt)
  BY <1>3, DataSizeType
<1>5. PICK m \in Nat : m = Missing(source)
  BY <1>1, MissingType
<1>6. PICK size \in Nat : size = SizeOf(EmptyChosen)
  BY ChosenTags
<1>7. Goal = x + size + m
  <2>1. Goal = fdt_data_size_(source)
                 + (8 + FDT_TAGALIGN(Len(Chosen) + 1) + Missing(source))
    BY <1>2, GoalCases
  <2>2. Goal = x + (size + m)
    BY <1>1, <1>4, <1>5, <1>6, <2>1, ChosenSize
  <2> QED
    BY <2>2
<1>8. PICK at, soff :
        /\ at = PropsEnd(fdt, 1)
        /\ soff = fdt.off_dt_struct + Offset(fdt.tags, at)
  OBVIOUS
<1>9. PICK e : e = IF fdt_rw_probe_(fdt) # "OK" THEN fdt_rw_probe_(fdt)
                   ELSE fdt_splice_(fdt, soff, 0, size)
  OBVIOUS
<1>10. PICK tags, w, g : /\ tags = Inserted(fdt.tags, at, EmptyChosen)
                         /\ w = Writable(fdt) /\ g = Resized(w, tags, size)
  OBVIOUS
<1>11. CASE /\ e = "OK" /\ fdt' = g /\ node' = at /\ pc' = "resize_property"
            /\ UNCHANGED <<source, bootargs, err>>
  <2>1. at \in 2..(Len(fdt.tags) + 1) /\ Len(fdt.tags) \in Nat
    BY <1>1, <1>3, <1>8, PropsEndInBlock
  <2>2. PICK new : new = EmptyChosen
    OBVIOUS
  <2>3. new \in Seq(Tags) /\ Len(new) = 2 /\ new[2] = EndNode
    BY <2>2, ChosenTags DEF EmptyChosen
  <2>4. /\ tags \in Seq(Tags) /\ Len(tags) = Len(fdt.tags) + 2
        /\ tags[(at - 1) + 2] = EndNode
    <3>1. at \in 1..(Len(fdt.tags) + 1) /\ 2 \in 1..Len(new)
      BY <2>1, <2>3
    <3>2. LET b == Inserted(fdt.tags, at, new)
          IN  /\ b \in Seq(Tags) /\ Len(b) = Len(fdt.tags) + Len(new)
              /\ \A j \in 1..Len(new) : b[(at - 1) + j] = new[j]
      BY <1>3, <2>3, <3>1, InsertedProperties
    <3> QED
      BY <1>10, <2>2, <2>3, <3>1, <3>2
  <2>5. at \in 1..Len(tags) /\ at + 1 \in 1..Len(tags) /\ tags[at + 1] = EndNode
    <3>1. (at - 1) + 2 = at + 1
      BY <2>1
    <3> QED
      BY <2>1, <2>4, <3>1
  <2>6. w \in Trees /\ fdt_data_size_(w) = x
        /\ w.strings = fdt.strings /\ w.size_dt_strings = fdt.size_dt_strings
    BY <1>3, <1>4, <1>10, WritableTree DEF fdt_data_size_
  <2>7. g \in Trees /\ g.tags = tags
        /\ g.strings = fdt.strings /\ g.size_dt_strings = fdt.size_dt_strings
    <3>1. /\ Resized(w, tags, size) \in Trees
          /\ Resized(w, tags, size).tags = tags
          /\ Resized(w, tags, size).strings = w.strings
          /\ Resized(w, tags, size).size_dt_strings = w.size_dt_strings
      <4>1. size \in Int
        OBVIOUS
      <4> QED
        BY <2>4, <2>6, <4>1, ResizedTree
    <3> QED
      BY <1>10, <2>6, <3>1
  <2>8. fdt_data_size_(g) = x + size
    BY <1>10, <2>4, <2>6, ResizedData
  <2>9. Writable(g) \in Trees /\ Writable(g).tags = tags
    BY <2>7, WritableTree
  <2>10. fdt_get_property(Writable(g), at, Bootargs).err # "OK"
    BY <2>5, <2>9, BareNode
  <2>11. Missing(fdt)' = m
    BY <1>1, <1>5, <1>11, <2>7 DEF Missing, fdt_find_string_
  <2>12. Goal' = Goal
    BY <1>11, GoalStays
  <2>13. fdt_data_size_(fdt') + m = Goal
    BY <1>7, <1>11, <2>8
  <2> HIDE DEF Goal, Missing
  <2> QED
    BY <1>2, <1>11, <2>10, <2>11, <2>12, <2>13 DEF RoomInv
<1>12. CASE Fatal(e)
  <2>1. ASSUME e = "NOSPACE" PROVE Goal > source.totalsize
    <3>1. fdt_splice_(fdt, soff, 0, size) = "NOSPACE"
      BY <1>9, <2>1, OtherErrors
    <3>2. x - 0 + size > source.totalsize
      BY <1>1, <1>4, <3>1 DEF fdt_splice_
    <3>3. source.totalsize \in Nat
      BY <1>1, <1>3, DataSizeType
    <3> QED
      BY <1>7, <3>2, <3>3
  <2> QED
    BY <1>12, <2>1, RoomGivesUp
<1> QED
  BY <1>6, <1>8, <1>9, <1>10, <1>11, <1>12 DEF AddSubnode

LEMMA ResizePropertyRoom == TreeInv /\ RoomInv /\ ResizeProperty => RoomInv'
<1> SUFFICES ASSUME TreeInv, RoomInv, ResizeProperty PROVE RoomInv'
  OBVIOUS
<1>1. /\ source \in Sources /\ bootargs \in Args /\ pc = "resize_property"
      /\ InStep(fdt, source) /\ node \in 1..Len(fdt.tags)
  BY DEF TreeInv, ResizeProperty, AtNode, Loaded
<1>2. fdt \in Trees /\ fdt.totalsize = source.totalsize /\ err = "OK"
  BY <1>1 DEF InStep, RoomInv
<1>3. PICK f : f = Writable(fdt)
  OBVIOUS
<1>4. /\ f \in Trees /\ f.tags = fdt.tags /\ f.totalsize = source.totalsize
      /\ f.strings = fdt.strings /\ f.size_dt_strings = fdt.size_dt_strings
      /\ fdt_data_size_(f) = fdt_data_size_(fdt)
  BY <1>2, <1>3, WritableTree DEF fdt_data_size_
<1>5. PICK x \in Int : x = fdt_data_size_(fdt)
  BY <1>2, DataSizeType
<1>6. PICK r : r = fdt_get_property(f, node, Bootargs)
  OBVIOUS
<1>7. PICK newlen \in Nat : newlen = FDT_TAGALIGN(Len(bootargs))
  BY <1>1, MissingType
<1>8. PICK oldlen : oldlen = FDT_TAGALIGN(Len(f.tags[r.at].data))
  OBVIOUS
<1>9. PICK e : e = fdt_splice_(f, f.off_dt_struct + Offset(f.tags, r.at) + 12,
                               oldlen, newlen)
  OBVIOUS
<1>10. fdt_rw_probe_(fdt) = "OK" =>
         IF r.err = "OK" THEN x + newlen - oldlen = Goal
         ELSE x + Missing(fdt) = Goal
  <2> HIDE DEF Goal, Missing
  <2> QED
    BY <1>1, <1>3, <1>4, <1>5, <1>6, <1>7, <1>8 DEF RoomInv
<1>11. r.err = "OK" => oldlen \in Nat
  <2>1. SUFFICES ASSUME r.err = "OK" PROVE oldlen \in Nat
    OBVIOUS
  <2>2. f.tags[r.at] \in Tags /\ f.tags[r.at].tag = "FDT_PROP"
    BY <1>1, <1>4, <1>6, <2>1, PropertyInBlock
  <2>3. PICK m \in Nat : m = Len(f.tags[r.at].data)
    BY <2>2, PropSize
  <2>4. FDT_TAGALIGN(m) \in Nat
    BY AlignType
  <2> QED
    BY <1>8, <2>3, <2>4, Zenon
<1>12. f.totalsize \in Nat
  BY <1>4, DataSizeType
<1>13. CASE \E p : Fatal(p) /\ p # "NOSPACE"
  BY <1>13, RoomGivesUp
<1>14. CASE /\ fdt_rw_probe_(fdt) = "OK" /\ r.err = "NOTFOUND" /\ fdt' = f
            /\ pc' = "add_string" /\ UNCHANGED <<source, bootargs, err>>
  <2>1. Goal' = Goal
    BY <1>14, GoalStays
  <2>2. Missing(fdt)' = Missing(fdt)
    BY <1>4, <1>14 DEF Missing, fdt_find_string_
  <2>3. fdt_data_size_(fdt') + Missing(fdt) = Goal
    <3> HIDE DEF Goal, Missing
    <3> QED
      BY <1>4, <1>5, <1>10, <1>14
  <2> HIDE DEF Goal, Missing
  <2> QED
    BY <1>2, <1>14, <2>1, <2>2, <2>3 DEF RoomInv
<1>15. CASE fdt_rw_probe_(fdt) = "OK" /\ r.err = "OK" /\ Fatal(e)
  <2>1. ASSUME e = "NOSPACE" PROVE Goal > source.totalsize
    <3>1. x - oldlen + newlen > f.totalsize
      BY <1>4, <1>5, <1>9, <2>1 DEF fdt_splice_
    <3>2. Goal = x + newlen - oldlen /\ oldlen \in Nat
      BY <1>10, <1>11, <1>15
    <3> QED
      BY <1>4, <1>12, <3>1, <3>2
  <2> QED
    BY <1>15, <2>1, RoomGivesUp
<1>16. CASE /\ fdt_rw_probe_(fdt) = "OK" /\ r.err = "OK" /\ e = "OK"
            /\ pc' = "done" /\ UNCHANGED <<source, bootargs, err>>
  <2>1. ~(x - oldlen + newlen > f.totalsize)
    BY <1>4, <1>5, <1>9, <1>16 DEF fdt_splice_
  <2>2. Goal = x + newlen - oldlen /\ oldlen \in Nat
    BY <1>10, <1>11, <1>16
  <2>3. ~(Goal > source.totalsize)
    BY <1>4, <1>12, <2>1, <2>2
  <2>4. Goal' = Goal
    BY <1>16, GoalStays
  <2> HIDE DEF Goal
  <2> QED
    BY <1>2, <1>16, <2>3, <2>4 DEF RoomInv
<1> QED
  <2>1. fdt_rw_probe_(fdt) # "NOSPACE" /\ r.err # "NOSPACE"
    BY <1>6, OtherErrors
  <2>2. \/ \E p : Fatal(p) /\ p # "NOSPACE"
        \/ /\ fdt_rw_probe_(fdt) = "OK" /\ r.err = "NOTFOUND" /\ fdt' = f
           /\ pc' = "add_string" /\ UNCHANGED <<source, bootargs, err>>
        \/ fdt_rw_probe_(fdt) = "OK" /\ r.err = "OK" /\ Fatal(e)
        \/ /\ fdt_rw_probe_(fdt) = "OK" /\ r.err = "OK" /\ e = "OK"
           /\ pc' = "done" /\ UNCHANGED <<source, bootargs, err>>
    BY <1>3, <1>6, <1>7, <1>8, <1>9, <2>1, Zenon DEF ResizeProperty
  <2> QED
    BY <1>13, <1>14, <1>15, <1>16, <2>2

LEMMA AddStringRoom == TreeInv /\ RoomInv /\ AddString => RoomInv'
<1> SUFFICES ASSUME TreeInv, RoomInv, AddString PROVE RoomInv'
  OBVIOUS
<1>1. /\ source \in Sources /\ bootargs \in Args /\ pc = "add_string"
      /\ InStep(fdt, source)
  BY DEF TreeInv, AddString, AtNode, Loaded
<1>2. /\ fdt \in Trees /\ fdt.totalsize = source.totalsize /\ err = "OK"
      /\ fdt_data_size_(fdt) + Missing(fdt) = Goal
  BY <1>1 DEF InStep, RoomInv
<1>3. PICK x \in Int, total \in Nat : x = fdt_data_size_(fdt) /\ total = fdt.totalsize
  BY <1>2, DataSizeType
<1>4. PICK data \in Nat : data = FDT_TAGALIGN(Len(bootargs))
  BY <1>1, MissingType
<1>5. PICK s : s = Append(Bootargs, NUL)
  OBVIOUS
<1>6. PICK k \in Nat : k = Len(s) /\ k = Len(Bootargs) + 1
  BY <1>5, SourceAssumption DEF NUL
<1>7. PICK e : e = fdt_splice_(fdt, fdt_data_size_(fdt), 0, Len(s))
  OBVIOUS
<1> DEFINE Found == fdt_find_string_(fdt, Bootargs)
           g == [fdt EXCEPT !.strings = SubSeq(@, 1, fdt.size_dt_strings) \o s,
                            !.size_dt_strings = @ + Len(s)]
<1>8. /\ Found # {} => x + 12 + data = Goal
      /\ Found = {} => x + 12 + data + k = Goal
  <2>1. Missing(fdt) = (12 + data) + IF Found = {} THEN k ELSE 0
    BY <1>4, <1>6 DEF Missing
  <2>2. x + ((12 + data) + IF Found = {} THEN k ELSE 0) = Goal
    BY <1>2, <1>3, <2>1, Zenon
  <2> HIDE DEF Goal, Found
  <2> QED
    BY <2>2
<1>9. CASE /\ Found # {} /\ pc' = "add_property"
           /\ UNCHANGED <<source, bootargs, fdt, err>>
  <2>1. Goal' = Goal
    BY <1>9, GoalStays
  <2>2. fdt_data_size_(fdt') + 12 + FDT_TAGALIGN(Len(bootargs')) = Goal
    BY <1>3, <1>4, <1>8, <1>9
  <2> HIDE DEF Goal, Found
  <2> QED
    BY <1>2, <1>9, <2>1, <2>2 DEF RoomInv
<1>10. CASE Found = {} /\ Fatal(e)
  <2>1. ASSUME e = "NOSPACE" PROVE Goal > source.totalsize
    <3>1. x - 0 + k > total
      BY <1>3, <1>6, <1>7, <2>1 DEF fdt_splice_
    <3>2. Goal > total
      <4> HIDE DEF Goal, Found
      <4> QED
        BY <1>8, <1>10, <3>1
    <3> QED
      BY <1>2, <1>3, <3>2
  <2> QED
    BY <1>10, <2>1, RoomGivesUp
<1>11. CASE /\ Found = {} /\ fdt' = g /\ pc' = "add_property"
            /\ UNCHANGED <<source, bootargs, err>>
  <2>1. PICK y \in Int, z \in Int : y = fdt.off_dt_strings /\ z = fdt.size_dt_strings
    BY <1>2 DEF Trees
  <2>2. g.off_dt_strings = y /\ g.size_dt_strings = z + k
    BY <1>2, <1>6, <2>1 DEF Trees
  <2>3. x = y + z
    BY <1>3, <2>1 DEF fdt_data_size_
  <2>4. fdt_data_size_(g) = x + k
    <3> HIDE DEF g
    <3> QED
      BY <2>2, <2>3 DEF fdt_data_size_
  <2>5. Goal' = Goal
    BY <1>11, GoalStays
  <2>6. fdt_data_size_(fdt') + 12 + FDT_TAGALIGN(Len(bootargs')) = Goal
    <3> HIDE DEF Goal, Found, g
    <3> QED
      BY <1>4, <1>8, <1>11, <2>4
  <2> HIDE DEF Goal, Found, g
  <2> QED
    BY <1>2, <1>11, <2>5, <2>6 DEF RoomInv
<1> QED
  BY <1>5, <1>7, <1>9, <1>10, <1>11 DEF AddString

LEMMA AddPropertyRoom == TreeInv /\ RoomInv /\ AddProperty => RoomInv'
<1> SUFFICES ASSUME TreeInv, RoomInv, AddProperty PROVE RoomInv'
  OBVIOUS
<1>1. /\ source \in Sources /\ bootargs \in Args /\ pc = "add_property"
      /\ InStep(fdt, source) /\ name \in Nat
  BY DEF TreeInv, AddProperty, AtNode, Loaded
<1>2. /\ fdt \in Trees /\ fdt.totalsize = source.totalsize /\ err = "OK"
      /\ fdt_data_size_(fdt) + 12 + FDT_TAGALIGN(Len(bootargs)) = Goal
  BY <1>1 DEF InStep, RoomInv
<1>3. PICK x \in Int, total \in Nat : x = fdt_data_size_(fdt) /\ total = fdt.totalsize
  BY <1>2, DataSizeType
<1>4. PICK data \in Nat : data = FDT_TAGALIGN(Len(bootargs))
  BY <1>1, MissingType
<1>5. PICK new : new = Prop(name, bootargs)
  OBVIOUS
<1>6. TagSize(new) = 12 + data
  <2>1. bootargs \in Seq(Nat)
    BY <1>1, SourceAssumption
  <2>2. new \in Tags /\ new.tag = "FDT_PROP" /\ new.data = bootargs
    BY <1>1, <1>5, <2>1 DEF Prop, Tags
  <2> QED
    BY <1>4, <2>2, PropSize
<1>7. x + 12 + data = Goal
  BY <1>2, <1>3, <1>4
<1>8. PICK e, soff :
        /\ soff = fdt.off_dt_struct + Offset(fdt.tags, node + 1)
        /\ e = fdt_splice_(fdt, soff, 0, TagSize(new))
  OBVIOUS
<1>9. CASE e = "OK" /\ pc' = "done" /\ UNCHANGED <<source, bootargs, err>>
  <2>1. ~(x - 0 + (12 + data) > total)
    BY <1>3, <1>6, <1>8, <1>9 DEF fdt_splice_
  <2>2. ~(Goal > total)
    <3> HIDE DEF Goal
    <3> QED
      BY <1>7, <2>1
  <2>3. Goal' = Goal
    BY <1>9, GoalStays
  <2> HIDE DEF Goal
  <2> QED
    BY <1>2, <1>3, <1>9, <2>2, <2>3 DEF RoomInv
<1>10. CASE Fatal(e)
  <2>1. ASSUME e = "NOSPACE" PROVE Goal > source.totalsize
    <3>1. x - 0 + (12 + data) > total
      BY <1>3, <1>6, <1>8, <2>1 DEF fdt_splice_
    <3>2. Goal > total
      <4> HIDE DEF Goal
      <4> QED
        BY <1>7, <3>1
    <3> QED
      BY <1>2, <1>3, <3>2
  <2> QED
    BY <1>10, <2>1, RoomGivesUp
<1> QED
  BY <1>5, <1>8, <1>9, <1>10 DEF AddProperty

\* fdt_add_bootargs reports "no space" only when node, name, property header and
\* data together really exceed the total size, and it never finishes in a tree
\* that they exceed: for every tree and command line, to the byte.
THEOREM NoSpaceExactlyWhenFull == Spec => []NoSpaceOnlyWhenFull
<1>1. RoomInv /\ UNCHANGED vars => RoomInv'
  <2> SUFFICES ASSUME RoomInv, UNCHANGED vars PROVE RoomInv'
    OBVIOUS
  <2>1. /\ pc' = pc /\ source' = source /\ bootargs' = bootargs /\ fdt' = fdt
        /\ node' = node /\ err' = err
    BY DEF vars
  <2>2. Goal' = Goal /\ Missing(fdt)' = Missing(fdt)
    BY <2>1, GoalStays DEF Missing
  <2> HIDE DEF Goal, Missing
  <2> QED
    BY <2>1, <2>2 DEF RoomInv
<1>2. TreeInv /\ RoomInv /\ [Next]_vars => RoomInv'
  BY <1>1, LoadDtbRoom, CheckHeaderRoom, FindChosenRoom, AddSubnodeRoom,
     ResizePropertyRoom, AddStringRoom, AddPropertyRoom
     DEF Next, fdt_add_bootargs, fdt_setprop
<1>3. RoomInv => NoSpaceOnlyWhenFull
  BY DEF RoomInv, NoSpaceOnlyWhenFull, Goal
<1> QED
  BY TreeInvariance, InitRoom, <1>2, <1>3, PTL DEF Spec

-----------------------------------------------------------------------------
(***************************************************************************)
(* Reading back.  A search that ends at a tag depends only on the tags up  *)
(* to it, so an edit behind or in place of the last of them leaves it      *)
(* alone; that the edited tag itself is still inside the block takes a     *)
(* structure block of whole words.                                         *)
(***************************************************************************)

Aligned(f) == f.size_dt_struct % 4 = 0

LEMMA TagSizeAligned ==
  ASSUME NEW t \in Tags
  PROVE  /\ TagLen(t) \in Nat /\ TagLen(t) >= 4
         /\ TagLen(t) <= TagSize(t) /\ TagSize(t) % 4 = 0
<1>1. PICK l \in Nat : l = TagLen(t) /\ l >= 4
  BY DEF Tags, TagLen, FDT_TAGSIZE
<1>2. l <= ((l + 3) \div 4) * 4 /\ (((l + 3) \div 4) * 4) % 4 = 0
  OBVIOUS
<1> QED
  BY <1>1, <1>2 DEF TagSize, FDT_TAGALIGN

\* Tags begin at multiples of four and follow each other.
LEMMA OffsetsOrdered ==
  ASSUME NEW tags \in Seq(Tags), NEW n \in 0..Len(tags)
  PROVE  /\ Offsets(tags)[n] \in Nat /\ Offsets(tags)[n] % 4 = 0
         /\ \A i \in 0..n : Offsets(tags)[i] <= Offsets(tags)[n]
<1>1. PICK A : A = Offsets(tags) /\ IsOffsets(A, tags)
  BY OffsetsSteps
<1>2. PICK m \in Nat : m = Len(tags)
  OBVIOUS
<1>3. /\ A \in [0..m -> Nat] /\ A[0] = 0
      /\ \A k \in 1..m : A[k] = A[k - 1] + TagSize(tags[k])
  BY <1>1, <1>2 DEF IsOffsets
<1> DEFINE S == {j \in Nat : j <= m => /\ A[j] % 4 = 0
                                      /\ \A i \in 0..j : A[i] <= A[j]}
<1>4. 0 \in S
  BY <1>3
<1>5. ASSUME NEW j \in Nat, j \in S
      PROVE  j + 1 \in S
  <2> SUFFICES ASSUME j + 1 <= m
               PROVE  A[j + 1] % 4 = 0 /\ \A i \in 0..(j + 1) : A[i] <= A[j + 1]
    OBVIOUS
  <2>1. /\ j + 1 \in 1..m /\ (j + 1) - 1 = j /\ j \in 0..m
        /\ \A i \in 0..(j + 1) : i \in 0..m /\ (i = j + 1 \/ i \in 0..j)
    BY <1>2
  <2>2. PICK u \in Nat : u = TagSize(tags[j + 1]) /\ u % 4 = 0
    <3>1. tags[j + 1] \in Tags
      BY <1>2, <2>1, ElementOfSeq
    <3> QED
      BY <3>1, TagSizeAligned, TagSizeType
  <2>3. PICK a \in Nat : a = A[j] /\ a % 4 = 0
    BY <1>3, <1>5, <2>1
  <2>4. A[j + 1] = a + u
    BY <1>3, <2>1, <2>2, <2>3
  <2>5. (a + u) % 4 = 0 /\ a <= a + u
    BY <2>2, <2>3
  <2>6. \A i \in 0..j : A[i] <= a
    BY <1>5, <2>1, <2>3
  <2>7. ASSUME NEW i \in 0..(j + 1)
        PROVE  A[i] <= a + u
    <3>1. PICK b \in Nat : b = A[i]
      BY <1>3, <2>1
    <3>2. CASE i = j + 1
      BY <2>4, <3>2
    <3>3. CASE i \in 0..j
      BY <2>6, <3>1, <3>3
    <3> QED
      BY <2>1, <3>2, <3>3
  <2> QED
    BY <2>4, <2>5, <2>7
<1>6. n \in S
  <2>1. n \in Nat
    BY <1>2
  <2> HIDE DEF S
  <2> QED
    BY <2>1, <1>4, <1>5, NatSetInduction
<1> QED
  BY <1>1, <1>2, <1>3, <1>6

\* In a block of whole words a tag that is read ends in the block with its
\* padding.
LEMMA TagEnds ==
  ASSUME NEW f \in Trees, Aligned(f), f.version >= 17,
         NEW i \in 1..Len(f.tags), Tag(f, i) = f.tags[i].tag
  PROVE  Offsets(f.tags)[i] <= f.size_dt_struct
<1>1. f.tags \in Seq(Tags) /\ f.size_dt_struct \in Int /\ i \in Nat /\ f.tags[i] \in Tags
  <2>1. f.tags \in Seq(Tags) /\ f.size_dt_struct \in Int
    BY DEF Trees
  <2> QED
    BY <2>1, ElementOfSeq
<1>2. PICK l \in Nat : l = TagLen(f.tags[i]) /\ TagSize(f.tags[i]) = ((l + 3) \div 4) * 4
  BY <1>1, TagSizeAligned DEF TagSize, FDT_TAGALIGN
<1>3. Tag(f, i) \notin NoTag
  BY <1>1 DEF Tags, NoTag
<1>4. Reaches(f, Offset(f.tags, i) + TagLen(f.tags[i]))
  BY <1>3 DEF Tag, NoTag
<1>5. i - 1 \in 0..Len(f.tags) /\ i \in 1..Len(f.tags)
  BY <1>1
<1>6. PICK a \in Nat : a = Offsets(f.tags)[i - 1] /\ a % 4 = 0
  BY <1>1, <1>5, OffsetsOrdered
<1>7. PICK z \in Int : z = f.size_dt_struct /\ z % 4 = 0
  BY <1>1 DEF Aligned
<1>8. a + l <= z
  BY <1>2, <1>4, <1>6, <1>7 DEF Reaches, Offset
<1>9. a + ((l + 3) \div 4) * 4 <= z
  <2>1. PICK p \in Int, q \in Int, m \in Int :
          p = a \div 4 /\ q = z \div 4 /\ m = (l + 3) \div 4
    OBVIOUS
  <2>2. a = 4 * p /\ z = 4 * q /\ 4 * m <= l + 3
    <3>1. a = 4 * (a \div 4)
      BY <1>6
    <3>2. z = 4 * (z \div 4)
      BY <1>7
    <3>3. 4 * ((l + 3) \div 4) <= l + 3
      OBVIOUS
    <3> QED
      BY ONLY <2>1, <3>1, <3>2, <3>3
  <2>3. 4 * p + l <= 4 * q
    BY <1>8, <2>2
  <2>4. m <= q - p
    BY <2>2, <2>3
  <2> QED
    BY <2>1, <2>2, <2>4
<1>10. Offsets(f.tags)[i] = Offsets(f.tags)[i - 1] + TagSize(f.tags[i])
  BY <1>1, <1>5, OffsetsSteps DEF IsOffsets
<1> QED
  BY <1>2, <1>6, <1>7, <1>9, <1>10

\* What fdt_rw_probe_ accepts is in order.
LEMMA ProbedReaches ==
  ASSUME NEW f \in Trees, fdt_rw_probe_(f) = "OK", NEW n \in Int,
         n <= f.size_dt_struct
  PROVE  Reaches(f, n)
<1>1. /\ f.totalsize \in Nat /\ f.off_dt_struct \in Nat /\ f.size_dt_struct \in Int
      /\ f.off_dt_strings \in Int /\ f.size_dt_strings \in Nat
  BY DEF Trees
<1>2. /\ ~(f.off_dt_strings < f.off_dt_struct + f.size_dt_struct)
      /\ ~(f.totalsize < f.off_dt_strings + f.size_dt_strings)
  BY DEF fdt_rw_probe_, fdt_ro_probe_, fdt_blocks_misordered_, fdt_data_size_
<1>3. f.off_dt_struct + n <= f.totalsize
  BY <1>1, <1>2
<1> QED
  BY <1>3 DEF Reaches

\* All tags up to one that ends in the block are read.
LEMMA TagsReached ==
  ASSUME NEW f \in Trees, fdt_rw_probe_(f) = "OK", NEW n \in 1..Len(f.tags),
         Offsets(f.tags)[n] <= f.size_dt_struct
  PROVE  \A i \in 1..n : Tag(f, i) = f.tags[i].tag
<1> SUFFICES ASSUME NEW i \in 1..n PROVE Tag(f, i) = f.tags[i].tag
  OBVIOUS
<1>1. /\ f.tags \in Seq(Tags) /\ f.size_dt_struct \in Int /\ Len(f.tags) \in Nat
      /\ i \in 1..Len(f.tags) /\ i \in Nat /\ n \in Nat
  <2>1. f.tags \in Seq(Tags) /\ f.size_dt_struct \in Int /\ Len(f.tags) \in Nat
    BY DEF Trees
  <2> QED
    BY <2>1
<1>2. f.tags[i] \in Tags
  BY <1>1, ElementOfSeq
<1>3. PICK l \in Nat, u \in Nat :
        l = TagLen(f.tags[i]) /\ u = TagSize(f.tags[i]) /\ l <= u /\ l >= 4
  BY <1>2, TagSizeAligned, TagSizeType
<1>4. i - 1 \in 0..Len(f.tags) /\ n \in 0..Len(f.tags) /\ i \in 0..n
  BY <1>1
<1>5. PICK a \in Nat : a = Offsets(f.tags)[i - 1]
  BY <1>1, <1>4, OffsetsOrdered
<1>6. Offsets(f.tags)[i] = a + u
  BY <1>1, <1>3, <1>5, OffsetsSteps DEF IsOffsets
<1>7. PICK z \in Nat : z = Offsets(f.tags)[n] /\ a + u <= z
  BY <1>1, <1>4, <1>6, OffsetsOrdered
<1>8. a + 4 <= f.size_dt_struct /\ a + l <= f.size_dt_struct
  BY <1>1, <1>3, <1>7
<1>9. a + 4 \in Int /\ a + l \in Int
  OBVIOUS
<1>10. Reaches(f, a + 4) /\ Reaches(f, a + l)
  BY <1>8, <1>9, ProbedReaches
<1>11. ~(i > Len(f.tags))
  BY <1>1
<1> QED
  BY <1>3, <1>5, <1>10, <1>11 DEF Tag, Offset, FDT_TAGSIZE

\* By how much a tag changes the depth of what follows.
Change(t) == IF t.tag = "FDT_BEGIN_NODE" THEN 1
             ELSE IF t.tag = "FDT_END_NODE" THEN -1 ELSE 0

IsDepth(f, n) ==
  /\ \A i \in 1..n : Depth(f, i) \in Int
  /\ Depth(f, 1) = 0
  /\ \A i \in 2..n : Depth(f, i) = Depth(f, i - 1) + Change(f.tags[i])

\* Depth counts node by node.
LEMMA DepthSteps ==
  ASSUME NEW f, NEW n \in Nat \ {0}
  PROVE  IsDepth(f, n)
<1> DEFINE F == [i \in 1..n |-> [v \in Int |-> v + Change(f.tags[i + 1])]]
<1>1. \A t : Change(t) \in Int
  BY DEF Change
<1>2. F \in [1..n -> [Int -> Int]]
  BY <1>1
<1>3. PICK g : IsLoop(g, n, Int, 0, F)
  <2>1. 0 \in Int /\ n \in Nat
    OBVIOUS
  <2> HIDE DEF F
  <2> QED
    BY <1>2, <2>1, LoopDefined
<1>4. /\ g \in [0..n -> Int] /\ g[0] = 0
      /\ \A i \in 1..n : g[i] = g[i - 1] + Change(f.tags[i + 1])
  <2>1. g \in [0..n -> Int] /\ g[0] = 0 /\ \A i \in 1..n : g[i] = F[i][g[i - 1]]
    <3> HIDE DEF F
    <3> QED
      BY <1>3 DEF IsLoop
  <2>2. ASSUME NEW i \in 1..n
        PROVE  F[i][g[i - 1]] = g[i - 1] + Change(f.tags[i + 1])
    <3>1. i - 1 \in 0..n
      OBVIOUS
    <3>2. g[i - 1] \in Int
      BY <2>1, <3>1
    <3> QED
      BY <3>2
  <2> HIDE DEF F
  <2> QED
    BY <2>1, <2>2
<1> HIDE DEF F
<1>5. ASSUME NEW k \in 1..n
      PROVE  Depth(f, k) = g[k - 1]
  <2> DEFINE Body(x, j) == IF j = 1 THEN 0
                           ELSE x[j - 1] + (IF f.tags[j].tag = "FDT_BEGIN_NODE" THEN 1
                                            ELSE IF f.tags[j].tag = "FDT_END_NODE"
                                            THEN -1 ELSE 0)
             Loop(x) == x = [j \in 1..k |-> Body(x, j)]
             deep == CHOOSE x : Loop(x)
             h == [j \in 1..k |-> g[j - 1]]
  <2>1. Depth(f, k) = deep[k]
    BY DEF Depth
  <2>2. \A x : \A j \in 1..k : Body(x, j) = IF j = 1 THEN 0
                                           ELSE x[j - 1] + Change(f.tags[j])
    BY DEF Change
  <2>3. \A j \in 1..k : h[j] = Body(h, j)
    <3> HIDE DEF Body
    <3> SUFFICES ASSUME NEW j \in 1..k PROVE h[j] = Body(h, j)
      OBVIOUS
    <3>1. CASE j = 1
      BY <1>4, <2>2, <3>1
    <3>2. CASE j # 1
      <4>1. j - 1 \in 1..k /\ j - 1 \in 1..n /\ (j - 1) + 1 = j
        BY <3>2
      <4>2. h[j] = g[j - 1] /\ h[j - 1] = g[(j - 1) - 1]
        BY <4>1
      <4>3. g[j - 1] = g[(j - 1) - 1] + Change(f.tags[j])
        BY <1>4, <4>1
      <4> QED
        BY <2>2, <3>2, <4>2, <4>3
    <3> QED
      BY <3>1, <3>2
  <2>4. Loop(h)
    <3>1. h = [j \in 1..k |-> h[j]]
      OBVIOUS
    <3> HIDE DEF h, Body
    <3> QED
      BY <2>3, <3>1
  <2>5. Loop(deep)
    <3> HIDE DEF Loop, h
    <3> QED
      BY <2>4
  <2> HIDE DEF deep
  <2>6. \A j \in 1..k : deep[j] = IF j = 1 THEN 0 ELSE deep[j - 1] + Change(f.tags[j])
    <3>1. \A j \in 1..k : deep[j] = Body(deep, j)
      <4> HIDE DEF Body
      <4> QED
        BY <2>5
    <3> HIDE DEF Body
    <3> QED
      BY <2>2, <3>1
  <2> DEFINE x == [j \in 0..(k - 1) |-> deep[j + 1]]
             m == k - 1
  <2>7. m \in Nat /\ x[0] = g[0] /\ x[m] = deep[k]
    BY <1>4, <2>6
  <2>8. ASSUME NEW i \in 1..m, x[i - 1] = g[i - 1]
        PROVE  x[i] = g[i]
    <3>1. i + 1 \in 1..k /\ i + 1 # 1 /\ (i + 1) - 1 = i /\ i \in 1..n
          /\ i - 1 \in 0..(k - 1) /\ (i - 1) + 1 = i /\ i \in 0..(k - 1)
      OBVIOUS
    <3>2. x[i] = deep[i + 1] /\ x[i - 1] = deep[i]
      BY <3>1
    <3>3. deep[i + 1] = deep[i] + Change(f.tags[i + 1])
      BY <2>6, <3>1
    <3>4. g[i] = g[i - 1] + Change(f.tags[i + 1])
      BY <1>4, <3>1
    <3> QED
      BY <2>8, <3>2, <3>3, <3>4
  <2> HIDE DEF x
  <2>9. x[m] = g[m]
    <3>1. \A i \in 1..m : x[i - 1] = g[i - 1] => x[i] = g[i]
      BY <2>8
    <3> HIDE DEF m
    <3> QED
      BY <2>7, <3>1, SameLoop
  <2> QED
    BY <2>1, <2>7, <2>9
<1>6. \A i \in 1..n : Depth(f, i) \in Int
  BY <1>4, <1>5
<1>7. Depth(f, 1) = 0
  BY <1>4, <1>5
<1>8. ASSUME NEW i \in 2..n
      PROVE  Depth(f, i) = Depth(f, i - 1) + Change(f.tags[i])
  <2>1. i \in 1..n /\ i - 1 \in 1..n /\ (i - 1) + 1 = i
    OBVIOUS
  <2>2. Depth(f, i) = g[i - 1] /\ Depth(f, i - 1) = g[(i - 1) - 1]
    BY <1>5, <2>1
  <2>3. g[i - 1] = g[(i - 1) - 1] + Change(f.tags[i])
    BY <1>4, <2>1
  <2> QED
    BY <2>2, <2>3
<1> QED
  BY <1>6, <1>7, <1>8 DEF IsDepth

\* The depth depends on the kinds of the tags passed.
LEMMA DepthAlike ==
  ASSUME NEW f, NEW g, NEW n \in Nat \ {0},
         \A i \in 2..n : g.tags[i].tag = f.tags[i].tag
  PROVE  \A i \in 1..n : Depth(g, i) = Depth(f, i)
<1>1. IsDepth(f, n) /\ IsDepth(g, n)
  BY DepthSteps
<1> DEFINE S == {j \in Nat : j + 1 <= n => Depth(g, j + 1) = Depth(f, j + 1)}
<1>2. 0 \in S
  BY <1>1 DEF IsDepth
<1>3. ASSUME NEW j \in Nat, j \in S
      PROVE  j + 1 \in S
  <2> SUFFICES ASSUME (j + 1) + 1 <= n
               PROVE  Depth(g, (j + 1) + 1) = Depth(f, (j + 1) + 1)
    OBVIOUS
  <2>1. PICK k \in 2..n : k = (j + 1) + 1 /\ k - 1 = j + 1
    OBVIOUS
  <2>2. Depth(g, k - 1) = Depth(f, k - 1)
    BY <1>3, <2>1
  <2>3. Change(g.tags[k]) = Change(f.tags[k])
    BY DEF Change
  <2>4. Depth(g, k) = Depth(f, k)
    BY <1>1, <2>2, <2>3 DEF IsDepth
  <2> QED
    BY <2>1, <2>4
<1>4. ASSUME NEW i \in 1..n
      PROVE  Depth(g, i) = Depth(f, i)
  <2>1. i - 1 \in Nat /\ (i - 1) + 1 = i
    OBVIOUS
  <2>2. i - 1 \in S
    <3> HIDE DEF S
    <3> QED
      BY <1>2, <1>3, <2>1, NatSetInduction
  <2> QED
    BY <2>1, <2>2
<1> QED
  BY <1>4

\* Among the properties of the root the depth is that of the root.
LEMMA DepthFlat ==
  ASSUME NEW f, NEW n \in Nat \ {0},
         \A i \in 2..n : f.tags[i].tag \in {"FDT_PROP", "FDT_NOP"}
  PROVE  \A i \in 1..n : Depth(f, i) = 0
<1>1. IsDepth(f, n)
  BY DepthSteps
<1> DEFINE S == {j \in Nat : j + 1 <= n => Depth(f, j + 1) = 0}
<1>2. 0 \in S
  BY <1>1 DEF IsDepth
<1>3. ASSUME NEW j \in Nat, j \in S
      PROVE  j + 1 \in S
  <2> SUFFICES ASSUME (j + 1) + 1 <= n
               PROVE  Depth(f, (j + 1) + 1) = 0
    OBVIOUS
  <2>1. PICK k \in 2..n : k = (j + 1) + 1 /\ k - 1 = j + 1
    OBVIOUS
  <2>2. Depth(f, k - 1) = 0
    BY <1>3, <2>1
  <2>3. Change(f.tags[k]) = 0
    BY DEF Change
  <2>4. Depth(f, k) = 0
    BY <1>1, <2>2, <2>3 DEF IsDepth
  <2> QED
    BY <2>1, <2>4
<1>4. ASSUME NEW i \in 1..n
      PROVE  Depth(f, i) = 0
  <2>1. i - 1 \in Nat /\ (i - 1) + 1 = i
    OBVIOUS
  <2>2. i - 1 \in S
    <3> HIDE DEF S
    <3> QED
      BY <1>2, <1>3, <2>1, NatSetInduction
  <2> QED
    BY <2>1, <2>2
<1> QED
  BY <1>4
\* A search for a child of the root that ends at tag n, without the cursor.
FoundNode(f, s, n) ==
  /\ fdt_ro_probe_(f) = "OK"
  /\ n \in 2..Len(f.tags)
  /\ \A i \in 1..n : Tag(f, i) = f.tags[i].tag
  /\ f.tags[1].tag = "FDT_BEGIN_NODE" /\ f.tags[n].tag = "FDT_BEGIN_NODE"
  /\ \A i \in 2..n : f.tags[i].tag # "FDT_END" /\ Depth(f, i) >= 0
  /\ Depth(f, n) = 1 /\ fdt_nodename_eq_(f.tags[n].name, s)
  /\ \A i \in 2..(n - 1) :
       f.tags[i].tag = "FDT_BEGIN_NODE" /\ Depth(f, i) = 1 =>
         ~fdt_nodename_eq_(f.tags[i].name, s)

\* The same for a search for a property of node n that ends at tag r.
FoundProperty(f, n, s, r) ==
  /\ r \in (n + 1)..Len(f.tags)
  /\ \A i \in (n + 1)..r : Tag(f, i) = f.tags[i].tag
  /\ \A i \in (n + 1)..r : f.tags[i].tag \in {"FDT_PROP", "FDT_NOP"}
  /\ f.tags[r].tag = "FDT_PROP" /\ fdt_get_string(f, f.tags[r].nameoff) = s
  /\ \A i \in (n + 1)..(r - 1) :
       f.tags[i].tag = "FDT_PROP" => fdt_get_string(f, f.tags[i].nameoff) # s

LEMMA TagsAreNone ==
  ASSUME NEW f \in Trees, NEW i \in 1..Len(f.tags), Tag(f, i) = f.tags[i].tag
  PROVE  Tag(f, i) \notin NoTag
<1>1. f.tags \in Seq(Tags)
  BY DEF Trees
<1>2. f.tags[i] \in Tags
  BY <1>1, ElementOfSeq
<1> QED
  BY <1>2 DEF Tags, NoTag

WalkStops(f) == {i \in 2..(Len(f.tags) + 1) :
                   \/ Tag(f, i) \in NoTag \cup {"FDT_END"}
                   \/ Depth(f, i) < 0}

NodesFound(f, s) == {i \in 2..(WalkEnd(f) - 1) :
                       /\ Tag(f, i) = "FDT_BEGIN_NODE"
                       /\ Depth(f, i) = 1
                       /\ fdt_nodename_eq_(f.tags[i].name, s)}

LEMMA WalkEndIs ==
  ASSUME NEW f \in Trees, 1 \in 1..Len(f.tags)
  PROVE  /\ WalkEnd(f) \in 2..(Len(f.tags) + 1) /\ WalkEnd(f) \in WalkStops(f)
         /\ \A i \in WalkStops(f) : WalkEnd(f) <= i
<1>1. Len(f.tags) \in Nat /\ Tag(f, Len(f.tags) + 1) = "TRUNCATED"
  BY NoTagBehind
<1>2. Len(f.tags) + 1 \in WalkStops(f) /\ WalkStops(f) \subseteq Nat
  BY <1>1 DEF WalkStops, NoTag
<1>3. WalkEnd(f) = Earliest(WalkStops(f))
  BY DEF WalkEnd, WalkStops
<1>4. WalkEnd(f) \in WalkStops(f) /\ \A i \in WalkStops(f) : WalkEnd(f) <= i
  BY <1>2, <1>3, EarliestIsLeast
<1> QED
  BY <1>4 DEF WalkStops

LEMMA NodeFound ==
  ASSUME NEW f \in Trees, NEW s, fdt_subnode_offset(f, s).err = "OK"
  PROVE  FoundNode(f, s, fdt_subnode_offset(f, s).at)
<1>1. fdt_ro_probe_(f) = "OK" /\ Tag(f, 1) = "FDT_BEGIN_NODE"
  BY DEF fdt_subnode_offset
<1>2. NodesFound(f, s) # {}
  BY <1>1 DEF fdt_subnode_offset, NodesFound, NoTag
<1>3. fdt_subnode_offset(f, s) = [err |-> "OK", at |-> Earliest(NodesFound(f, s))]
  BY <1>1, <1>2 DEF fdt_subnode_offset, NodesFound
<1>4. 1 \in 1..Len(f.tags) /\ f.tags[1].tag = "FDT_BEGIN_NODE"
      /\ Tag(f, 1) = f.tags[1].tag
  BY <1>1, TagInBlock DEF NoTag
<1>5. PICK e \in Nat : e = WalkEnd(f) /\ e \in 2..(Len(f.tags) + 1)
  BY <1>4, WalkEndIs
<1>6. NodesFound(f, s) \subseteq Nat
  BY <1>5 DEF NodesFound
<1>7. PICK n : /\ n = Earliest(NodesFound(f, s)) /\ n \in NodesFound(f, s)
               /\ \A j \in NodesFound(f, s) : n <= j
  BY <1>2, <1>6, EarliestIsLeast
<1>8. /\ n \in 2..(e - 1) /\ Tag(f, n) = "FDT_BEGIN_NODE" /\ Depth(f, n) = 1
      /\ fdt_nodename_eq_(f.tags[n].name, s) /\ Len(f.tags) \in Nat
  BY <1>5, <1>7, NoTagBehind DEF NodesFound
<1>9. ASSUME NEW i \in 2..n
      PROVE  /\ i \in 2..Len(f.tags) /\ Tag(f, i) = f.tags[i].tag
             /\ Tag(f, i) # "FDT_END" /\ Depth(f, i) >= 0
  <2>1. i \in 2..(Len(f.tags) + 1) /\ i \in Nat \ {0} /\ ~(e <= i) /\ i \in 1..n
    BY <1>5, <1>8
  <2>2. i \notin WalkStops(f)
    BY <1>4, <1>5, <2>1, WalkEndIs
  <2>3. Tag(f, i) \notin NoTag /\ Tag(f, i) # "FDT_END" /\ ~(Depth(f, i) < 0)
    BY <2>1, <2>2 DEF WalkStops
  <2>4. i \in 1..Len(f.tags) /\ Tag(f, i) = f.tags[i].tag
    BY <2>1, <2>3, TagInBlock
  <2>5. Depth(f, i) \in Int
    <3>1. n \in Nat \ {0}
      BY <1>8
    <3> QED
      BY <2>1, <3>1, DepthSteps DEF IsDepth
  <2> QED
    BY <2>1, <2>3, <2>4, <2>5
<1>10. n \in 2..Len(f.tags) /\ f.tags[n].tag = "FDT_BEGIN_NODE"
  <2>1. n \in 2..n
    BY <1>8
  <2> QED
    BY <1>8, <1>9, <2>1
<1>11. \A i \in 1..n : Tag(f, i) = f.tags[i].tag
  <2>1. \A i \in 1..n : i = 1 \/ i \in 2..n
    BY <1>8
  <2> QED
    BY <1>4, <1>9, <2>1
<1>12. ASSUME NEW i \in 2..(n - 1), f.tags[i].tag = "FDT_BEGIN_NODE", Depth(f, i) = 1
       PROVE  ~fdt_nodename_eq_(f.tags[i].name, s)
  <2>1. i \in 1..n /\ i \in 2..(e - 1) /\ ~(n <= i)
    BY <1>5, <1>8
  <2>2. Tag(f, i) = "FDT_BEGIN_NODE"
    BY <1>11, <1>12, <2>1
  <2>3. i \notin NodesFound(f, s)
    BY <1>7, <2>1
  <2> QED
    BY <1>5, <1>12, <2>1, <2>2, <2>3 DEF NodesFound
<1>13. \A i \in 2..n : f.tags[i].tag # "FDT_END" /\ Depth(f, i) >= 0
  BY <1>9
<1>14. FoundNode(f, s, n)
  BY <1>1, <1>4, <1>8, <1>10, <1>11, <1>12, <1>13 DEF FoundNode
<1> QED
  BY <1>3, <1>7, <1>14

LEMMA FoundIsOffset ==
  ASSUME NEW f \in Trees, NEW s, NEW n, FoundNode(f, s, n)
  PROVE  fdt_subnode_offset(f, s) = [err |-> "OK", at |-> n]
<1>1. Len(f.tags) \in Nat /\ n \in 2..Len(f.tags) /\ n \in Nat
  BY NoTagBehind DEF FoundNode
<1>2. /\ fdt_ro_probe_(f) = "OK" /\ \A i \in 1..n : Tag(f, i) = f.tags[i].tag
      /\ f.tags[1].tag = "FDT_BEGIN_NODE" /\ f.tags[n].tag = "FDT_BEGIN_NODE"
      /\ \A i \in 2..n : f.tags[i].tag # "FDT_END" /\ Depth(f, i) >= 0
      /\ Depth(f, n) = 1 /\ fdt_nodename_eq_(f.tags[n].name, s)
      /\ \A i \in 2..(n - 1) :
           f.tags[i].tag = "FDT_BEGIN_NODE" /\ Depth(f, i) = 1 =>
             ~fdt_nodename_eq_(f.tags[i].name, s)
  BY DEF FoundNode
<1>3. 1 \in 1..Len(f.tags) /\ 1 \in 1..n /\ n \in 1..n /\ n \in 2..n
  BY <1>1
<1>4. PICK e \in Nat : e = WalkEnd(f) /\ e \in WalkStops(f) /\ e >= 2
  BY <1>1, <1>3, WalkEndIs
<1>5. n < e
  <2> SUFFICES ASSUME e <= n PROVE FALSE
    BY <1>1
  <2>1. e \in 2..n /\ e \in 1..n /\ e \in 1..Len(f.tags)
    BY <1>1, <1>4
  <2>2. Tag(f, e) = f.tags[e].tag /\ f.tags[e].tag # "FDT_END" /\ Depth(f, e) >= 0
    BY <1>2, <2>1
  <2>3. Tag(f, e) \notin NoTag
    BY <2>1, <2>2, TagsAreNone
  <2>4. Depth(f, e) \in Int
    <3>1. n \in Nat \ {0}
      BY <1>1
    <3> QED
      BY <2>1, <3>1, DepthSteps DEF IsDepth
  <2> QED
    BY <1>4, <2>2, <2>3, <2>4 DEF WalkStops
<1>6. n \in NodesFound(f, s)
  BY <1>1, <1>2, <1>3, <1>4, <1>5 DEF NodesFound
<1>7. NodesFound(f, s) \subseteq Nat
  BY <1>4 DEF NodesFound
<1>8. PICK m \in Nat : /\ m = Earliest(NodesFound(f, s)) /\ m \in NodesFound(f, s)
                       /\ m <= n
  BY <1>6, <1>7, EarliestIsLeast
<1>9. m = n
  <2> SUFFICES ASSUME m < n PROVE FALSE
    BY <1>1, <1>8
  <2>1. /\ m \in 2..(e - 1) /\ Tag(f, m) = "FDT_BEGIN_NODE" /\ Depth(f, m) = 1
        /\ fdt_nodename_eq_(f.tags[m].name, s)
    BY <1>4, <1>8 DEF NodesFound
  <2>2. m \in 2..(n - 1) /\ m \in 1..n
    BY <1>1, <2>1
  <2>3. f.tags[m].tag = "FDT_BEGIN_NODE"
    BY <1>2, <2>1, <2>2
  <2> QED
    BY <1>2, <2>1, <2>2, <2>3
<1>10. Tag(f, 1) = "FDT_BEGIN_NODE"
  BY <1>2, <1>3
<1>11. fdt_subnode_offset(f, s) = [err |-> "OK", at |-> Earliest(NodesFound(f, s))]
  BY <1>2, <1>6, <1>10 DEF fdt_subnode_offset, NodesFound
<1> QED
  BY <1>8, <1>9, <1>11
PropsStop(f, n) == {i \in (n + 1)..(Len(f.tags) + 1) :
                      Tag(f, i) \notin {"FDT_PROP", "FDT_NOP"}}

PropsFound(f, n, s) == {i \in (n + 1)..(PropsEnd(f, n) - 1) :
                          /\ Tag(f, i) = "FDT_PROP"
                          /\ fdt_get_string(f, f.tags[i].nameoff) = s}

LEMMA PropsEndIs ==
  ASSUME NEW f \in Trees, NEW n \in 1..Len(f.tags)
  PROVE  /\ PropsEnd(f, n) \in (n + 1)..(Len(f.tags) + 1)
         /\ PropsEnd(f, n) \in PropsStop(f, n)
         /\ \A i \in (n + 1)..(PropsEnd(f, n) - 1) :
              /\ i \in 1..Len(f.tags) /\ Tag(f, i) = f.tags[i].tag
              /\ f.tags[i].tag \in {"FDT_PROP", "FDT_NOP"}
<1>1. /\ Len(f.tags) \in Nat /\ n \in Nat
      /\ Tag(f, Len(f.tags) + 1) = "TRUNCATED"
  BY NoTagBehind
<1>2. Len(f.tags) + 1 \in PropsStop(f, n) /\ PropsStop(f, n) \subseteq Nat
  BY <1>1 DEF PropsStop
<1>3. PropsEnd(f, n) = Earliest(PropsStop(f, n))
  BY DEF PropsEnd, PropsStop
<1>4. PICK e : /\ e = PropsEnd(f, n) /\ e \in PropsStop(f, n)
               /\ \A i \in PropsStop(f, n) : e <= i
  BY <1>2, <1>3, EarliestIsLeast
<1>5. e \in (n + 1)..(Len(f.tags) + 1)
  BY <1>4 DEF PropsStop
<1>6. ASSUME NEW i \in (n + 1)..(e - 1)
      PROVE  /\ i \in 1..Len(f.tags) /\ Tag(f, i) = f.tags[i].tag
             /\ f.tags[i].tag \in {"FDT_PROP", "FDT_NOP"}
  <2>1. i \in (n + 1)..(Len(f.tags) + 1) /\ i \in Nat \ {0} /\ ~(e <= i)
    BY <1>1, <1>5
  <2>2. Tag(f, i) \in {"FDT_PROP", "FDT_NOP"}
    BY <1>4, <2>1 DEF PropsStop
  <2>3. Tag(f, i) \notin NoTag
    BY <2>2 DEF NoTag
  <2> QED
    BY <2>1, <2>2, <2>3, TagInBlock
<1> QED
  BY <1>4, <1>5, <1>6

LEMMA PropertyFound ==
  ASSUME NEW f \in Trees, NEW n \in 1..Len(f.tags), NEW s,
         fdt_get_property(f, n, s).err = "OK"
  PROVE  FoundProperty(f, n, s, fdt_get_property(f, n, s).at)
<1>1. PropsFound(f, n, s) # {}
  BY DEF fdt_get_property, PropsFound, NoTag
<1>2. fdt_get_property(f, n, s) = [err |-> "OK", at |-> Earliest(PropsFound(f, n, s))]
  BY <1>1 DEF fdt_get_property, PropsFound
<1>3. PICK e \in Nat : /\ e = PropsEnd(f, n) /\ e \in (n + 1)..(Len(f.tags) + 1)
                       /\ \A i \in (n + 1)..(e - 1) :
                            /\ i \in 1..Len(f.tags) /\ Tag(f, i) = f.tags[i].tag
                            /\ f.tags[i].tag \in {"FDT_PROP", "FDT_NOP"}
  <2>1. PICK e : e = PropsEnd(f, n)
    OBVIOUS
  <2>2. /\ e \in (n + 1)..(Len(f.tags) + 1)
        /\ \A i \in (n + 1)..(e - 1) :
             /\ i \in 1..Len(f.tags) /\ Tag(f, i) = f.tags[i].tag
             /\ f.tags[i].tag \in {"FDT_PROP", "FDT_NOP"}
    BY <2>1, PropsEndIs
  <2>3. e \in Nat
    BY <2>2, NoTagBehind
  <2> QED
    BY ONLY <2>1, <2>2, <2>3
<1>4. PropsFound(f, n, s) \subseteq Nat
  BY <1>3 DEF PropsFound
<1>5. PICK r \in Nat : /\ r = Earliest(PropsFound(f, n, s))
                       /\ r \in PropsFound(f, n, s)
                       /\ \A j \in PropsFound(f, n, s) : r <= j
  BY <1>1, <1>4, EarliestIsLeast
<1>6. /\ r \in (n + 1)..(e - 1) /\ Tag(f, r) = "FDT_PROP"
      /\ fdt_get_string(f, f.tags[r].nameoff) = s /\ Len(f.tags) \in Nat
  BY <1>3, <1>5, NoTagBehind DEF PropsFound
<1>7. ASSUME NEW i \in (n + 1)..r
      PROVE  i \in (n + 1)..(e - 1)
  BY <1>3, <1>6
<1>8. r \in (n + 1)..Len(f.tags)
  BY <1>3, <1>6
<1>9. ASSUME NEW i \in (n + 1)..(r - 1), f.tags[i].tag = "FDT_PROP"
      PROVE  fdt_get_string(f, f.tags[i].nameoff) # s
  <2>1. i \in (n + 1)..(e - 1) /\ ~(r <= i)
    BY <1>3, <1>6
  <2>2. Tag(f, i) = "FDT_PROP" /\ i \notin PropsFound(f, n, s)
    BY <1>3, <1>5, <1>9, <2>1
  <2> QED
    BY <1>3, <2>1, <2>2 DEF PropsFound
<1>10. f.tags[r].tag = "FDT_PROP"
  BY <1>3, <1>6
<1>11. FoundProperty(f, n, s, r)
  BY <1>3, <1>6, <1>7, <1>8, <1>9, <1>10 DEF FoundProperty
<1> QED
  BY <1>2, <1>5, <1>11

LEMMA FoundIsProperty ==
  ASSUME NEW f \in Trees, NEW n \in 1..Len(f.tags), NEW s, NEW r,
         FoundProperty(f, n, s, r)
  PROVE  fdt_get_property(f, n, s) = [err |-> "OK", at |-> r]
<1>1. Len(f.tags) \in Nat /\ n \in Nat /\ r \in (n + 1)..Len(f.tags) /\ r \in Nat
  BY NoTagBehind DEF FoundProperty
<1>2. /\ \A i \in (n + 1)..r : Tag(f, i) = f.tags[i].tag
      /\ \A i \in (n + 1)..r : f.tags[i].tag \in {"FDT_PROP", "FDT_NOP"}
      /\ f.tags[r].tag = "FDT_PROP" /\ fdt_get_string(f, f.tags[r].nameoff) = s
      /\ \A i \in (n + 1)..(r - 1) :
           f.tags[i].tag = "FDT_PROP" => fdt_get_string(f, f.tags[i].nameoff) # s
  BY DEF FoundProperty
<1>3. PICK e \in Nat : /\ e = PropsEnd(f, n) /\ e \in (n + 1)..(Len(f.tags) + 1)
                       /\ e \in PropsStop(f, n)
  BY PropsEndIs
<1>4. r < e
  <2> SUFFICES ASSUME e <= r PROVE FALSE
    BY <1>1, <1>3
  <2>1. e \in (n + 1)..r
    BY <1>1, <1>3
  <2>2. Tag(f, e) \in {"FDT_PROP", "FDT_NOP"}
    BY <1>2, <2>1
  <2> QED
    BY <1>3, <2>2 DEF PropsStop
<1>5. r \in (n + 1)..r /\ r \in (n + 1)..(e - 1)
  BY <1>1, <1>3, <1>4
<1>6. r \in PropsFound(f, n, s)
  BY <1>2, <1>3, <1>5 DEF PropsFound
<1>7. PropsFound(f, n, s) \subseteq Nat
  BY <1>1, <1>3 DEF PropsFound
<1>8. PICK m \in Nat : /\ m = Earliest(PropsFound(f, n, s))
                       /\ m \in PropsFound(f, n, s) /\ m <= r
  BY <1>6, <1>7, EarliestIsLeast
<1>9. m = r
  <2> SUFFICES ASSUME m < r PROVE FALSE
    BY <1>1, <1>8
  <2>1. /\ m \in (n + 1)..(e - 1) /\ Tag(f, m) = "FDT_PROP"
        /\ fdt_get_string(f, f.tags[m].nameoff) = s
    BY <1>3, <1>8 DEF PropsFound
  <2>2. m \in (n + 1)..(r - 1) /\ m \in (n + 1)..r
    BY <1>1, <2>1
  <2> QED
    BY <1>2, <2>1, <2>2
<1>10. fdt_get_property(f, n, s)
         = [err |-> "OK", at |-> Earliest(PropsFound(f, n, s))]
  BY <1>6 DEF fdt_get_property, PropsFound
<1> QED
  BY <1>8, <1>9, <1>10

\* Two trees whose tags up to n are of the same kinds and whose nodes have the
\* same names, both read that far, give the same search.
SameNodes(f, g, n) ==
  \A i \in 1..n : /\ g.tags[i].tag = f.tags[i].tag
                  /\ f.tags[i].tag = "FDT_BEGIN_NODE" => g.tags[i].name = f.tags[i].name

LEMMA FoundAgain ==
  ASSUME NEW f \in Trees, NEW g \in Trees, NEW s, NEW n, FoundNode(f, s, n),
         fdt_ro_probe_(g) = "OK", n <= Len(g.tags), SameNodes(f, g, n),
         \A i \in 1..n : Tag(g, i) = g.tags[i].tag
  PROVE  FoundNode(g, s, n)
<1>1. /\ Len(f.tags) \in Nat /\ Len(g.tags) \in Nat
      /\ n \in 2..Len(f.tags) /\ n \in Nat \ {0} /\ n \in 2..Len(g.tags)
  BY NoTagBehind DEF FoundNode
<1>2. /\ \A i \in 2..n : i \in 1..n
      /\ \A i \in 2..(n - 1) : i \in 1..n
      /\ 1 \in 1..n /\ n \in 1..n
  BY <1>1
<1>3. \A i \in 1..n : Depth(g, i) = Depth(f, i)
  <2>1. \A i \in 2..n : g.tags[i].tag = f.tags[i].tag
    BY <1>2 DEF SameNodes
  <2> QED
    BY <1>1, <2>1, DepthAlike
<1>4. \A i \in 2..n : g.tags[i].tag # "FDT_END" /\ Depth(g, i) >= 0
  BY <1>2, <1>3 DEF SameNodes, FoundNode
<1>5. \A i \in 2..(n - 1) :
        g.tags[i].tag = "FDT_BEGIN_NODE" /\ Depth(g, i) = 1 =>
          ~fdt_nodename_eq_(g.tags[i].name, s)
  BY <1>2, <1>3 DEF SameNodes, FoundNode
<1>6. /\ g.tags[1].tag = "FDT_BEGIN_NODE" /\ g.tags[n].tag = "FDT_BEGIN_NODE"
      /\ Depth(g, n) = 1 /\ fdt_nodename_eq_(g.tags[n].name, s)
  BY <1>2, <1>3 DEF SameNodes, FoundNode
<1> QED
  BY <1>1, <1>4, <1>5, <1>6 DEF FoundNode
\* fdt_rw_probe_ makes a tree version 17 without any effect on searches.
LEMMA WritableFound ==
  ASSUME NEW f \in Trees, fdt_rw_probe_(f) = "OK"
  PROVE  /\ Writable(f) \in Trees /\ Writable(f).version = 17
         /\ fdt_rw_probe_(Writable(f)) = "OK"
         /\ Aligned(f) => Aligned(Writable(f))
         /\ \A i : Tag(Writable(f), i) = Tag(f, i)
         /\ \A s, n : FoundNode(f, s, n) => FoundNode(Writable(f), s, n)
<1>1. PICK g : g = Writable(f)
  OBVIOUS
<1>2. /\ g \in Trees /\ g.magic = f.magic /\ g.version = 17
      /\ g.last_comp_version = f.last_comp_version
      /\ g.off_mem_rsvmap = f.off_mem_rsvmap
  BY <1>1 DEF Trees, Writable
<1>3. /\ g.totalsize = f.totalsize /\ g.size_dt_struct = f.size_dt_struct
      /\ g.off_dt_struct = f.off_dt_struct /\ g.off_dt_strings = f.off_dt_strings
      /\ g.size_dt_strings = f.size_dt_strings
      /\ g.tags = f.tags /\ g.strings = f.strings
  BY <1>1, WritableTree
<1>4. /\ f.magic /\ ~(f.version < 2 \/ f.last_comp_version > 17)
      /\ ~(f.version < 17) /\ ~fdt_blocks_misordered_(f)
  BY DEF fdt_rw_probe_, fdt_ro_probe_
<1>5. ~fdt_blocks_misordered_(g)
  BY <1>2, <1>3, <1>4 DEF fdt_blocks_misordered_, fdt_data_size_
<1>6. fdt_ro_probe_(g) = "OK" /\ fdt_rw_probe_(g) = "OK"
  BY <1>2, <1>4, <1>5 DEF fdt_rw_probe_, fdt_ro_probe_
<1>7. f.version >= 17
  BY <1>4 DEF Trees
<1>8. \A m : Reaches(g, m) <=> Reaches(f, m)
  BY <1>2, <1>3, <1>7 DEF Reaches
<1>9. \A i : Tag(g, i) = Tag(f, i)
  BY <1>3, <1>8 DEF Tag
<1>10. \A i : Depth(g, i) = Depth(f, i)
  BY <1>3 DEF Depth
<1>11. \A s, n : FoundNode(f, s, n) => FoundNode(g, s, n)
  BY <1>3, <1>6, <1>9, <1>10 DEF FoundNode
<1> QED
  BY <1>1, <1>2, <1>3, <1>6, <1>9, <1>11 DEF Aligned

\* A splice that fits keeps the blocks in order.
LEMMA ResizedProbed ==
  ASSUME NEW f \in Trees, fdt_rw_probe_(f) = "OK",
         NEW tags \in Seq(Tags), NEW delta \in Int, Fits(Resized(f, tags, delta))
  PROVE  /\ fdt_rw_probe_(Resized(f, tags, delta)) = "OK"
         /\ fdt_ro_probe_(Resized(f, tags, delta)) = "OK"
         /\ Resized(f, tags, delta).version = f.version
<1>1. PICK g : g = Resized(f, tags, delta)
  OBVIOUS
<1>2. /\ g \in Trees /\ g.totalsize = f.totalsize
      /\ g.size_dt_struct = f.size_dt_struct + delta
      /\ g.off_dt_strings = f.off_dt_strings + delta
      /\ g.size_dt_strings = f.size_dt_strings
  BY <1>1, ResizedTree
<1>3. /\ g.magic = f.magic /\ g.version = f.version
      /\ g.last_comp_version = f.last_comp_version
      /\ g.off_mem_rsvmap = f.off_mem_rsvmap /\ g.off_dt_struct = f.off_dt_struct
  BY <1>1 DEF Resized, Trees
<1>4. /\ f.magic /\ ~(f.version < 2 \/ f.last_comp_version > 17)
      /\ ~(f.version < 17)
      /\ ~(f.off_mem_rsvmap < FDT_V17_SIZE)
      /\ ~(f.off_dt_struct < f.off_mem_rsvmap + RSV_ENTRY)
      /\ ~(f.off_dt_strings < f.off_dt_struct + f.size_dt_struct)
  BY DEF fdt_rw_probe_, fdt_ro_probe_, fdt_blocks_misordered_
<1>5. /\ f.off_dt_strings \in Int /\ f.off_dt_struct \in Int
      /\ f.size_dt_struct \in Int /\ g.totalsize \in Int
      /\ g.off_dt_strings \in Int /\ g.size_dt_strings \in Int
  BY <1>2 DEF Trees
<1>6. ~(f.off_dt_strings + delta < f.off_dt_struct + (f.size_dt_struct + delta))
  BY <1>4, <1>5
<1>7. ~(g.totalsize < fdt_data_size_(g))
  BY <1>1, <1>5 DEF Fits, fdt_data_size_
<1>8. ~fdt_blocks_misordered_(g)
  BY <1>2, <1>3, <1>4, <1>6, <1>7 DEF fdt_blocks_misordered_
<1> QED
  BY <1>1, <1>3, <1>4, <1>8 DEF fdt_rw_probe_, fdt_ro_probe_

\* Tags in front of an edit keep their offsets.
LEMMA OffsetsAlike ==
  ASSUME NEW a \in Seq(Tags), NEW b \in Seq(Tags), NEW n \in Nat,
         n <= Len(a), n <= Len(b), \A j \in 1..n : b[j] = a[j]
  PROVE  Offsets(b)[n] = Offsets(a)[n]
<1>1. 0 + n = n /\ \A j \in 1..n : b[0 + j] = a[0 + j]
  OBVIOUS
<1>2. SameRun(b, 0, a, 0, n)
  BY <1>1 DEF SameRun
<1>3. Offsets(b)[0 + n] - Offsets(b)[0] = Offsets(a)[0 + n] - Offsets(a)[0]
  BY <1>2, RunsAlike
<1>4. n \in 0..Len(a) /\ n \in 0..Len(b)
  OBVIOUS
<1>5. /\ Offsets(a)[0] = 0 /\ Offsets(b)[0] = 0
      /\ Offsets(a)[n] \in Nat /\ Offsets(b)[n] \in Nat
  BY <1>4, OffsetsSteps DEF IsOffsets
<1>6. PICK x \in Nat, y \in Nat : x = Offsets(a)[n] /\ y = Offsets(b)[n]
  BY <1>5
<1>7. y - 0 = x - 0
  BY <1>1, <1>3, <1>5, <1>6
<1> QED
  BY <1>6, <1>7

LEMMA AlignedSum ==
  ASSUME NEW a \in Int, NEW b \in Int, a % 4 = 0, b % 4 = 0
  PROVE  (a + b) % 4 = 0 /\ (a - b) % 4 = 0
<1>1. a = 4 * (a \div 4) /\ b = 4 * (b \div 4)
  OBVIOUS
<1>2. PICK p \in Int, q \in Int : a = 4 * p /\ b = 4 * q
  BY <1>1
<1>3. (4 * (p + q)) % 4 = 0 /\ (4 * (p - q)) % 4 = 0
  OBVIOUS
<1>4. a + b = 4 * (p + q) /\ a - b = 4 * (p - q)
  BY <1>2
<1> QED
  BY <1>3, <1>4

\* A name depends on the strings block.
LEMMA SameString ==
  ASSUME NEW f, NEW g, SameStrings(g, f)
  PROVE  \A off : fdt_get_string(g, off) = fdt_get_string(f, off)
BY DEF SameStrings, fdt_get_string

\* A property that changes its data in place is found where it was.
LEMMA ReplacedFound ==
  ASSUME NEW f \in Trees, Aligned(f), fdt_rw_probe_(f) = "OK",
         NEW s, NEW q, NEW n, NEW r, FoundNode(f, s, n), FoundProperty(f, n, q, r),
         NEW t \in Tags, t.tag = "FDT_PROP", t.nameoff = f.tags[r].nameoff,
         NEW delta \in Int, delta = TagSize(t) - TagSize(f.tags[r]),
         NEW g, g = Resized(f, [f.tags EXCEPT ![r] = t], delta), Fits(g)
  PROVE  /\ g \in Trees /\ Aligned(g) /\ FoundNode(g, s, n)
         /\ FoundProperty(g, n, q, r) /\ g.tags[r] = t
<1>1. PICK a \in Seq(Tags) : a = f.tags
  BY DEF Trees
<1>2. PICK m \in Nat : m = Len(a)
  OBVIOUS
<1>3. n \in 2..m /\ r \in (n + 1)..m
  BY <1>1, <1>2 DEF FoundNode, FoundProperty
<1>4. /\ n \in Nat /\ r \in Nat /\ r \in 1..m /\ r \in 0..m /\ r - 1 \in Nat
      /\ r - 1 <= m /\ r - 1 \in 0..m
  BY <1>3
<1>5. PICK b : b = [a EXCEPT ![r] = t]
  OBVIOUS
<1>6. /\ b \in Seq(Tags) /\ Len(b) = m
      /\ \A j \in 1..m : b[j] = IF j = r THEN t ELSE a[j]
  BY <1>2, <1>4, <1>5, ExceptSeq
<1>7. /\ g \in Trees /\ g.tags = b /\ g.strings = f.strings
      /\ g.size_dt_struct = f.size_dt_struct + delta
      /\ g.size_dt_strings = f.size_dt_strings
  <2>1. g = Resized(f, b, delta)
    BY <1>1, <1>5
  <2>2. f \in Trees /\ b \in Seq(Tags) /\ delta \in Int
    BY <1>6
  <2> QED
    BY ONLY <2>1, <2>2, ResizedTree
<1>8. fdt_rw_probe_(g) = "OK" /\ fdt_ro_probe_(g) = "OK"
  BY <1>1, <1>5, <1>6, ResizedProbed
<1>9. a[r] \in Tags
  BY <1>2, <1>4, ElementOfSeq
<1>10. PICK u \in Nat, v \in Nat : /\ u = TagSize(t) /\ v = TagSize(a[r])
                                   /\ u % 4 = 0 /\ v % 4 = 0
  BY <1>9, TagSizeAligned, TagSizeType
<1>11. PICK z \in Int : z = f.size_dt_struct /\ z % 4 = 0
  BY DEF Aligned, Trees
<1>12. Aligned(g)
  <2>1. (u - v) % 4 = 0 /\ u - v \in Int
    BY <1>10, AlignedSum
  <2>2. (z + (u - v)) % 4 = 0
    BY <1>11, <2>1, AlignedSum
  <2> QED
    BY <1>1, <1>7, <1>10, <1>11, <2>2 DEF Aligned
<1>13. Offsets(a)[r] <= z
  <2>1. f.version >= 17
    BY DEF fdt_rw_probe_, Trees
  <2>2. r \in 1..Len(f.tags) /\ Tag(f, r) = f.tags[r].tag
    <3>1. r \in (n + 1)..r
      BY <1>3
    <3> QED
      BY <1>1, <1>2, <1>4, <3>1 DEF FoundProperty
  <2> QED
    BY <1>1, <1>11, <2>1, <2>2, TagEnds
<1>14. Offsets(b)[r] <= g.size_dt_struct
  <2>1. \A j \in 1..(r - 1) : b[j] = a[j]
    BY <1>4, <1>6
  <2>2. Offsets(b)[r - 1] = Offsets(a)[r - 1]
    BY <1>2, <1>4, <1>6, <2>1, OffsetsAlike
  <2>3. PICK x \in Nat : x = Offsets(a)[r - 1]
    BY <1>2, <1>4, OffsetsOrdered
  <2>4. Offsets(a)[r] = x + v /\ Offsets(b)[r] = x + u
    <3>1. Offsets(a)[r] = Offsets(a)[r - 1] + TagSize(a[r])
      BY <1>2, <1>4, OffsetsSteps DEF IsOffsets
    <3>2. Offsets(b)[r] = Offsets(b)[r - 1] + TagSize(b[r])
      BY <1>4, <1>6, OffsetsSteps DEF IsOffsets
    <3>3. b[r] = t
      BY <1>4, <1>6
    <3> QED
      BY <1>10, <2>2, <2>3, <3>1, <3>2, <3>3
  <2>5. x + v <= z
    BY <1>13, <2>4
  <2>6. x + u <= z + (u - v)
    BY <2>5
  <2> QED
    BY <1>1, <1>7, <1>10, <1>11, <2>4, <2>6
<1>15. \A i \in 1..r : Tag(g, i) = g.tags[i].tag
  <2>1. r \in 1..Len(g.tags) /\ Offsets(g.tags)[r] <= g.size_dt_struct
    BY <1>4, <1>6, <1>7, <1>14
  <2> QED
    BY <1>7, <1>8, <2>1, TagsReached
<1>16. \A i \in 1..m : g.tags[i].tag = f.tags[i].tag
  <2>1. f.tags[r].tag = "FDT_PROP"
    BY DEF FoundProperty
  <2> QED
    BY <1>1, <1>6, <1>7, <2>1
<1>17. FoundNode(g, s, n)
  <2>1. \A i \in 1..n : i \in 1..r /\ i \in 1..m /\ i # r
    BY <1>3
  <2>2. SameNodes(f, g, n)
    BY <1>1, <1>6, <1>7, <1>16, <2>1 DEF SameNodes
  <2>3. n <= Len(g.tags)
    BY <1>3, <1>6, <1>7
  <2>4. \A i \in 1..n : Tag(g, i) = g.tags[i].tag
    BY <1>15, <2>1
  <2> QED
    BY <1>7, <1>8, <2>2, <2>3, <2>4, FoundAgain
<1>18. FoundProperty(g, n, q, r)
  <2>1. \A i \in (n + 1)..r : i \in 1..r /\ i \in 1..m
    BY <1>3
  <2>2. \A i \in (n + 1)..(r - 1) : i \in (n + 1)..r /\ i # r
    BY <1>3
  <2>3. \A off : fdt_get_string(g, off) = fdt_get_string(f, off)
    BY <1>7, SameString DEF SameStrings
  <2>4. g.tags[r] = t /\ g.tags[r].tag = "FDT_PROP"
        /\ fdt_get_string(g, g.tags[r].nameoff) = q
    BY <1>4, <1>6, <1>7, <2>3 DEF FoundProperty
  <2>5. \A i \in (n + 1)..r : /\ Tag(g, i) = g.tags[i].tag
                              /\ g.tags[i].tag \in {"FDT_PROP", "FDT_NOP"}
    BY <1>15, <1>16, <2>1 DEF FoundProperty
  <2>6. ASSUME NEW i \in (n + 1)..(r - 1), g.tags[i].tag = "FDT_PROP"
        PROVE  fdt_get_string(g, g.tags[i].nameoff) # q
    <3>1. g.tags[i] = f.tags[i]
      BY <1>1, <1>6, <1>7, <2>1, <2>2
    <3> QED
      BY <2>3, <2>6, <3>1 DEF FoundProperty
  <2>7. r \in (n + 1)..Len(g.tags)
    BY <1>3, <1>6, <1>7
  <2> QED
    BY <2>4, <2>5, <2>6, <2>7 DEF FoundProperty
<1> QED
  BY <1>4, <1>6, <1>7, <1>12, <1>17, <1>18
\* Where tags are inserted behind a tag that is read, they are read as well,
\* and so is all in front of them.
LEMMA InsertedReached ==
  ASSUME NEW f \in Trees, Aligned(f), fdt_rw_probe_(f) = "OK",
         NEW k \in 1..Len(f.tags), Tag(f, k) = f.tags[k].tag,
         NEW new \in Seq(Tags), NEW delta \in Int, delta = SizeOf(new),
         NEW g, g = Resized(f, Inserted(f.tags, k + 1, new), delta), Fits(g)
  PROVE  /\ g \in Trees /\ Aligned(g) /\ SameStrings(g, f)
         /\ fdt_rw_probe_(g) = "OK" /\ fdt_ro_probe_(g) = "OK"
         /\ Len(g.tags) = Len(f.tags) + Len(new)
         /\ \A i \in 1..k : g.tags[i] = f.tags[i]
         /\ \A i \in 1..Len(new) : g.tags[k + i] = new[i]
         /\ \A i \in 1..(k + Len(new)) : Tag(g, i) = g.tags[i].tag
<1>1. PICK a \in Seq(Tags) : a = f.tags
  BY DEF Trees
<1>2. PICK m \in Nat, l \in Nat : m = Len(a) /\ l = Len(new)
  OBVIOUS
<1>3. k \in Nat /\ k \in 1..m /\ k + 1 \in 1..(Len(a) + 1) /\ (k + 1) - 1 = k
  BY <1>1, <1>2
<1>4. PICK b : b = Inserted(a, k + 1, new)
  OBVIOUS
<1>5. /\ b \in Seq(Tags) /\ Len(b) = m + l
      /\ \A j \in 1..k : b[j] = a[j]
      /\ \A j \in 1..l : b[k + j] = new[j]
  <2>1. PICK c \in 1..(Len(a) + 1) : c = k + 1 /\ c - 1 = k
    BY <1>3
  <2>2. b = Inserted(a, c, new)
    BY <1>4, <2>1
  <2>3. /\ b \in Seq(Tags) /\ Len(b) = Len(a) + Len(new)
        /\ \A j \in 1..(c - 1) : b[j] = a[j]
        /\ \A j \in 1..Len(new) : b[(c - 1) + j] = new[j]
    BY <2>2, InsertedProperties
  <2> QED
    BY ONLY <1>2, <2>1, <2>3
<1>6. /\ g \in Trees /\ g.tags = b /\ g.strings = f.strings
      /\ g.size_dt_struct = f.size_dt_struct + delta
      /\ g.size_dt_strings = f.size_dt_strings
  <2>1. g = Resized(f, b, delta)
    BY <1>1, <1>4
  <2>2. f \in Trees /\ b \in Seq(Tags) /\ delta \in Int
    BY <1>5
  <2> QED
    BY ONLY <2>1, <2>2, ResizedTree
<1>7. fdt_rw_probe_(g) = "OK" /\ fdt_ro_probe_(g) = "OK"
  BY <1>1, <1>4, <1>5, ResizedProbed
<1>8. PICK u \in Nat : u = delta /\ u = Offsets(new)[l] /\ u % 4 = 0
  <2>1. l \in 0..Len(new)
    BY <1>2
  <2> QED
    BY <1>2, <2>1, SizeIsNat, OffsetsOrdered
<1>9. PICK z \in Int : z = f.size_dt_struct /\ z % 4 = 0
  BY DEF Aligned, Trees
<1>10. Aligned(g)
  <2>1. (z + u) % 4 = 0
    BY <1>8, <1>9, AlignedSum
  <2> QED
    BY <1>6, <1>8, <1>9, <2>1 DEF Aligned
<1>11. PICK x \in Nat : x = Offsets(a)[k] /\ x <= z
  <2>1. f.version >= 17
    BY DEF fdt_rw_probe_, Trees
  <2>2. Offsets(a)[k] <= z
    BY <1>1, <1>9, <2>1, TagEnds
  <2>3. k \in 0..Len(a)
    BY <1>2, <1>3
  <2> QED
    BY <2>2, <2>3, OffsetsOrdered
<1>12. Offsets(b)[k] = x
  <2>1. k <= Len(a) /\ k <= Len(b)
    BY <1>2, <1>3, <1>5
  <2> QED
    BY <1>3, <1>5, <1>11, <2>1, OffsetsAlike
<1>13. Offsets(b)[k + l] = x + u
  <2>1. k + l <= Len(b) /\ 0 + l <= Len(new) /\ 0 + l = l
    BY <1>2, <1>3, <1>5
  <2>2. SameRun(b, k, new, 0, l)
    BY <1>5, <2>1 DEF SameRun
  <2>3. Offsets(b)[k + l] - Offsets(b)[k] = Offsets(new)[0 + l] - Offsets(new)[0]
    BY <1>3, <1>5, <2>2, RunsAlike
  <2>4. Offsets(new)[0] = 0 /\ Offsets(b)[k + l] \in Nat
    <3>1. k + l \in 0..Len(b)
      BY <1>2, <1>3, <1>5
    <3> QED
      BY <1>5, <3>1, OffsetsSteps DEF IsOffsets
  <2>5. PICK y \in Nat : y = Offsets(b)[k + l]
    BY <2>4
  <2>6. y - x = u - 0
    BY <1>8, <1>12, <2>1, <2>3, <2>4, <2>5
  <2> QED
    BY <2>5, <2>6
<1>14. \A i \in 1..(k + l) : Tag(g, i) = g.tags[i].tag
  <2>1. k + l \in 1..Len(g.tags)
    BY <1>2, <1>3, <1>5, <1>6
  <2>2. Offsets(g.tags)[k + l] <= g.size_dt_struct
    <3>1. x + u <= z + u
      BY <1>11
    <3> QED
      BY ONLY <1>6, <1>8, <1>9, <1>13, <3>1
  <2> QED
    BY <1>6, <1>7, <2>1, <2>2, TagsReached
<1> QED
  BY <1>1, <1>2, <1>5, <1>6, <1>7, <1>10, <1>14 DEF SameStrings

\* A property put in front of the others of a node is the one that is found.
LEMMA InsertedFound ==
  ASSUME NEW f \in Trees, Aligned(f), fdt_rw_probe_(f) = "OK",
         NEW s, NEW n, FoundNode(f, s, n),
         NEW t \in Tags, t.tag = "FDT_PROP", NEW delta \in Int, delta = SizeOf(<<t>>),
         NEW g, g = Resized(f, Inserted(f.tags, n + 1, <<t>>), delta), Fits(g)
  PROVE  /\ g \in Trees /\ Aligned(g) /\ FoundNode(g, s, n) /\ g.tags[n + 1] = t
         /\ FoundProperty(g, n, fdt_get_string(f, t.nameoff), n + 1)
<1>1. PICK new \in Seq(Tags) : new = <<t>> /\ Len(new) = 1 /\ new[1] = t
  <2>1. <<t>> \in Seq(Tags) /\ Len(<<t>>) = 1 /\ <<t>>[1] = t
    OBVIOUS
  <2> QED
    BY ONLY <2>1
<1>2. /\ Len(f.tags) \in Nat /\ n \in 2..Len(f.tags) /\ n \in 1..Len(f.tags)
      /\ n \in Nat /\ Tag(f, n) = f.tags[n].tag
  <2>1. Len(f.tags) \in Nat /\ n \in 2..Len(f.tags)
    BY NoTagBehind DEF FoundNode
  <2>2. n \in 1..n
    BY <2>1
  <2> QED
    BY <2>1, <2>2 DEF FoundNode
<1>3. g = Resized(f, Inserted(f.tags, n + 1, new), delta) /\ delta = SizeOf(new)
  BY <1>1
<1>4. /\ g \in Trees /\ Aligned(g) /\ SameStrings(g, f) /\ fdt_ro_probe_(g) = "OK"
      /\ Len(g.tags) = Len(f.tags) + 1
      /\ \A i \in 1..n : g.tags[i] = f.tags[i]
      /\ g.tags[n + 1] = t
      /\ \A i \in 1..(n + 1) : Tag(g, i) = g.tags[i].tag
  <2>1. /\ g \in Trees /\ Aligned(g) /\ SameStrings(g, f) /\ fdt_ro_probe_(g) = "OK"
        /\ Len(g.tags) = Len(f.tags) + Len(new)
        /\ \A i \in 1..n : g.tags[i] = f.tags[i]
        /\ \A i \in 1..Len(new) : g.tags[n + i] = new[i]
        /\ \A i \in 1..(n + Len(new)) : Tag(g, i) = g.tags[i].tag
    <3>1. /\ f \in Trees /\ Aligned(f) /\ fdt_rw_probe_(f) = "OK"
          /\ delta \in Int /\ new \in Seq(Tags) /\ Fits(g)
      OBVIOUS
    <3>2. PICK k \in 1..Len(f.tags) : k = n
      BY <1>2
    <3>3. Tag(f, k) = f.tags[k].tag /\ delta = SizeOf(new)
          /\ g = Resized(f, Inserted(f.tags, k + 1, new), delta)
      BY <1>2, <1>3, <3>2
    <3>4. /\ g \in Trees /\ Aligned(g) /\ SameStrings(g, f)
          /\ fdt_rw_probe_(g) = "OK" /\ fdt_ro_probe_(g) = "OK"
          /\ Len(g.tags) = Len(f.tags) + Len(new)
          /\ \A i \in 1..k : g.tags[i] = f.tags[i]
          /\ \A i \in 1..Len(new) : g.tags[k + i] = new[i]
          /\ \A i \in 1..(k + Len(new)) : Tag(g, i) = g.tags[i].tag
      BY ONLY <3>1, <3>3, InsertedReached
    <3> QED
      BY ONLY <3>2, <3>4
  <2>2. 1 \in 1..1
    OBVIOUS
  <2> QED
    BY ONLY <1>1, <2>1, <2>2
<1>5. FoundNode(g, s, n)
  <2>1. SameNodes(f, g, n)
    BY <1>4 DEF SameNodes
  <2>2. \A i \in 1..n : i \in 1..(n + 1)
    BY <1>2
  <2>3. \A i \in 1..n : Tag(g, i) = g.tags[i].tag
    BY <1>4, <2>2
  <2>4. n <= Len(g.tags)
    BY <1>2, <1>4
  <2> QED
    BY <1>4, <2>1, <2>3, <2>4, FoundAgain
<1>6. fdt_get_string(g, t.nameoff) = fdt_get_string(f, t.nameoff)
  BY <1>4, SameString
<1>7. /\ n + 1 \in (n + 1)..Len(g.tags) /\ n + 1 \in 1..(n + 1)
      /\ \A i \in (n + 1)..(n + 1) : i = n + 1
      /\ (n + 1)..((n + 1) - 1) = {}
  BY <1>2, <1>4
<1>8. FoundProperty(g, n, fdt_get_string(f, t.nameoff), n + 1)
  BY <1>4, <1>6, <1>7 DEF FoundProperty
<1> QED
  BY <1>4, <1>5, <1>8

\* /chosen, put behind the root's properties, is found there.
LEMMA ChosenFound ==
  ASSUME NEW f \in Trees, Aligned(f), fdt_rw_probe_(f) = "OK",
         Tag(f, 1) = "FDT_BEGIN_NODE", NEW at, at = PropsEnd(f, 1),
         NEW delta \in Int, delta = SizeOf(EmptyChosen),
         NEW g, g = Resized(f, Inserted(f.tags, at, EmptyChosen), delta), Fits(g)
  PROVE  g \in Trees /\ Aligned(g) /\ FoundNode(g, Chosen, at)
<1>1. /\ 1 \in 1..Len(f.tags) /\ f.tags[1].tag = "FDT_BEGIN_NODE"
      /\ Tag(f, 1) = f.tags[1].tag
  BY TagInBlock DEF NoTag
<1>2. /\ Len(f.tags) \in Nat /\ at \in 2..(Len(f.tags) + 1)
      /\ \A i \in 2..(at - 1) :
           /\ i \in 1..Len(f.tags) /\ Tag(f, i) = f.tags[i].tag
           /\ f.tags[i].tag \in {"FDT_PROP", "FDT_NOP"}
  BY <1>1, NoTagBehind, PropsEndIs
<1>3. PICK k \in Nat \ {0} : k = at - 1 /\ at = k + 1
  BY <1>2
<1>4. k \in 1..Len(f.tags) /\ Tag(f, k) = f.tags[k].tag
  <2>1. k = 1 \/ k \in 2..(at - 1)
    BY <1>2, <1>3
  <2> QED
    BY <1>1, <1>2, <2>1
<1>5. PICK new \in Seq(Tags) :
        new = EmptyChosen /\ Len(new) = 2 /\ new[1] = BeginNode(Chosen)
  BY ChosenTags DEF EmptyChosen
<1>6. g = Resized(f, Inserted(f.tags, k + 1, new), delta) /\ delta = SizeOf(new)
  BY <1>3, <1>5
<1>7. /\ g \in Trees /\ Aligned(g) /\ fdt_ro_probe_(g) = "OK"
      /\ Len(g.tags) = Len(f.tags) + 2
      /\ \A i \in 1..k : g.tags[i] = f.tags[i]
      /\ g.tags[k + 1] = BeginNode(Chosen)
      /\ \A i \in 1..(k + 2) : Tag(g, i) = g.tags[i].tag
  <2>1. /\ g \in Trees /\ Aligned(g) /\ fdt_ro_probe_(g) = "OK"
        /\ Len(g.tags) = Len(f.tags) + Len(new)
        /\ \A i \in 1..k : g.tags[i] = f.tags[i]
        /\ \A i \in 1..Len(new) : g.tags[k + i] = new[i]
        /\ \A i \in 1..(k + Len(new)) : Tag(g, i) = g.tags[i].tag
    BY <1>4, <1>6, InsertedReached
  <2>2. 1 \in 1..2
    OBVIOUS
  <2> QED
    BY ONLY <1>5, <2>1, <2>2
<1>8. \A i \in 2..k : g.tags[i].tag \in {"FDT_PROP", "FDT_NOP"}
  <2>1. \A i \in 2..k : i \in 1..k /\ i \in 2..(at - 1)
    BY <1>3
  <2> QED
    BY <1>2, <1>7, <2>1
<1>9. \A i \in 1..k : Depth(g, i) = 0
  BY <1>3, <1>8, DepthFlat
<1>10. g.tags[at].tag = "FDT_BEGIN_NODE" /\ g.tags[at].name = Chosen
  BY <1>3, <1>7 DEF BeginNode
<1>11. Depth(g, at) = 1
  <2>1. at \in Nat \ {0} /\ at \in 2..at /\ k \in 1..k
    BY <1>2, <1>3
  <2>2. Depth(g, at) = Depth(g, at - 1) + Change(g.tags[at])
    BY <2>1, DepthSteps DEF IsDepth
  <2>3. Change(g.tags[at]) = 1 /\ Depth(g, at - 1) = 0
    BY <1>3, <1>9, <1>10, <2>1 DEF Change
  <2> QED
    BY <2>2, <2>3
<1>12. fdt_nodename_eq_(Chosen, Chosen)
  <2>1. Chosen \in Seq(Nat)
    BY SourceAssumption
  <2>2. SubSeq(Chosen, 1, Len(Chosen)) = Chosen
    BY <2>1, SubSeqFull
  <2>3. Len(Chosen) >= Len(Chosen)
    BY <2>1
  <2> QED
    BY <2>2, <2>3 DEF fdt_nodename_eq_
<1>13. \A i \in 2..at : i \in 2..k \/ i = at
  BY <1>2, <1>3
<1>14. \A i \in 2..k : i \in 1..k
  BY <1>3
<1>15. \A i \in 2..at : g.tags[i].tag # "FDT_END" /\ Depth(g, i) >= 0
  <2>1. ASSUME NEW i \in 2..at
        PROVE  g.tags[i].tag # "FDT_END" /\ Depth(g, i) >= 0
    <3>1. CASE i = at
      BY <1>10, <1>11, <3>1
    <3>2. CASE i \in 2..k
      BY <1>8, <1>9, <1>14, <3>2
    <3> QED
      BY <1>13, <3>1, <3>2
  <2> QED
    BY <2>1
<1>16. \A i \in 2..(at - 1) : g.tags[i].tag # "FDT_BEGIN_NODE"
  BY <1>3, <1>8
<1>17. \A i \in 1..at : Tag(g, i) = g.tags[i].tag
  <2>1. \A i \in 1..at : i \in 1..(k + 2)
    BY <1>3
  <2> QED
    BY <1>7, <2>1
<1>18. at \in 2..Len(g.tags) /\ g.tags[1].tag = "FDT_BEGIN_NODE"
  <2>1. 1 \in 1..k
    BY <1>3
  <2>2. g.tags[1] = f.tags[1]
    BY <1>7, <2>1
  <2> QED
    BY <1>1, <1>2, <1>7, <2>2
<1>19. FoundNode(g, Chosen, at)
  BY <1>7, <1>10, <1>11, <1>12, <1>15, <1>16, <1>17, <1>18 DEF FoundNode
<1> QED
  BY <1>7, <1>19
\* The name and its NUL stand at an offset of the strings block.
NameAt(f, off) ==
  /\ off \in Nat /\ off + (Len(Bootargs) + 1) <= f.size_dt_strings
  /\ f.strings[off + (Len(Bootargs) + 1)] = NUL
  /\ \A i \in 1..Len(Bootargs) : f.strings[off + i] = Bootargs[i]

LEMMA NameIsRead ==
  ASSUME NEW f \in Trees, NEW off, NameAt(f, off)
  PROVE  fdt_get_string(f, off) = Bootargs
<1>1. PICK l \in Nat : l = Len(Bootargs)
  BY SourceAssumption
<1>2. /\ Bootargs \in Seq(Nat) /\ \A i \in 1..l : Bootargs[i] # NUL
      /\ \A i \in 1..l : Bootargs[i] \in Nat
  <2>1. Bootargs \in Seq(Nat) /\ \A i \in DOMAIN Bootargs : Bootargs[i] # NUL
    BY SourceAssumption
  <2>2. DOMAIN Bootargs = 1..l
    BY <1>1, <2>1
  <2> QED
    BY <1>1, <2>1, <2>2, ElementOfSeq
<1>3. PICK z \in Nat : z = f.size_dt_strings
  BY DEF Trees
<1>4. PICK e \in Nat : e = off + (l + 1) /\ e - 1 = off + l /\ e \in (off + 1)..z
                       /\ off \in Nat
  BY <1>1, <1>3 DEF NameAt
<1>5. f.strings[e] = NUL /\ \A i \in 1..l : f.strings[off + i] = Bootargs[i]
  BY <1>1, <1>4 DEF NameAt
<1> DEFINE Ends == {d \in (off + 1)..z : f.strings[d] = NUL}
<1>6. e \in Ends
  BY <1>4, <1>5
<1>7. ASSUME NEW d \in Ends
      PROVE  d \in Nat /\ e <= d
  <2>1. d \in (off + 1)..z /\ f.strings[d] = NUL
    OBVIOUS
  <2>2. d \in Nat
    BY <1>4, <2>1
  <2> SUFFICES ASSUME d < e PROVE FALSE
    BY <1>4, <2>2
  <2>3. PICK i \in 1..l : i = d - off /\ off + i = d
    BY <1>4, <2>1, <2>2
  <2>4. f.strings[off + i] = NUL /\ f.strings[off + i] = Bootargs[i]
    BY <1>5, <2>1, <2>3
  <2> QED
    BY <1>2, <2>4
<1>8. (CHOOSE c \in Ends : \A d \in Ends : c <= d) = e
  <2> DEFINE c == CHOOSE c \in Ends : \A d \in Ends : c <= d
  <2>1. c \in Ends /\ \A d \in Ends : c <= d
    <3> HIDE DEF Ends
    <3> QED
      BY <1>6, <1>7
  <2> HIDE DEF c
  <2>2. c <= e /\ e <= c /\ c \in Nat
    <3> HIDE DEF Ends
    <3> QED
      BY <1>6, <1>7, <2>1
  <2>3. c = e
    BY <1>4, <2>2
  <2> QED
    BY <2>3 DEF c
<1>9. fdt_get_string(f, off) = SubSeq(f.strings, off + 1, e - 1)
  <2>1. fdt_get_string(f, off)
          = IF Ends = {} THEN NULL
            ELSE SubSeq(f.strings, off + 1,
                        (CHOOSE c \in Ends : \A d \in Ends : c <= d) - 1)
    BY <1>3 DEF fdt_get_string
  <2> HIDE DEF Ends
  <2> QED
    BY <1>6, <1>8, <2>1
<1>10. PICK w : w = SubSeq(f.strings, off + 1, off + l)
  OBVIOUS
<1>11. w \in Seq(Nat) /\ Len(w) = l /\ \A i \in 1..l : w[i] = f.strings[off + i]
  <2>1. PICK a \in Int, b \in Int : a = off + 1 /\ b = off + l
    BY <1>4
  <2>2. \A i \in a..b : f.strings[i] \in Nat
    <3>1. ASSUME NEW i \in a..b
          PROVE  f.strings[i] \in Nat
      <4>1. PICK j \in 1..l : off + j = i
        <5>1. i - off \in 1..l /\ off + (i - off) = i
          BY <1>4, <2>1
        <5> QED
          BY <5>1
      <4> QED
        BY <1>2, <1>5, <4>1
    <3> QED
      BY <3>1
  <2>3. /\ SubSeq(f.strings, a, b) \in Seq(Nat)
        /\ Len(SubSeq(f.strings, a, b)) = IF a <= b THEN b - a + 1 ELSE 0
        /\ \A i \in 1..(b - a + 1) : SubSeq(f.strings, a, b)[i] = f.strings[a + i - 1]
    BY <2>2, SubSeqProperties
  <2>4. /\ b - a + 1 = l /\ (IF a <= b THEN b - a + 1 ELSE 0) = l
        /\ \A i \in 1..l : a + i - 1 = off + i
    BY <1>4, <2>1
  <2>5. w = SubSeq(f.strings, a, b)
    BY <1>10, <2>1
  <2> QED
    BY ONLY <2>3, <2>4, <2>5
<1>12. w = Bootargs
  <2>1. \A i \in 1..Len(w) : w[i] = Bootargs[i]
    BY <1>5, <1>11
  <2>2. Len(w) = Len(Bootargs)
    BY <1>1, <1>11
  <2> QED
    BY <1>2, <1>11, <2>1, <2>2, SeqEqual
<1> QED
  BY <1>4, <1>9, <1>10, <1>12

\* fdt_find_string_ finds the name.
LEMMA FoundName ==
  ASSUME NEW f \in Trees, f.size_dt_strings <= Len(f.strings),
         NEW off \in fdt_find_string_(f, Bootargs)
  PROVE  NameAt(f, off)
<1>1. PICK l \in Nat, z \in Nat, str \in Seq(Nat) :
        l = Len(Bootargs) /\ z = f.size_dt_strings /\ str = f.strings
  BY SourceAssumption DEF Trees
<1>2. PICK s \in Seq(Nat) : s = Append(Bootargs, NUL)
  <2>1. Append(Bootargs, NUL) \in Seq(Nat)
    BY SourceAssumption DEF NUL
  <2> QED
    BY ONLY <2>1
<1>3. s[l + 1] = NUL /\ \A i \in 1..l : s[i] = Bootargs[i]
  BY <1>1, <1>2, SourceAssumption DEF NUL
<1>4. off \in 0..(z - l - 1) /\ SubSeq(str, off + 1, off + l + 1) = s
  BY <1>1, <1>2 DEF fdt_find_string_
<1>5. off \in Nat /\ off + (l + 1) <= z
  BY <1>4
<1>6. PICK a \in Int, b \in Int : a = off + 1 /\ b = off + l + 1
  BY <1>5
<1>7. \A i \in a..b : str[i] \in Nat
  <2>1. \A i \in a..b : i \in 1..Len(str)
    BY <1>1, <1>5, <1>6
  <2> QED
    BY <2>1, ElementOfSeq
<1>8. \A i \in 1..(b - a + 1) : SubSeq(str, a, b)[i] = str[a + i - 1]
  BY <1>7, SubSeqProperties
<1>9. b - a + 1 = l + 1 /\ \A i \in 1..(l + 1) : a + i - 1 = off + i
  BY <1>5, <1>6
<1>10. \A i \in 1..(l + 1) : str[off + i] = s[i]
  BY ONLY <1>4, <1>6, <1>8, <1>9
<1>11. l + 1 \in 1..(l + 1) /\ \A i \in 1..l : i \in 1..(l + 1)
  OBVIOUS
<1> QED
  BY <1>1, <1>3, <1>5, <1>10, <1>11 DEF NameAt

\* So it is where fdt_find_add_string_ appends it.
LEMMA AddedName ==
  ASSUME NEW f \in Trees, NEW src \in Sources, NameAdded(f, src)
  PROVE  NameAt(f, src.size_dt_strings)
<1>1. PICK a \in Seq(Nat) : a = src.strings /\ src.size_dt_strings = Len(a)
  BY SourceAssumption DEF Blobs
<1>2. PICK l \in Nat, n \in Nat : l = Len(Bootargs) /\ n = Len(a)
  BY SourceAssumption
<1>3. PICK s \in Seq(Nat) : s = Append(Bootargs, NUL)
  <2>1. Append(Bootargs, NUL) \in Seq(Nat)
    BY SourceAssumption DEF NUL
  <2> QED
    BY ONLY <2>1
<1>4. Len(s) = l + 1 /\ s[l + 1] = NUL /\ \A i \in 1..l : s[i] = Bootargs[i]
  BY <1>2, <1>3, SourceAssumption DEF NUL
<1>5. f.strings = a \o s /\ f.size_dt_strings = n + l + 1
  BY <1>1, <1>2, <1>3 DEF NameAdded
<1>6. \A i \in 1..(Len(a) + Len(s)) :
        (a \o s)[i] = IF i <= Len(a) THEN a[i] ELSE s[i - Len(a)]
  BY ConcatProperties
<1>7. \A i \in 1..(l + 1) : f.strings[n + i] = s[i]
  <2>1. \A i \in 1..(l + 1) : n + i \in 1..(n + (l + 1)) /\ ~(n + i <= n)
                              /\ (n + i) - n = i
    OBVIOUS
  <2> QED
    BY ONLY <1>2, <1>4, <1>5, <1>6, <2>1
<1>8. l + 1 \in 1..(l + 1) /\ \A i \in 1..l : i \in 1..(l + 1)
  OBVIOUS
<1>9. n + (l + 1) <= f.size_dt_strings
  BY <1>5
<1> QED
  BY <1>1, <1>2, <1>4, <1>7, <1>8, <1>9 DEF NameAt

\* A change of the strings block leaves the search for a node alone.
LEMMA StringsFound ==
  ASSUME NEW f \in Trees, fdt_rw_probe_(f) = "OK", NEW g \in Trees, Fits(g),
         g.magic = f.magic, g.version = f.version,
         g.last_comp_version = f.last_comp_version,
         g.off_mem_rsvmap = f.off_mem_rsvmap, g.off_dt_struct = f.off_dt_struct,
         g.size_dt_struct = f.size_dt_struct, g.off_dt_strings = f.off_dt_strings,
         g.totalsize = f.totalsize, g.tags = f.tags
  PROVE  /\ fdt_rw_probe_(g) = "OK"
         /\ Aligned(f) => Aligned(g)
         /\ \A s, n : FoundNode(f, s, n) => FoundNode(g, s, n)
<1>1. fdt_ro_probe_(g) = fdt_ro_probe_(f) /\ fdt_ro_probe_(g) = "OK"
  BY DEF fdt_ro_probe_, fdt_rw_probe_
<1>2. ~(g.totalsize < fdt_data_size_(g))
  BY DEF Fits, fdt_data_size_, Trees
<1>3. fdt_rw_probe_(g) = "OK"
  BY <1>1, <1>2 DEF fdt_rw_probe_, fdt_blocks_misordered_
<1>4. \A m : Reaches(g, m) <=> Reaches(f, m)
  BY DEF Reaches
<1>5. \A i : Tag(g, i) = Tag(f, i)
  BY <1>4 DEF Tag
<1>6. \A i : Depth(g, i) = Depth(f, i)
  BY DEF Depth
<1>7. \A s, n : FoundNode(f, s, n) => FoundNode(g, s, n)
  BY <1>1, <1>5, <1>6 DEF FoundNode
<1> QED
  BY <1>3, <1>7 DEF Aligned
\* While the tree is edited the search for /chosen ends at node; in the end the
\* search for bootargs ends at the command line.
SearchInv ==
  /\ pc = "add_subnode" => fdt_subnode_offset(fdt, Chosen).err = "NOTFOUND"
  /\ pc = "add_property" => NameAt(fdt, name)
  /\ Aligned(source) =>
       /\ AtNode => Aligned(fdt) /\ FoundNode(fdt, Chosen, node)
       /\ pc \in {"add_string", "add_property"} => fdt_rw_probe_(fdt) = "OK"
       /\ pc = "done" /\ bootargs # NULL =>
            /\ fdt \in Trees /\ FoundNode(fdt, Chosen, node)
            /\ \E r : /\ FoundProperty(fdt, node, Bootargs, r)
                     /\ fdt.tags[r].data = bootargs

LEMMA SearchEnds ==
  ASSUME NEW e, Fatal(e)
  PROVE  SearchInv'
BY DEF Fatal, SearchInv, AtNode

LEMMA FirstSearch ==
  /\ Init => SearchInv
  /\ TreeInv /\ (LoadDtb \/ fdt_check_header) => SearchInv'
<1>1. Init => SearchInv
  BY DEF Init, SearchInv, AtNode
<1>2. ASSUME LoadDtb PROVE SearchInv'
  <2>1. CASE Fatal("BADMAGIC")
    BY <2>1, SearchEnds
  <2>2. CASE /\ pc' = IF bootargs = NULL THEN "done" ELSE "check_header"
             /\ bootargs' = bootargs
    BY <2>2 DEF SearchInv, AtNode
  <2> QED
    BY <1>2, <2>1, <2>2 DEF LoadDtb
<1>3. ASSUME fdt_check_header PROVE SearchInv'
  <2>1. CASE Fatal(HeaderError(fdt))
    BY <2>1, SearchEnds
  <2>2. CASE pc' = "find_chosen"
    BY <2>2 DEF SearchInv, AtNode
  <2> QED
    BY <1>3, <2>1, <2>2 DEF fdt_check_header
<1> QED
  BY <1>1, <1>2, <1>3

LEMMA FindChosenSearch == TreeInv /\ FindChosen => SearchInv'
<1> SUFFICES ASSUME TreeInv, FindChosen PROVE SearchInv'
  OBVIOUS
<1>1. PICK r : r = fdt_subnode_offset(fdt, Chosen)
  OBVIOUS
<1>2. source \in Sources /\ fdt = source /\ fdt \in Trees
  <2>1. source \in Sources /\ fdt = source
    BY DEF TreeInv, FindChosen, Untouched
  <2> QED
    BY <2>1, SourceInStep DEF InStep
<1>3. fdt' = fdt
  BY DEF FindChosen
<1>4. CASE Fatal(r.err)
  BY <1>4, SearchEnds
<1>5. CASE /\ r.err = "OK" /\ node' = r.at /\ pc' = "resize_property"
           /\ source' = source
  <2>1. FoundNode(fdt, Chosen, r.at)
    BY <1>1, <1>2, <1>5, NodeFound
  <2>2. FoundNode(fdt', Chosen, node')
    BY <1>3, <1>5, <2>1
  <2>3. Aligned(source') => Aligned(fdt')
    BY <1>2, <1>3, <1>5
  <2> QED
    BY <1>5, <2>2, <2>3 DEF SearchInv, AtNode
<1>6. CASE r.err = "NOTFOUND" /\ pc' = "add_subnode"
  <2>1. fdt_subnode_offset(fdt', Chosen).err = "NOTFOUND"
    BY <1>1, <1>3, <1>6
  <2> QED
    BY <1>6, <2>1 DEF SearchInv, AtNode
<1> QED
  BY <1>1, <1>4, <1>5, <1>6 DEF FindChosen

LEMMA AddSubnodeSearch == TreeInv /\ SearchInv /\ AddSubnode => SearchInv'
<1> SUFFICES ASSUME TreeInv, SearchInv, AddSubnode PROVE SearchInv'
  OBVIOUS
<1>1. PICK at, new, probe, w :
        /\ at = PropsEnd(fdt, 1) /\ new = EmptyChosen
        /\ probe = fdt_rw_probe_(fdt) /\ w = Writable(fdt)
  OBVIOUS
<1>2. PICK soff : soff = fdt.off_dt_struct + Offset(fdt.tags, at)
  OBVIOUS
<1>3. PICK e : e = IF probe # "OK" THEN probe
                   ELSE fdt_splice_(fdt, soff, 0, SizeOf(new))
  OBVIOUS
<1>4. CASE Fatal(e)
  BY <1>4, SearchEnds
<1>5. CASE /\ e = "OK" /\ node' = at /\ pc' = "resize_property" /\ source' = source
           /\ fdt' = Resized(w, Inserted(fdt.tags, at, new), SizeOf(new))
  <2> SUFFICES ASSUME Aligned(source) PROVE Aligned(fdt') /\ FoundNode(fdt', Chosen, node')
    BY <1>5 DEF SearchInv, AtNode
  <2>1. /\ source \in Sources /\ fdt = source /\ pc = "add_subnode"
        /\ 1 \in 1..Len(fdt.tags)
    BY DEF TreeInv, AddSubnode, Untouched
  <2>2. fdt \in Trees /\ fdt.tags \in Seq(Tags)
    <3>1. fdt \in Trees
      BY <2>1, SourceInStep DEF InStep
    <3> QED
      BY <3>1 DEF Trees
  <2>3. fdt_rw_probe_(fdt) = "OK" /\ fdt_splice_(fdt, soff, 0, SizeOf(new)) = "OK"
    BY <1>1, <1>3, <1>5
  <2>4. /\ w \in Trees /\ fdt_rw_probe_(w) = "OK" /\ Aligned(w)
        /\ Tag(w, 1) = Tag(fdt, 1) /\ \A i : Tag(w, i) = Tag(fdt, i)
    BY <1>1, <2>1, <2>2, <2>3, WritableFound
  <2>5. /\ w.tags = fdt.tags /\ w.totalsize = fdt.totalsize
        /\ w.off_dt_strings = fdt.off_dt_strings
        /\ w.size_dt_strings = fdt.size_dt_strings
    BY <1>1, <2>2, WritableTree
  <2>6. Tag(fdt, 1) = "FDT_BEGIN_NODE"
    <3>1. fdt_subnode_offset(fdt, Chosen).err = "NOTFOUND"
      BY <2>1 DEF SearchInv
    <3>2. fdt_ro_probe_(fdt) = "OK"
      BY <2>3 DEF fdt_rw_probe_, fdt_ro_probe_
    <3> QED
      BY <3>1, <3>2 DEF fdt_subnode_offset
  <2>7. at = PropsEnd(w, 1)
    BY <1>1, <2>4, <2>5 DEF PropsEnd
  <2>8. PICK delta \in Int : delta = SizeOf(new) /\ delta = delta - 0
    BY <1>1, ChosenTags
  <2>9. PICK tags \in Seq(Tags) : tags = Inserted(w.tags, at, new)
    <3>1. at \in 1..(Len(fdt.tags) + 1)
      BY <1>1, <2>1, <2>2, PropsEndInBlock
    <3>2. new \in Seq(Tags)
      BY <1>1, ChosenTags
    <3>3. Inserted(w.tags, at, new) \in Seq(Tags)
      BY <2>2, <2>5, <3>1, <3>2, SizeOfInserted
    <3> QED
      BY ONLY <3>3
  <2>10. PICK g : g = Resized(w, tags, delta)
    OBVIOUS
  <2>11. Fits(g)
    <3>1. fdt_splice_(w, soff, 0, delta) = "OK"
      BY <2>3, <2>5, <2>8 DEF fdt_splice_, fdt_data_size_
    <3>2. 0 \in Int
      OBVIOUS
    <3> QED
      BY ONLY <2>4, <2>8, <2>10, <3>1, <3>2, SpliceFits
  <2>12. Aligned(g) /\ FoundNode(g, Chosen, at)
    <3>1. Tag(w, 1) = "FDT_BEGIN_NODE" /\ delta = SizeOf(EmptyChosen)
          /\ g = Resized(w, Inserted(w.tags, at, EmptyChosen), delta)
      BY <1>1, <2>4, <2>6, <2>8, <2>9, <2>10
    <3> QED
      BY ONLY <2>4, <2>7, <2>11, <3>1, ChosenFound
  <2>13. fdt' = g
    BY <1>5, <2>5, <2>8, <2>9, <2>10
  <2> QED
    BY <1>5, <2>12, <2>13
<1> QED
  BY <1>1, <1>2, <1>3, <1>4, <1>5 DEF AddSubnode
LEMMA ResizePropertySearch == TreeInv /\ SearchInv /\ ResizeProperty => SearchInv'
<1> SUFFICES ASSUME TreeInv, SearchInv, ResizeProperty PROVE SearchInv'
  OBVIOUS
<1>1. PICK f : f = Writable(fdt)
  OBVIOUS
<1>2. PICK r : r = fdt_get_property(f, node, Bootargs)
  OBVIOUS
<1>3. PICK oldlen, newlen : /\ oldlen = FDT_TAGALIGN(Len(f.tags[r.at].data))
                            /\ newlen = FDT_TAGALIGN(Len(bootargs))
  OBVIOUS
<1>4. PICK e : e = fdt_splice_(f, f.off_dt_struct + Offset(f.tags, r.at) + 12,
                               oldlen, newlen)
  OBVIOUS
<1>5. CASE \E x : Fatal(x)
  BY <1>5, SearchEnds
<1>6. ASSUME fdt_rw_probe_(fdt) = "OK", Aligned(source)
      PROVE  /\ f \in Trees /\ fdt_rw_probe_(f) = "OK" /\ Aligned(f)
             /\ FoundNode(f, Chosen, node) /\ node \in 1..Len(f.tags)
  <2>1. fdt \in Trees /\ node \in 1..Len(fdt.tags) /\ pc = "resize_property"
    BY DEF TreeInv, ResizeProperty, AtNode, Loaded, InStep
  <2>2. Aligned(fdt) /\ FoundNode(fdt, Chosen, node)
    BY <1>6, <2>1 DEF SearchInv, AtNode
  <2>3. f.tags = fdt.tags
    BY <1>1, <2>1, WritableTree
  <2> QED
    BY <1>1, <1>6, <2>1, <2>2, <2>3, WritableFound
<1>7. CASE /\ fdt_rw_probe_(fdt) = "OK" /\ fdt' = f /\ pc' = "add_string"
           /\ source' = source /\ node' = node
  <2> SUFFICES ASSUME Aligned(source)
               PROVE  /\ Aligned(fdt') /\ FoundNode(fdt', Chosen, node')
                      /\ fdt_rw_probe_(fdt') = "OK"
    BY <1>7 DEF SearchInv, AtNode
  <2> QED
    BY <1>6, <1>7
<1>8. CASE /\ fdt_rw_probe_(fdt) = "OK" /\ r.err = "OK" /\ e = "OK"
           /\ fdt' = Resized(f, [f.tags EXCEPT ![r.at].data = bootargs],
                             newlen - oldlen)
           /\ pc' = "done" /\ UNCHANGED <<source, bootargs, node>>
  <2> SUFFICES ASSUME Aligned(source)
               PROVE  /\ fdt' \in Trees /\ FoundNode(fdt', Chosen, node')
                      /\ FoundProperty(fdt', node', Bootargs, r.at)
                      /\ fdt'.tags[r.at].data = bootargs'
    BY <1>8 DEF SearchInv, AtNode
  <2>1. /\ f \in Trees /\ fdt_rw_probe_(f) = "OK" /\ Aligned(f)
        /\ FoundNode(f, Chosen, node) /\ node \in 1..Len(f.tags)
    BY <1>6, <1>8
  <2>2. PICK a, k : a = f.tags /\ k = r.at
    OBVIOUS
  <2>3. FoundProperty(f, node, Bootargs, k)
    BY <1>2, <1>8, <2>1, <2>2, PropertyFound
  <2>4. k \in 1..Len(a) /\ a[k] \in Tags /\ a[k].tag = "FDT_PROP"
    BY <1>2, <1>8, <2>1, <2>2, PropertyInBlock
  <2>5. bootargs \in Seq(Nat)
    <3>1. bootargs \in Args \cup {NULL} /\ bootargs # NULL
      BY DEF TreeInv, ResizeProperty, AtNode
    <3> QED
      BY <3>1, SourceAssumption
  <2>6. PICK t : t = [a[k] EXCEPT !.data = bootargs]
    OBVIOUS
  <2>7. /\ t \in Tags /\ t.tag = "FDT_PROP" /\ t.data = bootargs
        /\ t.nameoff = a[k].nameoff
    BY <2>4, <2>5, <2>6 DEF Tags
  <2>8. PICK tags : tags = [a EXCEPT ![k] = t]
    OBVIOUS
  <2>9. tags = [f.tags EXCEPT ![r.at].data = bootargs]
    BY <2>2, <2>6, <2>8
  <2>10. /\ TagSize(t) = 12 + newlen /\ newlen \in Nat
         /\ TagSize(a[k]) = 12 + oldlen /\ oldlen \in Nat
    <3>1. t.data \in Seq(Nat) /\ TagSize(t) = 12 + FDT_TAGALIGN(Len(t.data))
      BY <2>7, PropSize
    <3>2. /\ a[k].data \in Seq(Nat)
          /\ TagSize(a[k]) = 12 + FDT_TAGALIGN(Len(a[k].data))
      BY <2>4, PropSize
    <3>3. Len(t.data) \in Nat /\ Len(a[k].data) \in Nat
      BY <3>1, <3>2
    <3> QED
      BY <1>3, <2>2, <2>7, <3>1, <3>2, <3>3, AlignType
  <2>11. PICK delta \in Int :
           delta = newlen - oldlen /\ delta = TagSize(t) - TagSize(a[k])
    <3>1. newlen - oldlen \in Int
          /\ newlen - oldlen = (12 + newlen) - (12 + oldlen)
      BY <2>10
    <3> QED
      BY ONLY <2>10, <3>1
  <2>12. PICK g : g = Resized(f, tags, delta)
    OBVIOUS
  <2>13. tags \in Seq(Tags)
    <3>1. a \in Seq(Tags)
      BY <2>1, <2>2 DEF Trees
    <3> QED
      BY <2>4, <2>7, <2>8, <3>1, SizeOfReplaced
  <2>14. Fits(g)
    <3>1. newlen \in Int /\ oldlen \in Int
      BY <2>10
    <3>2. fdt_splice_(f, f.off_dt_struct + Offset(f.tags, r.at) + 12, oldlen,
                      newlen) = "OK"
      BY <1>4, <1>8
    <3> QED
      BY ONLY <2>1, <2>11, <2>12, <2>13, <3>1, <3>2, SpliceFits
  <2>15. /\ g \in Trees /\ FoundNode(g, Chosen, node)
         /\ FoundProperty(g, node, Bootargs, k) /\ g.tags[k] = t
    <3>1. /\ g = Resized(f, [f.tags EXCEPT ![k] = t], delta)
          /\ t.nameoff = f.tags[k].nameoff
          /\ delta = TagSize(t) - TagSize(f.tags[k])
      BY <2>2, <2>7, <2>8, <2>11, <2>12
    <3> QED
      BY ONLY <2>1, <2>3, <2>7, <2>11, <2>14, <3>1, ReplacedFound
  <2>16. fdt' = g
    BY <1>8, <2>9, <2>11, <2>12
  <2> QED
    BY <1>8, <2>2, <2>7, <2>15, <2>16
<1> QED
  <2>1. \/ \E x : Fatal(x)
        \/ /\ fdt_rw_probe_(fdt) = "OK" /\ fdt' = f /\ pc' = "add_string"
           /\ source' = source /\ node' = node
        \/ /\ fdt_rw_probe_(fdt) = "OK" /\ r.err = "OK" /\ e = "OK"
           /\ fdt' = Resized(f, [f.tags EXCEPT ![r.at].data = bootargs],
                             newlen - oldlen)
           /\ pc' = "done" /\ UNCHANGED <<source, bootargs, node>>
    BY <1>1, <1>2, <1>3, <1>4, Zenon DEF ResizeProperty
  <2> QED
    BY <1>5, <1>7, <1>8, <2>1

LEMMA AddStringSearch == TreeInv /\ SearchInv /\ AddString => SearchInv'
<1> SUFFICES ASSUME TreeInv, SearchInv, AddString PROVE SearchInv'
  OBVIOUS
<1>1. /\ source \in Sources /\ InStep(fdt, source) /\ SameStrings(fdt, source)
      /\ pc = "add_string"
  BY DEF TreeInv, AddString, AtNode, Loaded
<1>2. /\ fdt \in Trees /\ fdt.size_dt_strings \in Nat
      /\ fdt.off_dt_strings \in Int /\ fdt.totalsize \in Nat
      /\ fdt.strings \in Seq(Nat)
  <2>1. fdt \in Trees
    BY <1>1 DEF InStep
  <2> QED
    BY <2>1 DEF Trees
<1>3. fdt.size_dt_strings = Len(fdt.strings)
  BY <1>1, SourceAssumption DEF SameStrings
<1>4. PICK s : s = Append(Bootargs, NUL)
  OBVIOUS
<1>5. s \in Seq(Nat) /\ Len(s) = Len(Bootargs) + 1 /\ Len(Bootargs) \in Nat
  BY <1>4, SourceAssumption DEF NUL
<1>6. PICK e : e = fdt_splice_(fdt, fdt_data_size_(fdt), 0, Len(s))
  OBVIOUS
<1>7. PICK Found : Found = fdt_find_string_(fdt, Bootargs)
  OBVIOUS
<1>8. ASSUME Aligned(source)
      PROVE  /\ Aligned(fdt) /\ FoundNode(fdt, Chosen, node)
             /\ fdt_rw_probe_(fdt) = "OK"
  BY <1>1, <1>8 DEF SearchInv, AtNode
<1>9. CASE Fatal(e)
  BY <1>9, SearchEnds
<1>10. CASE /\ Found # {} /\ name' = Earliest(Found) /\ pc' = "add_property"
            /\ UNCHANGED <<source, fdt, node>>
  <2>1. Found \subseteq Nat
    BY <1>7 DEF fdt_find_string_
  <2>2. name' \in Found
    BY <1>10, <2>1, EarliestIsLeast
  <2>3. fdt.size_dt_strings <= Len(fdt.strings)
    BY <1>2, <1>3
  <2>4. NameAt(fdt, name')
    BY <1>2, <1>7, <2>2, <2>3, FoundName
  <2>5. NameAt(fdt', name')
    BY <1>10, <2>4
  <2> QED
    BY <1>8, <1>10, <2>5 DEF SearchInv, AtNode
<1>11. CASE /\ e = "OK" /\ name' = fdt.size_dt_strings /\ pc' = "add_property"
            /\ fdt' = [fdt EXCEPT
                         !.strings = SubSeq(@, 1, fdt.size_dt_strings) \o s,
                         !.size_dt_strings = @ + Len(s)]
            /\ UNCHANGED <<source, node>>
  <2>1. PICK text \in Seq(Nat) : text = fdt.strings \o s
    BY <1>2, <1>5, ConcatProperties
  <2>2. PICK size \in Nat : size = fdt.size_dt_strings + Len(s)
    BY <1>2, <1>5
  <2>3. SubSeq(fdt.strings, 1, fdt.size_dt_strings) = fdt.strings
    BY <1>2, <1>3, SubSeqFull
  <2>4. PICK g : g = [fdt EXCEPT !.strings = text, !.size_dt_strings = size]
    OBVIOUS
  <2>5. fdt' = g
    BY <1>2, <1>11, <2>1, <2>2, <2>3, <2>4 DEF Trees
  <2>6. /\ g \in Trees /\ g.magic = fdt.magic /\ g.version = fdt.version
        /\ g.last_comp_version = fdt.last_comp_version
        /\ g.off_mem_rsvmap = fdt.off_mem_rsvmap
        /\ g.off_dt_struct = fdt.off_dt_struct
        /\ g.size_dt_struct = fdt.size_dt_struct
        /\ g.off_dt_strings = fdt.off_dt_strings
        /\ g.totalsize = fdt.totalsize /\ g.tags = fdt.tags
        /\ g.strings = text /\ g.size_dt_strings = size
    BY <1>2, <2>4 DEF Trees
  <2>7. Fits(g)
    <3>1. ~((fdt.off_dt_strings + fdt.size_dt_strings) - 0 + Len(s) > fdt.totalsize)
      BY <1>6, <1>11 DEF fdt_splice_, fdt_data_size_
    <3>2. fdt.off_dt_strings + size <= fdt.totalsize
      BY <1>2, <1>5, <2>2, <3>1
    <3> QED
      BY <2>6, <3>2 DEF Fits, fdt_data_size_
  <2>8. NameAt(g, name')
    <3>1. NameAdded(g, source)
      <4>1. size = source.size_dt_strings + Len(Bootargs) + 1
        <5>1. PICK l \in Nat, z \in Nat :
                l = Len(Bootargs) /\ z = fdt.size_dt_strings
          BY <1>2, <1>5
        <5>2. size = z + (l + 1)
          BY <1>5, <2>2, <5>1, Zenon
        <5>3. z + (l + 1) = z + l + 1
          OBVIOUS
        <5>4. z = source.size_dt_strings
          BY <1>1, <5>1 DEF SameStrings
        <5> QED
          BY ONLY <5>1, <5>2, <5>3, <5>4
      <4> QED
        BY <1>1, <1>4, <2>1, <2>6, <4>1 DEF NameAdded, SameStrings
    <3>2. name' = source.size_dt_strings
      BY <1>1, <1>11 DEF SameStrings
    <3> QED
      BY <1>1, <2>6, <3>1, <3>2, AddedName
  <2>9. ASSUME Aligned(source)
        PROVE  /\ Aligned(g) /\ FoundNode(g, Chosen, node)
               /\ fdt_rw_probe_(g) = "OK"
    <3>1. /\ fdt \in Trees /\ Aligned(fdt) /\ FoundNode(fdt, Chosen, node)
          /\ fdt_rw_probe_(fdt) = "OK"
      BY <1>2, <1>8, <2>9
    <3>2. /\ fdt_rw_probe_(g) = "OK"
          /\ Aligned(fdt) => Aligned(g)
          /\ \A x, n : FoundNode(fdt, x, n) => FoundNode(g, x, n)
      BY ONLY <2>6, <2>7, <3>1, StringsFound
    <3> QED
      BY ONLY <3>1, <3>2
  <2>10. NameAt(fdt', name')
    BY <2>5, <2>8
  <2> QED
    BY <1>11, <2>5, <2>9, <2>10 DEF SearchInv, AtNode
<1> QED
  BY <1>4, <1>6, <1>7, <1>9, <1>10, <1>11 DEF AddString

LEMMA AddPropertySearch == TreeInv /\ SearchInv /\ AddProperty => SearchInv'
<1> SUFFICES ASSUME TreeInv, SearchInv, AddProperty PROVE SearchInv'
  OBVIOUS
<1>1. /\ bootargs \in Args \cup {NULL} /\ bootargs # NULL
      /\ fdt \in Trees /\ name \in Nat /\ pc = "add_property"
  BY DEF TreeInv, AddProperty, AtNode, Loaded, InStep
<1>2. PICK at, t : at = node + 1 /\ t = Prop(name, bootargs)
  OBVIOUS
<1>3. PICK e : e = fdt_splice_(fdt, fdt.off_dt_struct + Offset(fdt.tags, at), 0,
                               TagSize(t))
  OBVIOUS
<1>4. CASE Fatal(e)
  BY <1>4, SearchEnds
<1>5. CASE /\ e = "OK"
           /\ fdt' = Resized(fdt, Inserted(fdt.tags, at, <<t>>), TagSize(t))
           /\ pc' = "done" /\ UNCHANGED <<source, bootargs, node>>
  <2> SUFFICES ASSUME Aligned(source)
               PROVE  /\ fdt' \in Trees /\ FoundNode(fdt', Chosen, node')
                      /\ FoundProperty(fdt', node', Bootargs, at)
                      /\ fdt'.tags[at].data = bootargs'
    BY <1>5 DEF SearchInv, AtNode
  <2>1. /\ Aligned(fdt) /\ FoundNode(fdt, Chosen, node)
        /\ fdt_rw_probe_(fdt) = "OK" /\ NameAt(fdt, name)
    BY <1>1 DEF SearchInv, AtNode
  <2>2. bootargs \in Seq(Nat)
    BY <1>1, SourceAssumption
  <2>3. t \in Tags /\ t.tag = "FDT_PROP" /\ t.nameoff = name /\ t.data = bootargs
    BY <1>1, <1>2, <2>2 DEF Prop, Tags
  <2>4. PICK delta \in Int : delta = TagSize(t) /\ delta = delta - 0
    BY <2>3, TagSizeType
  <2>5. PICK one \in Seq(Tags) : one = <<t>> /\ SizeOf(one) = delta
    <3>1. <<t>> \in Seq(Tags) /\ Len(<<t>>) = 1 /\ <<t>>[1] = t
      BY <2>3
    <3>2. PICK one : one = <<t>>
      OBVIOUS
    <3>3. PICK sum : sum = Offsets(one) /\ IsOffsets(sum, one)
      BY <3>1, <3>2, OffsetsSteps
    <3>4. sum[0] = 0 /\ sum[1] = sum[1 - 1] + TagSize(one[1])
      BY <3>1, <3>2, <3>3 DEF IsOffsets
    <3>5. sum[1] = delta
      BY <2>4, <3>1, <3>2, <3>4
    <3>6. SizeOf(one) = delta
      BY <3>1, <3>2, <3>3, <3>5, SizeIsNat
    <3> QED
      BY ONLY <3>1, <3>2, <3>6
  <2>6. PICK tags \in Seq(Tags) : tags = Inserted(fdt.tags, at, one)
    <3>1. fdt.tags \in Seq(Tags)
      BY <1>1 DEF Trees
    <3>2. at \in 1..(Len(fdt.tags) + 1)
      BY <1>2, <2>1, <3>1 DEF FoundNode
    <3>3. Inserted(fdt.tags, at, one) \in Seq(Tags)
      BY <3>1, <3>2, SizeOfInserted
    <3> QED
      BY ONLY <3>3
  <2>7. PICK g : g = Resized(fdt, tags, delta)
    OBVIOUS
  <2>8. Fits(g)
    <3>1. fdt_splice_(fdt, fdt.off_dt_struct + Offset(fdt.tags, at), 0, delta) = "OK"
      BY <1>3, <1>5, <2>4
    <3>2. 0 \in Int
      OBVIOUS
    <3> QED
      BY ONLY <1>1, <2>4, <2>6, <2>7, <3>1, <3>2, SpliceFits
  <2>9. /\ g \in Trees /\ FoundNode(g, Chosen, node) /\ g.tags[node + 1] = t
        /\ FoundProperty(g, node, fdt_get_string(fdt, t.nameoff), node + 1)
    <3>1. /\ g = Resized(fdt, Inserted(fdt.tags, node + 1, <<t>>), delta)
          /\ delta = SizeOf(<<t>>)
      BY <1>2, <2>5, <2>6, <2>7
    <3> QED
      BY ONLY <1>1, <2>1, <2>3, <2>4, <2>8, <3>1, InsertedFound
  <2>10. fdt_get_string(fdt, t.nameoff) = Bootargs
    BY <1>1, <2>1, <2>3, NameIsRead
  <2>11. fdt' = g
    BY <1>5, <2>4, <2>5, <2>6, <2>7
  <2> QED
    BY <1>2, <1>5, <2>3, <2>9, <2>10, <2>11
<1> QED
  BY <1>2, <1>3, <1>4, <1>5 DEF AddProperty

LEMMA SearchInvariance == Spec => []SearchInv
<1>1. SearchInv /\ UNCHANGED vars => SearchInv'
  BY DEF SearchInv, vars, AtNode
<1>2. TreeInv /\ SearchInv /\ [Next]_vars => SearchInv'
  BY <1>1, FirstSearch, FindChosenSearch, AddSubnodeSearch,
     ResizePropertySearch, AddStringSearch, AddPropertySearch
     DEF Next, fdt_add_bootargs, fdt_setprop
<1> QED
  BY FirstSearch, <1>2, TreeInvariance, PTL DEF Spec

\* The kernel finds its command line in every tree whose structure block is a
\* whole number of words: whether /chosen and bootargs were there or had to be
\* added, and wherever the name was found, libfdt's own searches end at
\* kernel_args.
THEOREM KernelReadsBootargs == Spec => [](Aligned(source) => BootargsReadBack)
<1>1. TreeInv /\ SearchInv => (Aligned(source) => BootargsReadBack)
  <2> SUFFICES ASSUME SearchInv, Aligned(source), pc = "done", bootargs # NULL
               PROVE  LET n == fdt_subnode_offset(fdt, Chosen)
                          r == fdt_get_property(fdt, n.at, Bootargs)
                      IN  /\ n.err = "OK" /\ r.err = "OK"
                          /\ Depth(fdt, n.at) = 1
                          /\ fdt.tags[r.at].data = bootargs
    BY DEF BootargsReadBack
  <2>1. PICK k : /\ fdt \in Trees /\ FoundNode(fdt, Chosen, node)
                 /\ FoundProperty(fdt, node, Bootargs, k)
                 /\ fdt.tags[k].data = bootargs
    BY DEF SearchInv
  <2>2. node \in 1..Len(fdt.tags) /\ Depth(fdt, node) = 1
    <3>1. Len(fdt.tags) \in Nat
      BY <2>1, NoTagBehind
    <3> QED
      BY <2>1, <3>1 DEF FoundNode
  <2>3. fdt_subnode_offset(fdt, Chosen) = [err |-> "OK", at |-> node]
    BY <2>1, FoundIsOffset
  <2>4. fdt_get_property(fdt, node, Bootargs) = [err |-> "OK", at |-> k]
    BY <2>1, <2>2, FoundIsProperty
  <2> QED
    BY <2>1, <2>2, <2>3, <2>4
<1> QED
  BY <1>1, TreeInvariance, SearchInvariance, PTL
-----------------------------------------------------------------------------
(***************************************************************************)
(* Paths.  The nodes around a tag are found by depth alone; what is put    *)
(* between two tags and returns to their depth is around neither.          *)
(***************************************************************************)

\* Tag j opens the node of depth d around tag i.
Opens(f, i, d, j) ==
  /\ j \in 1..i /\ f.tags[j].tag = "FDT_BEGIN_NODE" /\ Depth(f, j) = d
  /\ \A k \in j..i : Depth(f, k) >= d

LEMMA OpensOnce ==
  ASSUME NEW f, NEW i \in Nat \ {0}, NEW d, NEW p, NEW q,
         Opens(f, i, d, p), Opens(f, i, d, q)
  PROVE  p = q
<1>1. ASSUME NEW a, NEW b, Opens(f, i, d, a), Opens(f, i, d, b), a < b
      PROVE  FALSE
  <2>1. a \in 1..i /\ b \in 2..i /\ b - 1 \in a..i /\ b - 1 \in 1..i
    BY <1>1 DEF Opens
  <2>2. IsDepth(f, i)
    BY DepthSteps
  <2>3. Depth(f, b) = Depth(f, b - 1) + 1 /\ Depth(f, b - 1) \in Int
    BY <1>1, <2>1, <2>2 DEF IsDepth, Opens, Change
  <2>4. Depth(f, b) = d /\ Depth(f, b - 1) >= d
    BY <1>1, <2>1 DEF Opens
  <2> QED
    BY <2>3, <2>4
<1>2. p \in 1..i /\ q \in 1..i
  BY DEF Opens
<1>3. p = q \/ p < q \/ q < p
  BY <1>2
<1> QED
  BY <1>1, <1>3

LEMMA OpensSome ==
  ASSUME NEW f, NEW i \in Nat \ {0}, f.tags[1].tag = "FDT_BEGIN_NODE",
         NEW d \in 0..Depth(f, i)
  PROVE  \E j : Opens(f, i, d, j)
<1>1. IsDepth(f, i)
  BY DepthSteps
<1> DEFINE T == {m \in Nat : m < i /\ (m = i - 1 \/ Depth(f, (i - 1) - m) < d)}
<1>2. PICK m \in T : \A x \in T : m <= x
  <2>1. i - 1 \in T /\ T \subseteq Nat
    OBVIOUS
  <2> HIDE DEF T
  <2> QED
    BY <2>1, LeastNatural
<1>3. PICK j \in 1..i : j = i - m
  OBVIOUS
<1>4. ASSUME NEW k \in j..i
      PROVE  Depth(f, k) >= d
  <2>1. CASE k = i
    <3>1. Depth(f, i) \in Int
      BY <1>1 DEF IsDepth
    <3> QED
      BY <2>1, <3>1
  <2>2. CASE k # i
    <3>1. k \in 1..i /\ (i - 1) - k \in Nat /\ (i - 1) - k < i
          /\ ~(m <= (i - 1) - k) /\ (i - 1) - ((i - 1) - k) = k
      BY <1>3, <2>2
    <3>2. (i - 1) - k \notin T
      BY <1>2, <3>1
    <3>3. ~(Depth(f, k) < d) /\ Depth(f, k) \in Int
      BY <1>1, <3>1, <3>2 DEF IsDepth
    <3> QED
      BY <3>3
  <2> QED
    BY <2>1, <2>2
<1>5. Depth(f, j) >= d /\ Depth(f, j) \in Int /\ Depth(f, 1) = 0
  BY <1>1, <1>3, <1>4 DEF IsDepth
<1>6. f.tags[j].tag = "FDT_BEGIN_NODE" /\ Depth(f, j) = d
  <2>1. CASE j = 1
    BY <1>5, <2>1
  <2>2. CASE j # 1
    <3>1. j \in 2..i /\ j - 1 \in 1..i /\ m # i - 1 /\ (i - 1) - m = j - 1
      BY <1>3, <2>2
    <3>2. Depth(f, j - 1) < d /\ Depth(f, j - 1) \in Int
      BY <1>1, <1>2, <3>1 DEF IsDepth
    <3>3. Depth(f, j) = Depth(f, j - 1) + Change(f.tags[j])
      BY <1>1, <3>1 DEF IsDepth
    <3>4. Change(f.tags[j]) \in {0, 1, -1}
          /\ (Change(f.tags[j]) = 1 => f.tags[j].tag = "FDT_BEGIN_NODE")
      BY DEF Change
    <3> QED
      BY <1>5, <3>2, <3>3, <3>4
  <2> QED
    BY <2>1, <2>2
<1> QED
  BY <1>4, <1>6 DEF Opens

\* A path lists the names of the tags that open the nodes around a tag.
LEMMA PathIs ==
  ASSUME NEW f, NEW i \in Nat \ {0}, f.tags[1].tag = "FDT_BEGIN_NODE"
  PROVE  /\ Path(f, i) = [d \in 0..Depth(f, i) |-> Path(f, i)[d]]
         /\ \A d \in 0..Depth(f, i) : \A p :
              Opens(f, i, d, p) => Path(f, i)[d] = f.tags[p].name
<1> DEFINE Around == {j \in 1..i : /\ f.tags[j].tag = "FDT_BEGIN_NODE"
                                   /\ \A k \in j..i : Depth(f, k) >= Depth(f, j)}
           at(d) == CHOOSE j \in Around : Depth(f, j) = d
<1>1. Path(f, i) = [d \in 0..Depth(f, i) |-> f.tags[at(d)].name]
  BY DEF Path
<1>2. ASSUME NEW d \in 0..Depth(f, i), NEW p, Opens(f, i, d, p)
      PROVE  Path(f, i)[d] = f.tags[p].name
  <2>1. p \in Around /\ Depth(f, p) = d
    BY <1>2 DEF Opens
  <2>2. at(d) \in Around /\ Depth(f, at(d)) = d
    BY <2>1
  <2>3. Opens(f, i, d, at(d))
    BY <2>2 DEF Opens
  <2>4. at(d) = p
    <3> HIDE DEF at
    <3> QED
      BY <1>2, <2>3, OpensOnce
  <2>5. Path(f, i)[d] = f.tags[at(d)].name
    <3> HIDE DEF at
    <3> QED
      BY <1>1
  <2> QED
    BY <2>4, <2>5
<1>3. Path(f, i) = [d \in 0..Depth(f, i) |-> Path(f, i)[d]]
  <2> HIDE DEF at
  <2> QED
    BY <1>1
<1> QED
  BY <1>2, <1>3

\* Two tags around which nodes of the same names open have the same path.
LEMMA PathSame ==
  ASSUME NEW f, NEW i \in Nat \ {0}, f.tags[1].tag = "FDT_BEGIN_NODE",
         NEW g, NEW j \in Nat \ {0}, g.tags[1].tag = "FDT_BEGIN_NODE",
         Depth(g, j) = Depth(f, i),
         \A d, p : Opens(f, i, d, p) =>
           \E q : Opens(g, j, d, q) /\ g.tags[q].name = f.tags[p].name
  PROVE  Path(g, j) = Path(f, i)
<1>1. ASSUME NEW d \in 0..Depth(f, i)
      PROVE  Path(g, j)[d] = Path(f, i)[d]
  <2>1. PICK p : Opens(f, i, d, p)
    BY OpensSome
  <2>2. PICK q : Opens(g, j, d, q) /\ g.tags[q].name = f.tags[p].name
    BY <2>1
  <2>3. Path(f, i)[d] = f.tags[p].name
    BY <2>1, PathIs
  <2>4. Path(g, j)[d] = g.tags[q].name
    BY <2>2, PathIs
  <2> QED
    BY <2>2, <2>3, <2>4
<1>2. /\ Path(f, i) = [d \in 0..Depth(f, i) |-> Path(f, i)[d]]
      /\ Path(g, j) = [d \in 0..Depth(f, i) |-> Path(g, j)[d]]
  BY PathIs
<1> QED
  BY <1>1, <1>2, Zenon

\* Behind tags of one depth the same kinds of tags follow.
SameKinds(f, p, g, q, n) ==
  /\ Depth(g, q) = Depth(f, p)
  /\ \A j \in 1..n : g.tags[q + j].tag = f.tags[p + j].tag

LEMMA DepthRun ==
  ASSUME NEW f, NEW p \in Nat \ {0}, NEW g, NEW q \in Nat \ {0}, NEW n \in Nat,
         SameKinds(f, p, g, q, n), NEW x, x = p + n, NEW y, y = q + n
  PROVE  Depth(g, y) = Depth(f, x)
<1> DEFINE S == {j \in Nat : j <= n => Depth(g, q + j) = Depth(f, p + j)}
<1>1. 0 \in S
  BY DEF SameKinds
<1>2. ASSUME NEW j \in Nat, j \in S
      PROVE  j + 1 \in S
  <2> SUFFICES ASSUME j + 1 <= n
               PROVE  Depth(g, q + (j + 1)) = Depth(f, p + (j + 1))
    OBVIOUS
  <2>1. PICK a \in Nat \ {0}, b \in Nat \ {0} :
          a = p + (j + 1) /\ b = q + (j + 1)
    OBVIOUS
  <2>2. a - 1 = p + j /\ b - 1 = q + j /\ a \in 2..a /\ b \in 2..b
    BY <2>1
  <2>3. Depth(g, b - 1) = Depth(f, a - 1)
    BY <1>2, <2>2
  <2>4. j + 1 \in 1..n
    OBVIOUS
  <2>5. g.tags[b].tag = f.tags[a].tag
    BY <2>1, <2>4 DEF SameKinds
  <2>6. Change(g.tags[b]) = Change(f.tags[a])
    BY <2>5 DEF Change
  <2>7. IsDepth(f, a) /\ IsDepth(g, b)
    BY DepthSteps
  <2>8. Depth(g, b) = Depth(f, a)
    BY <2>2, <2>3, <2>6, <2>7 DEF IsDepth
  <2> QED
    BY <2>1, <2>8
<1>3. Nat \subseteq S
  <2> HIDE DEF S
  <2> QED
    BY <1>1, <1>2, NatSetInduction
<1> QED
  BY <1>3

\* The properties behind a node are in it.
LEMMA FlatRun ==
  ASSUME NEW f, NEW n \in Nat \ {0}, NEW i \in Nat, n <= i,
         \A k \in (n + 1)..i : f.tags[k].tag \in {"FDT_PROP", "FDT_NOP"}
  PROVE  \A k \in n..i : Depth(f, k) = Depth(f, n)
<1> DEFINE S == {j \in Nat : n + j <= i => Depth(f, n + j) = Depth(f, n)}
<1>1. 0 \in S
  OBVIOUS
<1>2. ASSUME NEW j \in Nat, j \in S
      PROVE  j + 1 \in S
  <2> SUFFICES ASSUME n + (j + 1) <= i
               PROVE  Depth(f, n + (j + 1)) = Depth(f, n)
    OBVIOUS
  <2>1. PICK x \in Nat \ {0} : x = n + (j + 1)
    OBVIOUS
  <2>2. x - 1 = n + j /\ x \in 2..x /\ x - 1 \in 1..x /\ x \in (n + 1)..i
    BY <2>1
  <2>3. Depth(f, x - 1) = Depth(f, n)
    BY <1>2, <2>2
  <2>4. Change(f.tags[x]) = 0
    BY <2>2 DEF Change
  <2>5. IsDepth(f, x)
    BY DepthSteps
  <2>6. Depth(f, x) = Depth(f, x - 1)
    BY <2>2, <2>4, <2>5 DEF IsDepth
  <2> QED
    BY <2>1, <2>3, <2>6
<1>3. Nat \subseteq S
  <2> HIDE DEF S
  <2> QED
    BY <1>1, <1>2, NatSetInduction
<1>4. ASSUME NEW k \in n..i
      PROVE  Depth(f, k) = Depth(f, n)
  <2>1. k - n \in Nat /\ n + (k - n) = k /\ k <= i
    OBVIOUS
  <2>2. k - n \in S
    BY <1>3, <2>1
  <2> QED
    BY <2>1, <2>2
<1> QED
  BY <1>4

LEMMA PathFlat ==
  ASSUME NEW f, f.tags[1].tag = "FDT_BEGIN_NODE",
         NEW n \in Nat \ {0}, NEW i \in Nat, n <= i,
         \A k \in (n + 1)..i : f.tags[k].tag \in {"FDT_PROP", "FDT_NOP"}
  PROVE  Path(f, i) = Path(f, n)
<1>1. \A k \in n..i : Depth(f, k) = Depth(f, n)
  BY FlatRun
<1>2. ASSUME NEW d, NEW p, Opens(f, n, d, p)
      PROVE  Opens(f, i, d, p) /\ f.tags[p].name = f.tags[p].name
  <2>1. p \in 1..n /\ p \in 1..i /\ n \in p..n
    BY <1>2 DEF Opens
  <2>2. Depth(f, n) >= d
    BY <1>2, <2>1 DEF Opens
  <2>3. ASSUME NEW k \in p..i
        PROVE  Depth(f, k) >= d
    <3>1. k \in p..n \/ k \in n..i
      BY <2>1
    <3> QED
      BY <1>1, <1>2, <2>2, <3>1 DEF Opens
  <2> QED
    BY <1>2, <2>1, <2>3 DEF Opens
<1>3. i \in Nat \ {0} /\ Depth(f, i) = Depth(f, n)
  <2>1. i \in n..i /\ i \in Nat \ {0}
    OBVIOUS
  <2> QED
    BY <1>1, <2>1
<1> QED
  BY <1>2, <1>3, PathSame

\* Tag j of a tree and tag j of the spliced one, up to tag k; then m new tags
\* that return to the depth of tag k.
SameTag(s, t) ==
  s.tag = t.tag /\ (t.tag = "FDT_BEGIN_NODE" => s.name = t.name)

Spliced(f, g, k, m) ==
  /\ f.tags[1].tag = "FDT_BEGIN_NODE"
  /\ \A j \in 1..k : SameTag(g.tags[j], f.tags[j])
  /\ \A j \in (k + 1)..Len(f.tags) : SameTag(g.tags[j + m], f.tags[j])
  /\ \A j \in 1..m : Depth(g, k + j) >= Depth(f, k)
  /\ Depth(g, k + m) = Depth(f, k)

LEMMA SplicedDepths ==
  ASSUME NEW f, NEW g, NEW k \in 1..Len(f.tags), NEW m \in Nat, Len(f.tags) \in Nat,
         Spliced(f, g, k, m)
  PROVE  /\ \A j \in 1..k : Depth(g, j) = Depth(f, j)
         /\ \A j \in k..Len(f.tags) : Depth(g, j + m) = Depth(f, j)
<1>1. \A j \in 1..k : Depth(g, j) = Depth(f, j)
  <2>1. k \in Nat \ {0} /\ \A j \in 2..k : g.tags[j].tag = f.tags[j].tag
    BY DEF Spliced, SameTag
  <2> QED
    BY <2>1, DepthAlike
<1>2. PICK n \in Nat : n = Len(f.tags) - k
  <2>1. Len(f.tags) - k \in Nat
    OBVIOUS
  <2> QED
    BY ONLY <2>1
<1>3. k \in Nat \ {0} /\ k + m \in Nat \ {0} /\ Depth(g, k + m) = Depth(f, k)
  BY DEF Spliced
<1>4. \A j \in 1..n : g.tags[(k + m) + j].tag = f.tags[k + j].tag
  <2>1. \A j \in 1..n : k + j \in (k + 1)..Len(f.tags) /\ (k + j) + m = (k + m) + j
    BY <1>2
  <2> QED
    BY <2>1 DEF Spliced, SameTag
<1>5. ASSUME NEW j \in k..Len(f.tags)
      PROVE  Depth(g, j + m) = Depth(f, j)
  <2>1. PICK q \in Nat \ {0}, l \in Nat, y \in Nat :
          q = k + m /\ l = j - k /\ y = j + m
    BY <1>3
  <2>2. j = k + l /\ y = q + l /\ \A i \in 1..l : i \in 1..n
    BY <1>2, <2>1
  <2>3. SameKinds(f, k, g, q, l)
    BY <1>3, <1>4, <2>1, <2>2, Zenon DEF SameKinds
  <2>4. Depth(g, y) = Depth(f, j)
    BY <1>3, <2>2, <2>3, DepthRun
  <2> QED
    BY <2>1, <2>4
<1> QED
  BY <1>1, <1>5

LEMMA SplicedPaths ==
  ASSUME NEW f, NEW g, NEW k \in 1..Len(f.tags), NEW m \in Nat, Len(f.tags) \in Nat,
         Spliced(f, g, k, m)
  PROVE  /\ \A j \in 1..k : Path(g, j) = Path(f, j)
         /\ \A j \in (k + 1)..Len(f.tags) : Path(g, j + m) = Path(f, j)
<1>1. /\ \A j \in 1..k : Depth(g, j) = Depth(f, j)
      /\ \A j \in k..Len(f.tags) : Depth(g, j + m) = Depth(f, j)
  BY SplicedDepths
<1>2. /\ f.tags[1].tag = "FDT_BEGIN_NODE" /\ g.tags[1].tag = "FDT_BEGIN_NODE"
  BY DEF Spliced, SameTag
<1>3. \A i \in Nat \ {0} : \A d, p : Opens(f, i, d, p) =>
        /\ p \in 1..i /\ f.tags[p].tag = "FDT_BEGIN_NODE"
        /\ Depth(f, p) = d /\ \A x \in p..i : Depth(f, x) >= d
  BY DEF Opens
<1>4. ASSUME NEW j \in 1..k
      PROVE  Path(g, j) = Path(f, j)
  <2>1. j \in Nat \ {0} /\ Depth(g, j) = Depth(f, j)
    BY <1>1
  <2>2. ASSUME NEW d, NEW p, Opens(f, j, d, p)
        PROVE  Opens(g, j, d, p) /\ g.tags[p].name = f.tags[p].name
    <3>1. p \in 1..j /\ p \in 1..k /\ \A x \in p..j : x \in 1..k
      BY <1>3, <2>1, <2>2
    <3>2. SameTag(g.tags[p], f.tags[p]) /\ f.tags[p].tag = "FDT_BEGIN_NODE"
      BY <1>3, <2>1, <2>2, <3>1 DEF Spliced
    <3>3. Depth(g, p) = d /\ \A x \in p..j : Depth(g, x) >= d
      BY <1>1, <1>3, <2>1, <2>2, <3>1
    <3> QED
      BY <3>1, <3>2, <3>3 DEF Opens, SameTag
  <2> QED
    BY <1>2, <2>1, <2>2, PathSame
<1>5. ASSUME NEW j \in (k + 1)..Len(f.tags)
      PROVE  Path(g, j + m) = Path(f, j)
  <2>1. j \in Nat \ {0} /\ j + m \in Nat \ {0} /\ Depth(g, j + m) = Depth(f, j)
    <3>1. j \in k..Len(f.tags)
      OBVIOUS
    <3> QED
      BY <1>1, <3>1
  <2>2. ASSUME NEW d, NEW p, Opens(f, j, d, p)
        PROVE  \E q : Opens(g, j + m, d, q) /\ g.tags[q].name = f.tags[p].name
    <3>1. /\ p \in 1..j /\ f.tags[p].tag = "FDT_BEGIN_NODE"
          /\ Depth(f, p) = d /\ \A x \in p..j : Depth(f, x) >= d
      BY <1>3, <2>1, <2>2
    <3>2. CASE p <= k
      <4>1. p \in 1..k /\ p \in 1..(j + m) /\ k \in p..j
        BY <3>1, <3>2
      <4>2. SameTag(g.tags[p], f.tags[p]) /\ Depth(g, p) = d
        BY <1>1, <3>1, <4>1 DEF Spliced
      <4>3. Depth(f, k) >= d /\ Depth(f, k) \in Int /\ d \in Int
        <5>1. IsDepth(f, j) /\ k \in 1..j /\ p \in 1..j
          BY <2>1, <3>1, DepthSteps
        <5> QED
          BY <3>1, <4>1, <5>1 DEF IsDepth
      <4>4. ASSUME NEW x \in p..(j + m)
            PROVE  Depth(g, x) >= d
        <5>1. CASE x <= k
          <6>1. x \in 1..k /\ x \in p..j
            BY <4>1, <5>1
          <6> QED
            BY <1>1, <3>1, <6>1
        <5>2. CASE x > k /\ x <= k + m
          <6>1. x - k \in 1..m /\ k + (x - k) = x
            BY <4>1, <5>2
          <6>2. Depth(g, x) >= Depth(f, k)
            BY <6>1 DEF Spliced
          <6>3. Depth(g, x) \in Int
            <7>1. x \in Nat \ {0} /\ x \in 1..x
              BY <4>1
            <7>2. IsDepth(g, x)
              BY <7>1, DepthSteps
            <7> QED
              BY <7>1, <7>2 DEF IsDepth
          <6> QED
            BY <4>3, <6>2, <6>3
        <5>3. CASE x > k + m
          <6>1. x - m \in k..Len(f.tags) /\ (x - m) + m = x /\ x - m \in p..j
            BY <4>1, <5>3
          <6> QED
            BY <1>1, <3>1, <6>1
        <5>4. x \in Int /\ k \in Int /\ k + m \in Int
          BY <4>1
        <5> QED
          BY <5>1, <5>2, <5>3, <5>4
      <4>5. Opens(g, j + m, d, p)
        BY <3>1, <4>1, <4>2, <4>4 DEF Opens, SameTag
      <4> QED
        BY <3>1, <4>2, <4>5 DEF SameTag
    <3>3. CASE ~(p <= k)
      <4>1. p \in (k + 1)..Len(f.tags) /\ p \in k..Len(f.tags)
            /\ p + m \in 1..(j + m)
        BY <3>1, <3>3
      <4>2. SameTag(g.tags[p + m], f.tags[p]) /\ Depth(g, p + m) = d
        BY <1>1, <3>1, <4>1 DEF Spliced
      <4>3. ASSUME NEW x \in (p + m)..(j + m)
            PROVE  Depth(g, x) >= d
        <5>1. x - m \in p..j /\ (x - m) + m = x /\ x - m \in k..Len(f.tags)
          BY <4>1
        <5> QED
          BY <1>1, <3>1, <5>1
      <4>4. Opens(g, j + m, d, p + m)
        BY <3>1, <4>1, <4>2, <4>3 DEF Opens, SameTag
      <4> QED
        BY <3>1, <4>2, <4>4 DEF SameTag
    <3> QED
      BY <3>2, <3>3
  <2> QED
    BY <1>2, <2>1, <2>2, PathSame
<1> QED
  BY <1>4, <1>5

\* Where a tag is after m tags were put behind tag k.
Moved(i, k, m) == IF i <= k THEN i ELSE i + m

LEMMA SplicedTags ==
  ASSUME NEW f \in Trees, NEW g \in Trees, NEW k \in 1..Len(f.tags), NEW m \in Nat,
         Len(g.tags) = Len(f.tags) + m, Spliced(f, g, k, m)
  PROVE  /\ DOMAIN f.tags = 1..Len(f.tags) /\ DOMAIN g.tags = 1..Len(g.tags)
         /\ \A i \in 1..Len(f.tags) :
              /\ Moved(i, k, m) \in 1..Len(g.tags)
              /\ SameTag(g.tags[Moved(i, k, m)], f.tags[i])
              /\ Path(g, Moved(i, k, m)) = Path(f, i)
         /\ \A j \in 1..Len(g.tags) :
              \/ j \in (k + 1)..(k + m)
              \/ \E i \in 1..Len(f.tags) : j = Moved(i, k, m)
<1>1. /\ DOMAIN f.tags = 1..Len(f.tags) /\ DOMAIN g.tags = 1..Len(g.tags)
      /\ Len(f.tags) \in Nat
  BY DEF Trees
<1>2. /\ \A j \in 1..k : Path(g, j) = Path(f, j)
      /\ \A j \in (k + 1)..Len(f.tags) : Path(g, j + m) = Path(f, j)
  BY <1>1, SplicedPaths
<1>3. ASSUME NEW i \in 1..Len(f.tags)
      PROVE  /\ Moved(i, k, m) \in 1..Len(g.tags)
             /\ SameTag(g.tags[Moved(i, k, m)], f.tags[i])
             /\ Path(g, Moved(i, k, m)) = Path(f, i)
  <2>1. CASE i <= k
    <3>1. i \in 1..k /\ Moved(i, k, m) = i /\ i \in 1..Len(g.tags)
      BY <1>1, <2>1 DEF Moved
    <3> QED
      BY <1>2, <3>1 DEF Spliced
  <2>2. CASE ~(i <= k)
    <3>1. i \in (k + 1)..Len(f.tags) /\ Moved(i, k, m) = i + m
          /\ i + m \in 1..Len(g.tags)
      BY <1>1, <2>2 DEF Moved
    <3> QED
      BY <1>2, <3>1 DEF Spliced
  <2> QED
    BY <2>1, <2>2
<1>4. ASSUME NEW j \in 1..Len(g.tags), j \notin (k + 1)..(k + m)
      PROVE  \E i \in 1..Len(f.tags) : j = Moved(i, k, m)
  <2>1. CASE j <= k
    BY <1>1, <2>1 DEF Moved
  <2>2. CASE j > k
    <3>1. j - m \in 1..Len(f.tags) /\ ~(j - m <= k) /\ (j - m) + m = j
      BY <1>1, <1>4, <2>2
    <3> QED
      BY <3>1 DEF Moved
  <2> QED
    BY <2>1, <2>2
<1> QED
  BY <1>1, <1>3, <1>4

LEMMA SplicedNodes ==
  ASSUME NEW f \in Trees, NEW g \in Trees, NEW k \in 1..Len(f.tags), NEW m \in Nat,
         Len(g.tags) = Len(f.tags) + m, Spliced(f, g, k, m)
  PROVE  Nodes(g) = Nodes(f) \cup
           {Path(g, j) : j \in {x \in (k + 1)..(k + m) :
                                  g.tags[x].tag = "FDT_BEGIN_NODE"}}
<1> DEFINE New == {x \in (k + 1)..(k + m) : g.tags[x].tag = "FDT_BEGIN_NODE"}
<1>1. /\ Tagged(f, "FDT_BEGIN_NODE")
           = {i \in 1..Len(f.tags) : f.tags[i].tag = "FDT_BEGIN_NODE"}
      /\ Tagged(g, "FDT_BEGIN_NODE")
           = {i \in 1..Len(g.tags) : g.tags[i].tag = "FDT_BEGIN_NODE"}
  BY SplicedTags DEF Tagged
<1>2. ASSUME NEW x \in Nodes(f)
      PROVE  x \in Nodes(g)
  <2>1. PICK i \in 1..Len(f.tags) :
          f.tags[i].tag = "FDT_BEGIN_NODE" /\ x = Path(f, i)
    BY <1>1 DEF Nodes
  <2>2. PICK j \in 1..Len(g.tags) :
          SameTag(g.tags[j], f.tags[i]) /\ Path(g, j) = Path(f, i)
    BY SplicedTags
  <2> QED
    BY <1>1, <2>1, <2>2 DEF Nodes, SameTag
<1>3. ASSUME NEW j \in New
      PROVE  Path(g, j) \in Nodes(g)
  <2>1. j \in 1..Len(g.tags)
    <3>1. Len(f.tags) \in Nat
      BY DEF Trees
    <3> QED
      BY <3>1
  <2> QED
    BY <1>1, <2>1 DEF Nodes
<1>4. ASSUME NEW x \in Nodes(g)
      PROVE  x \in Nodes(f) \/ \E j \in New : x = Path(g, j)
  <2>1. PICK j \in 1..Len(g.tags) :
          g.tags[j].tag = "FDT_BEGIN_NODE" /\ x = Path(g, j)
    BY <1>1 DEF Nodes
  <2>2. CASE j \in (k + 1)..(k + m)
    BY <2>1, <2>2
  <2>3. CASE \E i \in 1..Len(f.tags) : j = Moved(i, k, m)
    <3>1. PICK i \in 1..Len(f.tags) : j = Moved(i, k, m)
      BY <2>3
    <3>2. SameTag(g.tags[j], f.tags[i]) /\ Path(g, j) = Path(f, i)
      BY <3>1, SplicedTags
    <3> QED
      BY <1>1, <2>1, <3>2 DEF Nodes, SameTag
  <2> QED
    BY <2>2, <2>3, SplicedTags
<1> QED
  <2> HIDE DEF New
  <2>1. Nodes(g) = Nodes(f) \cup {Path(g, j) : j \in New}
    BY <1>2, <1>3, <1>4, Zenon
  <2> QED
    BY <2>1 DEF New

\* The property at tag i.
PropAt(f, i) == [path |-> Path(f, i), name |-> fdt_get_string(f, f.tags[i].nameoff),
                 data |-> f.tags[i].data]

LEMMA PropsAre ==
  ASSUME NEW f
  PROVE  Props(f) = {PropAt(f, i) : i \in Tagged(f, "FDT_PROP")}
BY DEF Props, PropAt

\* All properties but the one at tag r stay as they are.
PropsStay(f, g, k, m, r) ==
  \A i \in Tagged(f, "FDT_PROP") \ {r} :
    /\ g.tags[Moved(i, k, m)] = f.tags[i]
    /\ fdt_get_string(g, f.tags[i].nameoff) = fdt_get_string(f, f.tags[i].nameoff)

LEMMA SplicedProps ==
  ASSUME NEW f \in Trees, NEW g \in Trees, NEW k \in 1..Len(f.tags), NEW m \in Nat,
         Len(g.tags) = Len(f.tags) + m, Spliced(f, g, k, m),
         NEW r, PropsStay(f, g, k, m, r)
  PROVE  Props(g) =
           {PropAt(f, i) : i \in Tagged(f, "FDT_PROP") \ {r}} \cup
           {PropAt(g, j) : j \in {x \in Tagged(g, "FDT_PROP") :
                                    x \in (k + 1)..(k + m) \/ x = Moved(r, k, m)}}
<1> DEFINE F == Tagged(f, "FDT_PROP")
           G == Tagged(g, "FDT_PROP")
           New == {x \in G : x \in (k + 1)..(k + m) \/ x = Moved(r, k, m)}
<1>1. /\ F = {i \in 1..Len(f.tags) : f.tags[i].tag = "FDT_PROP"}
      /\ G = {i \in 1..Len(g.tags) : g.tags[i].tag = "FDT_PROP"}
  BY SplicedTags DEF Tagged
<1>2. Props(g) = {PropAt(g, i) : i \in G}
  BY PropsAre
<1>3. ASSUME NEW i \in F \ {r}
      PROVE  Moved(i, k, m) \in G /\ PropAt(g, Moved(i, k, m)) = PropAt(f, i)
  <2>1. i \in 1..Len(f.tags) /\ f.tags[i].tag = "FDT_PROP"
    BY <1>1
  <2>2. PICK j \in 1..Len(g.tags) :
          /\ j = Moved(i, k, m) /\ SameTag(g.tags[j], f.tags[i])
          /\ Path(g, j) = Path(f, i)
    <3>1. /\ Moved(i, k, m) \in 1..Len(g.tags)
          /\ SameTag(g.tags[Moved(i, k, m)], f.tags[i])
          /\ Path(g, Moved(i, k, m)) = Path(f, i)
      BY <2>1, SplicedTags
    <3> QED
      BY ONLY <3>1
  <2>3. g.tags[j] = f.tags[i] /\ fdt_get_string(g, g.tags[j].nameoff)
                                   = fdt_get_string(f, f.tags[i].nameoff)
    BY <2>2 DEF PropsStay
  <2> QED
    BY <1>1, <2>1, <2>2, <2>3 DEF PropAt
<1>4. ASSUME NEW j \in G, j \notin New
      PROVE  \E i \in F \ {r} : j = Moved(i, k, m)
  <2>1. j \in 1..Len(g.tags) /\ g.tags[j].tag = "FDT_PROP"
        /\ j \notin (k + 1)..(k + m) /\ j # Moved(r, k, m)
    BY <1>1, <1>4
  <2>2. PICK i \in 1..Len(f.tags) : j = Moved(i, k, m)
    BY <2>1, SplicedTags
  <2>3. SameTag(g.tags[j], f.tags[i])
    BY <2>2, SplicedTags
  <2>4. i \in F \ {r}
    BY <1>1, <2>1, <2>2, <2>3 DEF SameTag
  <2> QED
    BY <2>2, <2>4
<1>5. New \subseteq G
  OBVIOUS
<1> QED
  <2> HIDE DEF F, G, New
  <2>1. ASSUME NEW x \in Props(g)
        PROVE  x \in {PropAt(f, i) : i \in F \ {r}} \cup {PropAt(g, j) : j \in New}
    <3>1. PICK j \in G : x = PropAt(g, j)
      BY <1>2
    <3>2. CASE j \in New
      BY <3>1, <3>2
    <3>3. CASE j \notin New
      <4>1. PICK i \in F \ {r} : j = Moved(i, k, m)
        BY <1>4, <3>3
      <4>2. x = PropAt(f, i)
        BY <1>3, <3>1, <4>1
      <4> QED
        BY <4>2
    <3> QED
      BY <3>2, <3>3
  <2>2. \A i \in F \ {r} : PropAt(f, i) \in Props(g)
    BY <1>2, <1>3
  <2>3. \A j \in New : PropAt(g, j) \in Props(g)
    BY <1>2, <1>5
  <2>4. Props(g) = {PropAt(f, i) : i \in F \ {r}} \cup {PropAt(g, j) : j \in New}
    BY <2>1, <2>2, <2>3, Zenon
  <2> QED
    BY <2>4 DEF F, G, New

\* What Inserted does, by position: m new tags behind tag k.
PutBehind(f, g, k, new, m) ==
  /\ Len(f.tags) \in Nat /\ Len(g.tags) = Len(f.tags) + m
  /\ \A j \in 1..k : g.tags[j] = f.tags[j]
  /\ \A j \in 1..m : g.tags[k + j] = new[j]
  /\ \A j \in (k + 1)..Len(f.tags) : g.tags[j + m] = f.tags[j]

LEMMA InsertedTags ==
  ASSUME NEW f \in Trees, NEW g, NEW k \in 1..Len(f.tags),
         NEW new \in Seq(Tags), NEW m \in Nat, m = Len(new),
         NEW behind, behind = k + 1, g.tags = Inserted(f.tags, behind, new)
  PROVE  PutBehind(f, g, k, new, m)
<1>1. PICK a \in Seq(Tags) : a = f.tags
  BY DEF Trees
<1>2. PICK at \in 1..(Len(a) + 1) : at = k + 1 /\ at - 1 = k
  <2>1. k + 1 \in 1..(Len(a) + 1) /\ (k + 1) - 1 = k
    BY <1>1
  <2> QED
    BY ONLY <2>1
<1>3. PICK b : b = Inserted(a, at, new)
  OBVIOUS
<1>4. /\ Len(b) = Len(a) + Len(new)
      /\ \A j \in 1..(at - 1) : b[j] = a[j]
      /\ \A j \in 1..Len(new) : b[(at - 1) + j] = new[j]
      /\ \A j \in 1..(Len(a) - (at - 1)) :
           b[((at - 1) + Len(new)) + j] = a[(at - 1) + j]
  BY <1>3, InsertedProperties
<1>5. ASSUME NEW j \in (k + 1)..Len(a)
      PROVE  b[j + m] = a[j]
  <2>1. /\ j - k \in 1..(Len(a) - k)
        /\ (k + m) + (j - k) = j + m /\ k + (j - k) = j
    BY <1>1
  <2>2. \A i \in 1..(Len(a) - k) : b[(k + m) + i] = a[k + i]
    BY <1>2, <1>4, Zenon
  <2> QED
    BY <2>1, <2>2
<1>6. b = g.tags /\ Len(a) \in Nat
  BY <1>1, <1>2, <1>3
<1> QED
  BY <1>1, <1>2, <1>4, <1>5, <1>6 DEF PutBehind

\* An empty /chosen behind the root's properties is one node more.
LEMMA ChosenSpliced ==
  ASSUME NEW f \in Trees, 1 \in 1..Len(f.tags), f.tags[1].tag = "FDT_BEGIN_NODE",
         NEW at, at = PropsEnd(f, 1),
         NEW g \in Trees, g.tags = Inserted(f.tags, at, EmptyChosen),
         SameStrings(g, f)
  PROVE  /\ at \in 2..Len(g.tags) /\ g.tags[1].tag = "FDT_BEGIN_NODE"
         /\ g.tags[at] = BeginNode(Chosen) /\ g.tags[at + 1] = EndNode
         /\ Depth(g, at) = 1
         /\ Nodes(g) = Nodes(f) \cup {Path(g, at)}
         /\ Props(g) = Props(f)
         /\ \A i \in Tagged(f, "FDT_PROP") : \E j \in Tagged(g, "FDT_PROP") :
              g.tags[j] = f.tags[i] /\ Path(g, j) = Path(f, i)
         /\ \A j \in Tagged(g, "FDT_PROP") : \E i \in Tagged(f, "FDT_PROP") :
              g.tags[j] = f.tags[i] /\ Path(g, j) = Path(f, i)
<1>1. /\ Len(f.tags) \in Nat /\ at \in 2..(Len(f.tags) + 1)
      /\ \A i \in 2..(at - 1) :
           i \in 1..Len(f.tags) /\ f.tags[i].tag \in {"FDT_PROP", "FDT_NOP"}
  <2>1. Len(f.tags) \in Nat
    BY NoTagBehind
  <2>2. PICK n \in 1..Len(f.tags) : n = 1
    OBVIOUS
  <2>3. /\ at \in (n + 1)..(Len(f.tags) + 1)
        /\ \A i \in (n + 1)..(at - 1) :
             i \in 1..Len(f.tags) /\ f.tags[i].tag \in {"FDT_PROP", "FDT_NOP"}
    BY <2>2, PropsEndIs
  <2> QED
    BY <2>1, <2>2, <2>3
<1>2. PICK k \in 1..Len(f.tags) : k = at - 1 /\ at = k + 1
  BY <1>1
<1>3. PICK new \in Seq(Tags) : /\ new = EmptyChosen /\ Len(new) = 2
                               /\ new[1] = BeginNode(Chosen) /\ new[2] = EndNode
  BY ChosenTags DEF EmptyChosen
<1>4. /\ Len(g.tags) = Len(f.tags) + 2
      /\ \A j \in 1..k : g.tags[j] = f.tags[j]
      /\ g.tags[k + 1] = BeginNode(Chosen) /\ g.tags[k + 2] = EndNode
      /\ \A j \in (k + 1)..Len(f.tags) : g.tags[j + 2] = f.tags[j]
  <2>1. /\ 2 = Len(new) /\ 2 \in Nat /\ g.tags = Inserted(f.tags, k + 1, new)
    BY <1>2, <1>3
  <2>2. /\ Len(g.tags) = Len(f.tags) + 2
        /\ \A j \in 1..k : g.tags[j] = f.tags[j]
        /\ \A j \in 1..2 : g.tags[k + j] = new[j]
        /\ \A j \in (k + 1)..Len(f.tags) : g.tags[j + 2] = f.tags[j]
    <3>1. PICK m \in Nat : m = 2 /\ m = Len(new)
      BY <2>1
    <3>2. PutBehind(f, g, k, new, m)
      <4>1. g.tags = Inserted(f.tags, at, new) /\ at = k + 1 /\ m = Len(new)
        BY <1>2, <2>1, <3>1
      <4> QED
        BY <4>1, InsertedTags
    <3> QED
      BY ONLY <3>1, <3>2 DEF PutBehind
  <2>3. 1 \in 1..2 /\ 2 \in 1..2
    OBVIOUS
  <2> QED
    BY ONLY <1>3, <2>2, <2>3
<1>5. Depth(g, k) = 0 /\ Depth(f, k) = 0
  <2>1. \A i \in 2..k : i \in 1..k /\ i \in 2..(at - 1)
    BY <1>2
  <2>2. \A i \in 2..k : /\ f.tags[i].tag \in {"FDT_PROP", "FDT_NOP"}
                        /\ g.tags[i].tag \in {"FDT_PROP", "FDT_NOP"}
    BY <1>1, <1>4, <2>1
  <2>3. k \in Nat \ {0} /\ k \in 1..k
    OBVIOUS
  <2> QED
    BY <2>2, <2>3, DepthFlat
<1>6. Depth(g, k + 1) = 1 /\ Depth(g, k + 2) = 0
  <2>1. PICK n \in Nat \ {0} : n = k + 2
    OBVIOUS
  <2>2. IsDepth(g, n)
    BY DepthSteps
  <2>3. k + 1 \in 2..n /\ k + 2 \in 2..n /\ (k + 1) - 1 = k /\ (k + 2) - 1 = k + 1
    BY <2>1
  <2>4. Change(g.tags[k + 1]) = 1 /\ Change(g.tags[k + 2]) = -1
    BY <1>4 DEF Change, BeginNode, EndNode
  <2>5. Depth(g, k + 1) = 0 + 1
    BY <1>5, <2>2, <2>3, <2>4 DEF IsDepth
  <2>6. Depth(g, k + 2) = 1 + (-1)
    BY <2>2, <2>3, <2>4, <2>5 DEF IsDepth
  <2> QED
    BY <2>5, <2>6
<1>7. Spliced(f, g, k, 2)
  <2>1. \A j \in 1..2 : j = 1 \/ j = 2
    OBVIOUS
  <2>2. \A j \in 1..2 : Depth(g, k + j) >= Depth(f, k)
    BY <1>5, <1>6, <2>1
  <2>3. \A t : SameTag(t, t)
    BY DEF SameTag
  <2> QED
    BY <1>4, <1>5, <1>6, <2>2, <2>3 DEF Spliced
<1>8. \A x \in (k + 1)..(k + 2) : x = at \/ x = k + 2
  BY <1>2
<1>9. /\ at \in (k + 1)..(k + 2) /\ g.tags[at].tag = "FDT_BEGIN_NODE"
      /\ g.tags[k + 2].tag = "FDT_END_NODE" /\ at \in 2..Len(g.tags)
      /\ g.tags[at] = BeginNode(Chosen)
  BY <1>1, <1>2, <1>4 DEF BeginNode, EndNode
<1>10. Nodes(g) = Nodes(f) \cup {Path(g, at)}
  <2>1. {x \in (k + 1)..(k + 2) : g.tags[x].tag = "FDT_BEGIN_NODE"} = {at}
    BY <1>8, <1>9
  <2>2. Nodes(g) = Nodes(f) \cup
           {Path(g, j) : j \in {x \in (k + 1)..(k + 2) :
                                  g.tags[x].tag = "FDT_BEGIN_NODE"}}
    <3>1. PICK m \in Nat : m = 2
      OBVIOUS
    <3>2. Len(g.tags) = Len(f.tags) + m /\ Spliced(f, g, k, m)
      BY ONLY <1>4, <1>7, <3>1
    <3>3. Nodes(g) = Nodes(f) \cup
            {Path(g, j) : j \in {x \in (k + 1)..(k + m) :
                                   g.tags[x].tag = "FDT_BEGIN_NODE"}}
      BY <3>2, SplicedNodes
    <3> QED
      BY ONLY <3>1, <3>3
  <2> QED
    BY <2>1, <2>2
<1>11. \A i \in 1..Len(f.tags) : g.tags[Moved(i, k, 2)] = f.tags[i]
  <2>1. ASSUME NEW i \in 1..Len(f.tags)
        PROVE  g.tags[Moved(i, k, 2)] = f.tags[i]
    <3>1. i \in 1..k \/ i \in (k + 1)..Len(f.tags)
      BY <1>1
    <3> QED
      BY <1>1, <1>4, <3>1 DEF Moved
  <2> QED
    BY <2>1
<1>12. /\ DOMAIN f.tags = 1..Len(f.tags) /\ DOMAIN g.tags = 1..Len(g.tags)
       /\ \A i \in 1..Len(f.tags) :
            /\ Moved(i, k, 2) \in 1..Len(g.tags)
            /\ Path(g, Moved(i, k, 2)) = Path(f, i)
       /\ \A j \in 1..Len(g.tags) :
            \/ j \in (k + 1)..(k + 2)
            \/ \E i \in 1..Len(f.tags) : j = Moved(i, k, 2)
  BY <1>4, <1>7, SplicedTags
<1>13. Tagged(f, "FDT_PROP") \subseteq 1..Len(f.tags)
       /\ Tagged(g, "FDT_PROP") \subseteq 1..Len(g.tags)
  BY <1>12 DEF Tagged
<1>14. ASSUME NEW i \in Tagged(f, "FDT_PROP")
       PROVE  \E j \in Tagged(g, "FDT_PROP") :
                g.tags[j] = f.tags[i] /\ Path(g, j) = Path(f, i)
  <2>1. i \in 1..Len(f.tags) /\ f.tags[i].tag = "FDT_PROP"
    BY <1>13 DEF Tagged
  <2>2. Moved(i, k, 2) \in Tagged(g, "FDT_PROP")
    BY <1>11, <1>12, <2>1 DEF Tagged
  <2> QED
    BY <1>11, <1>12, <2>1, <2>2
<1>15. ASSUME NEW j \in Tagged(g, "FDT_PROP")
       PROVE  \E i \in Tagged(f, "FDT_PROP") :
                g.tags[j] = f.tags[i] /\ Path(g, j) = Path(f, i)
  <2>1. j \in 1..Len(g.tags) /\ g.tags[j].tag = "FDT_PROP"
    BY <1>13 DEF Tagged
  <2>2. PICK i \in 1..Len(f.tags) : j = Moved(i, k, 2)
    BY <1>8, <1>9, <1>12, <2>1
  <2>3. g.tags[j] = f.tags[i] /\ Path(g, j) = Path(f, i)
    BY <1>11, <1>12, <2>2
  <2>4. i \in Tagged(f, "FDT_PROP")
    BY <1>12, <2>1, <2>3 DEF Tagged
  <2> QED
    BY <2>3, <2>4
<1>16. Props(g) = Props(f)
  <2>1. \A off : fdt_get_string(g, off) = fdt_get_string(f, off)
    BY SameString
  <2>2. \A i \in Tagged(f, "FDT_PROP") : \E j \in Tagged(g, "FDT_PROP") :
          PropAt(g, j) = PropAt(f, i)
    BY <1>14, <2>1 DEF PropAt
  <2>3. \A j \in Tagged(g, "FDT_PROP") : \E i \in Tagged(f, "FDT_PROP") :
          PropAt(g, j) = PropAt(f, i)
    BY <1>15, <2>1 DEF PropAt
  <2>4. /\ Props(f) = {PropAt(f, i) : i \in Tagged(f, "FDT_PROP")}
        /\ Props(g) = {PropAt(g, i) : i \in Tagged(g, "FDT_PROP")}
    BY PropsAre
  <2> QED
    BY <2>2, <2>3, <2>4, Zenon
<1>17. g.tags[1] = f.tags[1] /\ Depth(g, at) = 1 /\ at + 1 = k + 2
  <2>1. 1 \in 1..k
    OBVIOUS
  <2> QED
    BY <1>2, <1>4, <1>6, <2>1
<1> QED
  BY <1>4, <1>9, <1>10, <1>14, <1>15, <1>16, <1>17

\* A property behind its node is one property more.
LEMMA PropSpliced ==
  ASSUME NEW f \in Trees, NEW n \in 1..Len(f.tags), f.tags[1].tag = "FDT_BEGIN_NODE",
         NEW t \in Tags, t.tag = "FDT_PROP", NEW at, at = n + 1,
         NEW g \in Trees, g.tags = Inserted(f.tags, at, <<t>>), SameStrings(g, f)
  PROVE  /\ Path(g, n) = Path(f, n)
         /\ Nodes(g) = Nodes(f)
         /\ Props(g) = Props(f) \cup
              {[path |-> Path(f, n), name |-> fdt_get_string(f, t.nameoff),
                data |-> t.data]}
<1>1. PICK m \in Nat, new \in Seq(Tags) :
        m = 1 /\ new = <<t>> /\ m = Len(new) /\ new[1] = t
  <2>1. <<t>> \in Seq(Tags) /\ Len(<<t>>) = 1 /\ <<t>>[1] = t /\ 1 \in Nat
    OBVIOUS
  <2> QED
    BY ONLY <2>1
<1>2. PutBehind(f, g, n, new, m)
  <2>1. g.tags = Inserted(f.tags, at, new) /\ at = n + 1 /\ m = Len(new)
    BY <1>1
  <2> QED
    BY <2>1, InsertedTags
<1>3. /\ Len(f.tags) \in Nat /\ Len(g.tags) = Len(f.tags) + m
      /\ \A j \in 1..n : g.tags[j] = f.tags[j]
      /\ g.tags[at] = t
      /\ \A j \in (n + 1)..Len(f.tags) : g.tags[j + m] = f.tags[j]
  <2>1. 1 \in 1..m
    BY <1>1
  <2> QED
    BY <1>1, <1>2, <2>1 DEF PutBehind
<1>4. g.tags[1].tag = "FDT_BEGIN_NODE"
  <2>1. 1 \in 1..n
    OBVIOUS
  <2> QED
    BY <1>3, <2>1
<1>5. n \in Nat \ {0} /\ at \in Nat /\ n <= at /\ at \in n..at
      /\ (\A k \in (n + 1)..at : k = at) /\ at \in 1..Len(g.tags)
  BY <1>1, <1>3
<1>6. \A k \in (n + 1)..at : g.tags[k].tag \in {"FDT_PROP", "FDT_NOP"}
  BY <1>3, <1>5
<1>7. Depth(g, at) = Depth(g, n) /\ Path(g, at) = Path(g, n)
  BY <1>4, <1>5, <1>6, FlatRun, PathFlat
<1>8. Depth(g, n) = Depth(f, n) /\ Depth(f, n) \in Int
  <2>1. \A i \in 2..n : i \in 1..n
    OBVIOUS
  <2>2. \A i \in 2..n : g.tags[i].tag = f.tags[i].tag
    BY <1>3, <2>1
  <2>3. n \in 1..n
    OBVIOUS
  <2>4. IsDepth(f, n)
    BY <1>5, DepthSteps
  <2>5. Depth(f, n) \in Int
    BY <2>3, <2>4 DEF IsDepth
  <2>6. \A i \in 1..n : Depth(g, i) = Depth(f, i)
    BY <1>5, <2>2, DepthAlike
  <2> QED
    BY <2>3, <2>5, <2>6
<1>9. Spliced(f, g, n, m)
  <2>1. \A j \in 1..m : n + j = at
    BY <1>1
  <2>2. n + m = at
    BY <1>1
  <2>3. \A j \in 1..m : Depth(g, n + j) >= Depth(f, n)
    <3>1. Depth(g, at) >= Depth(f, n)
      BY <1>7, <1>8
    <3> QED
      BY ONLY <2>1, <3>1
  <2>4. \A x : SameTag(x, x)
    BY DEF SameTag
  <2> QED
    BY <1>3, <1>7, <1>8, <2>2, <2>3, <2>4 DEF Spliced
<1>10. \A x \in (n + 1)..(n + m) : x = at
  BY <1>1
<1>11. Nodes(g) = Nodes(f)
  <2>1. Nodes(g) = Nodes(f) \cup
           {Path(g, j) : j \in {x \in (n + 1)..(n + m) :
                                  g.tags[x].tag = "FDT_BEGIN_NODE"}}
    BY <1>3, <1>9, SplicedNodes
  <2>2. {x \in (n + 1)..(n + m) : g.tags[x].tag = "FDT_BEGIN_NODE"} = {}
    BY <1>3, <1>10
  <2> QED
    BY <2>1, <2>2
<1>12. Path(g, n) = Path(f, n)
  <2>1. n \in 1..n
    OBVIOUS
  <2> QED
    BY <1>3, <1>9, <2>1, SplicedPaths
<1>13. \A off : fdt_get_string(g, off) = fdt_get_string(f, off)
  BY SameString
<1>14. Tagged(f, "FDT_PROP") \subseteq 1..Len(f.tags)
       /\ at \in Tagged(g, "FDT_PROP")
  <2>1. DOMAIN f.tags = 1..Len(f.tags) /\ DOMAIN g.tags = 1..Len(g.tags)
    BY <1>3, <1>9, SplicedTags
  <2> QED
    BY <1>3, <1>5, <2>1 DEF Tagged
<1>15. PICK none : /\ none = 0 /\ none \notin Tagged(f, "FDT_PROP")
                   /\ Moved(none, n, m) = 0
  <2>1. 0 \notin Tagged(f, "FDT_PROP") /\ Moved(0, n, m) = 0
    BY <1>14 DEF Moved
  <2> QED
    BY ONLY <2>1
<1>16. PropsStay(f, g, n, m, none)
  <2>1. ASSUME NEW i \in 1..Len(f.tags)
        PROVE  g.tags[Moved(i, n, m)] = f.tags[i]
    <3>1. i \in 1..n \/ i \in (n + 1)..Len(f.tags)
      BY <1>3
    <3> QED
      BY <1>3, <3>1 DEF Moved
  <2> QED
    BY <1>13, <1>14, <2>1 DEF PropsStay
<1>17. Props(g) = {PropAt(f, i) : i \in Tagged(f, "FDT_PROP") \ {none}} \cup
         {PropAt(g, j) : j \in {x \in Tagged(g, "FDT_PROP") :
                                  x \in (n + 1)..(n + m) \/ x = Moved(none, n, m)}}
  <2>1. Len(g.tags) = Len(f.tags) + m
    BY <1>3
  <2> QED
    BY ONLY f \in Trees, g \in Trees, n \in 1..Len(f.tags), m \in Nat,
       <1>9, <1>16, <2>1, SplicedProps
<1>18. {x \in Tagged(g, "FDT_PROP") :
          x \in (n + 1)..(n + m) \/ x = Moved(none, n, m)} = {at}
  <2>1. 0 \notin Tagged(g, "FDT_PROP")
    <3>1. DOMAIN g.tags = 1..Len(g.tags)
      BY <1>3, <1>9, SplicedTags
    <3> QED
      BY <3>1 DEF Tagged
  <2>2. at \in (n + 1)..(n + m)
    BY <1>1
  <2> QED
    BY <1>10, <1>14, <1>15, <2>1, <2>2
<1>19. Tagged(f, "FDT_PROP") \ {none} = Tagged(f, "FDT_PROP")
  BY <1>15
<1>20. PropAt(g, at) = [path |-> Path(f, n), data |-> t.data,
                        name |-> fdt_get_string(f, t.nameoff)]
  BY <1>3, <1>7, <1>12, <1>13 DEF PropAt
<1>21. Props(g) = Props(f) \cup {PropAt(g, at)}
  <2>1. Props(f) = {PropAt(f, i) : i \in Tagged(f, "FDT_PROP")}
    BY PropsAre
  <2> QED
    BY <1>17, <1>18, <1>19, <2>1
<1> QED
  BY <1>11, <1>12, <1>20, <1>21

\* New data for a property.
LEMMA DataSpliced ==
  ASSUME NEW f \in Trees, f.tags[1].tag = "FDT_BEGIN_NODE",
         NEW r \in Tagged(f, "FDT_PROP"),
         NEW t \in Tags, t.tag = "FDT_PROP", t.nameoff = f.tags[r].nameoff,
         NEW g \in Trees, g.tags = [f.tags EXCEPT ![r] = t], SameStrings(g, f)
  PROVE  /\ \A i \in 1..Len(f.tags) : Path(g, i) = Path(f, i)
         /\ Nodes(g) = Nodes(f)
         /\ Props(g) = {PropAt(f, i) : i \in Tagged(f, "FDT_PROP") \ {r}} \cup
              {[path |-> Path(f, r), name |-> fdt_get_string(f, t.nameoff),
                data |-> t.data]}
<1>1. /\ f.tags \in Seq(Tags) /\ Len(f.tags) \in Nat
      /\ DOMAIN f.tags = 1..Len(f.tags)
  BY ONLY f \in Trees DEF Trees
<1>2. r \in 1..Len(f.tags) /\ f.tags[r].tag = "FDT_PROP"
  BY <1>1 DEF Tagged
<1>3. /\ Len(g.tags) = Len(f.tags) /\ g.tags[r] = t
      /\ \A i \in 1..Len(f.tags) : i # r => g.tags[i] = f.tags[i]
  BY <1>1, <1>2
<1>4. PICK k \in 1..Len(f.tags), m \in Nat : k = Len(f.tags) /\ m = 0
  BY <1>1, <1>2
<1>5. \A i \in 1..Len(f.tags) : SameTag(g.tags[i], f.tags[i])
  BY <1>2, <1>3 DEF SameTag
<1>6. Depth(g, k + m) = Depth(f, k)
  <2>1. k \in Nat \ {0} /\ k \in 1..k /\ k + m = k /\ \A i \in 2..k : i \in 1..Len(f.tags)
    BY <1>4
  <2>2. \A i \in 2..k : g.tags[i].tag = f.tags[i].tag
    BY <1>5, <2>1 DEF SameTag
  <2>3. Depth(g, k) = Depth(f, k)
    BY <2>1, <2>2, DepthAlike
  <2> QED
    BY <2>1, <2>3
<1>7. Len(g.tags) = Len(f.tags) + m /\ Spliced(f, g, k, m)
  <2>1. Len(g.tags) = Len(f.tags) + m
    BY <1>1, <1>3, <1>4
  <2>2. (k + 1)..Len(f.tags) = {} /\ 1..m = {} /\ 1..k = 1..Len(f.tags)
    BY <1>1, <1>4
  <2> QED
    BY <1>5, <1>6, <2>1, <2>2 DEF Spliced
<1>8. \A i \in 1..Len(f.tags) : Moved(i, k, m) = i
  BY <1>1, <1>4 DEF Moved
<1>9. \A i \in 1..Len(f.tags) : Path(g, i) = Path(f, i)
  BY <1>7, <1>8, SplicedTags
<1>10. (k + 1)..(k + m) = {}
  BY <1>4
<1>11. Nodes(g) = Nodes(f)
  <2>1. Nodes(g) = Nodes(f) \cup
           {Path(g, j) : j \in {x \in (k + 1)..(k + m) :
                                  g.tags[x].tag = "FDT_BEGIN_NODE"}}
    BY <1>7, SplicedNodes
  <2> QED
    BY <1>10, <2>1
<1>12. \A off : fdt_get_string(g, off) = fdt_get_string(f, off)
  BY SameString
<1>13. PropsStay(f, g, k, m, r)
  <2>1. Tagged(f, "FDT_PROP") \subseteq 1..Len(f.tags)
    BY <1>1 DEF Tagged
  <2> QED
    BY <1>3, <1>8, <1>12, <2>1 DEF PropsStay
<1>14. Props(g) = {PropAt(f, i) : i \in Tagged(f, "FDT_PROP") \ {r}} \cup
         {PropAt(g, j) : j \in {x \in Tagged(g, "FDT_PROP") :
                                  x \in (k + 1)..(k + m) \/ x = Moved(r, k, m)}}
  BY <1>7, <1>13, SplicedProps
<1>15. r \in Tagged(g, "FDT_PROP")
  <2>1. DOMAIN g.tags = 1..Len(g.tags)
    BY <1>7, SplicedTags
  <2> QED
    BY <1>2, <1>3, <2>1 DEF Tagged
<1>16. {x \in Tagged(g, "FDT_PROP") :
          x \in (k + 1)..(k + m) \/ x = Moved(r, k, m)} = {r}
  BY <1>2, <1>8, <1>10, <1>15
<1>17. PropAt(g, r) = [path |-> Path(f, r), data |-> t.data,
                       name |-> fdt_get_string(f, t.nameoff)]
  BY <1>2, <1>3, <1>9, <1>12 DEF PropAt
<1>18. Props(g) = {PropAt(f, i) : i \in Tagged(f, "FDT_PROP") \ {r}}
                    \cup {PropAt(g, r)}
  BY <1>14, <1>16
<1> QED
  BY <1>9, <1>11, <1>17, <1>18

\* A name that ends in the strings block is the same when the block grows.
LEMMA NameKept ==
  ASSUME NEW f, f.strings \in Seq(Nat), f.size_dt_strings = Len(f.strings),
         NEW s \in Seq(Nat), NEW g, g.strings = f.strings \o s,
         g.size_dt_strings = f.size_dt_strings + Len(s),
         NEW off \in Nat, \E e \in (off + 1)..f.size_dt_strings : f.strings[e] = NUL
  PROVE  fdt_get_string(g, off) = fdt_get_string(f, off)
<1>1. PICK a \in Seq(Nat), b \in Seq(Nat), y \in Nat, z \in Nat :
        /\ a = f.strings /\ b = g.strings /\ y = f.size_dt_strings
        /\ z = g.size_dt_strings /\ y = Len(a) /\ y <= z
  <2>1. f.strings \o s \in Seq(Nat) /\ Len(f.strings) \in Nat /\ Len(s) \in Nat
    BY ConcatProperties
  <2>2. Len(f.strings) <= Len(f.strings) + Len(s) /\ Len(f.strings) + Len(s) \in Nat
    BY <2>1
  <2> QED
    BY <2>1, <2>2
<1>2. \A i \in 1..y : b[i] = a[i] /\ b[i] \in Nat
  <2>1. \A i \in 1..y : i \in 1..(Len(a) + Len(s)) /\ i <= Len(a)
    BY <1>1
  <2>2. \A i \in 1..y : b[i] = a[i]
    BY <1>1, <2>1, ConcatProperties
  <2> QED
    BY <1>1, <2>2, ElementOfSeq
<1> DEFINE A == {e \in (off + 1)..y : a[e] = NUL}
           B == {e \in (off + 1)..z : b[e] = NUL}
<1>3. A # {} /\ A \subseteq Nat /\ B \subseteq Nat
  BY <1>1
<1>4. A \subseteq B /\ \A d \in B : d \in A \/ y < d
  <2>1. \A i \in (off + 1)..y : i \in 1..y /\ i \in (off + 1)..z
    BY <1>1
  <2>2. \A d \in (off + 1)..z : d \in (off + 1)..y \/ y < d
    BY <1>1
  <2> QED
    BY <1>2, <2>1, <2>2
<1>5. \A d \in A : d \in 1..y
  OBVIOUS
<1>6. PICK e : e = Earliest(A) /\ e \in A /\ \A d \in A : e <= d
  <2> HIDE DEF A
  <2> QED
    BY <1>3, EarliestIsLeast
<1>7. Earliest(B) = e
  <2> HIDE DEF A, B
  <2>1. PICK c : c = Earliest(B) /\ c \in B /\ \A d \in B : c <= d
    BY <1>3, <1>4, EarliestIsLeast
  <2>2. c <= e /\ c \in Nat /\ e \in Nat /\ e <= y
    BY <1>3, <1>4, <1>5, <1>6, <2>1
  <2>3. e <= c
    BY <1>1, <1>4, <1>6, <2>1, <2>2
  <2> QED
    BY <2>1, <2>2, <2>3
<1>8. /\ fdt_get_string(f, off) = SubSeq(a, off + 1, e - 1)
      /\ fdt_get_string(g, off) = SubSeq(b, off + 1, e - 1)
  <2>1. /\ fdt_get_string(f, off)
             = IF A = {} THEN NULL ELSE SubSeq(a, off + 1, Earliest(A) - 1)
        /\ fdt_get_string(g, off)
             = IF B = {} THEN NULL ELSE SubSeq(b, off + 1, Earliest(B) - 1)
    <3>1. \A h : fdt_get_string(h, off) =
            LET Ends == {d \in (off + 1)..h.size_dt_strings : h.strings[d] = NUL}
            IN  IF Ends = {} THEN NULL
                ELSE SubSeq(h.strings, off + 1, Earliest(Ends) - 1)
      BY DEF fdt_get_string, Earliest
    <3>2. /\ A = {d \in (off + 1)..f.size_dt_strings : f.strings[d] = NUL}
          /\ B = {d \in (off + 1)..g.size_dt_strings : g.strings[d] = NUL}
      BY <1>1
    <3> HIDE DEF A, B
    <3> QED
      BY <1>1, <3>1, <3>2
  <2> HIDE DEF A, B
  <2> QED
    BY <1>3, <1>4, <1>6, <1>7, <2>1
<1>9. PICK l \in Int, h \in Int : l = off + 1 /\ h = e - 1
  <2>1. off + 1 \in Int /\ e - 1 \in Int
    BY <1>5, <1>6
  <2> QED
    BY ONLY <2>1
<1>10. \A i \in l..h : i \in 1..y
  BY <1>5, <1>6, <1>9
<1>11. \A i \in l..h : a[i] = b[i] /\ b[i] \in Nat /\ a[i] \in Nat
  BY <1>2, <1>10
<1>12. PICK v, w : v = SubSeq(a, l, h) /\ w = SubSeq(b, l, h)
  OBVIOUS
<1>13. v = w
  <2>1. PICK n \in Nat : n = IF l <= h THEN h - l + 1 ELSE 0
    <3>1. (IF l <= h THEN h - l + 1 ELSE 0) \in Nat
      OBVIOUS
    <3> QED
      BY ONLY <3>1
  <2>2. /\ v \in Seq(Nat) /\ Len(v) = n
        /\ \A i \in 1..(h - l + 1) : v[i] = a[l + i - 1]
    BY <1>11, <1>12, <2>1, SubSeqProperties
  <2>3. /\ w \in Seq(Nat) /\ Len(w) = n
        /\ \A i \in 1..(h - l + 1) : w[i] = b[l + i - 1]
    BY <1>11, <1>12, <2>1, SubSeqProperties
  <2>4. \A i \in 1..n : i \in 1..(h - l + 1) /\ l + i - 1 \in l..h
    BY <2>1
  <2>5. ASSUME NEW i \in 1..n
        PROVE  v[i] = w[i]
    <3>1. PICK k : k = l + i - 1
      OBVIOUS
    <3>2. i \in 1..(h - l + 1) /\ k \in l..h
      BY <2>4, <3>1
    <3>3. v[i] = a[k] /\ w[i] = b[k]
      BY ONLY <2>2, <2>3, <3>1, <3>2
    <3>4. a[k] = b[k]
      BY <1>11, <3>2
    <3> QED
      BY ONLY <3>3, <3>4
  <2>6. Len(v) = Len(w) /\ \A i \in 1..Len(v) : v[i] = w[i]
    BY ONLY <2>2, <2>3, <2>5
  <2> QED
    BY ONLY <2>2, <2>3, <2>6, SeqEqual
<1> QED
  BY <1>8, <1>9, <1>12, <1>13

-----------------------------------------------------------------------------
(***************************************************************************)
(* Nothing but bootargs changes.                                           *)
(***************************************************************************)

\* The properties of node n that are called bootargs.
Own(f, n) == {i \in Tagged(f, "FDT_PROP") :
                /\ Path(f, i) = Path(f, n)
                /\ fdt_get_string(f, f.tags[i].nameoff) = Bootargs}

NamesEnd(f) == \A i \in Tagged(f, "FDT_PROP") :
                 \E e \in (f.tags[i].nameoff + 1)..f.size_dt_strings :
                   f.strings[e] = NUL

\* /chosen is at tag n of a tree that otherwise is the source, and its bootargs
\* is where the search looks for it.
EditedAt(f, n, src) ==
  /\ f.tags[1].tag = "FDT_BEGIN_NODE" /\ n \in Tagged(f, "FDT_BEGIN_NODE")
  /\ Nodes(f) = Nodes(src) \cup {Path(f, n)}
  /\ Props(f) = Props(src)
  /\ \A i \in Own(f, n) : i \in (n + 1)..(PropsEnd(f, n) - 1)
  /\ \A i, j \in Own(f, n) : i = j
  /\ NamesEnd(f)

ChangedOnly(f, n, src, args) ==
  LET IsBootargs(x) == x.path = Path(f, n) /\ x.name = Bootargs
  IN  /\ Nodes(f) = Nodes(src) \cup {Path(f, n)}
      /\ Props(f) = {x \in Props(src) : ~IsBootargs(x)}
           \cup {[path |-> Path(f, n), name |-> Bootargs, data |-> args]}

\* In a well-formed tree every node and property is before the end of the walk.
LEMMA BeforeEnd ==
  ASSUME NEW f \in Trees, 1 \in 1..Len(f.tags), WellFormed(f),
         NEW i \in 2..Len(f.tags), f.tags[i].tag \in {"FDT_BEGIN_NODE", "FDT_PROP"}
  PROVE  /\ i \in 2..(WalkEnd(f) - 1)
         /\ \A k \in 2..i : Tag(f, k) = f.tags[k].tag
<1>1. /\ WalkEnd(f) \in 2..(Len(f.tags) + 1)
      /\ \A k \in WalkStops(f) : WalkEnd(f) <= k
  BY WalkEndIs
<1>2. Len(f.tags) \in Nat
  BY DEF Trees
<1>3. ~(i \in WalkEnd(f)..Len(f.tags))
  BY DEF WellFormed
<1>4. i \in 2..(WalkEnd(f) - 1)
  BY <1>1, <1>2, <1>3
<1>5. ASSUME NEW k \in 2..i
      PROVE  Tag(f, k) = f.tags[k].tag
  <2>1. k \in 2..(Len(f.tags) + 1) /\ ~(WalkEnd(f) <= k) /\ k \in Nat \ {0}
    BY <1>1, <1>2, <1>4
  <2>2. Tag(f, k) \notin NoTag
    BY <1>1, <2>1 DEF WalkStops
  <2> QED
    BY <2>1, <2>2, TagInBlock
<1> QED
  BY <1>4, <1>5

LEMMA FoundInSource ==
  ASSUME NEW f \in Trees, WellFormed(f), NEW s, NEW n, FoundNode(f, s, n)
  PROVE  EditedAt(f, n, f)
<1>1. /\ Len(f.tags) \in Nat /\ DOMAIN f.tags = 1..Len(f.tags)
  BY DEF Trees
<1>2. /\ f.tags[1].tag = "FDT_BEGIN_NODE" /\ n \in 2..Len(f.tags)
      /\ f.tags[n].tag = "FDT_BEGIN_NODE"
  BY DEF FoundNode
<1>3. 1 \in 1..Len(f.tags) /\ n \in 1..Len(f.tags)
  BY <1>1, <1>2
<1>4. n \in Tagged(f, "FDT_BEGIN_NODE")
  BY <1>1, <1>2, <1>3 DEF Tagged
<1>5. Nodes(f) = Nodes(f) \cup {Path(f, n)}
  BY <1>4 DEF Nodes
<1>6. ASSUME NEW i \in Own(f, n)
      PROVE  i \in (n + 1)..(PropsEnd(f, n) - 1)
  <2>1. i \in Tagged(f, "FDT_PROP") /\ Path(f, n) = Path(f, i)
    BY DEF Own
  <2>2. n < i /\ \A k \in (n + 1)..i : f.tags[k].tag \in {"FDT_PROP", "FDT_NOP"}
    BY <1>4, <2>1 DEF WellFormed
  <2>3. i \in 2..Len(f.tags) /\ f.tags[i].tag = "FDT_PROP"
    BY <1>1, <1>2, <2>1, <2>2 DEF Tagged
  <2>4. \A k \in 2..i : Tag(f, k) = f.tags[k].tag
    BY <1>3, <2>3, BeforeEnd
  <2>5. /\ PropsEnd(f, n) \in (n + 1)..(Len(f.tags) + 1)
        /\ Tag(f, PropsEnd(f, n)) \notin {"FDT_PROP", "FDT_NOP"}
    BY <1>3, PropsEndIs DEF PropsStop
  <2>6. ~(PropsEnd(f, n) <= i)
    <3> SUFFICES ASSUME PropsEnd(f, n) <= i PROVE FALSE
      OBVIOUS
    <3>1. PropsEnd(f, n) \in (n + 1)..i /\ PropsEnd(f, n) \in 2..i
      BY <1>1, <1>2, <2>3, <2>5
    <3> QED
      BY <2>2, <2>4, <2>5, <3>1
  <2> QED
    BY <1>1, <1>2, <2>2, <2>3, <2>5, <2>6
<1>7. \A i, j \in Own(f, n) : i = j
  BY DEF Own, WellFormed
<1>8. NamesEnd(f)
  BY DEF NamesEnd, WellFormed
<1> QED
  BY <1>2, <1>4, <1>5, <1>6, <1>7, <1>8 DEF EditedAt

\* Where /chosen had to be added nothing had its path.
LEMMA AddedToSource ==
  ASSUME NEW f \in Trees, WellFormed(f), 1 \in 1..Len(f.tags),
         fdt_subnode_offset(f, Chosen).err = "NOTFOUND",
         NEW at, at = PropsEnd(f, 1),
         NEW g \in Trees, g.tags = Inserted(f.tags, at, EmptyChosen),
         SameStrings(g, f)
  PROVE  EditedAt(g, at, f)
<1>1. fdt_ro_probe_(f) = "OK" /\ Tag(f, 1) = "FDT_BEGIN_NODE"
  BY DEF fdt_subnode_offset, fdt_ro_probe_
<1>2. NodesFound(f, Chosen) = {}
  BY <1>1 DEF fdt_subnode_offset, NodesFound
<1>3. f.tags[1].tag = "FDT_BEGIN_NODE"
  BY <1>1, TagInBlock DEF NoTag
<1>4. /\ at \in 2..Len(g.tags) /\ g.tags[1].tag = "FDT_BEGIN_NODE"
      /\ g.tags[at] = BeginNode(Chosen) /\ Depth(g, at) = 1
      /\ Nodes(g) = Nodes(f) \cup {Path(g, at)}
      /\ Props(g) = Props(f)
      /\ \A j \in Tagged(g, "FDT_PROP") : \E i \in Tagged(f, "FDT_PROP") :
           g.tags[j] = f.tags[i] /\ Path(g, j) = Path(f, i)
  BY <1>3, ChosenSpliced
<1>5. /\ DOMAIN f.tags = 1..Len(f.tags) /\ DOMAIN g.tags = 1..Len(g.tags)
      /\ Len(f.tags) \in Nat /\ Len(g.tags) \in Nat
  BY NoTagBehind DEF Trees
<1>6. at \in Tagged(g, "FDT_BEGIN_NODE")
  <2>1. at \in 1..Len(g.tags)
    BY <1>4, <1>5
  <2> QED
    BY <1>4, <1>5, <2>1 DEF Tagged, BeginNode
<1>7. NamesEnd(g)
  <2>1. g.strings = f.strings /\ g.size_dt_strings = f.size_dt_strings
    BY DEF SameStrings
  <2> SUFFICES ASSUME NEW j \in Tagged(g, "FDT_PROP")
               PROVE  \E e \in (g.tags[j].nameoff + 1)..g.size_dt_strings :
                        g.strings[e] = NUL
    BY DEF NamesEnd
  <2>2. PICK i \in Tagged(f, "FDT_PROP") : g.tags[j] = f.tags[i]
    BY <1>4
  <2> QED
    BY <2>1, <2>2 DEF WellFormed
<1>8. 1 \in DOMAIN Path(g, at) /\ Path(g, at)[1] = Chosen
  <2>1. at \in Nat \ {0}
    BY <1>4, <1>5
  <2>2. Opens(g, at, 1, at)
    <3>1. at \in 1..at /\ \A k \in at..at : k = at
      BY <2>1
    <3> QED
      BY <1>4, <3>1 DEF Opens, BeginNode
  <2>3. Path(g, at) = [d \in 0..Depth(g, at) |-> Path(g, at)[d]]
    BY <1>4, <2>1, PathIs
  <2>4. 1 \in 0..Depth(g, at)
    BY <1>4
  <2>5. Path(g, at)[1] = g.tags[at].name
    BY <1>4, <2>1, <2>2, <2>4, PathIs
  <2>6. DOMAIN Path(g, at) = 0..Depth(g, at)
    BY <2>3
  <2>7. g.tags[at].name = Chosen
    BY <1>4 DEF BeginNode
  <2> QED
    BY <2>4, <2>5, <2>6, <2>7, Zenon
<1>9. ASSUME NEW j \in Own(g, at)
      PROVE  FALSE
  <2>1. PICK i \in Tagged(f, "FDT_PROP") : Path(f, i) = Path(g, at)
    BY <1>4 DEF Own
  <2>2. i \in 1..Len(f.tags) /\ i \in Nat \ {0} /\ f.tags[i].tag = "FDT_PROP"
    BY <1>5, <2>1 DEF Tagged
  <2>3. Path(f, i) = [d \in 0..Depth(f, i) |-> Path(f, i)[d]]
    BY <1>3, <2>2, PathIs
  <2>4. DOMAIN Path(f, i) = 0..Depth(f, i)
    BY <2>3
  <2>5. 1 \in 0..Depth(f, i)
    BY <1>8, <2>1, <2>4, Zenon
  <2>6. PICK p : Opens(f, i, 1, p)
    BY <1>3, <2>2, <2>5, OpensSome
  <2>7. /\ p \in 1..i /\ f.tags[p].tag = "FDT_BEGIN_NODE" /\ Depth(f, p) = 1
    BY <2>6 DEF Opens
  <2>8. f.tags[p].name = Chosen
    <3>1. Path(f, i)[1] = f.tags[p].name
      BY <1>3, <2>2, <2>5, <2>6, PathIs
    <3> QED
      BY <1>8, <2>1, <3>1
  <2>9. Depth(f, 1) = 0
    <3>1. IsDepth(f, i)
      BY <2>2, DepthSteps
    <3> QED
      BY <3>1 DEF IsDepth
  <2>10. p \in 2..Len(f.tags) /\ p \in 2..p
    <3>1. p # 1
      BY <2>7, <2>9
    <3> QED
      BY <1>5, <2>2, <2>7, <3>1
  <2>11. p \in 2..(WalkEnd(f) - 1) /\ Tag(f, p) = f.tags[p].tag
    BY <2>7, <2>10, BeforeEnd
  <2>12. fdt_nodename_eq_(Chosen, Chosen)
    <3>1. Chosen \in Seq(Nat)
      BY SourceAssumption
    <3>2. SubSeq(Chosen, 1, Len(Chosen)) = Chosen /\ Len(Chosen) >= Len(Chosen)
      BY <3>1, SubSeqFull
    <3> QED
      BY <3>2 DEF fdt_nodename_eq_
  <2>13. p \in NodesFound(f, Chosen)
    BY <2>7, <2>8, <2>11, <2>12 DEF NodesFound
  <2> QED
    BY <1>2, <2>13
<1> QED
  BY <1>4, <1>6, <1>7, <1>9 DEF EditedAt

\* The nodes depend on the tags, the properties on the names too.
LEMMA SameTags ==
  ASSUME NEW f, NEW g, g.tags = f.tags
  PROVE  /\ \A i : Path(g, i) = Path(f, i) /\ Depth(g, i) = Depth(f, i)
         /\ \A t : Tagged(g, t) = Tagged(f, t)
         /\ Nodes(g) = Nodes(f)
<1>1. \A i : Depth(g, i) = Depth(f, i)
  BY DEF Depth
<1>2. \A i : Path(g, i) = Path(f, i)
  <2>1. TAKE i
  <2>2. /\ Depth(g, i) = Depth(f, i)
        /\ \A k, j : Depth(g, k) >= Depth(g, j) <=> Depth(f, k) >= Depth(f, j)
    BY <1>1
  <2> DEFINE A(h) == {j \in 1..i : /\ h.tags[j].tag = "FDT_BEGIN_NODE"
                                   /\ \A k \in j..i : Depth(h, k) >= Depth(h, j)}
             B(h, d) == h.tags[CHOOSE j \in A(h) : Depth(h, j) = d].name
  <2>3. /\ Path(g, i) = [d \in 0..Depth(g, i) |-> B(g, d)]
        /\ Path(f, i) = [d \in 0..Depth(f, i) |-> B(f, d)]
    BY DEF Path
  <2>4. ASSUME NEW d
        PROVE  B(g, d) = B(f, d)
    <3>1. A(g) = A(f)
      BY <2>2
    <3> HIDE DEF A
    <3>2. \A j : (j \in A(g) /\ Depth(g, j) = d) <=> (j \in A(f) /\ Depth(f, j) = d)
      BY <1>1, <3>1
    <3>3. (CHOOSE j \in A(g) : Depth(g, j) = d) = (CHOOSE j \in A(f) : Depth(f, j) = d)
      BY <3>2, Zenon
    <3> QED
      BY <3>3
  <2> HIDE DEF B
  <2> QED
    BY <2>2, <2>3, <2>4, Zenon
<1>3. \A t : Tagged(g, t) = Tagged(f, t)
  BY DEF Tagged
<1> QED
  BY <1>1, <1>2, <1>3 DEF Nodes

LEMMA SameNames ==
  ASSUME NEW f, NEW g, g.tags = f.tags,
         \A i \in Tagged(f, "FDT_PROP") :
           fdt_get_string(g, f.tags[i].nameoff) = fdt_get_string(f, f.tags[i].nameoff)
  PROVE  Props(g) = Props(f) /\ \A n : Own(g, n) = Own(f, n)
<1>1. /\ \A i : Path(g, i) = Path(f, i)
      /\ Tagged(g, "FDT_PROP") = Tagged(f, "FDT_PROP")
  BY SameTags
<1>2. \A i \in Tagged(f, "FDT_PROP") : PropAt(g, i) = PropAt(f, i)
  BY <1>1 DEF PropAt
<1>3. Props(g) = {PropAt(g, i) : i \in Tagged(g, "FDT_PROP")}
      /\ Props(f) = {PropAt(f, i) : i \in Tagged(f, "FDT_PROP")}
  BY PropsAre
<1>4. Props(g) = Props(f)
  BY <1>1, <1>2, <1>3, Zenon
<1>5. \A n : Own(g, n) = Own(f, n)
  BY <1>1 DEF Own
<1> QED
  BY <1>4, <1>5

LEMMA WritableEdited ==
  ASSUME NEW f \in Trees, fdt_rw_probe_(f) = "OK", NEW n, NEW src,
         EditedAt(f, n, src)
  PROVE  EditedAt(Writable(f), n, src)
<1>1. PICK g : g = Writable(f)
  OBVIOUS
<1>2. /\ g.tags = f.tags /\ g.strings = f.strings
      /\ g.size_dt_strings = f.size_dt_strings /\ \A i : Tag(g, i) = Tag(f, i)
  BY <1>1, WritableTree, WritableFound
<1>3. \A off : fdt_get_string(g, off) = fdt_get_string(f, off)
  BY <1>2, SameString DEF SameStrings
<1>4. /\ \A i : Path(g, i) = Path(f, i)
      /\ \A t : Tagged(g, t) = Tagged(f, t)
      /\ Nodes(g) = Nodes(f)
  BY <1>2, SameTags
<1>5. Props(g) = Props(f) /\ \A i : Own(g, i) = Own(f, i)
  BY <1>2, <1>3, SameNames
<1>6. PropsEnd(g, n) = PropsEnd(f, n)
  BY <1>2 DEF PropsEnd
<1>7. NamesEnd(g)
  BY <1>2, <1>4 DEF NamesEnd, EditedAt
<1>8. EditedAt(g, n, src)
  BY <1>2, <1>4, <1>5, <1>6, <1>7 DEF EditedAt
<1> QED
  BY <1>1, <1>8

\* The name bootargs, appended to the strings block, changes no property.
LEMMA NamesAppended ==
  ASSUME NEW f \in Trees, f.size_dt_strings = Len(f.strings), NEW n, NEW src,
         EditedAt(f, n, src), Own(f, n) = {},
         NEW s \in Seq(Nat), NEW g, g.tags = f.tags, g.strings = f.strings \o s,
         g.size_dt_strings = f.size_dt_strings + Len(s)
  PROVE  EditedAt(g, n, src) /\ Own(g, n) = {}
<1>1. f.strings \in Seq(Nat) /\ f.tags \in Seq(Tags)
      /\ DOMAIN f.tags = 1..Len(f.tags)
  BY DEF Trees
<1>2. ASSUME NEW i \in Tagged(f, "FDT_PROP")
      PROVE  /\ f.tags[i].nameoff \in Nat
             /\ \E e \in (f.tags[i].nameoff + 1)..f.size_dt_strings :
                  f.strings[e] = NUL
  <2>1. f.tags[i] \in Tags /\ f.tags[i].tag = "FDT_PROP"
    BY <1>1, ElementOfSeq DEF Tagged
  <2> QED
    BY <2>1 DEF Tags, EditedAt, NamesEnd
<1>3. ASSUME NEW i \in Tagged(f, "FDT_PROP")
      PROVE  fdt_get_string(g, f.tags[i].nameoff)
               = fdt_get_string(f, f.tags[i].nameoff)
  <2>1. PICK off \in Nat : off = f.tags[i].nameoff
    BY <1>2
  <2>2. \E e \in (off + 1)..f.size_dt_strings : f.strings[e] = NUL
    BY <1>2, <2>1
  <2>3. fdt_get_string(g, off) = fdt_get_string(f, off)
    BY <1>1, <2>2, NameKept
  <2> QED
    BY <2>1, <2>3
<1>4. /\ \A i : Path(g, i) = Path(f, i)
      /\ \A t : Tagged(g, t) = Tagged(f, t)
      /\ Nodes(g) = Nodes(f)
  BY SameTags
<1>5. Props(g) = Props(f) /\ Own(g, n) = {}
  BY <1>3, SameNames
<1>6. NamesEnd(g)
  <2> SUFFICES ASSUME NEW i \in Tagged(f, "FDT_PROP")
               PROVE  \E e \in (f.tags[i].nameoff + 1)..g.size_dt_strings :
                        g.strings[e] = NUL
    BY <1>4 DEF NamesEnd
  <2>1. PICK off \in Nat : off = f.tags[i].nameoff
    BY <1>2
  <2>2. PICK e \in (off + 1)..f.size_dt_strings : f.strings[e] = NUL
    BY <1>2, <2>1
  <2>3. Len(f.strings) \in Nat /\ Len(s) \in Nat
    BY <1>1
  <2>4. e \in 1..(Len(f.strings) + Len(s)) /\ e <= Len(f.strings)
        /\ e \in (off + 1)..g.size_dt_strings
    BY <2>3
  <2>5. g.strings[e] = f.strings[e]
    BY <1>1, <2>4, ConcatProperties
  <2> QED
    BY <2>1, <2>2, <2>4, <2>5
<1> QED
  BY <1>4, <1>5, <1>6 DEF EditedAt

\* bootargs had a value: it has a new one.
LEMMA DataChanged ==
  ASSUME NEW f \in Trees, NEW n, NEW src, EditedAt(f, n, src),
         NEW r, FoundProperty(f, n, Bootargs, r),
         NEW t \in Tags, t.tag = "FDT_PROP", t.nameoff = f.tags[r].nameoff,
         NEW g \in Trees, g.tags = [f.tags EXCEPT ![r] = t], SameStrings(g, f)
  PROVE  ChangedOnly(g, n, src, t.data)
<1>1. /\ Len(f.tags) \in Nat /\ DOMAIN f.tags = 1..Len(f.tags)
  BY ONLY f \in Trees DEF Trees
<1>2. f.tags[1].tag = "FDT_BEGIN_NODE" /\ n \in 1..Len(f.tags)
  BY <1>1 DEF EditedAt, Tagged
<1>3. /\ r \in (n + 1)..Len(f.tags) /\ f.tags[r].tag = "FDT_PROP"
      /\ \A i \in (n + 1)..r : f.tags[i].tag \in {"FDT_PROP", "FDT_NOP"}
      /\ fdt_get_string(f, t.nameoff) = Bootargs
  BY DEF FoundProperty
<1>4. /\ n \in Nat \ {0} /\ r \in Nat /\ n <= r /\ r \in 1..Len(f.tags)
  BY <1>1, <1>2, <1>3
<1>5. Path(f, r) = Path(f, n)
  BY <1>2, <1>3, <1>4, PathFlat
<1>6. r \in Tagged(f, "FDT_PROP") /\ r \in Own(f, n)
  BY <1>1, <1>3, <1>4, <1>5 DEF Tagged, Own
<1>7. Own(f, n) = {r}
  BY <1>6 DEF EditedAt
<1>8. /\ \A i \in 1..Len(f.tags) : Path(g, i) = Path(f, i)
      /\ Nodes(g) = Nodes(f)
      /\ Props(g) = {PropAt(f, i) : i \in Tagged(f, "FDT_PROP") \ {r}} \cup
           {[path |-> Path(f, r), name |-> fdt_get_string(f, t.nameoff),
             data |-> t.data]}
  BY <1>2, <1>6, DataSpliced
<1>9. Path(g, n) = Path(f, n)
  BY <1>2, <1>8
<1> DEFINE Others == {x \in Props(src) : ~(x.path = Path(g, n) /\ x.name = Bootargs)}
<1>10. {PropAt(f, i) : i \in Tagged(f, "FDT_PROP") \ {r}} = Others
  <2>1. Props(src) = {PropAt(f, i) : i \in Tagged(f, "FDT_PROP")}
    BY PropsAre DEF EditedAt
  <2>2. ASSUME NEW i \in Tagged(f, "FDT_PROP")
        PROVE  i = r <=> /\ PropAt(f, i).path = Path(g, n)
                         /\ PropAt(f, i).name = Bootargs
    <3>1. i \in Own(f, n) <=> i = r
      BY <1>7
    <3> QED
      BY <1>9, <3>1 DEF Own, PropAt
  <2> QED
    BY <2>1, <2>2
<1>11. Props(g) = Others \cup
         {[path |-> Path(g, n), name |-> Bootargs, data |-> t.data]}
  BY <1>3, <1>5, <1>8, <1>9, <1>10
<1>12. Nodes(g) = Nodes(src) \cup {Path(g, n)}
  BY <1>8, <1>9 DEF EditedAt
<1> QED
  BY <1>11, <1>12 DEF ChangedOnly

\* bootargs is new.
LEMMA PropAdded ==
  ASSUME NEW f \in Trees, NEW n, NEW src, EditedAt(f, n, src), Own(f, n) = {},
         NEW t \in Tags, t.tag = "FDT_PROP",
         fdt_get_string(f, t.nameoff) = Bootargs, NEW at, at = n + 1,
         NEW g \in Trees, g.tags = Inserted(f.tags, at, <<t>>), SameStrings(g, f)
  PROVE  ChangedOnly(g, n, src, t.data)
<1>1. /\ Len(f.tags) \in Nat /\ DOMAIN f.tags = 1..Len(f.tags)
  BY ONLY f \in Trees DEF Trees
<1>2. f.tags[1].tag = "FDT_BEGIN_NODE" /\ n \in 1..Len(f.tags)
  BY <1>1 DEF EditedAt, Tagged
<1>3. /\ Path(g, n) = Path(f, n) /\ Nodes(g) = Nodes(f)
      /\ Props(g) = Props(f) \cup
           {[path |-> Path(f, n), name |-> fdt_get_string(f, t.nameoff),
             data |-> t.data]}
  BY <1>2, PropSpliced
<1>4. {x \in Props(src) : ~(x.path = Path(g, n) /\ x.name = Bootargs)} = Props(src)
  <2>1. Props(src) = {PropAt(f, i) : i \in Tagged(f, "FDT_PROP")}
    BY PropsAre DEF EditedAt
  <2>2. ASSUME NEW i \in Tagged(f, "FDT_PROP")
        PROVE  ~(PropAt(f, i).path = Path(g, n) /\ PropAt(f, i).name = Bootargs)
    <3>1. i \notin Own(f, n)
      OBVIOUS
    <3> QED
      BY <1>3, <3>1 DEF Own, PropAt
  <2> QED
    BY <2>1, <2>2
<1> QED
  BY <1>3, <1>4 DEF ChangedOnly, EditedAt

\* If the search does not find bootargs, /chosen has none.
LEMMA NoneOwned ==
  ASSUME NEW f \in Trees, NEW n \in 1..Len(f.tags), NEW src, EditedAt(f, n, src),
         fdt_get_property(f, n, Bootargs).err = "NOTFOUND"
  PROVE  Own(f, n) = {}
<1>1. PropsFound(f, n, Bootargs) = {}
  BY DEF fdt_get_property, PropsFound
<1>2. ASSUME NEW i \in Own(f, n) PROVE FALSE
  <2>1. /\ i \in (n + 1)..(PropsEnd(f, n) - 1) /\ f.tags[i].tag = "FDT_PROP"
        /\ fdt_get_string(f, f.tags[i].nameoff) = Bootargs
    BY DEF EditedAt, Own, Tagged
  <2>2. Tag(f, i) = "FDT_PROP"
    BY <2>1, PropsEndIs
  <2>3. i \in PropsFound(f, n, Bootargs)
    BY <2>1, <2>2 DEF PropsFound
  <2> QED
    BY <1>1, <2>3
<1> QED
  BY <1>2

-----------------------------------------------------------------------------
(***************************************************************************)
(* The invariant: up to the last step the tree is a well-formed source with *)
(* /chosen; the last step changes its bootargs only.                        *)
(***************************************************************************)

OnlyInv ==
  WellFormed(source) =>
    /\ AtNode => EditedAt(fdt, node, source)
    /\ pc \in {"add_string", "add_property"} => Own(fdt, node) = {}
    /\ pc = "done" /\ bootargs # NULL => ChangedOnly(fdt, node, source, bootargs)

LEMMA OnlyEnds ==
  ASSUME NEW e, Fatal(e)
  PROVE  OnlyInv'
BY DEF Fatal, OnlyInv, AtNode

LEMMA FirstOnly ==
  /\ Init => OnlyInv
  /\ TreeInv /\ (LoadDtb \/ fdt_check_header) => OnlyInv'
<1>1. Init => OnlyInv
  BY DEF Init, OnlyInv, AtNode
<1>2. ASSUME LoadDtb PROVE OnlyInv'
  <2>1. CASE Fatal("BADMAGIC")
    BY <2>1, OnlyEnds
  <2>2. CASE /\ pc' = IF bootargs = NULL THEN "done" ELSE "check_header"
             /\ bootargs' = bootargs
    BY <2>2 DEF OnlyInv, AtNode
  <2> QED
    BY <1>2, <2>1, <2>2 DEF LoadDtb
<1>3. ASSUME fdt_check_header PROVE OnlyInv'
  <2>1. CASE Fatal(HeaderError(fdt))
    BY <2>1, OnlyEnds
  <2>2. CASE pc' = "find_chosen"
    BY <2>2 DEF OnlyInv, AtNode
  <2> QED
    BY <1>3, <2>1, <2>2 DEF fdt_check_header
<1> QED
  BY <1>1, <1>2, <1>3

LEMMA FindChosenOnly == TreeInv /\ FindChosen => OnlyInv'
<1> SUFFICES ASSUME TreeInv, FindChosen PROVE OnlyInv'
  OBVIOUS
<1>1. PICK r : r = fdt_subnode_offset(fdt, Chosen)
  OBVIOUS
<1>2. source \in Sources /\ fdt = source /\ fdt \in Trees
  <2>1. source \in Sources /\ fdt = source
    BY DEF TreeInv, FindChosen, Untouched
  <2> QED
    BY <2>1, SourceInStep DEF InStep
<1>3. fdt' = fdt
  BY DEF FindChosen
<1>4. CASE Fatal(r.err)
  BY <1>4, OnlyEnds
<1>5. CASE /\ r.err = "OK" /\ node' = r.at /\ pc' = "resize_property"
           /\ source' = source
  <2> SUFFICES ASSUME WellFormed(source) PROVE EditedAt(fdt', node', source')
    BY <1>5 DEF OnlyInv, AtNode
  <2>1. FoundNode(fdt, Chosen, r.at)
    BY <1>1, <1>2, <1>5, NodeFound
  <2>2. EditedAt(fdt, r.at, fdt)
    BY <1>2, <2>1, FoundInSource
  <2> QED
    BY <1>2, <1>3, <1>5, <2>2
<1>6. CASE pc' = "add_subnode"
  BY <1>6 DEF OnlyInv, AtNode
<1> QED
  BY <1>1, <1>4, <1>5, <1>6 DEF FindChosen

LEMMA AddSubnodeOnly == TreeInv /\ SearchInv /\ AddSubnode => OnlyInv'
<1> SUFFICES ASSUME TreeInv, SearchInv, AddSubnode PROVE OnlyInv'
  OBVIOUS
<1>1. PICK at, new, probe, w :
        /\ at = PropsEnd(fdt, 1) /\ new = EmptyChosen
        /\ probe = fdt_rw_probe_(fdt) /\ w = Writable(fdt)
  OBVIOUS
<1>2. PICK e : e = IF probe # "OK" THEN probe
                   ELSE fdt_splice_(fdt, fdt.off_dt_struct + Offset(fdt.tags, at),
                                    0, SizeOf(new))
  OBVIOUS
<1>3. CASE Fatal(e)
  BY <1>3, OnlyEnds
<1>4. CASE /\ node' = at /\ pc' = "resize_property" /\ source' = source
           /\ fdt' = Resized(w, Inserted(fdt.tags, at, new), SizeOf(new))
  <2> SUFFICES ASSUME WellFormed(source) PROVE EditedAt(fdt', node', source')
    BY <1>4 DEF OnlyInv, AtNode
  <2>1. /\ source \in Sources /\ fdt = source /\ pc = "add_subnode"
        /\ 1 \in 1..Len(fdt.tags)
    BY DEF TreeInv, AddSubnode, Untouched
  <2>2. fdt \in Trees /\ fdt.tags \in Seq(Tags)
    <3>1. fdt \in Trees
      BY <2>1, SourceInStep DEF InStep
    <3> QED
      BY <3>1 DEF Trees
  <2>3. /\ w \in Trees /\ w.tags = fdt.tags /\ w.strings = fdt.strings
        /\ w.size_dt_strings = fdt.size_dt_strings
    BY <1>1, <2>2, WritableTree
  <2>4. PICK delta \in Int : delta = SizeOf(new)
    BY <1>1, ChosenTags
  <2>5. PICK tags \in Seq(Tags) : tags = Inserted(fdt.tags, at, new)
    <3>1. at \in 1..(Len(fdt.tags) + 1)
      BY <1>1, <2>1, <2>2, PropsEndInBlock
    <3>2. new \in Seq(Tags)
      BY <1>1, ChosenTags
    <3>3. Inserted(fdt.tags, at, new) \in Seq(Tags)
      BY <2>2, <3>1, <3>2, SizeOfInserted
    <3> QED
      BY ONLY <3>3
  <2>6. PICK g : g = Resized(w, tags, delta)
    OBVIOUS
  <2>7. /\ g \in Trees /\ g.tags = Inserted(fdt.tags, at, EmptyChosen)
        /\ SameStrings(g, fdt)
    <3>1. /\ g \in Trees /\ g.tags = tags /\ g.strings = w.strings
          /\ g.size_dt_strings = w.size_dt_strings
      BY <2>3, <2>4, <2>5, <2>6, ResizedTree
    <3> QED
      BY <1>1, <2>3, <2>5, <3>1 DEF SameStrings
  <2>8. fdt_subnode_offset(fdt, Chosen).err = "NOTFOUND" /\ WellFormed(fdt)
    BY <2>1 DEF SearchInv
  <2>9. EditedAt(g, at, fdt)
    BY ONLY <1>1, <2>1, <2>2, <2>7, <2>8, AddedToSource
  <2>10. fdt' = g
    BY <1>4, <2>4, <2>5, <2>6
  <2> QED
    BY <1>4, <2>1, <2>9, <2>10
<1> QED
  BY <1>1, <1>2, <1>3, <1>4 DEF AddSubnode

LEMMA ResizePropertyOnly == TreeInv /\ OnlyInv /\ ResizeProperty => OnlyInv'
<1> SUFFICES ASSUME TreeInv, OnlyInv, ResizeProperty PROVE OnlyInv'
  OBVIOUS
<1>1. PICK f : f = Writable(fdt)
  OBVIOUS
<1>2. PICK r : r = fdt_get_property(f, node, Bootargs)
  OBVIOUS
<1>3. PICK oldlen, newlen : /\ oldlen = FDT_TAGALIGN(Len(f.tags[r.at].data))
                            /\ newlen = FDT_TAGALIGN(Len(bootargs))
  OBVIOUS
<1>4. CASE \E x : Fatal(x)
  BY <1>4, OnlyEnds
<1>5. /\ f \in Trees /\ node \in 1..Len(f.tags)
      /\ fdt_rw_probe_(fdt) = "OK" /\ WellFormed(source) => EditedAt(f, node, source)
  <2>1. fdt \in Trees /\ node \in 1..Len(fdt.tags) /\ pc = "resize_property"
    BY DEF TreeInv, ResizeProperty, AtNode, Loaded, InStep
  <2>2. f \in Trees /\ f.tags = fdt.tags
    BY <1>1, <2>1, WritableTree
  <2>3. WellFormed(source) => EditedAt(fdt, node, source)
    BY <2>1 DEF OnlyInv, AtNode
  <2> QED
    BY <1>1, <2>1, <2>2, <2>3, WritableEdited
<1>6. CASE /\ fdt_rw_probe_(fdt) = "OK" /\ r.err = "NOTFOUND"
           /\ fdt' = f /\ pc' = "add_string" /\ source' = source /\ node' = node
  <2> SUFFICES ASSUME WellFormed(source)
               PROVE  EditedAt(f, node, source) /\ Own(f, node) = {}
    BY <1>6 DEF OnlyInv, AtNode
  <2> QED
    BY <1>2, <1>5, <1>6, NoneOwned
<1>7. CASE /\ fdt_rw_probe_(fdt) = "OK" /\ r.err = "OK"
           /\ fdt' = Resized(f, [f.tags EXCEPT ![r.at].data = bootargs],
                             newlen - oldlen)
           /\ pc' = "done" /\ UNCHANGED <<source, bootargs, node>>
  <2> SUFFICES ASSUME WellFormed(source)
               PROVE  ChangedOnly(fdt', node, source, bootargs)
    BY <1>7 DEF OnlyInv, AtNode
  <2>1. EditedAt(f, node, source)
    BY <1>5, <1>7
  <2>2. PICK a, k : a = f.tags /\ k = r.at
    OBVIOUS
  <2>3. FoundProperty(f, node, Bootargs, k)
    BY <1>2, <1>5, <1>7, <2>2, PropertyFound
  <2>4. k \in 1..Len(a) /\ a[k] \in Tags /\ a[k].tag = "FDT_PROP"
    BY <1>2, <1>5, <1>7, <2>2, PropertyInBlock
  <2>5. bootargs \in Seq(Nat)
    <3>1. bootargs \in Args \cup {NULL} /\ bootargs # NULL
      BY DEF TreeInv, ResizeProperty, AtNode
    <3> QED
      BY <3>1, SourceAssumption
  <2>6. PICK t : t = [a[k] EXCEPT !.data = bootargs]
    OBVIOUS
  <2>7. /\ t \in Tags /\ t.tag = "FDT_PROP" /\ t.data = bootargs
        /\ t.nameoff = a[k].nameoff
    BY <2>4, <2>5, <2>6 DEF Tags
  <2>8. PICK tags : tags = [a EXCEPT ![k] = t]
    OBVIOUS
  <2>9. tags = [f.tags EXCEPT ![r.at].data = bootargs]
    BY <2>2, <2>6, <2>8
  <2>10. PICK delta \in Int : delta = newlen - oldlen
    <3>1. Len(bootargs) \in Nat /\ Len(a[k].data) \in Nat
      <4>1. a[k].data \in Seq(Nat)
        BY <2>4, PropSize
      <4> QED
        BY <2>5, <4>1
    <3>2. newlen \in Nat /\ oldlen \in Nat
      BY <1>3, <2>2, <3>1, AlignType
    <3> QED
      BY <3>2
  <2>11. tags \in Seq(Tags)
    <3>1. a \in Seq(Tags)
      BY <1>5, <2>2 DEF Trees
    <3> QED
      BY <2>4, <2>7, <2>8, <3>1, SizeOfReplaced
  <2>12. PICK g : g = Resized(f, tags, delta)
    OBVIOUS
  <2>13. /\ g \in Trees /\ g.tags = [f.tags EXCEPT ![k] = t] /\ SameStrings(g, f)
    <3>1. /\ g \in Trees /\ g.tags = tags /\ g.strings = f.strings
          /\ g.size_dt_strings = f.size_dt_strings
      BY <1>5, <2>10, <2>11, <2>12, ResizedTree
    <3> QED
      BY <2>2, <2>8, <3>1 DEF SameStrings
  <2>14. t.nameoff = f.tags[k].nameoff
    BY <2>2, <2>7
  <2>15. ChangedOnly(g, node, source, t.data)
    BY ONLY <1>5, <2>1, <2>3, <2>7, <2>13, <2>14, DataChanged
  <2>16. fdt' = g
    BY <1>7, <2>9, <2>10, <2>12
  <2> QED
    BY <2>7, <2>15, <2>16
<1> QED
  <2>1. \/ \E x : Fatal(x)
        \/ /\ fdt_rw_probe_(fdt) = "OK" /\ r.err = "NOTFOUND"
           /\ fdt' = f /\ pc' = "add_string" /\ source' = source /\ node' = node
        \/ /\ fdt_rw_probe_(fdt) = "OK" /\ r.err = "OK"
           /\ fdt' = Resized(f, [f.tags EXCEPT ![r.at].data = bootargs],
                             newlen - oldlen)
           /\ pc' = "done" /\ UNCHANGED <<source, bootargs, node>>
    BY <1>1, <1>2, <1>3, Zenon DEF ResizeProperty
  <2> QED
    BY <1>4, <1>6, <1>7, <2>1

LEMMA AddStringOnly == TreeInv /\ OnlyInv /\ AddString => OnlyInv'
<1> SUFFICES ASSUME TreeInv, OnlyInv, AddString PROVE OnlyInv'
  OBVIOUS
<1>1. /\ source \in Sources /\ InStep(fdt, source) /\ SameStrings(fdt, source)
      /\ pc = "add_string"
  BY DEF TreeInv, AddString, AtNode, Loaded
<1>2. fdt \in Trees /\ fdt.size_dt_strings \in Nat /\ fdt.strings \in Seq(Nat)
  <2>1. fdt \in Trees
    BY <1>1 DEF InStep
  <2> QED
    BY <2>1 DEF Trees
<1>3. fdt.size_dt_strings = Len(fdt.strings)
  BY <1>1, SourceAssumption DEF SameStrings
<1>4. PICK s : s = Append(Bootargs, NUL)
  OBVIOUS
<1>5. s \in Seq(Nat) /\ Len(s) \in Nat
  BY <1>4, SourceAssumption DEF NUL
<1>6. PICK e : e = fdt_splice_(fdt, fdt_data_size_(fdt), 0, Len(s))
  OBVIOUS
<1>7. ASSUME WellFormed(source)
      PROVE  EditedAt(fdt, node, source) /\ Own(fdt, node) = {}
  BY <1>1, <1>7 DEF OnlyInv, AtNode
<1>8. CASE Fatal(e)
  BY <1>8, OnlyEnds
<1>9. CASE pc' = "add_property" /\ UNCHANGED <<source, fdt, node>>
  BY <1>7, <1>9 DEF OnlyInv, AtNode
<1>10. CASE /\ pc' = "add_property"
            /\ fdt' = [fdt EXCEPT
                         !.strings = SubSeq(@, 1, fdt.size_dt_strings) \o s,
                         !.size_dt_strings = @ + Len(s)]
            /\ UNCHANGED <<source, node>>
  <2> SUFFICES ASSUME WellFormed(source)
               PROVE  EditedAt(fdt', node, source) /\ Own(fdt', node) = {}
    BY <1>10 DEF OnlyInv, AtNode
  <2>1. PICK text \in Seq(Nat) : text = fdt.strings \o s
    BY <1>2, <1>5, ConcatProperties
  <2>2. PICK size \in Nat : size = fdt.size_dt_strings + Len(s)
    BY <1>2, <1>5
  <2>3. SubSeq(fdt.strings, 1, fdt.size_dt_strings) = fdt.strings
    BY <1>2, <1>3, SubSeqFull
  <2>4. PICK g : g = [fdt EXCEPT !.strings = text, !.size_dt_strings = size]
    OBVIOUS
  <2>5. fdt' = g
    BY <1>2, <1>10, <2>1, <2>2, <2>3, <2>4 DEF Trees
  <2>6. /\ g.tags = fdt.tags /\ g.strings = fdt.strings \o s
        /\ g.size_dt_strings = fdt.size_dt_strings + Len(s)
    <3>1. g.tags = fdt.tags /\ g.strings = text /\ g.size_dt_strings = size
      BY <1>2, <2>4 DEF Trees
    <3> QED
      BY <2>1, <2>2, <3>1
  <2>7. EditedAt(fdt, node, source) /\ Own(fdt, node) = {}
    BY <1>7
  <2>8. EditedAt(g, node, source) /\ Own(g, node) = {}
    BY ONLY <1>2, <1>3, <1>5, <2>6, <2>7, NamesAppended
  <2> QED
    BY <2>5, <2>8
<1> QED
  BY <1>4, <1>6, <1>8, <1>9, <1>10 DEF AddString

LEMMA AddPropertyOnly == TreeInv /\ SearchInv /\ OnlyInv /\ AddProperty => OnlyInv'
<1> SUFFICES ASSUME TreeInv, SearchInv, OnlyInv, AddProperty PROVE OnlyInv'
  OBVIOUS
<1>1. /\ bootargs \in Args \cup {NULL} /\ bootargs # NULL
      /\ fdt \in Trees /\ name \in Nat /\ pc = "add_property"
      /\ node \in 1..Len(fdt.tags)
  BY DEF TreeInv, AddProperty, AtNode, Loaded, InStep
<1>2. PICK at, t : at = node + 1 /\ t = Prop(name, bootargs)
  OBVIOUS
<1>3. PICK e : e = fdt_splice_(fdt, fdt.off_dt_struct + Offset(fdt.tags, at), 0,
                               TagSize(t))
  OBVIOUS
<1>4. CASE Fatal(e)
  BY <1>4, OnlyEnds
<1>5. CASE /\ fdt' = Resized(fdt, Inserted(fdt.tags, at, <<t>>), TagSize(t))
           /\ pc' = "done" /\ UNCHANGED <<source, bootargs, node>>
  <2> SUFFICES ASSUME WellFormed(source)
               PROVE  ChangedOnly(fdt', node, source, bootargs)
    BY <1>5 DEF OnlyInv, AtNode
  <2>1. EditedAt(fdt, node, source) /\ Own(fdt, node) = {} /\ NameAt(fdt, name)
    BY <1>1 DEF OnlyInv, SearchInv, AtNode
  <2>2. bootargs \in Seq(Nat)
    BY <1>1, SourceAssumption
  <2>3. t \in Tags /\ t.tag = "FDT_PROP" /\ t.nameoff = name /\ t.data = bootargs
    BY <1>1, <1>2, <2>2 DEF Prop, Tags
  <2>4. PICK delta \in Int : delta = TagSize(t)
    BY <2>3, TagSizeType
  <2>5. PICK one \in Seq(Tags) : one = <<t>>
    <3>1. <<t>> \in Seq(Tags)
      BY <2>3
    <3> QED
      BY ONLY <3>1
  <2>6. PICK tags \in Seq(Tags) : tags = Inserted(fdt.tags, at, one)
    <3>1. fdt.tags \in Seq(Tags)
      BY <1>1 DEF Trees
    <3>2. at \in 1..(Len(fdt.tags) + 1)
      BY <1>1, <1>2, <3>1
    <3>3. Inserted(fdt.tags, at, one) \in Seq(Tags)
      BY <3>1, <3>2, SizeOfInserted
    <3> QED
      BY ONLY <3>3
  <2>7. PICK g : g = Resized(fdt, tags, delta)
    OBVIOUS
  <2>8. /\ g \in Trees /\ g.tags = Inserted(fdt.tags, at, <<t>>)
        /\ SameStrings(g, fdt)
    <3>1. /\ g \in Trees /\ g.tags = tags /\ g.strings = fdt.strings
          /\ g.size_dt_strings = fdt.size_dt_strings
      BY <1>1, <2>4, <2>6, <2>7, ResizedTree
    <3> QED
      BY <2>5, <2>6, <3>1 DEF SameStrings
  <2>9. fdt_get_string(fdt, t.nameoff) = Bootargs
    BY <1>1, <2>1, <2>3, NameIsRead
  <2>10. ChangedOnly(g, node, source, t.data)
    BY ONLY <1>1, <1>2, <2>1, <2>3, <2>8, <2>9, PropAdded
  <2>11. fdt' = g
    BY <1>5, <2>4, <2>5, <2>6, <2>7
  <2> QED
    BY <2>3, <2>10, <2>11
<1> QED
  BY <1>2, <1>3, <1>4, <1>5 DEF AddProperty

LEMMA OnlyInvariance == Spec => []OnlyInv
<1>1. OnlyInv /\ UNCHANGED vars => OnlyInv'
  BY DEF OnlyInv, vars, AtNode
<1>2. TreeInv /\ SearchInv /\ OnlyInv /\ [Next]_vars => OnlyInv'
  BY <1>1, FirstOnly, FindChosenOnly, AddSubnodeOnly, ResizePropertyOnly,
     AddStringOnly, AddPropertyOnly
     DEF Next, fdt_add_bootargs, fdt_setprop
<1> QED
  BY FirstOnly, <1>2, TreeInvariance, SearchInvariance, PTL DEF Spec

\* fdt_add_bootargs changes nothing else in a well-formed tree: whether /chosen
\* and bootargs were there or had to be added, every other node and property
\* keeps its path, its name and its data.
THEOREM OnlyBootargsEdited == Spec => [](WellFormed(source) => OnlyBootargsChanges)
<1>1. OnlyInv => (WellFormed(source) => OnlyBootargsChanges)
  BY DEF OnlyInv, ChangedOnly, OnlyBootargsChanges
<1> QED
  BY <1>1, OnlyInvariance, PTL
=============================================================================
