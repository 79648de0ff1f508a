---------------------------- MODULE Util_proofs -----------------------------
(***************************************************************************)
(* What the loops of util.c compute (CMem, CSort), for every memory, every *)
(* array and every length: the lemmas that the proofs about BootMemory,    *)
(* UBootEnv and Algorithms use.                                            *)
(***************************************************************************)
EXTENDS CMem, CSort, SetInduction

\* One pass of the loop of memcpy_: byte i is copied in what the passes before
\* it have left.
Pass(c, d, s, i) == [c EXCEPT ![d + i - 1] = c[s + i - 1]]

-----------------------------------------------------------------------------
(***************************************************************************)
(* memcpy_                                                                 *)
(***************************************************************************)

\* There is a function that satisfies the recursion.
LEMMA CopyDefined ==
  ASSUME NEW m, NEW d, NEW s, NEW n \in Nat
  PROVE  \E g : g = [i \in 0..n |-> IF i = 0 THEN m ELSE Pass(g[i - 1], d, s, i)]
<1> DEFINE Loop(g, k) ==
             g = [i \in 0..k |-> IF i = 0 THEN m ELSE Pass(g[i - 1], d, s, i)]
           S == {k \in Nat : \E g : Loop(g, k)}
<1>1. 0 \in S
  <2> DEFINE g == [i \in 0..0 |-> m]
  <2>1. Loop(g, 0)
    OBVIOUS
  <2> QED
    BY <2>1
<1>2. ASSUME NEW k \in Nat, k \in S
      PROVE  k + 1 \in S
  <2>1. PICK g : Loop(g, k)
    BY <1>2
  <2> DEFINE h == [i \in 0..(k + 1) |->
                     IF i <= k THEN g[i] ELSE Pass(g[k], d, s, i)]
  <2>2. ASSUME NEW i \in 0..(k + 1)
        PROVE  h[i] = IF i = 0 THEN m ELSE Pass(h[i - 1], d, s, i)
    <3>1. CASE i <= k
      BY <2>1, <3>1
    <3>2. CASE i = k + 1
      BY <3>2
    <3> QED
      BY <3>1, <3>2
  <2>3. Loop(h, k + 1)
    <3>1. h = [i \in 0..(k + 1) |-> h[i]]
      OBVIOUS
    <3> HIDE DEF h
    <3> QED
      BY <2>2, <3>1
  <2>4. \E x : Loop(x, k + 1)
    <3> HIDE DEF h, Loop
    <3> QED
      BY <2>3
  <2> QED
    BY <2>4
<1>3. n \in S
  <2> HIDE DEF S
  <2> QED
    BY <1>1, <1>2, NatSetInduction
<1> QED
  BY <1>3

\* The states of the memory between the passes.
LEMMA CopySteps ==
  ASSUME NEW m, NEW d, NEW s, NEW n \in Nat
  PROVE  \E g : /\ g[0] = m
                /\ \A i \in 1..n : g[i] = Pass(g[i - 1], d, s, i)
                /\ memcpy_(m, d, s, n) = g[n]
<1> DEFINE Loop(g) ==
             g = [i \in 0..n |-> IF i = 0 THEN m ELSE Pass(g[i - 1], d, s, i)]
           copy == CHOOSE g : Loop(g)
<1>1. Loop(copy)
  BY CopyDefined
<1>2. memcpy_(m, d, s, n) = copy[n]
  BY DEF memcpy_, Pass
<1> HIDE DEF copy
<1> QED
  BY <1>1, <1>2

\* Outside the n addresses from d on, m2 holds what m holds.
SameOutside(A, m, m2, d, n) == \A x \in A : x \notin d..(d + n - 1) => m2[x] = m[x]

\* memcpy_ stores n bytes from d on and nothing else.
LEMMA CopyOutside ==
  ASSUME NEW A \in SUBSET Int, NEW C, NEW m \in [A -> C],
         NEW d \in Int, NEW s \in Int, NEW n \in Nat,
         s..(s + n - 1) \subseteq A
  PROVE  /\ memcpy_(m, d, s, n) \in [A -> C]
         /\ SameOutside(A, m, memcpy_(m, d, s, n), d, n)
<1>1. PICK g : /\ g[0] = m
               /\ \A i \in 1..n : g[i] = Pass(g[i - 1], d, s, i)
               /\ memcpy_(m, d, s, n) = g[n]
  BY CopySteps
<1> DEFINE Good(i) == /\ g[i] \in [A -> C]
                      /\ \A x \in A : x \notin d..(d + n - 1) => g[i][x] = m[x]
           S == {i \in Nat : i <= n => Good(i)}
<1>2. 0 \in S
  BY <1>1
<1>3. ASSUME NEW i \in Nat, i \in S
      PROVE  i + 1 \in S
  <2> HIDE DEF Good
  <2> SUFFICES ASSUME i + 1 <= n PROVE Good(i + 1)
    OBVIOUS
  <2>1. Good(i)
    BY <1>3
  <2> USE DEF Good
  <2>2. g[i + 1] = [g[i] EXCEPT ![d + i] = g[i][s + i]]
    BY <1>1 DEF Pass
  <2>3. s + i \in A
    OBVIOUS
  <2>4. d + i \in d..(d + n - 1)
    OBVIOUS
  <2> QED
    BY <2>1, <2>2, <2>3, <2>4
<1>4. n \in S
  <2> HIDE DEF S
  <2> QED
    BY <1>2, <1>3, NatSetInduction
<1> QED
  BY <1>1, <1>4 DEF SameOutside

\* The memory after n bytes from s on are at d.
Moved(A, m, d, s, n) ==
  [x \in A |-> IF x \in d..(d + n - 1) THEN m[s + x - d] ELSE m[x]]

\* Where every address copied to is below the one copied from, or the two
\* regions do not meet, memcpy_ copies the n bytes as they were before.
LEMMA CopyWhole ==
  ASSUME NEW A \in SUBSET Int, NEW C, NEW m \in [A -> C],
         NEW d \in Int, NEW s \in Int, NEW n \in Nat,
         s..(s + n - 1) \subseteq A, d..(d + n - 1) \subseteq A,
         d <= s \/ s + n <= d
  PROVE  memcpy_(m, d, s, n) = Moved(A, m, d, s, n)
<1>1. PICK g : /\ g[0] = m
               /\ \A i \in 1..n : g[i] = Pass(g[i - 1], d, s, i)
               /\ memcpy_(m, d, s, n) = g[n]
  BY CopySteps
<1> DEFINE Good(i) ==
             /\ g[i] \in [A -> C]
             /\ \A x \in A : g[i][x] =
                  IF x \in d..(d + i - 1) THEN m[s + x - d] ELSE m[x]
           S == {i \in Nat : i <= n => Good(i)}
<1>2. 0 \in S
  BY <1>1
<1>3. ASSUME NEW i \in Nat, i \in S
      PROVE  i + 1 \in S
  <2> HIDE DEF Good
  <2> SUFFICES ASSUME i + 1 <= n PROVE Good(i + 1)
    OBVIOUS
  <2>1. Good(i)
    BY <1>3
  <2> USE DEF Good
  <2>2. g[i + 1] = [g[i] EXCEPT ![d + i] = g[i][s + i]]
    BY <1>1 DEF Pass
  <2>3. s + i \in A /\ d + i \in A /\ s + i \notin d..(d + i - 1)
    OBVIOUS
  <2>4. g[i][s + i] = m[s + i]
    BY <2>1, <2>3
  <2>5. s + (d + i) - d = s + i
    OBVIOUS
  <2> QED
    BY <2>1, <2>2, <2>3, <2>4, <2>5
<1>4. n \in S
  <2> HIDE DEF S
  <2> QED
    BY <1>2, <1>3, NatSetInduction
<1>5. Good(n)
  BY <1>4
<1> QED
  BY <1>1, <1>5 DEF Moved

-----------------------------------------------------------------------------
(***************************************************************************)
(* qsort_                                                                  *)
(***************************************************************************)

\* x has to come after y.
Above(compar, x, y) == compar[<<x, y>>] > 0

\* One turn of the inner loop.
SortTurn(a, j, compar) ==
  IF Above(compar, a[j], a[j + 1]) THEN [a EXCEPT ![j] = a[j + 1], ![j + 1] = a[j]]
  ELSE a

\* The states of the array between the turns of a pass.
IsPass(g, S, N, arr, m, compar) ==
  /\ g \in [0..m -> [1..N -> S]]
  /\ g[0] = arr
  /\ \A j \in 1..m : g[j] = SortTurn(g[j - 1], j, compar)
  /\ BubblePass(arr, m, compar) = g[m]

LEMMA PassSteps ==
  ASSUME NEW S, NEW N \in Nat, NEW arr \in [1..N -> S], NEW compar,
         NEW m \in Nat, m < N
  PROVE  \E g : IsPass(g, S, N, arr, m, compar)
<1> DEFINE V == [1..N -> S]
           F == [j \in 1..m |-> [a \in V |-> SortTurn(a, j, compar)]]
<1>1. ASSUME NEW j \in 1..m, NEW a \in V
      PROVE  SortTurn(a, j, compar) \in V
  <2>1. a[j] \in S /\ a[j + 1] \in S
    OBVIOUS
  <2> QED
    BY <2>1 DEF SortTurn
<1>2. F \in [1..m -> [V -> V]]
  <2> HIDE DEF V
  <2> QED
    BY <1>1
<1>3. PICK g \in [0..m -> V] : /\ g[0] = arr
                               /\ \A j \in 1..m : g[j] = F[j][g[j - 1]]
  <2>1. arr \in V
    OBVIOUS
  <2> HIDE DEF F, V
  <2>2. \E g : IsLoop(g, m, V, arr, F)
    BY <1>2, <2>1, LoopDefined
  <2> QED
    BY <2>2 DEF IsLoop
<1>4. ASSUME NEW j \in 1..m
      PROVE  g[j] = SortTurn(g[j - 1], j, compar)
  <2> HIDE DEF V
  <2>1. g[j - 1] \in V
    BY <1>3
  <2>2. F[j][g[j - 1]] = SortTurn(g[j - 1], j, compar)
    BY <2>1
  <2> HIDE DEF F
  <2> QED
    BY <1>3, <2>2
<1> DEFINE Loop(x) == x = [j \in 0..m |-> IF j = 0 THEN arr
                                         ELSE SortTurn(x[j - 1], j, compar)]
           pass == CHOOSE x : Loop(x)
<1>5. Loop(g)
  <2>1. g = [j \in 0..m |-> g[j]]
    BY <1>3
  <2>2. \A j \in 0..m : g[j] = IF j = 0 THEN arr ELSE SortTurn(g[j - 1], j, compar)
    BY <1>3, <1>4
  <2> QED
    BY <2>1, <2>2
<1>6. Loop(pass)
  <2> HIDE DEF Loop
  <2> QED
    BY <1>5
<1>7. BubblePass(arr, m, compar) = pass[m]
  BY DEF BubblePass, SortTurn, Above
<1> HIDE DEF pass
<1>8. \A j \in 0..m : pass[j] = IF j = 0 THEN arr ELSE SortTurn(pass[j - 1], j, compar)
  BY <1>6
<1>9. pass = [j \in 0..m |-> pass[j]]
  BY <1>6
<1> DEFINE T == {j \in Nat : j <= m => pass[j] = g[j]}
<1>10. 0 \in T
  BY <1>3, <1>8
<1>11. ASSUME NEW j \in Nat, j \in T
       PROVE  j + 1 \in T
  BY <1>4, <1>8, <1>11
<1>12. m \in T
  <2> HIDE DEF T
  <2> QED
    BY <1>10, <1>11, NatSetInduction
<1>13. IsPass(g, S, N, arr, m, compar)
  BY <1>3, <1>4, <1>7, <1>12 DEF IsPass
<1> QED
  BY <1>13

LEMMA PassType ==
  ASSUME NEW S, NEW N \in Nat, NEW arr \in [1..N -> S], NEW compar,
         NEW m \in Nat, m < N
  PROVE  BubblePass(arr, m, compar) \in [1..N -> S]
<1>1. PICK g : IsPass(g, S, N, arr, m, compar)
  BY PassSteps
<1>2. m \in 0..m
  OBVIOUS
<1> QED
  BY <1>1, <1>2 DEF IsPass

\* The states of the array between the passes.
IsSort(g, S, N, arr, compar) ==
  /\ g \in [0..(N - 1) -> [1..N -> S]]
  /\ g[0] = arr
  /\ \A i \in 1..(N - 1) : g[i] = BubblePass(g[i - 1], N - i, compar)
  /\ qsort_(arr, compar) = g[N - 1]

LEMMA SortSteps ==
  ASSUME NEW S, NEW arr \in Seq(S), arr # <<>>, NEW compar
  PROVE  \E g : IsSort(g, S, Len(arr), arr, compar)
<1> DEFINE N == Len(arr)
           V == [1..N -> S]
           F == [i \in 1..(N - 1) |-> [a \in V |-> BubblePass(a, N - i, compar)]]
<1>1. N \in Nat \ {0} /\ N - 1 \in Nat /\ arr \in V
  OBVIOUS
<1>2. ASSUME NEW i \in 1..(N - 1), NEW a \in V
      PROVE  BubblePass(a, N - i, compar) \in V
  <2>1. N - i \in Nat /\ N - i < N
    BY <1>1
  <2>2. N \in Nat /\ a \in [1..N -> S]
    BY <1>1
  <2> HIDE DEF N, V
  <2>3. BubblePass(a, N - i, compar) \in [1..N -> S]
    BY ONLY <2>1, <2>2, PassType
  <2> QED
    BY <2>3 DEF V
<1>3. F \in [1..(N - 1) -> [V -> V]]
  <2> HIDE DEF V, N
  <2> QED
    BY <1>2
<1>4. PICK g : IsLoop(g, N - 1, V, arr, F)
  <2> HIDE DEF V, F, N
  <2> QED
    BY <1>1, <1>3, LoopDefined
<1>5. /\ g \in [0..(N - 1) -> V] /\ g[0] = arr
      /\ \A i \in 1..(N - 1) : g[i] = BubblePass(g[i - 1], N - i, compar)
  <2> HIDE DEF V, N
  <2>1. /\ g \in [0..(N - 1) -> V] /\ g[0] = arr
        /\ \A i \in 1..(N - 1) : g[i] = F[i][g[i - 1]]
    BY <1>4 DEF IsLoop
  <2>2. ASSUME NEW i \in 1..(N - 1)
        PROVE  F[i][g[i - 1]] = BubblePass(g[i - 1], N - i, compar)
    <3>1. g[i - 1] \in V
      BY <1>1, <2>1
    <3> QED
      BY <3>1
  <2> HIDE DEF F
  <2> QED
    BY <2>1, <2>2
<1> DEFINE Loop(x) == x = [i \in 0..(N - 1) |->
                             IF i = 0 THEN arr
                             ELSE BubblePass(x[i - 1], N - i, compar)]
           sorted == CHOOSE x : Loop(x)
<1>6. Loop(g)
  <2> HIDE DEF V, N
  <2>1. g = [i \in 0..(N - 1) |-> g[i]]
    BY <1>5
  <2>2. \A i \in 0..(N - 1) : g[i] = IF i = 0 THEN arr
                                     ELSE BubblePass(g[i - 1], N - i, compar)
    BY <1>1, <1>5
  <2> QED
    BY <2>1, <2>2
<1>7. Loop(sorted)
  <2> HIDE DEF Loop
  <2> QED
    BY <1>6
<1>8. qsort_(arr, compar) = sorted[N - 1]
  BY DEF qsort_
<1> HIDE DEF sorted, V, N
<1>9. \A i \in 0..(N - 1) : sorted[i] = IF i = 0 THEN arr
                                        ELSE BubblePass(sorted[i - 1], N - i, compar)
  BY <1>7
<1> DEFINE T == {i \in Nat : i <= N - 1 => sorted[i] = g[i]}
<1>10. 0 \in T
  BY <1>1, <1>5, <1>9
<1>11. ASSUME NEW i \in Nat, i \in T
       PROVE  i + 1 \in T
  BY <1>1, <1>5, <1>9, <1>11
<1>12. N - 1 \in T
  <2> HIDE DEF T
  <2> QED
    BY <1>1, <1>10, <1>11, NatSetInduction
<1>13. qsort_(arr, compar) = g[N - 1]
  BY <1>1, <1>8, <1>12
<1>14. IsSort(g, S, N, arr, compar)
  BY <1>5, <1>13 DEF V, IsSort
<1> QED
  BY <1>14 DEF N

\* qsort_ returns an array of the same length and kind, whatever it compares by.
LEMMA SortType ==
  ASSUME NEW S, NEW arr \in Seq(S), arr # <<>>, NEW compar
  PROVE  qsort_(arr, compar) \in [1..Len(arr) -> S]
<1>1. PICK g : IsSort(g, S, Len(arr), arr, compar)
  BY SortSteps
<1>2. Len(arr) - 1 \in 0..(Len(arr) - 1)
  OBVIOUS
<1> QED
  BY <1>1, <1>2 DEF IsSort

\* compar is a total preorder: of any two elements one is not above the other,
\* and being not above is transitive.
Compares(S, compar) ==
  /\ \A x, y \in S : Above(compar, x, y) => ~Above(compar, y, x)
  /\ \A x, y, z \in S : Above(compar, x, z) =>
                        Above(compar, x, y) \/ Above(compar, y, z)

\* The elements of a are those of arr: a[i] was arr[f[i]], and changed places
\* only with elements it compares different from.
Arranged(N, arr, a, f, compar) ==
  /\ f \in [1..N -> 1..N]
  /\ \A i, j \in 1..N : f[i] = f[j] => i = j
  /\ \A k \in 1..N : \E i \in 1..N : f[i] = k
  /\ \A i \in 1..N : a[i] = arr[f[i]]
  /\ \A i, j \in 1..N : i < j /\ f[j] < f[i] => Above(compar, arr[f[j]], arr[f[i]])

\* From place k + 1 on, every element is in its final place.
SortedFrom(a, N, k, compar) ==
  \A y \in (k + 1)..N : \A x \in 1..(y - 1) : ~Above(compar, a[x], a[y])

\* The place the element comes from that is at i after places j and j + 1 swap.
SwapAt(j, i) == IF i = j THEN j + 1 ELSE IF i = j + 1 THEN j ELSE i

LEMMA SwapFacts ==
  ASSUME NEW N \in Nat, NEW j \in 1..(N - 1)
  PROVE  /\ \A i \in 1..N : SwapAt(j, i) \in 1..N /\ SwapAt(j, SwapAt(j, i)) = i
         /\ \A i, k \in 1..N : i < k /\ ~(i = j /\ k = j + 1) =>
              SwapAt(j, i) < SwapAt(j, k)
         /\ SwapAt(j, j) = j + 1 /\ SwapAt(j, j + 1) = j
BY DEF SwapAt

LEMMA TurnArranges ==
  ASSUME NEW S, NEW N \in Nat, NEW arr, NEW a \in [1..N -> S], NEW f,
         NEW compar, NEW j \in 1..(N - 1), Arranged(N, arr, a, f, compar)
  PROVE  \E h : Arranged(N, arr, SortTurn(a, j, compar), h, compar)
<1>1. CASE ~(Above(compar, a[j], a[j + 1]))
  <2>1. SortTurn(a, j, compar) = a
    BY <1>1 DEF SortTurn
  <2> QED
    BY <2>1
<1>2. CASE Above(compar, a[j], a[j + 1])
  <2> DEFINE h == [i \in 1..N |-> f[SwapAt(j, i)]]
             b == SortTurn(a, j, compar)
  <2>1. \A i \in 1..N : b[i] = a[SwapAt(j, i)]
    <3>1. b = [a EXCEPT ![j] = a[j + 1], ![j + 1] = a[j]]
      BY <1>2 DEF SortTurn
    <3>2. j \in 1..N /\ j + 1 \in 1..N /\ j # j + 1
      OBVIOUS
    <3> HIDE DEF b
    <3> QED
      BY <3>1, <3>2 DEF SwapAt
  <2>2. f \in [1..N -> 1..N]
    BY DEF Arranged
  <2>3. \A i \in 1..N : h[i] = f[SwapAt(j, i)]
    OBVIOUS
  <2>4. h \in [1..N -> 1..N]
    BY <2>2, SwapFacts
  <2> HIDE DEF h, b
  <2>5. ASSUME NEW i \in 1..N, NEW k \in 1..N, i < k, h[k] < h[i]
        PROVE  Above(compar, arr[h[k]], arr[h[i]])
    <3>1. CASE i = j /\ k = j + 1
      <4>1. h[k] = f[j] /\ h[i] = f[j + 1]
        BY <2>3, <3>1, SwapFacts
      <4>2. j \in 1..N /\ j + 1 \in 1..N
        OBVIOUS
      <4>3. arr[f[j]] = a[j] /\ arr[f[j + 1]] = a[j + 1]
        BY <4>2 DEF Arranged
      <4> QED
        BY <1>2, <4>1, <4>3
    <3>2. CASE ~(i = j /\ k = j + 1)
      <4>1. SwapAt(j, i) < SwapAt(j, k)
        BY <2>5, <3>2, SwapFacts
      <4>2. PICK x \in 1..N : x = SwapAt(j, i)
        BY SwapFacts
      <4>3. PICK y \in 1..N : y = SwapAt(j, k)
        BY SwapFacts
      <4>4. h[i] = f[x] /\ h[k] = f[y]
        BY <2>3, <4>2, <4>3
      <4>5. x < y /\ f[y] < f[x]
        BY <2>5, <4>1, <4>2, <4>3, <4>4
      <4>6. Above(compar, arr[f[y]], arr[f[x]])
        BY <4>5 DEF Arranged
      <4> QED
        BY <4>4, <4>6
    <3> QED
      BY <3>1, <3>2
  <2>6. ASSUME NEW i \in 1..N, NEW k \in 1..N, h[i] = h[k]
        PROVE  i = k
    <3>1. PICK x \in 1..N : x = SwapAt(j, i)
      BY SwapFacts
    <3>2. PICK y \in 1..N : y = SwapAt(j, k)
      BY SwapFacts
    <3>3. f[x] = f[y]
      BY <2>3, <2>6, <3>1, <3>2
    <3>4. x = y
      BY <3>3 DEF Arranged
    <3>5. SwapAt(j, x) = i /\ SwapAt(j, y) = k
      BY <3>1, <3>2, SwapFacts
    <3> QED
      BY <3>4, <3>5
  <2>7. ASSUME NEW k \in 1..N
        PROVE  \E i \in 1..N : h[i] = k
    <3>1. PICK i \in 1..N : f[i] = k
      BY DEF Arranged
    <3>2. PICK x \in 1..N : x = SwapAt(j, i)
      BY SwapFacts
    <3>3. SwapAt(j, x) = i
      BY <3>2, SwapFacts
    <3>4. h[x] = k
      BY <2>3, <3>1, <3>3
    <3> QED
      BY <3>4
  <2>8. ASSUME NEW i \in 1..N
        PROVE  b[i] = arr[h[i]]
    <3>1. PICK x \in 1..N : x = SwapAt(j, i)
      BY SwapFacts
    <3>2. a[x] = arr[f[x]]
      BY DEF Arranged
    <3> QED
      BY <2>1, <2>3, <3>1, <3>2
  <2>9. Arranged(N, arr, b, h, compar)
    BY <2>4, <2>5, <2>6, <2>7, <2>8 DEF Arranged
  <2> QED
    BY <2>9 DEF b
<1> QED
  BY <1>1, <1>2

\* Whatever compar is, a pass and the whole sort only arrange the elements.
LEMMA PassArranges ==
  ASSUME NEW S, NEW N \in Nat, NEW arr, NEW a \in [1..N -> S], NEW compar,
         NEW m \in Nat, m < N, \E f : Arranged(N, arr, a, f, compar)
  PROVE  \E f : Arranged(N, arr, BubblePass(a, m, compar), f, compar)
<1>1. PICK g : IsPass(g, S, N, a, m, compar)
  BY PassSteps
<1>2. /\ \A j \in 0..m : g[j] \in [1..N -> S]
      /\ g[0] = a
      /\ \A j \in 1..m : g[j] = SortTurn(g[j - 1], j, compar)
      /\ BubblePass(a, m, compar) = g[m]
  BY <1>1 DEF IsPass
<1> DEFINE Good(j) == \E f : Arranged(N, arr, g[j], f, compar)
           T == {j \in Nat : j <= m => Good(j)}
<1>3. 0 \in T
  BY <1>2
<1>4. ASSUME NEW j \in Nat, j \in T
      PROVE  j + 1 \in T
  <2> HIDE DEF Good
  <2> SUFFICES ASSUME j + 1 <= m PROVE Good(j + 1)
    OBVIOUS
  <2>1. Good(j)
    BY <1>4
  <2>2. /\ j + 1 \in 1..m /\ (j + 1) - 1 = j /\ j + 1 \in 1..(N - 1)
        /\ j \in 0..m
    OBVIOUS
  <2>3. g[j + 1] = SortTurn(g[j], j + 1, compar) /\ g[j] \in [1..N -> S]
    BY <1>2, <2>2
  <2>4. PICK f : Arranged(N, arr, g[j], f, compar)
    BY <2>1 DEF Good
  <2>5. \E h : Arranged(N, arr, SortTurn(g[j], j + 1, compar), h, compar)
    BY <2>2, <2>3, <2>4, TurnArranges
  <2> QED
    BY <2>3, <2>5 DEF Good
<1>5. m \in T
  <2> HIDE DEF T
  <2> QED
    BY <1>3, <1>4, NatSetInduction
<1> QED
  BY <1>2, <1>5

LEMMA SortArranges ==
  ASSUME NEW S, NEW arr \in Seq(S), arr # <<>>, NEW compar
  PROVE  \E f : Arranged(Len(arr), arr, qsort_(arr, compar), f, compar)
<1> DEFINE N == Len(arr)
<1>1. N \in Nat \ {0} /\ arr \in [1..N -> S]
  OBVIOUS
<1>2. PICK g : IsSort(g, S, N, arr, compar)
  BY SortSteps
<1> HIDE DEF N
<1>3. /\ \A i \in 0..(N - 1) : g[i] \in [1..N -> S]
      /\ g[0] = arr
      /\ \A i \in 1..(N - 1) : g[i] = BubblePass(g[i - 1], N - i, compar)
      /\ qsort_(arr, compar) = g[N - 1]
  BY <1>2 DEF IsSort
<1> DEFINE Good(i) == \E f : Arranged(N, arr, g[i], f, compar)
           T == {i \in Nat : i <= N - 1 => Good(i)}
<1>4. 0 \in T
  <2> DEFINE f == [i \in 1..N |-> i]
  <2>1. f \in [1..N -> 1..N] /\ \A i \in 1..N : f[i] = i
    OBVIOUS
  <2> HIDE DEF f
  <2>2. ASSUME NEW i \in 1..N, NEW j \in 1..N, i < j, f[j] < f[i]
        PROVE  FALSE
    BY <2>1, <2>2
  <2>3. Arranged(N, arr, arr, f, compar)
    BY <2>1, <2>2 DEF Arranged
  <2> QED
    BY <1>3, <2>3
<1>5. ASSUME NEW i \in Nat, i \in T
      PROVE  i + 1 \in T
  <2> HIDE DEF Good
  <2> SUFFICES ASSUME i + 1 <= N - 1 PROVE Good(i + 1)
    OBVIOUS
  <2>1. Good(i)
    BY <1>1, <1>5
  <2> DEFINE m == N - (i + 1)
  <2>2. i + 1 \in 1..(N - 1) /\ (i + 1) - 1 = i /\ i \in 0..(N - 1)
    BY <1>1
  <2>3. m \in Nat /\ m < N
    BY <1>1
  <2> HIDE DEF m
  <2>4. g[i + 1] = BubblePass(g[i], m, compar) /\ g[i] \in [1..N -> S]
    BY <1>3, <2>2 DEF m
  <2>5. \E f : Arranged(N, arr, g[i], f, compar)
    BY <2>1 DEF Good
  <2>6. \E f : Arranged(N, arr, g[i + 1], f, compar)
    BY <1>1, <2>3, <2>4, <2>5, PassArranges
  <2> QED
    BY <2>6 DEF Good
<1>6. N - 1 \in T
  <2> HIDE DEF T
  <2> QED
    BY <1>1, <1>4, <1>5, NatSetInduction
<1> QED
  BY <1>1, <1>3, <1>6 DEF N

\* Place j + 1 holds an element that no element before it has to come after.
Bubbled(a, j, compar) == \A x \in 1..j : ~Above(compar, a[x], a[j + 1])

LEMMA TurnSorts ==
  ASSUME NEW S, NEW N \in Nat, NEW a \in [1..N -> S], NEW compar,
         Compares(S, compar), NEW k \in 1..N, NEW j \in 1..(k - 1),
         SortedFrom(a, N, k, compar), Bubbled(a, j - 1, compar)
  PROVE  /\ SortedFrom(SortTurn(a, j, compar), N, k, compar)
         /\ Bubbled(SortTurn(a, j, compar), j, compar)
<1>1. j \in 1..N /\ j + 1 \in 1..N /\ j \in 1..(N - 1)
  OBVIOUS
<1>2. ASSUME NEW x \in 1..(j - 1)
      PROVE  ~Above(compar, a[x], a[j])
  <2>1. (j - 1) + 1 = j
    OBVIOUS
  <2> QED
    BY <2>1 DEF Bubbled
<1>3. CASE ~Above(compar, a[j], a[j + 1])
  <2>1. SortTurn(a, j, compar) = a
    BY <1>3 DEF SortTurn
  <2>2. ASSUME NEW x \in 1..j
        PROVE  ~Above(compar, a[x], a[j + 1])
    <3>1. CASE x = j
      BY <1>3, <3>1
    <3>2. CASE x # j
      <4>1. ~Above(compar, a[x], a[j])
        BY <1>2, <3>2
      <4>2. a[x] \in S /\ a[j] \in S /\ a[j + 1] \in S
        BY <1>1
      <4> QED
        BY <1>3, <4>1, <4>2 DEF Compares
    <3> QED
      BY <3>1, <3>2
  <2>3. Bubbled(a, j, compar)
    BY <2>2 DEF Bubbled
  <2> QED
    BY <2>1, <2>3
<1>4. CASE Above(compar, a[j], a[j + 1])
  <2> DEFINE b == SortTurn(a, j, compar)
  <2>1. b = [a EXCEPT ![j] = a[j + 1], ![j + 1] = a[j]]
    BY <1>4 DEF SortTurn
  <2> HIDE DEF b
  <2>2. \A i \in 1..N : b[i] = a[SwapAt(j, i)]
    BY <1>1, <2>1 DEF SwapAt
  <2>3. ASSUME NEW y \in (k + 1)..N, NEW x \in 1..(y - 1)
        PROVE  ~Above(compar, b[x], b[y])
    <3>1. PICK i \in 1..(y - 1) : i = SwapAt(j, x)
      BY DEF SwapAt
    <3>2. b[x] = a[i] /\ b[y] = a[y]
      BY <2>2, <3>1 DEF SwapAt
    <3>3. ~Above(compar, a[i], a[y])
      BY DEF SortedFrom
    <3> QED
      BY <3>2, <3>3
  <2>4. ASSUME NEW x \in 1..j
        PROVE  ~Above(compar, b[x], b[j + 1])
    <3>1. b[j + 1] = a[j]
      BY <1>1, <2>2 DEF SwapAt
    <3>2. CASE x = j
      <4>1. b[x] = a[j + 1]
        BY <1>1, <2>2, <3>2 DEF SwapAt
      <4>2. a[j] \in S /\ a[j + 1] \in S
        BY <1>1
      <4> QED
        BY <1>4, <3>1, <4>1, <4>2 DEF Compares
    <3>3. CASE x # j
      <4>1. b[x] = a[x] /\ x \in 1..(j - 1)
        BY <1>1, <2>2, <3>3 DEF SwapAt
      <4> QED
        BY <1>2, <3>1, <4>1
    <3> QED
      BY <3>2, <3>3
  <2>5. SortedFrom(b, N, k, compar) /\ Bubbled(b, j, compar)
    BY <2>3, <2>4 DEF SortedFrom, Bubbled
  <2> QED
    BY <2>5 DEF b
<1> QED
  BY <1>3, <1>4

\* One pass over the first m + 1 elements puts the last of them in its place,
\* and keeps the array a stable rearrangement of arr.
LEMMA PassSorts ==
  ASSUME NEW S, NEW N \in Nat, NEW arr, NEW a \in [1..N -> S], NEW compar,
         Compares(S, compar), NEW m \in Nat, m < N,
         \E f : Arranged(N, arr, a, f, compar),
         SortedFrom(a, N, m + 1, compar)
  PROVE  /\ \E f : Arranged(N, arr, BubblePass(a, m, compar), f, compar)
         /\ SortedFrom(BubblePass(a, m, compar), N, m, compar)
<1>1. PICK g : IsPass(g, S, N, a, m, compar)
  BY PassSteps
<1>2. /\ \A j \in 0..m : g[j] \in [1..N -> S]
      /\ g[0] = a
      /\ \A j \in 1..m : g[j] = SortTurn(g[j - 1], j, compar)
      /\ BubblePass(a, m, compar) = g[m]
  BY <1>1 DEF IsPass
<1> DEFINE Good(j) == /\ \E f : Arranged(N, arr, g[j], f, compar)
                      /\ SortedFrom(g[j], N, m + 1, compar)
                      /\ Bubbled(g[j], j, compar)
           T == {j \in Nat : j <= m => Good(j)}
<1>3. 0 \in T
  <2>1. Bubbled(g[0], 0, compar)
    BY DEF Bubbled
  <2> QED
    BY <1>2, <2>1
<1>4. ASSUME NEW j \in Nat, j \in T
      PROVE  j + 1 \in T
  <2> HIDE DEF Good
  <2> SUFFICES ASSUME j + 1 <= m PROVE Good(j + 1)
    OBVIOUS
  <2>1. Good(j)
    BY <1>4
  <2>2. j + 1 \in 1..m /\ (j + 1) - 1 = j
    OBVIOUS
  <2>3. g[j + 1] = SortTurn(g[j], j + 1, compar)
    BY <1>2, <2>2
  <2>4. g[j] \in [1..N -> S]
    BY <1>2
  <2>5. \E f : Arranged(N, arr, g[j + 1], f, compar)
    <3>1. PICK f : Arranged(N, arr, g[j], f, compar)
      BY <2>1 DEF Good
    <3>2. j + 1 \in 1..(N - 1)
      OBVIOUS
    <3>3. \E h : Arranged(N, arr, SortTurn(g[j], j + 1, compar), h, compar)
      BY <2>4, <3>1, <3>2, TurnArranges
    <3> QED
      BY <2>3, <3>3
  <2>6. /\ SortedFrom(g[j + 1], N, m + 1, compar)
        /\ Bubbled(g[j + 1], j + 1, compar)
    <3>1. m + 1 \in 1..N /\ j + 1 \in 1..((m + 1) - 1)
      OBVIOUS
    <3>2. SortedFrom(g[j], N, m + 1, compar) /\ Bubbled(g[j], (j + 1) - 1, compar)
      BY <2>1, <2>2 DEF Good
    <3> QED
      BY <2>3, <2>4, <3>1, <3>2, TurnSorts
  <2> QED
    BY <2>5, <2>6 DEF Good
<1>5. m \in T
  <2> HIDE DEF T
  <2> QED
    BY <1>3, <1>4, NatSetInduction
<1>6. Good(m)
  BY <1>5
<1>7. ASSUME NEW y \in (m + 1)..N, NEW x \in 1..(y - 1)
      PROVE  ~Above(compar, g[m][x], g[m][y])
  <2>1. CASE y = m + 1
    BY <1>6, <2>1 DEF Bubbled
  <2>2. CASE y # m + 1
    BY <1>6, <2>2 DEF SortedFrom
  <2> QED
    BY <2>1, <2>2
<1>8. SortedFrom(g[m], N, m, compar)
  BY <1>7 DEF SortedFrom
<1> QED
  BY <1>2, <1>6, <1>8

\* qsort_ sorts: its result holds the elements of arr, none before one that it
\* has to come after, and elements that compare equal in the order of arr.
LEMMA SortWhole ==
  ASSUME NEW S, NEW arr \in Seq(S), arr # <<>>, NEW compar, Compares(S, compar)
  PROVE  /\ \E f : Arranged(Len(arr), arr, qsort_(arr, compar), f, compar)
         /\ SortedFrom(qsort_(arr, compar), Len(arr), 1, compar)
<1> DEFINE N == Len(arr)
<1>1. N \in Nat \ {0} /\ arr \in [1..N -> S]
  OBVIOUS
<1>2. PICK g : IsSort(g, S, N, arr, compar)
  BY SortSteps
<1> HIDE DEF N
<1>3. /\ \A i \in 0..(N - 1) : g[i] \in [1..N -> S]
      /\ g[0] = arr
      /\ \A i \in 1..(N - 1) : g[i] = BubblePass(g[i - 1], N - i, compar)
      /\ qsort_(arr, compar) = g[N - 1]
  BY <1>2 DEF IsSort
<1> DEFINE Good(i) == /\ \E f : Arranged(N, arr, g[i], f, compar)
                      /\ SortedFrom(g[i], N, N - i, compar)
           T == {i \in Nat : i <= N - 1 => Good(i)}
<1>4. 0 \in T
  <2> DEFINE f == [i \in 1..N |-> i]
  <2>1. Arranged(N, arr, arr, f, compar)
    <3>1. f \in [1..N -> 1..N] /\ \A i \in 1..N : f[i] = i
      OBVIOUS
    <3> HIDE DEF f
    <3>2. ASSUME NEW i \in 1..N, NEW j \in 1..N, i < j, f[j] < f[i]
          PROVE  FALSE
      BY <3>1, <3>2
    <3> QED
      BY <3>1, <3>2 DEF Arranged
  <2>2. SortedFrom(arr, N, N - 0, compar)
    BY <1>1 DEF SortedFrom
  <2> HIDE DEF f
  <2> QED
    BY <1>3, <2>1, <2>2
<1>5. ASSUME NEW i \in Nat, i \in T
      PROVE  i + 1 \in T
  <2> HIDE DEF Good
  <2> SUFFICES ASSUME i + 1 <= N - 1 PROVE Good(i + 1)
    OBVIOUS
  <2>1. Good(i)
    BY <1>1, <1>5
  <2> DEFINE m == N - (i + 1)
  <2>2. i + 1 \in 1..(N - 1) /\ (i + 1) - 1 = i /\ i \in 0..(N - 1)
    BY <1>1
  <2>3. m \in Nat /\ m < N /\ m + 1 = N - i
    BY <1>1
  <2> HIDE DEF m
  <2>4. g[i + 1] = BubblePass(g[i], m, compar) /\ g[i] \in [1..N -> S]
    BY <1>3, <2>2 DEF m
  <2>5. /\ \E f : Arranged(N, arr, g[i], f, compar)
        /\ SortedFrom(g[i], N, m + 1, compar)
    BY <2>1, <2>3 DEF Good
  <2>6. /\ \E f : Arranged(N, arr, g[i + 1], f, compar)
        /\ SortedFrom(g[i + 1], N, m, compar)
    BY <1>1, <2>3, <2>4, <2>5, PassSorts
  <2> QED
    BY <2>6 DEF Good, m
<1>6. N - 1 \in T
  <2> HIDE DEF T
  <2> QED
    BY <1>1, <1>4, <1>5, NatSetInduction
<1>7. Good(N - 1) /\ N - (N - 1) = 1
  BY <1>1, <1>6
<1> QED
  BY <1>3, <1>7 DEF N

-----------------------------------------------------------------------------
(***************************************************************************)
(* The other memory functions.                                             *)
(***************************************************************************)

\* One turn of the loop of memmove_ that starts with the last byte.
BackPass(c, d, s, n, i) == [c EXCEPT ![d + n - i] = c[s + n - i]]

\* memmove_ moves the bytes as they were before, whatever the overlap.
LEMMA MoveWhole ==
  ASSUME NEW A \in SUBSET Int, NEW C, NEW m \in [A -> C],
         NEW d \in Int, NEW s \in Int, NEW n \in Nat,
         s..(s + n - 1) \subseteq A, d..(d + n - 1) \subseteq A
  PROVE  memmove_(m, d, s, n) = Moved(A, m, d, s, n)
<1>1. CASE d < s
  <2>1. memmove_(m, d, s, n) = memcpy_(m, d, s, n)
    BY <1>1 DEF memmove_
  <2> QED
    BY <1>1, <2>1, CopyWhole
<1>2. CASE ~(d < s)
  <2> DEFINE Loop(x) == x = [i \in 0..n |-> IF i = 0 THEN m
                                           ELSE BackPass(x[i - 1], d, s, n, i)]
             move == CHOOSE x : Loop(x)
             Value(i) == [x \in A |-> IF x \in (d + n - i)..(d + n - 1)
                                      THEN m[s + x - d] ELSE m[x]]
             g == [i \in 0..n |-> Value(i)]
  <2>1. memmove_(m, d, s, n) = move[n]
    BY <1>2 DEF memmove_, BackPass
  <2>2. Value(0) = m
    OBVIOUS
  <2>3. ASSUME NEW i \in 1..n
        PROVE  BackPass(Value(i - 1), d, s, n, i) = Value(i)
    <3> DEFINE v == Value(i - 1)
    <3>1. s + n - i \in A /\ d + n - i \in A
      OBVIOUS
    <3>2. s + n - i \notin (d + n - (i - 1))..(d + n - 1)
      BY <1>2
    <3>3. v[s + n - i] = m[s + n - i]
      BY <3>1, <3>2
    <3>4. v = [x \in A |-> v[x]]
      OBVIOUS
    <3>5. BackPass(v, d, s, n, i) =
            [x \in A |-> IF x = d + n - i THEN m[s + n - i] ELSE v[x]]
      <4> HIDE DEF v
      <4> QED
        BY <3>1, <3>3, <3>4 DEF BackPass
    <3>6. ASSUME NEW x \in A
          PROVE  (IF x = d + n - i THEN m[s + n - i] ELSE v[x]) = Value(i)[x]
      <4>1. CASE x = d + n - i
        <5>1. s + x - d = s + n - i /\ x \in (d + n - i)..(d + n - 1)
          BY <4>1
        <5> QED
          BY <4>1, <5>1
      <4>2. CASE x # d + n - i
        BY <4>2
      <4> QED
        BY <4>1, <4>2
    <3>7. Value(i) = [x \in A |-> Value(i)[x]]
      OBVIOUS
    <3> HIDE DEF v, Value
    <3>8. BackPass(v, d, s, n, i) = Value(i)
      BY <3>5, <3>6, <3>7
    <3> QED
      BY <3>8 DEF v
  <2>4. Value(n) = Moved(A, m, d, s, n)
    <3>1. d + n - n = d
      OBVIOUS
    <3> QED
      BY <3>1 DEF Moved
  <2> HIDE DEF Value
  <2>5. g[0] = m /\ \A i \in 1..n : g[i] = BackPass(g[i - 1], d, s, n, i)
    BY <2>2, <2>3
  <2>6. g[n] = Moved(A, m, d, s, n) /\ g = [i \in 0..n |-> g[i]]
    BY <2>4
  <2> HIDE DEF g
  <2>7. Loop(g)
    <3>1. \A i \in 0..n : g[i] = IF i = 0 THEN m
                                 ELSE BackPass(g[i - 1], d, s, n, i)
      BY <2>5
    <3> QED
      BY <2>6, <3>1
  <2>8. Loop(move)
    <3> HIDE DEF Loop
    <3> QED
      BY <2>7
  <2> HIDE DEF move
  <2>9. move[0] = m /\ \A i \in 1..n : move[i] = BackPass(move[i - 1], d, s, n, i)
    BY <2>8
  <2>10. move[n] = g[n]
    BY <2>5, <2>9, SameLoop
  <2> QED
    BY <2>1, <2>6, <2>10
<1> QED
  BY <1>1, <1>2

Filled(A, m, b, c, n) == [x \in A |-> IF x \in b..(b + n - 1) THEN c ELSE m[x]]

\* m has the addresses in A, among them the n addresses from b on.
HasRoom(A, m, b, n) == /\ A \subseteq Int /\ m = [x \in A |-> m[x]]
                       /\ b..(b + n - 1) \subseteq A

\* memset_ stores c in the n bytes from b on and nothing else.
LEMMA SetWhole ==
  ASSUME NEW A, NEW m, NEW b \in Int, NEW c, NEW n \in Nat, HasRoom(A, m, b, n)
  PROVE  memset_(m, b, c, n) = Filled(A, m, b, c, n)
<1> DEFINE Stores(v, i) == [v EXCEPT ![b + i - 1] = c]
           Loop(x) == x = [i \in 0..n |-> IF i = 0 THEN m ELSE Stores(x[i - 1], i)]
           set == CHOOSE x : Loop(x)
           Value(i) == [x \in A |-> IF x \in b..(b + i - 1) THEN c ELSE m[x]]
           g == [i \in 0..n |-> Value(i)]
<1>1. memset_(m, b, c, n) = set[n]
  BY DEF memset_
<1>2. Value(0) = m
  BY DEF HasRoom
<1>3. ASSUME NEW i \in 1..n
      PROVE  Stores(Value(i - 1), i) = Value(i)
  <2> DEFINE v == Value(i - 1)
  <2>1. b + i - 1 \in A /\ v = [x \in A |-> v[x]]
    BY DEF HasRoom
  <2>2. Stores(v, i) = [x \in A |-> IF x = b + i - 1 THEN c ELSE v[x]]
    <3> HIDE DEF v
    <3> QED
      BY <2>1
  <2>3. ASSUME NEW x \in A
        PROVE  (IF x = b + i - 1 THEN c ELSE v[x]) = Value(i)[x]
    <3>1. CASE x = b + i - 1
      BY <3>1 DEF HasRoom
    <3>2. CASE x # b + i - 1
      BY <3>2 DEF HasRoom
    <3> QED
      BY <3>1, <3>2
  <2>4. Value(i) = [x \in A |-> Value(i)[x]]
    OBVIOUS
  <2> HIDE DEF v, Value, Stores
  <2>5. Stores(v, i) = Value(i)
    BY <2>2, <2>3, <2>4
  <2> QED
    BY <2>5 DEF v
<1> HIDE DEF Value, Stores
<1>4. g[0] = m /\ \A i \in 1..n : g[i] = Stores(g[i - 1], i)
  BY <1>2, <1>3
<1>5. g[n] = Value(n) /\ g = [i \in 0..n |-> g[i]]
  OBVIOUS
<1> HIDE DEF g
<1>6. Loop(g)
  <2>1. \A i \in 0..n : g[i] = IF i = 0 THEN m ELSE Stores(g[i - 1], i)
    BY <1>4
  <2> QED
    BY <1>5, <2>1
<1>7. Loop(set)
  <2> HIDE DEF Loop
  <2> QED
    BY <1>6
<1> HIDE DEF set
<1>8. set[0] = m /\ \A i \in 1..n : set[i] = Stores(set[i - 1], i)
  BY <1>7
<1>9. set[n] = g[n]
  BY <1>4, <1>8, SameLoop
<1> QED
  BY <1>1, <1>5, <1>9 DEF Value, Filled

\* The loops of memchr_ and memcmp_ stop at the first place in Stop.
LEMMA PassedFirst ==
  ASSUME NEW n \in Nat, NEW Stop
  PROVE  /\ Passed(n, Stop) \in 0..n
         /\ Passed(n, Stop) = n \/ Passed(n, Stop) \in Stop
         /\ \A j \in 0..(Passed(n, Stop) - 1) : j \notin Stop
<1> DEFINE Ends(k) == (k = n \/ k \in Stop) /\ \A j \in 0..(k - 1) : j \notin Stop
           T == {k \in 0..n : k = n \/ k \in Stop}
<1>1. T \subseteq Nat /\ n \in T
  OBVIOUS
<1>2. PICK k \in T : \A j \in T : k <= j
  <2> HIDE DEF T
  <2> QED
    BY <1>1, LeastNatural
<1>3. ASSUME NEW j \in 0..(k - 1), j \in Stop
      PROVE  FALSE
  <2>1. j \in T /\ ~(k <= j)
    BY <1>3
  <2> QED
    BY <1>2, <2>1
<1>4. k \in 0..n /\ Ends(k)
  BY <1>3
<1>5. Passed(n, Stop) = CHOOSE x \in 0..n : Ends(x)
  BY DEF Passed
<1>6. Passed(n, Stop) \in 0..n /\ Ends(Passed(n, Stop))
  <2> HIDE DEF Ends
  <2> QED
    BY <1>4, <1>5
<1> QED
  BY <1>6

\* n bytes are before the first NUL, which is not above top.
IsStrlen(n, m, s, top) == /\ n \in 0..(top - s)
                          /\ m[s + n] = 0
                          /\ \A k \in 0..(n - 1) : m[s + k] # 0

\* strlen_ counts the bytes before the first NUL.
LEMMA StrlenFirst ==
  ASSUME NEW m, NEW top \in Nat, top = Top(m), NEW s \in 1..top,
         NEW z \in s..top, m[z] = 0
  PROVE  IsStrlen(strlen_(m, s), m, s, top)
<1> DEFINE Ends(n) == m[s + n] = 0 /\ \A k \in 0..(n - 1) : m[s + k] # 0
           T == {n \in 0..(top - s) : m[s + n] = 0}
<1>1. T \subseteq Nat /\ z - s \in T
  <2>1. s + (z - s) = z
    OBVIOUS
  <2> QED
    BY <2>1
<1>2. PICK n \in T : \A j \in T : n <= j
  <2> HIDE DEF T
  <2> QED
    BY <1>1, LeastNatural
<1>3. ASSUME NEW k \in 0..(n - 1), m[s + k] = 0
      PROVE  FALSE
  <2>1. k \in T /\ ~(n <= k)
    BY <1>3
  <2> QED
    BY <1>2, <2>1
<1>4. n \in 0..(top - s) /\ Ends(n)
  BY <1>3
<1>5. strlen_(m, s) = CHOOSE x \in 0..(top - s) : Ends(x)
  BY DEF strlen_
<1>6. strlen_(m, s) \in 0..(top - s) /\ Ends(strlen_(m, s))
  <2> HIDE DEF Ends
  <2> QED
    BY <1>4, <1>5
<1> QED
  BY <1>6 DEF IsStrlen

\* x is the last place before e that holds c, or 0 if there is none.
IsLast(x, m, s, e, c) ==
  LET Found == {y \in s..(e - 1) : m[y] = c}
  IN  IF Found = {} THEN x = 0 ELSE x \in Found /\ \A y \in Found : y <= x

\* strrchr_ finds the last c in the string.
LEMMA StrrchrLast ==
  ASSUME NEW m, NEW s \in Nat, NEW c, strlen_(m, s) \in Nat
  PROVE  IsLast(strrchr_(m, s, c), m, s, s + strlen_(m, s), c)
<1> DEFINE n == strlen_(m, s)
           Turns(v, k) == IF m[s + k - 1] = c THEN s + k - 1 ELSE v
           F == [k \in 1..n |-> [v \in Nat |-> Turns(v, k)]]
           Loop(x) == x = [k \in 0..n |-> IF k = 0 THEN 0 ELSE Turns(x[k - 1], k)]
           last == CHOOSE x : Loop(x)
<1>1. strrchr_(m, s, c) = last[n]
  BY DEF strrchr_
<1>2. n \in Nat
  OBVIOUS
<1> HIDE DEF n
<1>3. \A k \in 1..n, v \in Nat : Turns(v, k) \in Nat
  BY <1>2
<1>4. PICK g : IsLoop(g, n, Nat, 0, F)
  <2>1. F \in [1..n -> [Nat -> Nat]]
    BY <1>2, <1>3
  <2> HIDE DEF F
  <2> QED
    BY <1>2, <2>1, LoopDefined
<1> HIDE DEF Turns
<1>5. g \in [0..n -> Nat] /\ g[0] = 0 /\ \A k \in 1..n : g[k] = Turns(g[k - 1], k)
  <2>1. g \in [0..n -> Nat] /\ g[0] = 0 /\ \A k \in 1..n : g[k] = F[k][g[k - 1]]
    <3> HIDE DEF F
    <3> QED
      BY <1>4 DEF IsLoop
  <2>2. ASSUME NEW k \in 1..n
        PROVE  F[k][g[k - 1]] = Turns(g[k - 1], k)
    <3>1. g[k - 1] \in Nat
      BY <1>2, <2>1
    <3> QED
      BY <3>1
  <2> HIDE DEF F
  <2> QED
    BY <2>1, <2>2
<1>6. Loop(g)
  <2>1. \A k \in 0..n : g[k] = IF k = 0 THEN 0 ELSE Turns(g[k - 1], k)
    BY <1>2, <1>5
  <2>2. g = [k \in 0..n |-> g[k]]
    BY <1>5
  <2> QED
    BY <2>1, <2>2
<1>7. Loop(last)
  <2> HIDE DEF Loop
  <2> QED
    BY <1>6
<1> HIDE DEF last
<1>8. last[0] = 0 /\ \A k \in 1..n : last[k] = Turns(last[k - 1], k)
  BY <1>2, <1>7
<1>9. last[n] = g[n]
  <2>1. last[0] = g[0] /\ \A k \in 1..n : last[k - 1] = g[k - 1] => last[k] = g[k]
    BY <1>5, <1>8
  <2> QED
    BY ONLY <1>2, <2>1, SameLoop
<1> DEFINE T == {k \in Nat : k <= n => IsLast(g[k], m, s, s + k, c)}
<1>10. 0 \in T
  <2>1. {y \in s..(s + 0 - 1) : m[y] = c} = {}
    OBVIOUS
  <2> QED
    BY <1>5, <2>1 DEF IsLast
<1>11. ASSUME NEW k \in Nat, k \in T
       PROVE  k + 1 \in T
  <2> SUFFICES ASSUME k + 1 <= n PROVE IsLast(g[k + 1], m, s, s + (k + 1), c)
    OBVIOUS
  <2> DEFINE Old == {y \in s..(s + k - 1) : m[y] = c}
             New == {y \in s..(s + (k + 1) - 1) : m[y] = c}
  <2>1. IsLast(g[k], m, s, s + k, c)
    BY <1>2, <1>11
  <2>2. g[k + 1] = IF m[s + k] = c THEN s + k ELSE g[k]
    <3>1. k + 1 \in 1..n /\ (k + 1) - 1 = k /\ s + (k + 1) - 1 = s + k
      BY <1>2
    <3>2. g[k + 1] = Turns(g[k], k + 1)
      BY <1>5, <3>1
    <3> QED
      BY <3>1, <3>2 DEF Turns
  <2>3. CASE m[s + k] = c
    <3>1. s + k \in New /\ \A y \in New : y <= s + k
      BY <2>3
    <3> QED
      BY <2>2, <2>3, <3>1 DEF IsLast
  <2>4. CASE m[s + k] # c
    <3>1. \A y \in s..(s + (k + 1) - 1) : y = s + k \/ y \in s..(s + k - 1)
      OBVIOUS
    <3>2. \A y \in s..(s + k - 1) : y \in s..(s + (k + 1) - 1)
      OBVIOUS
    <3>3. New = Old
      BY <2>4, <3>1, <3>2
    <3> QED
      BY <2>1, <2>2, <2>4, <3>3 DEF IsLast
  <2> QED
    BY <2>3, <2>4
<1>12. n \in T
  <2> HIDE DEF T
  <2> QED
    BY <1>2, <1>10, <1>11, NatSetInduction
<1>13. IsLast(last[n], m, s, s + n, c)
  BY <1>2, <1>9, <1>12
<1> QED
  BY <1>1, <1>13 DEF n

=============================================================================
