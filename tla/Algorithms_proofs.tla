------------------------- MODULE Algorithms_proofs --------------------------
(***************************************************************************)
(* Theorems about the memory functions, qsort_ and strtoull_ of util.c and *)
(* about the console, for every memory, array, number and message and all  *)
(* arguments that Algorithms allows.                                       *)
(***************************************************************************)
EXTENDS Algorithms, Util_proofs, SequenceTheorems

-----------------------------------------------------------------------------
(***************************************************************************)
(* qsort_                                                                  *)
(***************************************************************************)

\* The comparison of keys that Qsort passes.
ByKey(E) == [p \in E \X E |-> p[1].key - p[2].key]

Keyed == [key : Int, from : Nat]

\* What SortsStable says, of an array of keys and a result.
StableSort(keys, r) ==
  /\ Len(r) = Len(keys)
  /\ {r[i].from : i \in DOMAIN r} = DOMAIN keys
  /\ \A i \in DOMAIN r : r[i].key = keys[r[i].from]
  /\ \A i, j \in DOMAIN r : i < j =>
       \/ r[i].key < r[j].key
       \/ r[i].key = r[j].key /\ r[i].from < r[j].from

LEMMA AboveByKey ==
  ASSUME NEW E, E \subseteq Keyed, NEW x \in E, NEW y \in E
  PROVE  Above(ByKey(E), x, y) <=> x.key > y.key
<1>1. x.key \in Int /\ y.key \in Int
  BY DEF Keyed
<1>2. ByKey(E)[<<x, y>>] = x.key - y.key
  BY DEF ByKey
<1> QED
  BY <1>1, <1>2 DEF Above

LEMMA ByKeyCompares ==
  ASSUME NEW E, E \subseteq Keyed
  PROVE  Compares(E, ByKey(E))
<1>1. \A x \in E : x.key \in Int
  BY DEF Keyed
<1>2. ASSUME NEW x \in E, NEW y \in E, Above(ByKey(E), x, y)
      PROVE  ~Above(ByKey(E), y, x)
  <2>1. x.key > y.key
    BY <1>2, AboveByKey
  <2>2. ~(y.key > x.key)
    BY <1>1, <2>1
  <2> QED
    BY <2>2, AboveByKey
<1>3. ASSUME NEW x \in E, NEW y \in E, NEW z \in E, Above(ByKey(E), x, z)
      PROVE  Above(ByKey(E), x, y) \/ Above(ByKey(E), y, z)
  <2>1. x.key > z.key
    BY <1>3, AboveByKey
  <2>2. x.key > y.key \/ y.key > z.key
    BY <1>1, <2>1
  <2> QED
    BY <2>2, AboveByKey
<1> QED
  BY <1>2, <1>3 DEF Compares

LEMMA QsortStable ==
  ASSUME NEW keys \in Seq(Int), keys # <<>>
  PROVE  LET arr == Elements(keys)
             E   == {arr[i] : i \in DOMAIN arr}
         IN  StableSort(keys, qsort_(arr, ByKey(E)))
<1> DEFINE arr == Elements(keys)
           E == {arr[i] : i \in DOMAIN arr}
           N == Len(keys)
           compar == ByKey(E)
           r == qsort_(arr, compar)
<1>1. N \in Nat \ {0} /\ DOMAIN keys = 1..N
  OBVIOUS
<1>2. /\ DOMAIN arr = 1..N
      /\ \A i \in 1..N : arr[i].key = keys[i] /\ arr[i].from = i
      /\ \A i \in 1..N : arr[i] \in Keyed
  BY <1>1 DEF Elements, Keyed
<1>3. arr = [i \in 1..N |-> arr[i]]
  BY <1>1 DEF Elements
<1> HIDE DEF arr, N
<1>4. E \subseteq Keyed
  BY <1>2
<1>5. /\ \A i \in 1..N : arr[i] \in E
      /\ arr \in Seq(E) /\ Len(arr) = N /\ arr # <<>>
  <2>1. \A i \in 1..N : arr[i] \in E
    BY <1>2
  <2> HIDE DEF E
  <2>2. arr \in [1..N -> E]
    BY <1>3, <2>1
  <2>3. arr \in Seq(E)
    BY <1>1, <2>2, SeqDef
  <2>4. Len(arr) = N
    BY <1>1, <1>2, <2>3
  <2> QED
    BY <1>1, <2>1, <2>3, <2>4
<1>6. Compares(E, compar)
  BY <1>4, ByKeyCompares
<1> HIDE DEF E, compar
<1>7. r \in [1..N -> E]
  BY <1>5, SortType
<1>8. PICK f : Arranged(N, arr, r, f, compar)
  BY <1>5, <1>6, SortWhole
<1>9. SortedFrom(r, N, 1, compar)
  BY <1>5, <1>6, SortWhole
<1> HIDE DEF r
<1>10. DOMAIN r = 1..N /\ Len(r) = N
  <2>1. r \in Seq(E)
    BY <1>1, <1>7, SeqDef
  <2> QED
    BY <1>1, <1>7, <2>1
<1>11. ASSUME NEW i \in 1..N
       PROVE  f[i] \in 1..N /\ r[i] = arr[f[i]]
  BY <1>8 DEF Arranged
<1>12. ASSUME NEW i \in 1..N
       PROVE  r[i].from = f[i] /\ r[i].key = keys[f[i]]
  BY <1>2, <1>11
<1>13. {r[i].from : i \in 1..N} = 1..N
  <2>1. \A k \in 1..N : \E i \in 1..N : f[i] = k
    BY <1>8 DEF Arranged
  <2>2. ASSUME NEW k \in 1..N
        PROVE  k \in {r[i].from : i \in 1..N}
    <3>1. PICK i \in 1..N : f[i] = k
      BY <2>1
    <3>2. r[i].from = k
      BY <1>12, <3>1
    <3> QED
      BY <3>2
  <2>3. \A i \in 1..N : r[i].from \in 1..N
    BY <1>11, <1>12
  <2> QED
    BY <2>2, <2>3
<1>14. ASSUME NEW i \in 1..N, NEW j \in 1..N, i < j
       PROVE  \/ r[i].key < r[j].key
              \/ r[i].key = r[j].key /\ r[i].from < r[j].from
  <2>1. r[i] \in E /\ r[j] \in E
    BY <1>7
  <2>2. r[i].key \in Int /\ r[j].key \in Int
    BY <1>4, <2>1 DEF Keyed
  <2>3. ~(r[i].key > r[j].key)
    <3>1. j \in (1 + 1)..N /\ i \in 1..(j - 1)
      BY <1>1, <1>14
    <3>2. ~Above(compar, r[i], r[j])
      BY <1>9, <3>1 DEF SortedFrom
    <3> QED
      BY <1>4, <2>1, <3>2, AboveByKey DEF compar
  <2>4. ASSUME f[j] < f[i]
        PROVE  r[j].key > r[i].key
    <3>1. Above(compar, arr[f[j]], arr[f[i]])
      BY <1>8, <1>14, <2>4 DEF Arranged
    <3>2. Above(compar, r[j], r[i])
      BY <1>11, <3>1
    <3> QED
      BY <1>4, <2>1, <3>2, AboveByKey DEF compar
  <2>5. f[i] # f[j]
    BY <1>8, <1>14 DEF Arranged
  <2>6. f[i] \in Int /\ f[j] \in Int
    BY <1>11
  <2>7. r[i].from = f[i] /\ r[j].from = f[j]
    BY <1>12
  <2> QED
    BY <2>2, <2>3, <2>4, <2>5, <2>6, <2>7
<1>15. StableSort(keys, r)
  BY <1>1, <1>10, <1>12, <1>13, <1>14 DEF StableSort, N
<1> QED
  BY <1>15 DEF r, compar, E, arr

-----------------------------------------------------------------------------
(***************************************************************************)
(* The memory functions.                                                   *)
(***************************************************************************)

LEMMA TopIsLen ==
  ASSUME NEW m \in Seq(Nat), m # <<>>
  PROVE  Top(m) = Len(m) /\ DOMAIN m = 1..Len(m) /\ Len(m) \in Nat \ {0}
<1>1. Len(m) \in Nat \ {0} /\ DOMAIN m = 1..Len(m)
  OBVIOUS
<1>2. PICK n \in Nat \ {0} : n = Len(m)
  BY <1>1
<1>3. (CHOOSE x \in 1..n : \A y \in 1..n : y <= x) = n
  <2>1. n \in 1..n /\ \A y \in 1..n : y <= n
    OBVIOUS
  <2>2. ASSUME NEW x \in 1..n, \A y \in 1..n : y <= x
        PROVE  x = n
    BY <2>1, <2>2
  <2> QED
    BY <2>1, <2>2
<1> QED
  BY <1>1, <1>2, <1>3 DEF Top

\* What MemoryAsC says of memmove_, memset_, memcmp_ and memchr_.
MemResult(m, d, s, n) == [move |-> memmove_(m, d, s, n),
                          set  |-> memset_(m, d, 7, n),
                          cmp  |-> memcmp_(m, d, s, n),
                          chr  |-> memchr_(m, s, m[d], n)]

Alike(m, d, s, k) == \A i \in 0..(k - 1) : m[d + i] = m[s + i]

LEMMA MovedAndSet ==
  ASSUME NEW m \in Seq(Nat), m # <<>>, NEW d \in DOMAIN m, NEW s \in DOMAIN m,
         NEW n \in 0..Top(m), d + n <= Top(m) + 1, s + n <= Top(m) + 1
  PROVE  /\ memmove_(m, d, s, n) =
              [x \in DOMAIN m |-> IF x \in d..(d + n - 1) THEN m[s + x - d]
                                  ELSE m[x]]
         /\ memset_(m, d, 7, n) =
              [x \in DOMAIN m |-> IF x \in d..(d + n - 1) THEN 7 ELSE m[x]]
<1>1. PICK N \in Nat : N = Top(m) /\ DOMAIN m = 1..N
  BY TopIsLen
<1>2. m \in [1..N -> Nat] /\ 1..N \in SUBSET Int
  <2>1. \A i \in 1..N : m[i] \in Nat
    BY <1>1, TopIsLen
  <2>2. m = [i \in 1..N |-> m[i]]
    BY <1>1
  <2> QED
    BY <2>1, <2>2
<1>3. /\ d \in Int /\ s \in Int /\ n \in Nat
      /\ d..(d + n - 1) \subseteq 1..N /\ s..(s + n - 1) \subseteq 1..N
  <2>1. /\ d \in 1..N /\ s \in 1..N /\ n \in 0..N
        /\ d + n <= N + 1 /\ s + n <= N + 1 /\ N \in Nat
    BY <1>1
  <2>2. d \in Int /\ s \in Int /\ n \in Nat
    BY ONLY <2>1
  <2>3. \A x \in d..(d + n - 1) : x \in 1..N
    BY ONLY <2>1, <2>2
  <2>4. \A x \in s..(s + n - 1) : x \in 1..N
    BY ONLY <2>1, <2>2
  <2> QED
    BY ONLY <2>2, <2>3, <2>4
<1>4. memmove_(m, d, s, n) = Moved(1..N, m, d, s, n)
  BY <1>2, <1>3, MoveWhole
<1>5. memset_(m, d, 7, n) = Filled(1..N, m, d, 7, n)
  <2>1. HasRoom(1..N, m, d, n)
    BY <1>2, <1>3 DEF HasRoom
  <2> QED
    BY <1>3, <2>1, SetWhole
<1> QED
  BY <1>1, <1>4, <1>5 DEF Moved, Filled

LEMMA ComparedInOrder ==
  ASSUME NEW m \in Seq(Nat), m # <<>>, NEW d \in DOMAIN m, NEW s \in DOMAIN m,
         NEW n \in 0..Top(m), d + n <= Top(m) + 1, s + n <= Top(m) + 1
  PROVE  /\ memcmp_(m, d, s, n) = 0 <=> Alike(m, d, s, n)
         /\ memcmp_(m, d, s, n) < 0 <=>
              \E k \in 0..(n - 1) : Alike(m, d, s, k) /\ m[d + k] < m[s + k]
<1>1. PICK N \in Nat : N = Top(m) /\ DOMAIN m = 1..N
  BY TopIsLen
<1>2. \A i \in 1..N : m[i] \in Nat
  BY <1>1, TopIsLen
<1>3. d \in 1..N /\ s \in 1..N /\ n \in 0..N /\ d + n <= N + 1 /\ s + n <= N + 1
  BY <1>1
<1>4. \A j \in 0..(n - 1) : m[d + j] \in Nat /\ m[s + j] \in Nat
  <2>1. \A j \in 0..(n - 1) : d + j \in 1..N /\ s + j \in 1..N
    BY <1>3
  <2> QED
    BY <1>2, <2>1
<1> DEFINE Stop == {i \in 0..(n - 1) : m[d + i] # m[s + i]}
           k == Passed(n, Stop)
<1>5. /\ k \in 0..n
      /\ k = n \/ k \in Stop
      /\ \A j \in 0..(k - 1) : j \notin Stop
  <2>1. n \in Nat
    BY <1>3
  <2> HIDE DEF Stop
  <2> QED
    BY <2>1, PassedFirst
<1>6. memcmp_(m, d, s, n) =
        IF k = n THEN 0 ELSE IF m[d + k] < m[s + k] THEN -1 ELSE 1
  BY DEF memcmp_
<1> HIDE DEF k
<1>7. Alike(m, d, s, k)
  BY <1>3, <1>5 DEF Alike
<1>8. CASE k = n
  <2>1. memcmp_(m, d, s, n) = 0
    BY <1>6, <1>8
  <2>2. ASSUME NEW j \in 0..(n - 1)
        PROVE  ~(m[d + j] < m[s + j])
    <3>1. m[d + j] = m[s + j] /\ m[d + j] \in Nat
      BY <1>4, <1>7, <1>8 DEF Alike
    <3> QED
      BY <3>1
  <2> QED
    BY <1>7, <1>8, <2>1, <2>2
<1>9. CASE k # n
  <2>1. k \in 0..(n - 1) /\ m[d + k] # m[s + k]
    BY <1>3, <1>5, <1>9
  <2>2. m[d + k] \in Nat /\ m[s + k] \in Nat
    BY <1>4, <2>1
  <2>3. ~Alike(m, d, s, n)
    BY <2>1 DEF Alike
  <2>4. ASSUME NEW j \in 0..(n - 1), Alike(m, d, s, j), m[d + j] < m[s + j]
        PROVE  m[d + k] < m[s + k]
    <3>1. CASE j < k
      <4>1. j \in 0..(k - 1)
        BY <1>3, <2>1, <3>1
      <4>2. m[d + j] = m[s + j]
        BY <1>7, <4>1 DEF Alike
      <4>3. m[d + j] \in Nat
        BY <1>4
      <4> QED
        BY <2>4, <4>2, <4>3
    <3>2. CASE k < j
      BY <2>1, <2>4, <3>2 DEF Alike
    <3>3. CASE j = k
      BY <2>4, <3>3
    <3> QED
      BY <1>3, <2>1, <3>1, <3>2, <3>3
  <2>5. memcmp_(m, d, s, n) = IF m[d + k] < m[s + k] THEN -1 ELSE 1
    BY <1>6, <1>9
  <2>6. memcmp_(m, d, s, n) # 0
    BY <2>5
  <2>7. memcmp_(m, d, s, n) < 0 <=> m[d + k] < m[s + k]
    BY <2>5
  <2> QED
    BY <1>7, <2>1, <2>3, <2>4, <2>6, <2>7
<1> QED
  BY <1>8, <1>9

\* x is the first place before e that holds c, or 0 if there is none.
IsFirst(x, m, s, e, c) ==
  LET Found == {y \in s..(e - 1) : m[y] = c}
  IN  IF Found = {} THEN x = 0 ELSE x \in Found /\ \A y \in Found : x <= y

LEMMA FoundFirst ==
  ASSUME NEW m \in Seq(Nat), m # <<>>, NEW s \in DOMAIN m, NEW c,
         NEW n \in 0..Top(m)
  PROVE  IsFirst(memchr_(m, s, c, n), m, s, s + n, c)
<1> DEFINE Found == {x \in s..(s + n - 1) : m[x] = c}
           Stop == {i \in 0..(n - 1) : m[s + i] = c}
           k == Passed(n, Stop)
           chr == memchr_(m, s, c, n)
<1>1. n \in Nat /\ s \in Nat \ {0}
  BY TopIsLen
<1>2. /\ k \in 0..n
      /\ k = n \/ k \in Stop
      /\ \A j \in 0..(k - 1) : j \notin Stop
  <2> HIDE DEF Stop
  <2> QED
    BY <1>1, PassedFirst
<1>3. chr = IF k = n THEN 0 ELSE s + k
  BY DEF memchr_
<1> HIDE DEF k, chr
<1>4. ASSUME NEW x \in Found
      PROVE  x - s \in 0..(n - 1) /\ x - s \in Stop /\ k <= x - s
  <2>1. x - s \in 0..(n - 1) /\ s + (x - s) = x
    BY <1>1
  <2>2. x - s \in Stop
    BY <2>1
  <2>3. ~(x - s \in 0..(k - 1))
    BY <1>2, <2>2
  <2> QED
    BY <1>1, <1>2, <2>1, <2>2, <2>3
<1>5. CASE k = n
  <2>1. Found = {}
    BY <1>1, <1>4, <1>5
  <2> QED
    BY <1>3, <1>5, <2>1 DEF chr, IsFirst
<1>6. CASE k # n
  <2>1. s + k \in Found
    BY <1>1, <1>2, <1>6
  <2>2. \A x \in Found : s + k <= x
    BY <1>1, <1>2, <1>4
  <2>3. chr = s + k
    BY <1>3, <1>6
  <2> QED
    BY <2>1, <2>2, <2>3 DEF chr, IsFirst
<1> QED
  BY <1>5, <1>6
\* What MemoryAsC says of strlen_, strcpy_ and strrchr_: len, cpy and rchr are
\* what they return.
StrAsC(m, d, s, c, len, cpy, rchr) ==
  LET text == s..(s + len - 1)
      Found == {x \in text : m[x] = c}
  IN  /\ m[s + len] = 0
      /\ \A x \in text : m[x] # 0
      /\ cpy = [x \in DOMAIN m |->
                  IF x \in d..(d + len) THEN m[s + x - d] ELSE m[x]]
      /\ IF Found = {} THEN rchr = 0
         ELSE rchr \in Found /\ \A x \in Found : x <= rchr

LEMMA StringsStopAtNul ==
  ASSUME NEW m \in Seq(Nat), m # <<>>, NEW d \in DOMAIN m, NEW s \in DOMAIN m,
         NEW c, \E i \in s..Top(m) : m[i] = 0, d + strlen_(m, s) < s
  PROVE  StrAsC(m, d, s, c, strlen_(m, s), strcpy_(m, d, s), strrchr_(m, s, c))
<1> DEFINE len == strlen_(m, s)
<1>1. PICK N \in Nat : N = Top(m) /\ DOMAIN m = 1..N
  BY TopIsLen
<1>2. /\ len \in 0..(N - s)
      /\ m[s + len] = 0
      /\ \A k \in 0..(len - 1) : m[s + k] # 0
  <2>1. PICK z \in s..N : m[z] = 0
    BY <1>1
  <2>2. IsStrlen(len, m, s, N)
    BY <1>1, <2>1, StrlenFirst
  <2> QED
    BY <2>2 DEF IsStrlen
<1>3. IsLast(strrchr_(m, s, c), m, s, s + len, c)
  <2>1. s \in Nat /\ strlen_(m, s) \in Nat
    BY <1>1, <1>2
  <2> QED
    BY <2>1, StrrchrLast
<1>4. strcpy_(m, d, s) = memcpy_(m, d, s, len + 1) /\ d + len < s
  BY DEF strcpy_
<1> HIDE DEF len
<1>5. s \in 1..N /\ d \in 1..N /\ len \in Nat /\ s + len <= N
  BY <1>1, <1>2
<1>6. ASSUME NEW x \in s..(s + len - 1)
      PROVE  m[x] # 0
  <2>1. x - s \in 0..(len - 1) /\ s + (x - s) = x
    <3>1. x \in s..(s + len - 1) /\ s \in Nat /\ len \in Nat
      BY <1>5
    <3> QED
      BY ONLY <3>1
  <2> QED
    BY <1>2, <2>1
<1>7. memcpy_(m, d, s, len + 1) = Moved(1..N, m, d, s, len + 1)
  <2>1. m \in [1..N -> Nat] /\ 1..N \in SUBSET Int
    <3>1. \A i \in 1..N : m[i] \in Nat
      BY <1>1, TopIsLen
    <3>2. m = [i \in 1..N |-> m[i]]
      BY <1>1
    <3> QED
      BY <3>1, <3>2
  <2> DEFINE n == len + 1
  <2>2. /\ d \in Int /\ s \in Int /\ n \in Nat /\ d <= s
        /\ 1 <= d /\ 1 <= s /\ d + n - 1 <= N /\ s + n - 1 <= N
    BY <1>4, <1>5
  <2> HIDE DEF n
  <2>3. /\ \A x \in d..(d + n - 1) : x \in 1..N
        /\ \A x \in s..(s + n - 1) : x \in 1..N
    BY ONLY <1>1, <2>2, N \in Nat
  <2>4. PICK A : A = 1..N
    OBVIOUS
  <2>5. /\ A \in SUBSET Int /\ m \in [A -> Nat]
        /\ s..(s + n - 1) \subseteq A /\ d..(d + n - 1) \subseteq A
    BY ONLY <2>1, <2>3, <2>4
  <2>6. memcpy_(m, d, s, n) = Moved(A, m, d, s, n)
    BY ONLY <2>2, <2>5, CopyWhole
  <2> QED
    BY <2>4, <2>6 DEF n
<1>8. d + (len + 1) - 1 = d + len
  BY <1>5
<1>9. PICK rchr, l : rchr = strrchr_(m, s, c) /\ l = len
  OBVIOUS
<1>10. LET Found == {x \in s..(s + l - 1) : m[x] = c}
       IN  IF Found = {} THEN rchr = 0
           ELSE rchr \in Found /\ \A x \in Found : x <= rchr
  <2>1. IsLast(rchr, m, s, s + l, c)
    BY <1>3, <1>9
  <2>2. l \in Nat /\ s \in Nat
    BY <1>1, <1>5, <1>9
  <2> QED
    BY ONLY <2>1, <2>2 DEF IsLast
<1>11. strcpy_(m, d, s) =
         [x \in DOMAIN m |-> IF x \in d..(d + l) THEN m[s + x - d] ELSE m[x]]
  BY <1>1, <1>4, <1>7, <1>8, <1>9 DEF Moved
<1>12. m[s + l] = 0 /\ \A x \in s..(s + l - 1) : m[x] # 0
  BY <1>2, <1>6, <1>9
<1>13. StrAsC(m, d, s, c, l, strcpy_(m, d, s), rchr)
  BY <1>10, <1>11, <1>12 DEF StrAsC
<1> QED
  BY <1>9, <1>13 DEF len

-----------------------------------------------------------------------------
(***************************************************************************)
(* strtoull_.  The exact value of the digits, built from the first one on  *)
(* (IsHorner), is the sum of the weighted digits, and modulo ULLMod it is  *)
(* what the digit loop accumulates; the loop's digits are those of the     *)
(* text, except for a leading zero that was looked at as a prefix.         *)
(***************************************************************************)

\* Modulo M, adding a multiple of M does not matter.
LEMMA DivisionUnique ==
  ASSUME NEW M \in Nat \ {0}, NEW q \in Int, NEW r \in 0..(M - 1),
         NEW p \in Int, NEW s \in 0..(M - 1), M * q + r = M * p + s
  PROVE  r = s
<1>1. CASE q = p
  BY <1>1
<1>2. CASE q > p
  <2>1. M * (q - p) = M * q - M * p
    OBVIOUS
  <2>2. M * (q - p) >= M
    <3>1. q - p \in Nat \ {0}
      BY <1>2
    <3> QED
      BY <3>1
  <2> QED
    BY <2>1, <2>2
<1>3. CASE q < p
  <2>1. M * (p - q) = M * p - M * q
    OBVIOUS
  <2>2. M * (p - q) >= M
    <3>1. p - q \in Nat \ {0}
      BY <1>3
    <3> QED
      BY <3>1
  <2> QED
    BY <2>1, <2>2
<1> QED
  BY <1>1, <1>2, <1>3

LEMMA Divided ==
  ASSUME NEW M \in Nat \ {0}, NEW a \in Int
  PROVE  a % M \in 0..(M - 1) /\ \E q \in Int : a = M * q + (a % M)
<1> DEFINE q == a \div M
           m == M * q
           u == a % M
<1>1. u \in 0..(M - 1) /\ q \in Int
  OBVIOUS
<1>2. u = a - m
  OBVIOUS
<1>3. m \in Int /\ u \in Int
  BY <1>1
<1> HIDE DEF q, u
<1>4. a = m + u
  <2> HIDE DEF m
  <2> QED
    BY <1>2, <1>3
<1>5. \E n \in Int : a = M * n + u
  BY <1>1, <1>4
<1> QED
  BY <1>1, <1>5, Zenon DEF u

LEMMA ProductSum ==
  ASSUME NEW M \in Int, NEW q \in Int, NEW a \in Int, NEW r \in Int, NEW d \in Int,
         NEW h \in Int, h = M * q + a
  PROVE  h * r + d = M * (q * r) + (a * r + d)
OBVIOUS

LEMMA MultiplesSum ==
  ASSUME NEW M \in Int, NEW x \in Int, NEW p \in Int, NEW u \in Int, NEW b \in Int,
         b = M * p + u
  PROVE  M * x + b = M * (x + p) + u
<1>1. M * (x + p) = M * x + M * p
  OBVIOUS
<1>2. M * x \in Int /\ M * p \in Int
  OBVIOUS
<1> QED
  BY <1>1, <1>2

LEMMA RemainderIs ==
  ASSUME NEW M \in Nat \ {0}, NEW n \in Int, NEW x \in Int, NEW u \in 0..(M - 1),
         n = M * x + u
  PROVE  n % M = u
<1> DEFINE v == n % M
<1>1. v \in 0..(M - 1)
  BY Divided
<1>2. PICK s \in Int : n = M * s + v
  BY Divided
<1> HIDE DEF v
<1>3. M * x + u = M * s + v
  BY <1>2
<1>4. u = v
  BY <1>1, <1>3, DivisionUnique
<1> QED
  BY <1>4 DEF v

\* A digit may be added to the remainder instead of the number.
LEMMA DigitModulo ==
  ASSUME NEW M \in Nat \ {0}, NEW h \in Int, NEW r \in Int, NEW d \in Int
  PROVE  ((h % M) * r + d) % M = (h * r + d) % M
<1> DEFINE a == h % M
           b == a * r + d
           c == h * r + d
           u == b % M
<1>1. a \in Int /\ b \in Int /\ c \in Int
  OBVIOUS
<1>2. PICK q \in Int : h = M * q + a
  BY Divided
<1> HIDE DEF a
<1>3. c = M * (q * r) + b
  BY <1>1, <1>2, ProductSum
<1> HIDE DEF b
<1>4. PICK p \in Int : b = M * p + u
  BY <1>1, Divided
<1>5. u \in 0..(M - 1) /\ u \in Int
  BY <1>1, Divided
<1> HIDE DEF c, u
<1>6. PICK y \in Int : y = q * r
  OBVIOUS
<1>7. c = M * y + b
  BY <1>3, <1>6
<1>8. c = M * (y + p) + u
  BY ONLY M \in Int, y \in Int, p \in Int, <1>1, <1>4, <1>5, <1>7, MultiplesSum
<1>9. c % M = u
  BY <1>1, <1>5, <1>8, RemainderIs
<1> QED
  BY <1>9 DEF a, b, c, u
\* Digit by digit, from the first one: the exact value.
IsHorner(h, k, r, d) ==
  /\ h \in [0..k -> Int] /\ h[0] = 0
  /\ \A i \in 1..k : h[i] = h[i - 1] * r + d[i]

LEMMA HornerDefined ==
  ASSUME NEW k \in Nat, NEW r \in Int, NEW d, \A i \in 1..k : d[i] \in Int
  PROVE  \E h : IsHorner(h, k, r, d)
<1> DEFINE F == [i \in 1..k |-> [v \in Int |-> v * r + d[i]]]
<1>1. F \in [1..k -> [Int -> Int]]
  OBVIOUS
<1>2. PICK h : IsLoop(h, k, Int, 0, F)
  <2>1. 0 \in Int
    OBVIOUS
  <2> HIDE DEF F
  <2> QED
    BY <1>1, <2>1, LoopDefined
<1>3. h \in [0..k -> Int] /\ h[0] = 0 /\ \A i \in 1..k : h[i] = F[i][h[i - 1]]
  <2> HIDE DEF F
  <2> QED
    BY <1>2 DEF IsLoop
<1>4. ASSUME NEW i \in 1..k
      PROVE  h[i] = h[i - 1] * r + d[i]
  <2>1. i - 1 \in 0..k
    OBVIOUS
  <2>2. h[i - 1] \in Int
    BY <1>3, <2>1
  <2>3. F[i][h[i - 1]] = h[i - 1] * r + d[i]
    BY <2>2
  <2> HIDE DEF F
  <2> QED
    BY <1>3, <2>3
<1> HIDE DEF F
<1> QED
  BY <1>3, <1>4 DEF IsHorner

\* The weights of the digits, from the last one.
IsWeight(w, k, r) ==
  /\ w \in [0..k -> Int] /\ w[0] = 1
  /\ \A i \in 1..k : w[i] = r * w[i - 1]

Weights(k, r) == CHOOSE w : w = [i \in 0..k |-> IF i = 0 THEN 1 ELSE r * w[i - 1]]

LEMMA WeightsDefined ==
  ASSUME NEW k \in Nat, NEW r \in Int
  PROVE  IsWeight(Weights(k, r), k, r)
<1> DEFINE F == [i \in 1..k |-> [v \in Int |-> r * v]]
           Body(w, i) == IF i = 0 THEN 1 ELSE r * w[i - 1]
           Loop(w) == w = [i \in 0..k |-> Body(w, i)]
<1>1. F \in [1..k -> [Int -> Int]]
  OBVIOUS
<1>2. PICK g : IsLoop(g, k, Int, 1, F)
  <2>1. 1 \in Int
    OBVIOUS
  <2> HIDE DEF F
  <2> QED
    BY <1>1, <2>1, LoopDefined
<1>3. g \in [0..k -> Int] /\ g[0] = 1 /\ \A i \in 1..k : g[i] = F[i][g[i - 1]]
  <2> HIDE DEF F
  <2> QED
    BY <1>2 DEF IsLoop
<1>4. ASSUME NEW i \in 0..k
      PROVE  g[i] = Body(g, i)
  <2>1. CASE i = 0
    BY <1>3, <2>1
  <2>2. CASE i # 0
    <3>1. i - 1 \in 0..k /\ i \in 1..k
      BY <2>2
    <3>2. g[i - 1] \in Int
      BY <1>3, <3>1
    <3>3. F[i][g[i - 1]] = r * g[i - 1]
      BY <3>1, <3>2
    <3> HIDE DEF F
    <3> QED
      BY <1>3, <2>2, <3>1, <3>3
  <2> QED
    BY <2>1, <2>2
<1> HIDE DEF F
<1>5. Loop(g)
  <2> HIDE DEF Body
  <2> QED
    BY <1>3, <1>4
<1> DEFINE W == CHOOSE w : Loop(w)
<1>6. Loop(W)
  <2> HIDE DEF Loop
  <2> QED
    BY <1>5
<1>7. W = Weights(k, r)
  BY DEF Weights
<1> HIDE DEF W
<1>8. DOMAIN W = 0..k /\ \A i \in 0..k : W[i] = Body(W, i)
  <2> HIDE DEF Body
  <2> QED
    BY <1>6
<1>9. W[0] = 1 /\ \A i \in 1..k : W[i] = r * W[i - 1]
  <2>1. 0 \in 0..k /\ \A i \in 1..k : i \in 0..k /\ i # 0
    OBVIOUS
  <2> QED
    BY <1>8, <2>1
<1>10. \A i \in 0..k : W[i] \in Int
  <2> DEFINE S == {i \in Nat : i <= k => W[i] \in Int}
  <2>1. 0 \in S
    BY <1>9
  <2>2. ASSUME NEW i \in Nat, i \in S
        PROVE  i + 1 \in S
    <3> SUFFICES ASSUME i + 1 <= k PROVE W[i + 1] \in Int
      OBVIOUS
    <3>1. W[i] \in Int /\ i + 1 \in 1..k /\ (i + 1) - 1 = i
      BY <2>2
    <3>2. W[i + 1] = r * W[i]
      BY <1>9, <3>1
    <3> QED
      BY <3>1, <3>2
  <2>3. Nat \subseteq S
    <3> HIDE DEF S
    <3> QED
      BY <2>1, <2>2, NatSetInduction
  <2> QED
    BY <2>3
<1>11. W \in [0..k -> Int]
  <2>1. W = [i \in 0..k |-> W[i]]
    <3> HIDE DEF Body
    <3> QED
      BY <1>6, <1>8
  <2> QED
    BY <1>10, <2>1
<1> QED
  BY <1>7, <1>9, <1>11 DEF IsWeight

LEMMA OneMoreDigit ==
  ASSUME NEW h \in Int, NEW w \in Int, NEW r \in Int, NEW d \in Int
  PROVE  h * (r * w) + d * w = (h * r + d) * w
OBVIOUS

\* The weighted digits add up to the value.
LEMMA SaidIsHorner ==
  ASSUME NEW x, NEW k, k = Len(x.digits), k \in Nat, NEW r, r = RadixOf(x), r \in Int,
         NEW h, IsHorner(h, k, r, x.digits), \A i \in 1..k : x.digits[i] \in Int
  PROVE  NumberSaid(x) = h[k]
<1> DEFINE W == Weights(k, r)
           Body(t, i) == IF i = 0 THEN 0 ELSE t[i - 1] + x.digits[i] * W[k - i]
           Loop(t) == t = [i \in 0..k |-> Body(t, i)]
           T == CHOOSE t : Loop(t)
           g == [i \in 0..k |-> h[i] * W[k - i]]
<1>1. NumberSaid(x) = T[k]
  BY DEF NumberSaid, Weights
<1>2. IsWeight(W, k, r)
  BY WeightsDefined
<1> HIDE DEF W
<1>3. ASSUME NEW i \in 0..k
      PROVE  h[i] \in Int /\ W[k - i] \in Int
  <2>1. h \in [0..k -> Int] /\ W \in [0..k -> Int]
    BY <1>2 DEF IsHorner, IsWeight
  <2>2. k - i \in 0..k
    OBVIOUS
  <2> QED
    BY <2>1, <2>2
<1>4. ASSUME NEW i \in 0..k
      PROVE  g[i] = Body(g, i)
  <2>1. CASE i = 0
    <3>1. h[0] = 0 /\ W[k - 0] \in Int /\ g[0] = h[0] * W[k - 0]
      BY <1>3 DEF IsHorner
    <3>2. g[0] = 0
      BY <3>1
    <3> QED
      BY <2>1, <3>2
  <2>2. CASE i # 0
    <3>1. /\ i \in 1..k /\ i - 1 \in 0..k /\ (k - i) + 1 = k - (i - 1)
          /\ (k - i) + 1 \in 1..k /\ ((k - i) + 1) - 1 = k - i
      BY <2>2
    <3>2. W[k - (i - 1)] = r * W[k - i]
      BY <1>2, <3>1 DEF IsWeight
    <3>3. h[i] = h[i - 1] * r + x.digits[i]
      BY <3>1 DEF IsHorner
    <3>4. h[i - 1] \in Int /\ W[k - i] \in Int /\ x.digits[i] \in Int
      BY <1>3, <3>1
    <3>5. g[i] = h[i] * W[k - i] /\ g[i - 1] = h[i - 1] * W[k - (i - 1)]
      BY <3>1
    <3> HIDE DEF g
    <3>6. h[i - 1] * (r * W[k - i]) + x.digits[i] * W[k - i]
            = (h[i - 1] * r + x.digits[i]) * W[k - i]
      BY <3>4, OneMoreDigit
    <3>7. g[i] = g[i - 1] + x.digits[i] * W[k - i]
      BY <3>2, <3>3, <3>5, <3>6, Zenon
    <3> QED
      BY <2>2, <3>7
  <2> QED
    BY <2>1, <2>2
<1>5. Loop(g)
  <2>1. g = [i \in 0..k |-> g[i]]
    OBVIOUS
  <2> HIDE DEF Body, g
  <2> QED
    BY <1>4, <2>1
<1>6. Loop(T)
  <2> HIDE DEF Loop
  <2> QED
    BY <1>5
<1>7. \A i \in 0..k : T[i] = Body(T, i)
  <2> HIDE DEF Body, T
  <2> QED
    BY <1>6
<1>8. T[0] = g[0] /\ \A i \in 1..k : T[i - 1] = g[i - 1] => T[i] = g[i]
  <2> HIDE DEF T, Loop, g
  <2>1. 0 \in 0..k /\ \A i \in 1..k : i \in 0..k /\ i # 0
    OBVIOUS
  <2>2. T[0] = g[0]
    BY <1>4, <1>7, <2>1
  <2>3. ASSUME NEW i \in 1..k, T[i - 1] = g[i - 1]
        PROVE  T[i] = g[i]
    <3>1. T[i] = Body(T, i) /\ g[i] = Body(g, i) /\ i # 0
      BY <1>4, <1>7, <2>1
    <3> QED
      BY <2>3, <3>1
  <2> QED
    BY <2>2, <2>3
<1>9. T[k] = g[k]
  <2> HIDE DEF T, g
  <2> QED
    BY <1>8, SameLoop
<1>10. g[k] = h[k]
  <2>1. k \in 0..k /\ k - k = 0
    OBVIOUS
  <2>2. W[k - k] = 1 /\ h[k] \in Int
    BY <1>2, <1>3, <2>1 DEF IsWeight
  <2> QED
    BY <2>1, <2>2
<1> QED
  BY <1>1, <1>9, <1>10

\* As unsigned long long holds it.
Wrapped(v) == v % ULLMod

ValueRead(s, b, z, k, r, h) ==
  C!DigitsValue(s, b + z + 1, b + k, r) = Wrapped(h[k])

\* The digits d are those of s behind b; the first z are zeros.
DigitsAt(s, b, z, d, k) ==
  /\ \A i \in 1..k : d[i] \in Int
  /\ \A i \in 1..z : d[i] = 0
  /\ \A i \in (z + 1)..k : C!char_to_digit(s[b + i]) = d[i]

\* What the digit loop of strtoull_ accumulates over the digits behind the
\* first z, which are zeros, is the value modulo ULLMod.
LEMMA DigitsValueIsHorner ==
  ASSUME NEW s, NEW k \in Nat, NEW z \in 0..k, NEW b \in Nat, NEW r \in Int,
         NEW d, DigitsAt(s, b, z, d, k), NEW h, IsHorner(h, k, r, d), ULLMod \in Nat \ {0}
  PROVE  ValueRead(s, b, z, k, r, h)
<1> DEFINE M == ULLMod
           lo == b + z
           hi == b + k
           Body(a, i) == IF i = (lo + 1) - 1 THEN 0
                         ELSE (a[i - 1] * r + C!char_to_digit(s[i])) % M
           Loop(a) == a = [i \in ((lo + 1) - 1)..hi |-> Body(a, i)]
           A == CHOOSE a : Loop(a)
           g == [i \in ((lo + 1) - 1)..hi |-> h[i - b] % M]
<1>1. C!DigitsValue(s, b + z + 1, b + k, r) = A[hi]
  BY DEF C!DigitsValue
<1>2. \A i \in 0..k : h[i] \in Int
  BY DEF IsHorner
<1>3. h[z] = 0
  <2> DEFINE S == {i \in Nat : i <= z => h[i] = 0}
  <2>1. 0 \in S
    BY DEF IsHorner
  <2>2. ASSUME NEW i \in Nat, i \in S
        PROVE  i + 1 \in S
    <3> SUFFICES ASSUME i + 1 <= z PROVE h[i + 1] = 0
      OBVIOUS
    <3>1. h[i] = 0 /\ i + 1 \in 1..k /\ i + 1 \in 1..z /\ (i + 1) - 1 = i
      BY <2>2
    <3>2. h[i + 1] = h[i] * r + d[i + 1] /\ d[i + 1] = 0
      BY <3>1 DEF IsHorner, DigitsAt
    <3> QED
      BY <3>1, <3>2
  <2>3. Nat \subseteq S
    <3> HIDE DEF S
    <3> QED
      BY <2>1, <2>2, NatSetInduction
  <2> QED
    BY <2>3
<1>4. /\ (lo + 1) - 1 = lo /\ lo \in lo..hi /\ lo - b = z /\ hi - b = k /\ hi \in lo..hi
      /\ hi - lo \in Nat /\ lo + (hi - lo) = hi
  OBVIOUS
<1>5. ASSUME NEW i \in ((lo + 1) - 1)..hi
      PROVE  g[i] = Body(g, i)
  <2>1. CASE i = lo
    <3>1. g[i] = h[z] % M
      BY <1>4, <2>1
    <3>2. 0 % M = 0
      OBVIOUS
    <3> QED
      BY <1>3, <1>4, <2>1, <3>1, <3>2
  <2>2. CASE i # lo
    <3>1. /\ i - 1 \in ((lo + 1) - 1)..hi /\ i - b \in 1..k /\ i - b \in (z + 1)..k
          /\ (i - 1) - b = (i - b) - 1 /\ (i - b) - 1 \in 0..k /\ b + (i - b) = i
      BY <2>2
    <3>2. g[i] = h[i - b] % M /\ g[i - 1] = h[(i - b) - 1] % M
      BY <3>1
    <3> HIDE DEF g
    <3>3. h[i - b] = h[(i - b) - 1] * r + d[i - b]
      BY <3>1 DEF IsHorner
    <3>4. C!char_to_digit(s[i]) = d[i - b] /\ d[i - b] \in Int
      BY <3>1 DEF DigitsAt
    <3>5. h[(i - b) - 1] \in Int
      BY <1>2, <3>1
    <3>6. ((h[(i - b) - 1] % M) * r + d[i - b]) % M = (h[(i - b) - 1] * r + d[i - b]) % M
      BY <3>4, <3>5, DigitModulo
    <3>7. g[i] = (g[i - 1] * r + C!char_to_digit(s[i])) % M
      BY <3>2, <3>3, <3>4, <3>6, Zenon
    <3> QED
      BY <1>4, <2>2, <3>7
  <2> QED
    BY <2>1, <2>2
<1>6. Loop(g)
  <2>1. g = [i \in ((lo + 1) - 1)..hi |-> g[i]]
    OBVIOUS
  <2> HIDE DEF Body, g, lo, hi
  <2> QED
    BY <1>5, <2>1
<1>7. Loop(A)
  <2> HIDE DEF Loop
  <2> QED
    BY <1>6
<1>8. \A i \in lo..hi : A[i] = Body(A, i)
  <2> HIDE DEF Body, A, lo, hi
  <2> QED
    BY <1>4, <1>7
<1> DEFINE X == [j \in 0..(hi - lo) |-> A[lo + j]]
           G == [j \in 0..(hi - lo) |-> g[lo + j]]
<1>9. X[0] = G[0] /\ \A j \in 1..(hi - lo) : X[j - 1] = G[j - 1] => X[j] = G[j]
  <2> HIDE DEF A, Loop, g
  <2>1. A[lo] = g[lo]
    BY <1>4, <1>5, <1>8
  <2>2. X[0] = G[0]
    BY <2>1
  <2>3. ASSUME NEW j \in 1..(hi - lo), X[j - 1] = G[j - 1]
        PROVE  X[j] = G[j]
    <3>1. /\ lo + j \in lo..hi /\ lo + j # lo /\ lo + (j - 1) = (lo + j) - 1
          /\ j - 1 \in 0..(hi - lo) /\ j \in 0..(hi - lo)
      OBVIOUS
    <3>2. A[(lo + j) - 1] = g[(lo + j) - 1]
      BY <2>3, <3>1
    <3>3. A[lo + j] = Body(A, lo + j) /\ g[lo + j] = Body(g, lo + j)
      BY <1>4, <1>5, <1>8, <3>1
    <3>4. A[lo + j] = g[lo + j]
      BY <1>4, <3>1, <3>2, <3>3
    <3> QED
      BY <3>1, <3>4
  <2> QED
    BY <2>2, <2>3
<1>10. X[hi - lo] = G[hi - lo]
  <2> HIDE DEF X, G, hi, lo
  <2> QED
    BY <1>4, <1>9, SameLoop
<1>11. A[hi] = g[hi]
  <2>1. hi - lo \in 0..(hi - lo)
    OBVIOUS
  <2> HIDE DEF A, g, hi, lo
  <2> QED
    BY <1>4, <1>10, <2>1
<1>12. g[hi] = h[k] % M
  BY <1>4
<1> QED
  BY <1>1, <1>11, <1>12 DEF ValueRead, Wrapped

\* Where the parts of a text are.
IsText(s, n, prefix, d, upper, rest) ==
  LET p == Len(prefix)
      k == Len(d)
      m == Len(rest)
  IN  /\ Len(s) = n + p + k + m
      /\ \A i \in 1..n : s[i] = 32
      /\ \A i \in 1..p : s[n + i] = prefix[i]
      /\ \A i \in 1..k : s[n + p + i] = CodeOf(d[i], upper)
      /\ \A i \in 1..m : s[n + p + k + i] = rest[i]

LEMMA CodeIsDigit ==
  ASSUME NEW d \in 0..15, NEW upper
  PROVE  /\ CodeOf(d, upper) \in 48..102
         /\ C!char_to_digit(CodeOf(d, upper)) = d
         /\ d < 10 => CodeOf(d, upper) = 48 + d
         /\ CodeOf(d, upper) = 48 => d = 0
BY DEF CodeOf, C!char_to_digit

AreParts(s, a, b, c, e) ==
  /\ Len(s) = Len(a) + Len(b) + Len(c) + Len(e)
  /\ \A i \in 1..Len(a) : s[i] = a[i]
  /\ \A i \in 1..Len(b) : s[Len(a) + i] = b[i]
  /\ \A i \in 1..Len(c) : s[Len(a) + Len(b) + i] = c[i]
  /\ \A i \in 1..Len(e) : s[Len(a) + Len(b) + Len(c) + i] = e[i]

LEMMA TwoParts ==
  ASSUME NEW a \in Seq(Nat), NEW b \in Seq(Nat), NEW s, s = a \o b
  PROVE  /\ s \in Seq(Nat) /\ Len(s) = Len(a) + Len(b)
         /\ \A i \in 1..Len(a) : s[i] = a[i]
         /\ \A i \in 1..Len(b) : s[Len(a) + i] = b[i]
<1>1. PICK la \in Nat, lb \in Nat : la = Len(a) /\ lb = Len(b)
  OBVIOUS
<1>2. /\ s \in Seq(Nat) /\ Len(s) = la + lb
      /\ \A i \in 1..(la + lb) : s[i] = IF i <= la THEN a[i] ELSE b[i - la]
  <2>1. /\ a \o b \in Seq(Nat) /\ Len(a \o b) = Len(a) + Len(b)
        /\ \A i \in 1..(Len(a) + Len(b)) :
             (a \o b)[i] = IF i <= Len(a) THEN a[i] ELSE b[i - Len(a)]
    BY ConcatProperties
  <2> QED
    BY ONLY <1>1, <2>1, s = a \o b
<1>3. \A i \in 1..la : s[i] = a[i]
  <2>1. \A i \in 1..la : i \in 1..(la + lb) /\ i <= la
    BY ONLY <1>1
  <2> QED
    BY ONLY <1>2, <2>1
<1>4. \A i \in 1..lb : s[la + i] = b[i]
  <2>1. ASSUME NEW i \in 1..lb, NEW k, k = la + i
        PROVE  s[k] = b[i]
    <3>1. k \in 1..(la + lb) /\ ~(k <= la) /\ k - la = i
      BY ONLY <1>1, <2>1
    <3> QED
      BY ONLY <1>2, <3>1
  <2> QED
    BY <2>1
<1> QED
  BY <1>1, <1>2, <1>3, <1>4

LEMMA FourParts ==
  ASSUME NEW a \in Seq(Nat), NEW b \in Seq(Nat), NEW c \in Seq(Nat), NEW e \in Seq(Nat),
         NEW s, s = a \o b \o c \o e
  PROVE  AreParts(s, a, b, c, e)
<1>1. PICK u, v : u = a \o b /\ v = u \o c
  OBVIOUS
<1>2. s = v \o e
  BY <1>1
<1>3. /\ u \in Seq(Nat) /\ Len(u) = Len(a) + Len(b)
      /\ \A i \in 1..Len(a) : u[i] = a[i]
      /\ \A i \in 1..Len(b) : u[Len(a) + i] = b[i]
  <2>1. a \in Seq(Nat) /\ b \in Seq(Nat) /\ u = a \o b
    BY <1>1
  <2> QED
    BY ONLY <2>1, TwoParts
<1>4. /\ v \in Seq(Nat) /\ Len(v) = Len(u) + Len(c)
      /\ \A i \in 1..Len(u) : v[i] = u[i]
      /\ \A i \in 1..Len(c) : v[Len(u) + i] = c[i]
  <2>1. u \in Seq(Nat) /\ c \in Seq(Nat) /\ v = u \o c
    BY <1>1, <1>3
  <2> QED
    BY ONLY <2>1, TwoParts
<1>5. /\ Len(s) = Len(v) + Len(e)
      /\ \A i \in 1..Len(v) : s[i] = v[i]
      /\ \A i \in 1..Len(e) : s[Len(v) + i] = e[i]
  <2>1. v \in Seq(Nat) /\ e \in Seq(Nat)
    BY <1>4
  <2> QED
    BY ONLY <1>2, <2>1, TwoParts
<1>6. PICK la \in Nat, lb \in Nat, lc \in Nat, lu \in Nat, lv \in Nat :
        /\ la = Len(a) /\ lb = Len(b) /\ lc = Len(c) /\ lu = Len(u) /\ lv = Len(v)
        /\ lu = la + lb /\ lv = la + lb + lc /\ lv = lu + lc
  <2>1. PICK la, lb, lc, lu, lv :
          la = Len(a) /\ lb = Len(b) /\ lc = Len(c) /\ lu = Len(u) /\ lv = Len(v)
    OBVIOUS
  <2>2. la \in Nat /\ lb \in Nat /\ lc \in Nat /\ lu \in Nat /\ lv \in Nat
    BY <1>3, <1>4, <2>1, LenProperties
  <2>3. lu = la + lb /\ lv = lu + lc
    BY ONLY <1>3, <1>4, <2>1
  <2>4. lv = la + lb + lc
    BY ONLY <2>2, <2>3
  <2> QED
    BY ONLY <2>1, <2>2, <2>3, <2>4
<1>7. /\ \A i \in 1..la : i \in 1..lu
      /\ \A i \in 1..lu : i \in 1..lv
      /\ \A i \in 1..lb : la + i \in 1..lu
      /\ \A i \in 1..lc : lu + i \in 1..lv
  BY ONLY <1>6
<1>8. \A i \in 1..lu : s[i] = u[i]
  BY ONLY <1>4, <1>5, <1>6, <1>7
<1>9. \A i \in 1..la : s[i] = a[i]
  BY ONLY <1>3, <1>6, <1>7, <1>8
<1>10. \A i \in 1..lb : s[la + i] = b[i]
  <2>1. ASSUME NEW i \in 1..lb, NEW k, k = la + i
        PROVE  s[k] = b[i]
    <3>1. k \in 1..lu /\ u[k] = b[i]
      BY ONLY <1>3, <1>6, <1>7, <2>1
    <3> QED
      BY ONLY <1>8, <3>1
  <2> QED
    BY <2>1
<1>11. \A i \in 1..lc : s[lu + i] = c[i]
  <2>1. ASSUME NEW i \in 1..lc, NEW k, k = lu + i
        PROVE  s[k] = c[i]
    <3>1. k \in 1..lv /\ v[k] = c[i]
      BY ONLY <1>4, <1>6, <1>7, <2>1
    <3> QED
      BY ONLY <1>5, <1>6, <3>1
  <2> QED
    BY <2>1
<1>12. Len(s) = Len(a) + Len(b) + Len(c) + Len(e)
  BY <1>5, <1>6
<1>13. \A i \in 1..Len(c) : s[Len(a) + Len(b) + i] = c[i]
  BY ONLY <1>6, <1>11
<1>14. \A i \in 1..Len(e) : s[Len(a) + Len(b) + Len(c) + i] = e[i]
  BY ONLY <1>5, <1>6
<1>15. (\A i \in 1..Len(a) : s[i] = a[i]) /\ \A i \in 1..Len(b) : s[Len(a) + i] = b[i]
  BY ONLY <1>6, <1>9, <1>10
<1> QED
  BY ONLY <1>12, <1>13, <1>14, <1>15 DEF AreParts

LEMMA FunctionIsSeq ==
  ASSUME NEW n \in Nat, NEW f \in [1..n -> Nat]
  PROVE  f \in Seq(Nat) /\ Len(f) = n
OBVIOUS

\* The text of a number.
LEMMA TextIs ==
  ASSUME NEW x, x.spaces \in Nat, x.prefix \in Seq(Nat), x.digits \in Seq(0..15),
         x.rest \in Seq(Nat)
  PROVE  IsText(NumberToRead(x), x.spaces, x.prefix, x.digits, x.upper, x.rest)
<1> DEFINE a == [i \in 1..x.spaces |-> 32]
           b == x.prefix
           c == [i \in 1..Len(x.digits) |-> CodeOf(x.digits[i], x.upper)]
           e == x.rest
           s == NumberToRead(x)
<1>1. a \in Seq(Nat) /\ Len(a) = x.spaces /\ \A i \in 1..x.spaces : a[i] = 32
  <2>1. a \in [1..x.spaces -> Nat] /\ \A i \in 1..x.spaces : a[i] = 32
    OBVIOUS
  <2> HIDE DEF a
  <2> QED
    BY <2>1, FunctionIsSeq
<1>2. /\ c \in Seq(Nat) /\ Len(c) = Len(x.digits)
      /\ \A i \in 1..Len(x.digits) : c[i] = CodeOf(x.digits[i], x.upper)
  <2>1. \A i \in 1..Len(x.digits) : CodeOf(x.digits[i], x.upper) \in Nat
    <3>1. ASSUME NEW i \in 1..Len(x.digits)
          PROVE  CodeOf(x.digits[i], x.upper) \in Nat
      <4>1. x.digits[i] \in 0..15
        OBVIOUS
      <4>2. CodeOf(x.digits[i], x.upper) \in 48..102
        BY <4>1, CodeIsDigit
      <4>3. \A y \in 48..102 : y \in Nat
        OBVIOUS
      <4> QED
        BY <4>2, <4>3, Zenon
    <3> QED
      BY <3>1
  <2>2. Len(x.digits) \in Nat
    OBVIOUS
  <2>3. c \in [1..Len(x.digits) -> Nat]
    BY <2>1
  <2>4. \A i \in 1..Len(x.digits) : c[i] = CodeOf(x.digits[i], x.upper)
    OBVIOUS
  <2> HIDE DEF c
  <2> QED
    BY <2>2, <2>3, <2>4, FunctionIsSeq
<1>3. s = a \o b \o c \o e
  BY DEF NumberToRead
<1>4. b \in Seq(Nat) /\ e \in Seq(Nat)
  OBVIOUS
<1> HIDE DEF a, b, c, e, s
<1>5. AreParts(s, a, b, c, e)
  BY ONLY <1>1, <1>2, <1>3, <1>4, FourParts
<1>6. IsText(s, x.spaces, x.prefix, x.digits, x.upper, x.rest)
  BY <1>1, <1>2, <1>5, Zenon DEF IsText, AreParts, b, e
<1> QED
  BY <1>6 DEF s

\* The first character that is not skipped.
LEMMA FirstAtIs ==
  ASSUME NEW s, Len(s) \in Nat, NEW from \in Int, NEW Skipped,
         NEW i \in from..(Len(s) + 1), i = Len(s) + 1 \/ s[i] \notin Skipped,
         \A j \in from..(i - 1) : s[j] \in Skipped
  PROVE  C!FirstAt(s, from, Skipped) = i
<1> DEFINE P(y) == /\ y = Len(s) + 1 \/ s[y] \notin Skipped
                   /\ \A j \in from..(y - 1) : s[j] \in Skipped
           e == CHOOSE y \in from..(Len(s) + 1) : P(y)
<1>1. C!FirstAt(s, from, Skipped) = e
  BY DEF C!FirstAt
<1>2. P(i)
  OBVIOUS
<1>3. e \in from..(Len(s) + 1) /\ P(e)
  <2> HIDE DEF P
  <2> QED
    BY <1>2
<1> HIDE DEF e
<1>4. ~(e < i)
  <2> SUFFICES ASSUME e < i PROVE FALSE
    OBVIOUS
  <2>1. e \in from..(i - 1) /\ e # Len(s) + 1
    BY <1>3
  <2> QED
    BY <1>3, <2>1
<1>5. ~(i < e)
  <2> SUFFICES ASSUME i < e PROVE FALSE
    OBVIOUS
  <2>1. i \in from..(e - 1) /\ i # Len(s) + 1
    BY <1>3
  <2> QED
    BY <1>3, <2>1
<1> QED
  BY <1>1, <1>3, <1>4, <1>5

Digits(r) == {c \in 48..102 : C!char_to_digit(c) \in 0..(r - 1)}

\* strtoull_, part by part.
LEMMA StrtoullParts ==
  ASSUME NEW s, NEW base, NEW start, C!FirstAt(s, 1, {32}) = start,
         NEW hex \in BOOLEAN,
         hex <=> /\ base = 0 /\ C!CharAt(s, start) = 48
                 /\ C!CharAt(s, start + 1) \in {120, 88},
         NEW r, r = IF base # 0 THEN base ELSE IF hex THEN 16 ELSE 10,
         NEW from, from = start + (IF hex THEN 2
                                   ELSE IF base = 0 /\ C!CharAt(s, start) = 48
                                   THEN 1 ELSE 0),
         NEW stop, C!FirstAt(s, from, Digits(r)) = stop
  PROVE  C!strtoull_(s, base) = C!DigitsValue(s, from, stop - 1, r)
BY DEF C!strtoull_, Digits

IsNumber(x) ==
  /\ x.spaces \in Nat /\ x.base \in {0} \cup 2..16
  /\ \/ x.prefix = <<>>
     \/ x.base = 0 /\ x.prefix \in {<<48, 120>>, <<48, 88>>}
  /\ x.digits \in Seq(0..(RadixOf(x) - 1)) /\ x.rest \in Seq(Nat)
  /\ x.rest # <<>> =>
       /\ C!char_to_digit(x.rest[1]) \notin 0..(RadixOf(x) - 1)
       /\ x.digits = <<>> => x.rest[1] # 32
       /\ x.base = 0 /\ x.prefix = <<>> /\ x.digits = <<0>> => x.rest[1] \notin {120, 88}

\* A text s of n spaces, a prefix of p characters, k digits d and m others, for
\* the given base: how the characters of its parts differ.
Laid(s, n, p, d, k, m, r, base) ==
  /\ Len(s) = n + p + k + m
  /\ \A i \in 1..n : s[i] = 32
  /\ p = 2 => base = 0 /\ s[n + 1] = 48 /\ s[n + 2] \in {120, 88}
  /\ \A i \in 1..k : d[i] \in 0..(r - 1)
  /\ \A i \in 1..k : /\ s[n + p + i] \in 48..102
                     /\ C!char_to_digit(s[n + p + i]) = d[i]
                     /\ d[i] < 10 => s[n + p + i] = 48 + d[i]
                     /\ s[n + p + i] = 48 => d[i] = 0
  /\ m # 0 =>
       /\ C!char_to_digit(s[n + p + k + 1]) \notin 0..(r - 1)
       /\ k = 0 => s[n + p + k + 1] # 32
       /\ base = 0 /\ p = 0 /\ k = 1 /\ d[1] = 0 =>
            s[n + p + k + 1] \notin {120, 88}
  /\ r = IF base # 0 THEN base ELSE IF p = 2 THEN 16 ELSE 10

\* strtoull_ reads the digits behind the first z, which are zeros.
ReadBehind(s, base, b, z, d, k, r) ==
  /\ \A i \in 1..z : d[i] = 0
  /\ C!strtoull_(s, base) = C!DigitsValue(s, b + z + 1, b + k, r)

\* strtoull_ finds the digits, whatever is around them; a leading zero may have
\* been taken for the beginning of a prefix.
LEMMA DigitsFound ==
  ASSUME NEW n \in Nat, NEW p \in {0, 2}, NEW k \in Nat, NEW m \in Nat, NEW d,
         NEW r \in 2..16, NEW base, NEW s, Laid(s, n, p, d, k, m, r, base)
  PROVE  \E z \in 0..k : ReadBehind(s, base, n + p, z, d, k, r)
<1> DEFINE b == n + p
<1>1. b \in Nat /\ p \in Nat
  OBVIOUS
<1>2. /\ Len(s) = b + k + m
      /\ \A i \in 1..n : s[i] = 32
      /\ p = 2 => base = 0 /\ s[n + 1] = 48 /\ s[n + 2] \in {120, 88}
  BY DEF Laid
<1>3. \A i \in 1..k : d[i] \in 0..(r - 1)
  BY DEF Laid
<1>4. \A i \in 1..k : /\ s[b + i] \in 48..102 /\ C!char_to_digit(s[b + i]) = d[i]
                      /\ d[i] < 10 => s[b + i] = 48 + d[i]
                      /\ s[b + i] = 48 => d[i] = 0
  BY DEF Laid
<1>5. m # 0 => /\ C!char_to_digit(s[b + k + 1]) \notin 0..(r - 1)
               /\ k = 0 => s[b + k + 1] # 32
               /\ base = 0 /\ p = 0 /\ k = 1 /\ d[1] = 0 =>
                    s[b + k + 1] \notin {120, 88}
  BY DEF Laid
<1>6. r = IF base # 0 THEN base ELSE IF p = 2 THEN 16 ELSE 10
  BY DEF Laid
<1>7. Len(s) \in Nat
  BY <1>1, <1>2
<1>8. C!FirstAt(s, 1, {32}) = n + 1
  <2>1. Len(s) \in Nat /\ n + 1 \in 1..(Len(s) + 1) /\ b \in Nat
    BY <1>3, <1>7, <1>2
  <2>2. \A j \in 1..((n + 1) - 1) : s[j] \in {32}
    BY <1>7, <1>2
  <2>3. n + 1 = Len(s) + 1 \/ s[n + 1] \notin {32}
    <3>1. CASE p = 2
      BY <1>2, <3>1
    <3>2. CASE p = 0 /\ k # 0
      <4>1. 1 \in 1..k /\ b + 1 = n + 1
        BY <1>3, <1>7, <3>2
      <4>2. s[n + 1] \in 48..102
        BY <1>4, <4>1
      <4>3. \A y \in 48..102 : y \notin {32}
        OBVIOUS
      <4> QED
        BY <4>2, <4>3, Zenon
    <3>3. CASE p = 0 /\ k = 0 /\ m # 0
      <4>1. b + k + 1 = n + 1
        BY <1>7, <3>3
      <4> QED
        BY <1>5, <3>3, <4>1
    <3>4. CASE p = 0 /\ k = 0 /\ m = 0
      BY <1>7, <1>2, <3>4
    <3> QED
      BY <3>1, <3>2, <3>3, <3>4
  <2>4. 1 \in Int /\ Len(s) \in Nat
    BY <2>1
  <2> QED
    BY ONLY <2>1, <2>2, <2>3, <2>4, FirstAtIs
<1> DEFINE start == n + 1
           hex == p = 2
           zero == base = 0 /\ C!CharAt(s, start) = 48
           z == IF ~hex /\ zero THEN 1 ELSE 0
           from == start + (IF hex THEN 2 ELSE IF zero THEN 1 ELSE 0)
<1>9. C!FirstAt(s, 1, {32}) = start
  BY <1>8
<1>10. hex <=> /\ base = 0 /\ C!CharAt(s, start) = 48
               /\ C!CharAt(s, start + 1) \in {120, 88}
  <2>1. CASE hex
    <3>1. n + 1 <= Len(s) /\ n + 2 <= Len(s) /\ start + 1 = n + 2
      BY <1>1, <1>2, <2>1
    <3> QED
      BY <1>2, <2>1, <3>1 DEF C!CharAt
  <2>2. CASE ~hex
    <3>1. p = 0 /\ b = n
      BY <1>7, <2>2
    <3> SUFFICES ASSUME base = 0, C!CharAt(s, n + 1) = 48,
                        C!CharAt(s, n + 2) \in {120, 88}
                 PROVE  FALSE
      BY <1>7, <2>2
    <3>2. r = 10
      BY <1>6, <3>1
    <3>3. n + 1 <= Len(s) /\ s[n + 1] = 48 /\ n + 2 <= Len(s) /\ s[n + 2] \in {120, 88}
      BY DEF C!CharAt, C!NUL
    <3>4. k # 0
      <4> SUFFICES ASSUME k = 0 PROVE FALSE
        OBVIOUS
      <4>1. m # 0 /\ b + k + 1 = n + 1
        BY <1>7, <1>2, <3>1, <3>3
      <4>2. C!char_to_digit(48) \notin 0..9
        BY <1>5, <3>2, <3>3, <4>1
      <4>3. C!char_to_digit(48) = 0
        BY DEF C!char_to_digit
      <4> QED
        BY <4>2, <4>3
    <3>5. 1 \in 1..k /\ d[1] = 0
      <4>1. 1 \in 1..k /\ b + 1 = n + 1
        BY <1>3, <1>7, <3>1, <3>4
      <4> QED
        BY <1>4, <3>3, <4>1
    <3>6. CASE k = 1
      <4>1. m # 0 /\ b + k + 1 = n + 2
        BY <1>7, <1>2, <3>1, <3>3, <3>6
      <4> QED
        BY <1>5, <3>1, <3>3, <3>5, <3>6, <4>1
    <3>7. CASE k # 1
      <4>1. 2 \in 1..k /\ b + 2 = n + 2
        BY <1>3, <1>7, <3>1, <3>4, <3>7
      <4>2. d[2] \in 0..9
        BY <1>3, <3>2, <4>1
      <4>3. s[n + 2] = 48 + d[2]
        BY <1>4, <4>1, <4>2
      <4>4. \A y \in 0..9 : 48 + y \notin {120, 88}
        OBVIOUS
      <4> QED
        BY <3>3, <4>2, <4>3, <4>4, Zenon
    <3> QED
      BY <3>6, <3>7
  <2> QED
    BY <2>1, <2>2
<1>11. z \in 0..k /\ \A i \in 1..z : d[i] = 0
  <2>1. CASE z = 0
    BY <1>3, <2>1
  <2>2. CASE z # 0
    <3>1. z = 1 /\ p = 0 /\ b = n /\ base = 0 /\ C!CharAt(s, n + 1) = 48
      BY <1>7, <2>2
    <3>2. r = 10
      BY <1>6, <3>1
    <3>3. n + 1 <= Len(s) /\ s[n + 1] = 48
      BY <3>1 DEF C!CharAt, C!NUL
    <3>4. k # 0
      <4> SUFFICES ASSUME k = 0 PROVE FALSE
        OBVIOUS
      <4>1. m # 0 /\ b + k + 1 = n + 1
        BY <1>7, <1>2, <3>1, <3>3
      <4>2. C!char_to_digit(48) \notin 0..9
        BY <1>5, <3>2, <3>3, <4>1
      <4>3. C!char_to_digit(48) = 0
        BY DEF C!char_to_digit
      <4> QED
        BY <4>2, <4>3
    <3>5. 1 \in 1..k /\ b + 1 = n + 1
      BY <1>3, <1>7, <3>1, <3>4
    <3>6. d[1] = 0
      BY <1>4, <3>3, <3>5
    <3>7. \A i \in 1..1 : i = 1
      OBVIOUS
    <3> QED
      BY <3>1, <3>5, <3>6, <3>7
  <2> QED
    BY <2>1, <2>2
<1>12. from = b + z + 1
  BY <1>7
<1> HIDE DEF z, from, zero
<1>13. C!FirstAt(s, from, Digits(r)) = b + k + 1
  <2>1. b \in Nat /\ z \in Nat /\ Len(s) \in Nat /\ from \in Int
        /\ b + k + 1 \in from..(Len(s) + 1)
    BY <1>3, <1>7, <1>2, <1>11, <1>12
  <2>2. ASSUME NEW j \in from..((b + k + 1) - 1)
        PROVE  s[j] \in Digits(r)
    <3>1. j - b \in 1..k /\ b + (j - b) = j
      BY <1>3, <1>11, <1>12, <2>1
    <3>2. s[j] \in 48..102 /\ C!char_to_digit(s[j]) = d[j - b]
      BY <1>4, <3>1
    <3>3. d[j - b] \in 0..(r - 1)
      BY <1>3, <3>1
    <3> QED
      BY <3>2, <3>3 DEF Digits
  <2>3. b + k + 1 = Len(s) + 1 \/ s[b + k + 1] \notin Digits(r)
    <3>1. CASE m = 0
      BY <1>3, <1>2, <2>1, <3>1
    <3>2. CASE m # 0
      BY <1>5, <3>2 DEF Digits
    <3> QED
      BY <3>1, <3>2
  <2> HIDE DEF b
  <2> QED
    BY <2>1, <2>2, <2>3, FirstAtIs
<1>14. C!strtoull_(s, base) = C!DigitsValue(s, from, (b + k + 1) - 1, r)
  <2>1. hex \in BOOLEAN
    OBVIOUS
  <2>2. from = start + (IF hex THEN 2
                        ELSE IF base = 0 /\ C!CharAt(s, start) = 48 THEN 1 ELSE 0)
    BY DEF from, zero
  <2>3. r = IF base # 0 THEN base ELSE IF hex THEN 16 ELSE 10
    BY <1>6
  <2> HIDE DEF hex, b, start
  <2> QED
    BY ONLY <1>9, <1>10, <1>13, <2>1, <2>2, <2>3, StrtoullParts
<1>15. (b + k + 1) - 1 = b + k
  BY <1>1
<1>16. C!strtoull_(s, base) = C!DigitsValue(s, b + z + 1, b + k, r)
  BY <1>12, <1>14, <1>15
<1>17. ReadBehind(s, base, n + p, z, d, k, r)
  BY <1>11, <1>16 DEF ReadBehind
<1> QED
  BY <1>11, <1>17

LEMMA ShortDigits ==
  ASSUME NEW d \in Seq(0..15)
  PROVE  (Len(d) = 0 => d = <<>>) /\ (Len(d) = 1 /\ d[1] = 0 => d = <<0>>)
OBVIOUS

LEMMA NumberLaid ==
  ASSUME NEW x, IsNumber(x), NEW s, s = NumberToRead(x), NEW n, n = x.spaces,
         NEW p, p = Len(x.prefix), NEW d, d = x.digits, NEW k, k = Len(d),
         NEW m, m = Len(x.rest), NEW r, r = RadixOf(x)
  PROVE  /\ n \in Nat /\ p \in {0, 2} /\ k \in Nat /\ m \in Nat /\ r \in 2..16
         /\ Laid(s, n, p, d, k, m, r, x.base)
<1>1. r \in 2..16
  BY DEF IsNumber, RadixOf
<1>2. /\ d \in Seq(0..15) /\ k \in Nat
      /\ \A i \in 1..k : d[i] \in 0..(r - 1) /\ d[i] \in 0..15
  <2>1. d \in Seq(0..(r - 1))
    BY DEF IsNumber
  <2>2. \A y \in 0..(r - 1) : y \in 0..15
    BY ONLY <1>1
  <2>3. k \in Nat /\ d \in [1..k -> 0..(r - 1)]
    <3>1. PICK S : S = 0..(r - 1)
      OBVIOUS
    <3>2. d \in Seq(S)
      BY <2>1, <3>1
    <3>3. Len(d) \in Nat /\ d \in [1..Len(d) -> S]
      BY ONLY <3>2, LenProperties
    <3> QED
      BY ONLY <3>1, <3>3, k = Len(d)
  <2>4. \A i \in 1..k : d[i] \in 0..(r - 1)
    BY ONLY <2>3
  <2>5. \A i \in 1..k : d[i] \in 0..15
    BY ONLY <2>2, <2>4
  <2>6. d \in [1..k -> 0..15]
    BY ONLY <2>3, <2>5
  <2>7. d \in Seq(0..15)
    BY ONLY <2>3, <2>6
  <2> QED
    BY <2>3, <2>4, <2>5, <2>7
<1>3. /\ x.prefix \in Seq(Nat) /\ p \in {0, 2} /\ (p = 0 <=> x.prefix = <<>>)
      /\ p = 2 => x.base = 0 /\ x.prefix[1] = 48 /\ x.prefix[2] \in {120, 88}
  <2>1. CASE x.prefix = <<>>
    BY <2>1
  <2>2. CASE x.base = 0 /\ x.prefix = <<48, 120>>
    BY <2>2
  <2>3. CASE x.base = 0 /\ x.prefix = <<48, 88>>
    BY <2>3
  <2> QED
    BY <2>1, <2>2, <2>3 DEF IsNumber
<1>4. n \in Nat /\ x.rest \in Seq(Nat) /\ m \in Nat /\ (m # 0 => x.rest # <<>>)
  BY DEF IsNumber
<1>5. IsText(s, n, x.prefix, d, x.upper, x.rest)
  BY <1>2, <1>3, <1>4, TextIs
<1>6. /\ Len(s) = n + p + k + m
      /\ \A i \in 1..n : s[i] = 32
      /\ \A i \in 1..p : s[n + i] = x.prefix[i]
      /\ \A i \in 1..k : s[n + p + i] = CodeOf(d[i], x.upper)
      /\ \A i \in 1..m : s[n + p + k + i] = x.rest[i]
  BY <1>5, Zenon DEF IsText
<1>7. p = 2 => x.base = 0 /\ s[n + 1] = 48 /\ s[n + 2] \in {120, 88}
  <2> SUFFICES ASSUME p = 2 PROVE s[n + 1] = 48 /\ s[n + 2] \in {120, 88}
    BY <1>3
  <2>1. 1 \in 1..p /\ 2 \in 1..p
    OBVIOUS
  <2>2. s[n + 1] = x.prefix[1] /\ s[n + 2] = x.prefix[2]
    BY ONLY <1>6, <2>1
  <2> QED
    BY ONLY <1>3, <2>2, p = 2
<1>8. ASSUME NEW i \in 1..k
      PROVE  /\ s[n + p + i] \in 48..102 /\ C!char_to_digit(s[n + p + i]) = d[i]
             /\ d[i] < 10 => s[n + p + i] = 48 + d[i]
             /\ s[n + p + i] = 48 => d[i] = 0
  <2>1. d[i] \in 0..15
    BY ONLY i \in 1..k, <1>2
  <2>2. s[n + p + i] = CodeOf(d[i], x.upper)
    BY ONLY i \in 1..k, <1>6
  <2> QED
    BY ONLY <2>1, <2>2, CodeIsDigit
<1>9. m # 0 =>
        /\ C!char_to_digit(s[n + p + k + 1]) \notin 0..(r - 1)
        /\ k = 0 => s[n + p + k + 1] # 32
        /\ x.base = 0 /\ p = 0 /\ k = 1 /\ d[1] = 0 => s[n + p + k + 1] \notin {120, 88}
  <2> SUFFICES ASSUME m # 0
               PROVE  /\ C!char_to_digit(s[n + p + k + 1]) \notin 0..(r - 1)
                      /\ k = 0 => s[n + p + k + 1] # 32
                      /\ x.base = 0 /\ p = 0 /\ k = 1 /\ d[1] = 0 =>
                           s[n + p + k + 1] \notin {120, 88}
    OBVIOUS
  <2>1. 1 \in 1..m
    BY <1>4
  <2>2. s[n + p + k + 1] = x.rest[1]
    BY ONLY <1>6, <2>1
  <2>3. (k = 0 => d = <<>>) /\ (k = 1 /\ d[1] = 0 => d = <<0>>)
    <3>1. d \in Seq(0..15)
      BY <1>2
    <3> QED
      BY ONLY <3>1, k = Len(d), ShortDigits
  <2>4. /\ C!char_to_digit(x.rest[1]) \notin 0..(r - 1)
        /\ d = <<>> => x.rest[1] # 32
        /\ x.base = 0 /\ x.prefix = <<>> /\ d = <<0>> => x.rest[1] \notin {120, 88}
    BY <1>4 DEF IsNumber
  <2> QED
    BY ONLY <1>3, <2>2, <2>3, <2>4
<1>10. r = IF x.base # 0 THEN x.base ELSE IF p = 2 THEN 16 ELSE 10
  BY <1>3 DEF RadixOf
<1>11. Laid(s, n, p, d, k, m, r, x.base)
  BY ONLY <1>2, <1>6, <1>7, <1>8, <1>9, <1>10 DEF Laid
<1> QED
  BY <1>1, <1>2, <1>3, <1>4, <1>11

\* strtoull_ reads the number its text says.
LEMMA StrtoullReads ==
  ASSUME NEW x, IsNumber(x), ULLMod \in Nat \ {0}
  PROVE  C!strtoull_(NumberToRead(x), x.base) = Wrapped(NumberSaid(x))
<1> DEFINE s == NumberToRead(x)
           n == x.spaces
           p == Len(x.prefix)
           d == x.digits
           k == Len(d)
           m == Len(x.rest)
           r == RadixOf(x)
<1>1. /\ n \in Nat /\ p \in {0, 2} /\ k \in Nat /\ m \in Nat /\ r \in 2..16
      /\ Laid(s, n, p, d, k, m, r, x.base)
  BY NumberLaid
<1>2. k = Len(x.digits) /\ r = RadixOf(x) /\ d = x.digits /\ s = NumberToRead(x)
  OBVIOUS
<1> HIDE DEF s, n, p, d, k, m, r
<1>3. PICK z \in 0..k : ReadBehind(s, x.base, n + p, z, d, k, r)
  BY ONLY <1>1, DigitsFound
<1>4. /\ \A i \in 1..k : d[i] \in Int
      /\ \A i \in (z + 1)..k : C!char_to_digit(s[n + p + i]) = d[i]
  <2>1. \A i \in 1..k : d[i] \in 0..(r - 1) /\ C!char_to_digit(s[n + p + i]) = d[i]
    BY <1>1 DEF Laid
  <2>2. \A i \in (z + 1)..k : i \in 1..k
    BY <1>1
  <2> QED
    BY <1>1, <2>1, <2>2
<1>5. r \in Int /\ n + p \in Nat
  BY <1>1
<1>6. PICK h : IsHorner(h, k, r, d)
  BY ONLY <1>1, <1>4, <1>5, HornerDefined
<1>7. NumberSaid(x) = h[k]
  <2>1. IsHorner(h, k, r, x.digits) /\ \A i \in 1..k : x.digits[i] \in Int
    BY <1>2, <1>4, <1>6
  <2> QED
    BY ONLY <1>1, <1>2, <1>5, <2>1, SaidIsHorner
<1>8. C!DigitsValue(s, n + p + z + 1, n + p + k, r) = Wrapped(h[k])
  <2>1. (\A i \in 1..z : d[i] = 0) /\ z \in 0..k /\ ULLMod \in Nat \ {0}
    BY <1>3 DEF ReadBehind
  <2>2. PICK b \in Nat : b = n + p
    BY <1>5
  <2>3. \A i \in (z + 1)..k : C!char_to_digit(s[b + i]) = d[i]
    BY <1>4, <2>2
  <2>4. ValueRead(s, b, z, k, r, h)
    <3>1. k \in Nat /\ r \in Int /\ \A i \in 1..k : d[i] \in Int
      BY <1>1, <1>4, <1>5
    <3>2. DigitsAt(s, b, z, d, k)
      BY ONLY <3>1, <2>1, <2>3 DEF DigitsAt
    <3>3. k \in Nat /\ r \in Int /\ z \in 0..k /\ ULLMod \in Nat \ {0}
      BY <3>1, <2>1
    <3> QED
      BY ONLY <3>2, <3>3, <1>6, b \in Nat, DigitsValueIsHorner
  <2> QED
    BY <2>2, <2>4, Zenon DEF ValueRead
<1> QED
  BY ONLY <1>2, <1>3, <1>7, <1>8 DEF ReadBehind

-----------------------------------------------------------------------------
(***************************************************************************)
(* The inductive invariant: the call is one that Init allows, and a result *)
(* is what the function returned.                                          *)
(***************************************************************************)

MemCall(m, d, s, n) ==
  /\ d \in DOMAIN m /\ s \in DOMAIN m /\ n \in 0..Top(m)
  /\ d + n <= Top(m) + 1 /\ s + n <= Top(m) + 1

StrCall(m, d, s) ==
  /\ d \in DOMAIN m /\ s \in DOMAIN m
  /\ \E i \in s..Top(m) : m[i] = 0
  /\ d + strlen_(m, s) < s

StrResult(m, d, s, c) == [len  |-> strlen_(m, s),
                          cpy  |-> strcpy_(m, d, s),
                          rchr |-> strrchr_(m, s, c)]

QsortResult(keys) ==
  LET arr == Elements(keys)
      E   == {arr[i] : i \in DOMAIN arr}
  IN  qsort_(arr, ByKey(E))

CallInv ==
  /\ call.fn = "mem" =>
       /\ call.m \in Memories
       /\ MemCall(call.m, call.d, call.s, call.n)
       /\ result = NULL \/ result = MemResult(call.m, call.d, call.s, call.n)
  /\ call.fn = "str" =>
       /\ call.m \in Memories
       /\ StrCall(call.m, call.d, call.s)
       /\ result = NULL \/ result = StrResult(call.m, call.d, call.s, call.c)
  /\ call.fn = "qsort_" =>
       /\ call.keys \in Arrays
       /\ result = NULL \/ result = QsortResult(call.keys)
  /\ call.fn = "strtoull_" =>
       /\ call.number \in Numbers
       /\ \/ result = NULL
          \/ result = C!strtoull_(NumberToRead(call.number), call.number.base)

LEMMA InitCall == Init => CallInv
<1> SUFFICES ASSUME Init PROVE CallInv
  OBVIOUS
<1>1. result = NULL
  BY DEF Init
<1>2. ASSUME NEW m \in Memories, NEW d \in DOMAIN m, NEW s \in DOMAIN m,
             NEW n \in 0..Top(m), d + n <= Top(m) + 1, s + n <= Top(m) + 1,
             call = [fn |-> "mem", m |-> m, d |-> d, s |-> s, n |-> n]
      PROVE  CallInv
  BY <1>1, <1>2 DEF CallInv, MemCall
<1>3. ASSUME NEW m \in Memories, NEW d \in DOMAIN m, NEW s \in DOMAIN m,
             NEW c \in 1..2, \E i \in s..Top(m) : m[i] = 0,
             d + strlen_(m, s) < s,
             call = [fn |-> "str", m |-> m, d |-> d, s |-> s, c |-> c]
      PROVE  CallInv
  BY <1>1, <1>3 DEF CallInv, StrCall
<1>4. CASE call \in [fn : {"qsort_"}, keys : Arrays]
  BY <1>1, <1>4 DEF CallInv
<1>5. CASE call \in [fn : {"strtoull_"}, number : Numbers]
  BY <1>1, <1>5 DEF CallInv
<1>6. CASE call.fn \notin {"mem", "str", "qsort_", "strtoull_"}
  BY <1>6 DEF CallInv
<1>7. CASE \/ call \in [fn : {"crc32buf"}, buf : Buffers]
           \/ call \in [fn : {"info"}, items : Messages]
  BY <1>6, <1>7
<1>8. CASE \E p \in Printed :
             call = [fn |-> "npf_vsnprintf", items |-> p.items, bufsz |-> p.bufsz]
  BY <1>6, <1>8
<1> QED
  BY <1>2, <1>3, <1>4, <1>7, <1>8, <1>5 DEF Init

LEMMA NextCall == CallInv /\ [Next]_vars => CallInv'
<1> SUFFICES ASSUME CallInv, [Next]_vars PROVE CallInv'
  OBVIOUS
<1>1. CASE Mem
  <2>1. /\ call' = call /\ call.fn = "mem"
        /\ result' = MemResult(call.m, call.d, call.s, call.n)
    BY <1>1 DEF Mem, Returns, Computes, MemResult
  <2> QED
    BY <2>1 DEF CallInv
<1>2. CASE Str
  <2>1. /\ call' = call /\ call.fn = "str"
        /\ result' = StrResult(call.m, call.d, call.s, call.c)
    BY <1>2 DEF Str, Returns, Computes, StrResult
  <2> QED
    BY <2>1 DEF CallInv
<1>3. CASE Qsort
  <2>1. /\ call' = call /\ call.fn = "qsort_"
        /\ result' = QsortResult(call.keys)
    BY <1>3 DEF Qsort, Returns, Computes, QsortResult, ByKey
  <2> QED
    BY <2>1 DEF CallInv
<1>4. CASE call' = call /\ call.fn \notin {"mem", "str", "qsort_", "strtoull_"}
  BY <1>4 DEF CallInv
<1>5. CASE Strtoull
  <2>1. /\ call' = call /\ call.fn = "strtoull_"
        /\ result' = C!strtoull_(NumberToRead(call.number), call.number.base)
    BY <1>5 DEF Strtoull, Returns, Computes
  <2> QED
    BY <2>1 DEF CallInv
<1>6. CASE Crc
  BY <1>4, <1>6 DEF Crc, Returns, Computes
<1>7. CASE Vsnprintf
  BY <1>4, <1>7 DEF Vsnprintf, Returns, Computes
<1>8. CASE Info
  BY <1>4, <1>8 DEF Info, Computes
<1>9. CASE UNCHANGED <<call, result>>
  BY <1>9 DEF CallInv
<1> QED
  BY <1>1, <1>2, <1>3, <1>5, <1>6, <1>7, <1>8, <1>9 DEF Next, Putc, vars

LEMMA CallInvariance == Spec => []CallInv
BY InitCall, NextCall, PTL DEF Spec

\* What MemoryAsC says of memmove_, memset_, memcmp_ and memchr_.
MemAsC(m, d, s, n, move, set, cmp, chr) ==
  LET In(x) == x \in d..(d + n - 1)
      Same(k) == \A i \in 0..(k - 1) : m[d + i] = m[s + i]
      Found == {x \in s..(s + n - 1) : m[x] = m[d]}
  IN  /\ move = [x \in DOMAIN m |-> IF In(x) THEN m[s + x - d] ELSE m[x]]
      /\ set = [x \in DOMAIN m |-> IF In(x) THEN 7 ELSE m[x]]
      /\ cmp = 0 <=> Same(n)
      /\ cmp < 0 <=> \E k \in 0..(n - 1) : Same(k) /\ m[d + k] < m[s + k]
      /\ IF Found = {} THEN chr = 0
         ELSE chr \in Found /\ \A x \in Found : chr <= x

LEMMA MemoryInBlocks ==
  ASSUME NEW m \in Seq(Nat), m # <<>>, NEW d \in DOMAIN m, NEW s \in DOMAIN m,
         NEW n \in 0..Top(m), d + n <= Top(m) + 1, s + n <= Top(m) + 1
  PROVE  MemAsC(m, d, s, n, memmove_(m, d, s, n), memset_(m, d, 7, n),
                memcmp_(m, d, s, n), memchr_(m, s, m[d], n))
<1>1. PICK move, set, cmp, chr :
        /\ move = memmove_(m, d, s, n) /\ set = memset_(m, d, 7, n)
        /\ cmp = memcmp_(m, d, s, n) /\ chr = memchr_(m, s, m[d], n)
  OBVIOUS
<1>2. /\ move = [x \in DOMAIN m |->
                   IF x \in d..(d + n - 1) THEN m[s + x - d] ELSE m[x]]
      /\ set = [x \in DOMAIN m |-> IF x \in d..(d + n - 1) THEN 7 ELSE m[x]]
  BY <1>1, MovedAndSet
<1>3. /\ cmp = 0 <=> Alike(m, d, s, n)
      /\ cmp < 0 <=>
           \E k \in 0..(n - 1) : Alike(m, d, s, k) /\ m[d + k] < m[s + k]
  BY <1>1, ComparedInOrder
<1>4. /\ cmp = 0 <=> \A i \in 0..(n - 1) : m[d + i] = m[s + i]
      /\ cmp < 0 <=>
           \E k \in 0..(n - 1) :
             /\ \A i \in 0..(k - 1) : m[d + i] = m[s + i]
             /\ m[d + k] < m[s + k]
  BY ONLY <1>3 DEF Alike
<1>5. IsFirst(chr, m, s, s + n, m[d])
  <2>1. PICK c : c = m[d]
    OBVIOUS
  <2>2. IsFirst(memchr_(m, s, c, n), m, s, s + n, c)
    BY FoundFirst
  <2> QED
    BY <1>1, <2>1, <2>2
<1>6. LET Found == {x \in s..(s + n - 1) : m[x] = m[d]}
      IN  IF Found = {} THEN chr = 0
          ELSE chr \in Found /\ \A x \in Found : chr <= x
  BY ONLY <1>5 DEF IsFirst
<1>7. MemAsC(m, d, s, n, move, set, cmp, chr)
  BY ONLY <1>2, <1>4, <1>6 DEF MemAsC
<1> QED
  BY <1>1, <1>7

\* memmove_, memset_, memcmp_, memchr_, strlen_, strcpy_ and strrchr_ do what C
\* says of them, in memories of every size and for regions that overlap in
\* every way.
THEOREM MemoryFunctionsAsC == Spec => []MemoryAsC
<1>1. CallInv => MemoryAsC
  <2> SUFFICES ASSUME CallInv PROVE MemoryAsC
    OBVIOUS
  <2>1. ASSUME Returned("mem")
        PROVE  MemAsC(call.m, call.d, call.s, call.n,
                      result.move, result.set, result.cmp, result.chr)
    <3>1. PICK m, d, s, n :
             m = call.m /\ d = call.d /\ s = call.s /\ n = call.n
      OBVIOUS
    <3>2. m \in Memories /\ MemCall(m, d, s, n) /\ result = MemResult(m, d, s, n)
      BY <2>1, <3>1 DEF CallInv, Returned
    <3>3. /\ m \in Seq(Nat) /\ m # <<>> /\ d \in DOMAIN m /\ s \in DOMAIN m
          /\ n \in 0..Top(m) /\ d + n <= Top(m) + 1 /\ s + n <= Top(m) + 1
      BY <3>2, InputsAssumption DEF MemCall
    <3>4. /\ result.move = memmove_(m, d, s, n)
          /\ result.set = memset_(m, d, 7, n)
          /\ result.cmp = memcmp_(m, d, s, n)
          /\ result.chr = memchr_(m, s, m[d], n)
      BY <3>2 DEF MemResult
    <3>5. MemAsC(m, d, s, n, memmove_(m, d, s, n), memset_(m, d, 7, n),
                 memcmp_(m, d, s, n), memchr_(m, s, m[d], n))
      BY ONLY <3>3, MemoryInBlocks
    <3> QED
      BY ONLY <3>1, <3>4, <3>5
  <2>2. ASSUME Returned("str")
        PROVE  StrAsC(call.m, call.d, call.s, call.c,
                      result.len, result.cpy, result.rchr)
    <3>1. PICK m, d, s, c :
             m = call.m /\ d = call.d /\ s = call.s /\ c = call.c
      OBVIOUS
    <3>2. m \in Memories /\ StrCall(m, d, s) /\ result = StrResult(m, d, s, c)
      BY <2>2, <3>1 DEF CallInv, Returned
    <3>3. /\ m \in Seq(Nat) /\ m # <<>> /\ d \in DOMAIN m /\ s \in DOMAIN m
          /\ \E i \in s..Top(m) : m[i] = 0
          /\ d + strlen_(m, s) < s
      BY <3>2, InputsAssumption DEF StrCall
    <3>4. /\ result.len = strlen_(m, s)
          /\ result.cpy = strcpy_(m, d, s)
          /\ result.rchr = strrchr_(m, s, c)
      BY <3>2 DEF StrResult
    <3>5. StrAsC(m, d, s, c, strlen_(m, s), strcpy_(m, d, s), strrchr_(m, s, c))
      BY ONLY <3>3, StringsStopAtNul
    <3> QED
      BY ONLY <3>1, <3>4, <3>5
  <2>3. Returned("mem") => MemAsC(call.m, call.d, call.s, call.n,
                             result.move, result.set, result.cmp, result.chr)
    BY <2>1
  <2>4. Returned("str") => StrAsC(call.m, call.d, call.s, call.c,
                             result.len, result.cpy, result.rchr)
    BY <2>2
  <2> QED
    BY ONLY <2>3, <2>4, Zenon DEF MemoryAsC, MemAsC, StrAsC
<1> QED
  BY CallInvariance, <1>1, PTL

\* qsort_ sorts every array, and keeps elements that compare equal in order.
THEOREM QsortSortsStable == Spec => []SortsStable
<1>1. CallInv => SortsStable
  <2> SUFFICES ASSUME CallInv, Returned("qsort_")
               PROVE  StableSort(call.keys, result)
    BY DEF SortsStable, StableSort
  <2>1. call.keys \in Arrays /\ result = QsortResult(call.keys)
    BY DEF CallInv, Returned
  <2>2. call.keys \in Seq(Int) /\ call.keys # <<>>
    BY <2>1, InputsAssumption
  <2> QED
    BY <2>1, <2>2, QsortStable DEF QsortResult
<1> QED
  BY CallInvariance, <1>1, PTL

\* strtoull_ reads the number that its text says, modulo the width of unsigned
\* long long, for every number in every base, with and without a prefix.
THEOREM StrtoullReadsNumbers == Spec => []NumbersRead
<1>1. CallInv => NumbersRead
  <2> SUFFICES ASSUME CallInv, Returned("strtoull_")
               PROVE  result = Wrapped(NumberSaid(call.number))
    BY DEF NumbersRead, Wrapped
  <2>1. /\ call.number \in Numbers
        /\ result = C!strtoull_(NumberToRead(call.number), call.number.base)
    BY DEF CallInv, Returned
  <2>2. IsNumber(call.number) /\ ULLMod \in Nat \ {0}
    BY <2>1, NumbersAssumption, Zenon DEF IsNumber
  <2>3. \A x : IsNumber(x) =>
          C!strtoull_(NumberToRead(x), x.base) = Wrapped(NumberSaid(x))
    BY <2>2, StrtoullReads
  <2> QED
    BY <2>1, <2>2, <2>3, Zenon
<1> QED
  BY CallInvariance, <1>1, PTL

-----------------------------------------------------------------------------
(***************************************************************************)
(* The console.  The characters that reached the UART are the message at   *)
(* some set S of positions.  A character stored into an empty transmitter  *)
(* adds its position to S; one stored into a full transmitter is lost, or  *)
(* replaces the last position of S by its own.                             *)
(***************************************************************************)

\* What texts are made of.
Char == STRING

\* The values of the loop in Kept.
IsKept(s, S, g) ==
  /\ g \in [0..Len(s) -> Seq(Char)]
  /\ g[0] = <<>>
  /\ \A k \in 1..Len(s) :
       g[k] = IF k \in S THEN Append(g[k - 1], s[k]) ELSE g[k - 1]
  /\ Kept(s, S) = g[Len(s)]

LEMMA KeptDefined ==
  ASSUME NEW s \in Seq(Char), NEW S
  PROVE  \E g : IsKept(s, S, g)
<1> DEFINE n == Len(s)
           V == Seq(Char)
           F == [k \in 1..n |-> [v \in V |-> IF k \in S THEN Append(v, s[k]) ELSE v]]
<1>1. n \in Nat /\ <<>> \in V
  OBVIOUS
<1>2. F \in [1..n -> [V -> V]]
  <2>1. \A k \in 1..n : \A v \in V : Append(v, s[k]) \in V
    OBVIOUS
  <2> HIDE DEF V, n
  <2> QED
    BY <2>1
<1>3. PICK g : IsLoop(g, n, V, <<>>, F)
  <2> HIDE DEF F, n, V
  <2> QED
    BY <1>1, <1>2, LoopDefined
<1>4. /\ g \in [0..n -> V] /\ g[0] = <<>>
      /\ \A k \in 1..n : g[k] = IF k \in S THEN Append(g[k - 1], s[k]) ELSE g[k - 1]
  <2>1. g \in [0..n -> V] /\ g[0] = <<>> /\ \A k \in 1..n : g[k] = F[k][g[k - 1]]
    <3> HIDE DEF F, n, V
    <3> QED
      BY <1>3 DEF IsLoop
  <2>2. ASSUME NEW k \in 1..n
        PROVE  F[k][g[k - 1]] = IF k \in S THEN Append(g[k - 1], s[k]) ELSE g[k - 1]
    <3>1. g[k - 1] \in V
      <4>1. k - 1 \in 0..n
        BY <1>1
      <4> HIDE DEF V, n, F
      <4> QED
        BY <2>1, <4>1
    <3> HIDE DEF V, n
    <3> QED
      BY <3>1
  <2> HIDE DEF F, n, V
  <2> QED
    BY <2>1, <2>2
<1> HIDE DEF F, V
<1>5. Kept(s, S) = g[n]
  <2> DEFINE Body(x, k) == IF k = 0 THEN <<>>
                           ELSE IF k \in S THEN Append(x[k - 1], s[k]) ELSE x[k - 1]
             Loop(x) == x = [k \in 0..n |-> Body(x, k)]
             upto == CHOOSE x : Loop(x)
  <2>1. Kept(s, S) = upto[n]
    BY DEF Kept
  <2>2. ASSUME NEW k \in 0..n
        PROVE  g[k] = Body(g, k)
    <3>1. CASE k = 0
      BY <1>4, <3>1
    <3>2. CASE k # 0
      <4>1. k \in 1..n
        BY <3>2
      <4> QED
        BY <1>4, <3>2, <4>1
    <3> QED
      BY <3>1, <3>2
  <2>3. Loop(g)
    <3> HIDE DEF Body
    <3> QED
      BY <1>4, <2>2
  <2>4. Loop(upto)
    <3> HIDE DEF Loop
    <3> QED
      BY <2>3
  <2>5. \A k \in 0..n : upto[k] = Body(upto, k)
    <3> HIDE DEF Body, upto
    <3> QED
      BY <2>4
  <2>6. upto[0] = g[0] /\ \A k \in 1..n : upto[k - 1] = g[k - 1] => upto[k] = g[k]
    <3> HIDE DEF upto, Loop
    <3>1. 0 \in 0..n /\ \A k \in 1..n : k \in 0..n /\ k # 0
      BY <1>1
    <3>2. upto[0] = g[0]
      BY <2>2, <2>5, <3>1
    <3>3. ASSUME NEW k \in 1..n, upto[k - 1] = g[k - 1]
          PROVE  upto[k] = g[k]
      <4>1. upto[k] = Body(upto, k) /\ g[k] = Body(g, k) /\ k # 0
        BY <2>2, <2>5, <3>1
      <4> QED
        BY <3>3, <4>1
    <3> QED
      BY <3>2, <3>3
  <2>7. upto[n] = g[n]
    <3> HIDE DEF upto, n
    <3> QED
      BY <1>1, <2>6, SameLoop
  <2> QED
    BY <2>1, <2>7
<1> QED
  BY <1>4, <1>5 DEF IsKept, V

\* Positions from which on none is kept do not matter.
LEMMA KeptUpTo ==
  ASSUME NEW s \in Seq(Char), NEW S, NEW g, IsKept(s, S, g),
         NEW k \in 0..Len(s), \A i \in S : i <= k
  PROVE  Kept(s, S) = g[k]
<1> DEFINE T == {i \in Nat : k + i <= Len(s) => g[k + i] = g[k]}
<1>1. 0 \in T
  OBVIOUS
<1>2. ASSUME NEW i \in Nat, i \in T
      PROVE  i + 1 \in T
  <2> SUFFICES ASSUME k + (i + 1) <= Len(s) PROVE g[k + (i + 1)] = g[k]
    OBVIOUS
  <2>1. /\ k + (i + 1) \in 1..Len(s) /\ (k + (i + 1)) - 1 = k + i
        /\ k + i <= Len(s) /\ ~(k + (i + 1) <= k)
    OBVIOUS
  <2>2. k + (i + 1) \notin S
    BY <2>1
  <2>3. g[k + (i + 1)] = g[k + i]
    BY <2>1, <2>2 DEF IsKept
  <2> QED
    BY <1>2, <2>1, <2>3
<1>3. Len(s) - k \in T
  <2>1. Len(s) - k \in Nat
    OBVIOUS
  <2> HIDE DEF T
  <2> QED
    BY <1>1, <1>2, <2>1, NatSetInduction
<1>4. g[Len(s)] = g[k]
  <2>1. k + (Len(s) - k) = Len(s)
    OBVIOUS
  <2> QED
    BY <1>3, <2>1
<1> QED
  BY <1>4 DEF IsKept

\* Keeping one more position, behind the others, keeps one more character.
LEMMA KeptAppends ==
  ASSUME NEW s \in Seq(Char), NEW S \in SUBSET Nat, NEW k \in 1..Len(s),
         \A i \in S : i <= k - 1
  PROVE  /\ Kept(s, S) \in Seq(Char)
         /\ Kept(s, S \cup {k}) = Append(Kept(s, S), s[k])
<1>1. PICK g : IsKept(s, S, g)
  BY KeptDefined
<1>2. PICK h : IsKept(s, S \cup {k}, h)
  BY KeptDefined
<1>3. k - 1 \in 0..Len(s) /\ k \in 0..Len(s)
  OBVIOUS
<1>4. Kept(s, S) = g[k - 1]
  BY <1>1, <1>3, KeptUpTo
<1>5. Kept(s, S \cup {k}) = h[k]
  <2>1. \A i \in S \cup {k} : i <= k
    <3>1. ASSUME NEW i \in S
          PROVE  i <= k
      <4>1. i \in Nat /\ i <= k - 1
        OBVIOUS
      <4> QED
        BY <4>1
    <3> QED
      BY <3>1
  <2> QED
    BY <1>2, <1>3, <2>1, KeptUpTo
<1>6. h[k] = Append(h[k - 1], s[k])
  BY <1>2 DEF IsKept
<1>7. h[k - 1] = g[k - 1]
  <2>1. k - 1 \in Nat
    OBVIOUS
  <2>2. h[0] = g[0]
    BY <1>1, <1>2 DEF IsKept
  <2>3. ASSUME NEW i \in 1..(k - 1), h[i - 1] = g[i - 1]
        PROVE  h[i] = g[i]
    <3>1. i \in 1..Len(s) /\ i # k
      OBVIOUS
    <3>2. i \in S \cup {k} <=> i \in S
      BY <3>1
    <3> QED
      BY <1>1, <1>2, <2>3, <3>1, <3>2 DEF IsKept
  <2> QED
    BY <2>1, <2>2, <2>3, SameLoop
<1>8. g[k - 1] \in Seq(Char)
  BY <1>1, <1>3 DEF IsKept
<1> QED
  BY <1>4, <1>5, <1>6, <1>7, <1>8

LEMMA KeptNone ==
  ASSUME NEW s \in Seq(Char)
  PROVE  Kept(s, {}) = <<>>
<1>1. PICK g : IsKept(s, {}, g)
  BY KeptDefined
<1>2. 0 \in 0..Len(s) /\ \A i \in {} : i <= 0
  OBVIOUS
<1>3. Kept(s, {}) = g[0]
  BY ONLY s \in Seq(Char), <1>1, <1>2, KeptUpTo
<1> QED
  BY <1>1, <1>3 DEF IsKept

LEMMA AppendedAlike ==
  ASSUME NEW t \in Seq(Char), NEW l \in Seq(Char),
         NEW a \in Char, NEW c \in Char, Append(t, a) = Append(l, c)
  PROVE  t = l
<1>1. /\ Len(Append(t, a)) = Len(t) + 1
      /\ \A i \in 1..Len(t) : Append(t, a)[i] = t[i]
  BY AppendProperties
<1>2. /\ Len(Append(l, c)) = Len(l) + 1
      /\ \A i \in 1..Len(l) : Append(l, c)[i] = l[i]
  BY AppendProperties
<1>3. Len(t) = Len(l)
  <2>1. Len(t) + 1 = Len(l) + 1
    BY <1>1, <1>2
  <2>2. Len(t) \in Nat /\ Len(l) \in Nat
    OBVIOUS
  <2> QED
    BY <2>1, <2>2
<1>4. \A i \in 1..Len(t) : t[i] = l[i]
  BY <1>1, <1>2, <1>3, Zenon
<1> QED
  BY <1>3, <1>4, SeqEqual

\* A set of positions without its last one.
LEMMA KeptWithoutLast ==
  ASSUME NEW s \in Seq(Char), NEW k \in 0..Len(s), NEW S \in SUBSET (1..k),
         NEW l \in Seq(Char), NEW c \in Char, Kept(s, S) = Append(l, c)
  PROVE  \E T \in SUBSET (1..k) : Kept(s, T) = l
<1>1. S # {}
  <2>1. Append(l, c) # <<>>
    BY ONLY l \in Seq(Char), c \in Char, AppendProperties
  <2>2. Kept(s, {}) = <<>>
    BY KeptNone
  <2> QED
    BY <2>1, <2>2
<1>2. PICK m \in S : \A i \in S : i <= m
  <2> DEFINE D == {k - i : i \in S}
  <2>1. D \subseteq Nat /\ D # {}
    <3>1. \A i \in S : k - i \in Nat
      OBVIOUS
    <3> QED
      BY <1>1, <3>1
  <2>2. PICK x \in D : \A y \in D : x <= y
    <3> HIDE DEF D
    <3> QED
      BY <2>1, LeastNatural
  <2>3. PICK m \in S : x = k - m
    BY <2>2
  <2>4. ASSUME NEW i \in S
        PROVE  i <= m
    <3>1. k - m <= k - i
      BY <2>2, <2>3
    <3>2. m \in Int /\ i \in Int
      OBVIOUS
    <3> QED
      BY <3>1, <3>2
  <2> QED
    BY <2>4
<1> DEFINE T == S \ {m}
<1>3. m \in 1..Len(s) /\ m \in 1..k
  OBVIOUS
<1>4. \A i \in T : i <= m - 1
  <2> SUFFICES ASSUME NEW i \in T PROVE i <= m - 1
    OBVIOUS
  <2>1. i <= m /\ i # m /\ i \in Int
    BY <1>2
  <2> QED
    BY <1>3, <2>1
<1>5. T \cup {m} = S
  OBVIOUS
<1>6. Kept(s, T) \in Seq(Char) /\ Kept(s, S) = Append(Kept(s, T), s[m])
  <2>1. T \in SUBSET Nat
    OBVIOUS
  <2> HIDE DEF T
  <2> QED
    BY <2>1, <1>3, <1>4, <1>5, KeptAppends
<1>7. Kept(s, T) = l
  <2> DEFINE t == Kept(s, T)
  <2>1. t \in Seq(Char) /\ s[m] \in Char
    BY <1>3, <1>6
  <2>2. Append(t, s[m]) = Append(l, c)
    BY <1>6
  <2> HIDE DEF t, T
  <2>3. t = l
    BY <2>1, <2>2, AppendedAlike
  <2> QED
    BY <2>3 DEF t
<1>8. T \in SUBSET (1..k)
  OBVIOUS
<1> HIDE DEF T
<1> QED
  BY <1>7, <1>8

\* u is what is left of t.
Remains(t, u) ==
  /\ u \in Seq(Char) /\ Len(u) <= Len(t)
  /\ \A i \in 1..Len(u) : u[i] = t[Len(t) - Len(u) + i]

\* Of the first k characters of t, all but a number of them are on the line l
\* or in the transmitter d.
Delivered(t, k, l, d, gone) ==
  \E S \in SUBSET (1..k) : l \o d = Kept(t, S) /\ k - Len(l \o d) = gone

ConsoleInv ==
  call.fn = "info" =>
    /\ call.items \in Messages
    /\ lost \in Nat /\ timeouts \in Nat /\ lost <= timeouts
    /\ line \in Seq(Char) /\ dr \in Seq(Char) /\ Len(dr) <= 1
    /\ result = NULL => unsent = <<>> /\ dr = <<>> /\ line = <<>> /\ lost = 0
    /\ result # NULL =>
         /\ result \in Seq(Char)
         /\ Remains(result, unsent)
         /\ Delivered(result, Len(result) - Len(unsent), line, dr, lost)

\* The next character to store, and what is left behind it.
LEMMA NextStored ==
  ASSUME NEW t \in Seq(Char), NEW u, Remains(t, u), u # <<>>
  PROVE  /\ Remains(t, Tail(u))
         /\ Len(t) - Len(u) \in Nat /\ (Len(t) - Len(u)) + 1 \in 1..Len(t)
         /\ Len(t) - Len(Tail(u)) = (Len(t) - Len(u)) + 1
         /\ Head(u) = t[(Len(t) - Len(u)) + 1] /\ Head(u) \in Char
<1>1. u \in Seq(Char) /\ Len(u) \in Nat /\ Len(u) <= Len(t) /\ Len(t) \in Nat
  BY DEF Remains
<1>2. Len(u) # 0
  BY <1>1
<1>3. /\ Tail(u) \in Seq(Char) /\ Len(Tail(u)) = Len(u) - 1
      /\ \A i \in 1..Len(Tail(u)) : Tail(u)[i] = u[i + 1]
  BY <1>1, HeadTailProperties
<1>4. Head(u) = u[1]
  BY <1>1, <1>2
<1>5. 1 \in 1..Len(u)
  BY <1>1, <1>2
<1>6. Head(u) = t[(Len(t) - Len(u)) + 1]
  BY <1>4, <1>5 DEF Remains
<1>7. Head(u) \in Char
  BY <1>1, <1>4, <1>5
<1>8. ASSUME NEW i \in 1..Len(Tail(u))
      PROVE  Tail(u)[i] = t[Len(t) - Len(Tail(u)) + i]
  <2>1. i + 1 \in 1..Len(u)
    BY <1>1, <1>3
  <2>2. Tail(u)[i] = t[Len(t) - Len(u) + (i + 1)]
    BY <1>3, <2>1 DEF Remains
  <2>3. Len(t) - Len(u) + (i + 1) = Len(t) - Len(Tail(u)) + i
    BY <1>1, <1>3
  <2> QED
    BY <2>2, <2>3
<1>9. Len(Tail(u)) <= Len(t)
  BY <1>1, <1>3
<1>10. Remains(t, Tail(u))
  BY <1>3, <1>8, <1>9 DEF Remains
<1> QED
  BY <1>1, <1>2, <1>3, <1>6, <1>7, <1>10

\* A character stored into the empty transmitter is delivered.
LEMMA StoredInEmpty ==
  ASSUME NEW t \in Seq(Char), NEW k \in Nat, k + 1 \in 1..Len(t),
         NEW l \in Seq(Char), NEW gone \in Nat, Delivered(t, k, l, <<>>, gone)
  PROVE  Delivered(t, k + 1, l, <<t[k + 1]>>, gone)
<1>1. l \o <<>> = l
  OBVIOUS
<1>2. PICK S \in SUBSET (1..k) : l = Kept(t, S) /\ k - Len(l) = gone
  BY <1>1 DEF Delivered
<1> DEFINE T == S \cup {k + 1}
<1>3. S \in SUBSET Nat /\ T \in SUBSET (1..(k + 1)) /\ \A i \in S : i <= (k + 1) - 1
  OBVIOUS
<1>4. Kept(t, T) = Append(l, t[k + 1])
  BY <1>2, <1>3, KeptAppends
<1>5. t[k + 1] \in Char
  OBVIOUS
<1>6. Append(l, t[k + 1]) = l \o <<t[k + 1]>> /\ Len(l \o <<t[k + 1]>>) = Len(l) + 1
  BY <1>5, AppendIsConcat, AppendProperties
<1>7. (k + 1) - Len(l \o <<t[k + 1]>>) = gone
  <2>1. Len(l) \in Nat
    OBVIOUS
  <2> QED
    BY <1>2, <1>6, <2>1
<1> HIDE DEF T
<1> QED
  BY <1>3, <1>4, <1>6, <1>7 DEF Delivered

\* Stored into a full one, it is lost or the character there is.
LEMMA StoredInFull ==
  ASSUME NEW t \in Seq(Char), NEW k \in Nat, k + 1 \in 1..Len(t),
         NEW l \in Seq(Char), NEW c \in Char, NEW gone \in Nat,
         Delivered(t, k, l, <<c>>, gone)
  PROVE  /\ Delivered(t, k + 1, l, <<c>>, gone + 1)
         /\ Delivered(t, k + 1, l, <<t[k + 1]>>, gone + 1)
<1>1. PICK S \in SUBSET (1..k) : l \o <<c>> = Kept(t, S) /\ k - Len(l \o <<c>>) = gone
  BY DEF Delivered
<1>2. Len(l) \in Nat /\ Len(l \o <<c>>) = Len(l) + 1
  OBVIOUS
<1>3. (k + 1) - Len(l \o <<c>>) = gone + 1
  BY <1>1, <1>2
<1>4. S \in SUBSET (1..(k + 1))
  OBVIOUS
<1>5. Delivered(t, k + 1, l, <<c>>, gone + 1)
  BY <1>1, <1>3, <1>4 DEF Delivered
<1>6. k \in 0..Len(t)
  OBVIOUS
<1>7. PICK T \in SUBSET (1..k) : Kept(t, T) = l
  <2>1. Append(l, c) = l \o <<c>>
    BY ONLY l \in Seq(Char), c \in Char, AppendIsConcat
  <2>2. Kept(t, S) = Append(l, c)
    BY <1>1, <2>1, Zenon
  <2> QED
    BY <1>6, <2>2, KeptWithoutLast
<1>8. l \o <<>> = l
  OBVIOUS
<1>9. k - Len(l) = gone + 1
  BY <1>1, <1>2
<1>10. Delivered(t, k, l, <<>>, gone + 1)
  BY <1>7, <1>8, <1>9 DEF Delivered
<1>11. Delivered(t, k + 1, l, <<t[k + 1]>>, gone + 1)
  BY <1>10, StoredInEmpty
<1> QED
  BY <1>5, <1>11

LEMMA OneCharacter ==
  ASSUME NEW d \in Seq(Char), Len(d) <= 1, d # <<>>
  PROVE  \E c \in Char : d = <<c>>
<1>1. Len(d) \in Nat /\ Len(d) # 0
  OBVIOUS
<1>2. Len(d) = 1
  <2>1. \A n \in Nat : n # 0 /\ n <= 1 => n = 1
    OBVIOUS
  <2> QED
    BY ONLY <1>1, <2>1, Len(d) <= 1
<1>3. d[1] \in Char
  BY <1>2
<1>4. <<d[1]>> \in Seq(Char) /\ Len(<<d[1]>>) = 1 /\ <<d[1]>>[1] = d[1]
  BY <1>3
<1>5. d = <<d[1]>>
  BY <1>2, <1>4, SeqEqual
<1> QED
  BY <1>3, <1>5

LEMMA InitConsole == Init => ConsoleInv
<1> SUFFICES ASSUME Init, call.fn = "info" PROVE ConsoleInv
  BY DEF ConsoleInv
<1>1. call.items \in Messages
  <2>1. ASSUME NEW m \in Memories, NEW d, NEW s, NEW n,
               call = [fn |-> "mem", m |-> m, d |-> d, s |-> s, n |-> n]
        PROVE  FALSE
    BY <2>1
  <2>2. ASSUME NEW m \in Memories, NEW d, NEW s, NEW c,
               call = [fn |-> "str", m |-> m, d |-> d, s |-> s, c |-> c]
        PROVE  FALSE
    BY <2>2
  <2>3. ASSUME NEW p \in Printed,
               call = [fn |-> "npf_vsnprintf", items |-> p.items, bufsz |-> p.bufsz]
        PROVE  FALSE
    BY <2>3
  <2>4. /\ call \notin [fn : {"strtoull_"}, number : Numbers]
        /\ call \notin [fn : {"qsort_"}, keys : Arrays]
        /\ call \notin [fn : {"crc32buf"}, buf : Buffers]
    OBVIOUS
  <2>5. call \in [fn : {"info"}, items : Messages]
    BY <2>1, <2>2, <2>3, <2>4 DEF Init
  <2> QED
    BY <2>5
<1>2. /\ result = NULL /\ unsent = <<>> /\ dr = <<>> /\ line = <<>>
      /\ lost = 0 /\ timeouts = 0
  BY DEF Init, uart_init
<1> QED
  BY <1>1, <1>2 DEF ConsoleInv

LEMMA InfoPrints == ConsoleInv /\ Info => ConsoleInv'
<1> SUFFICES ASSUME ConsoleInv, Info PROVE ConsoleInv'
  OBVIOUS
<1> DEFINE t == npf_vpprintf(FormatOf(call.items), ArgsOf(call.items), NULL).out
                  \o <<"CR", "LF">>
<1>1. call.fn = "info" /\ call' = call /\ result = NULL /\ result' = t
  BY DEF Info, Computes
<1>2. /\ unsent' = t /\ line' = line /\ dr' = dr
      /\ lost' = lost /\ timeouts' = timeouts
  BY <1>1 DEF Info, uart_puts
<1>3. /\ call.items \in Messages /\ lost \in Nat /\ timeouts \in Nat
      /\ lost <= timeouts /\ dr = <<>> /\ line = <<>> /\ lost = 0
  BY <1>1 DEF ConsoleInv
<1>4. t \in Seq(Char) /\ t # NULL
  BY <1>3, MessagesAssumption DEF Char
<1> HIDE DEF t
<1>5. Remains(t, t)
  <2>1. Len(t) \in Nat
    BY <1>4
  <2>2. \A i \in 1..Len(t) : Len(t) - Len(t) + i = i
    BY <2>1
  <2> QED
    BY <1>4, <2>1, <2>2 DEF Remains
<1>6. Delivered(t, Len(t) - Len(t), <<>>, <<>>, 0)
  <2>1. Len(t) - Len(t) = 0 /\ <<>> \o <<>> = <<>> /\ Len(<<>>) = 0
    BY <1>4
  <2>2. Kept(t, {}) = <<>> /\ {} \in SUBSET (1..0) /\ 0 - 0 = 0
    BY <1>4, KeptNone
  <2> QED
    BY <2>1, <2>2 DEF Delivered
<1>7. <<>> \in Seq(Char) /\ Len(<<>>) <= 1
  OBVIOUS
<1> QED
  BY <1>1, <1>2, <1>3, <1>4, <1>5, <1>6, <1>7 DEF ConsoleInv

\* uart_putc, into an empty transmitter or, after its wait, into a full one.
LEMMA PutcDelivers == ConsoleInv /\ PutcStores /\ UNCHANGED <<call, result>> => ConsoleInv'
<1> SUFFICES ASSUME ConsoleInv, PutcStores, call' = call, result' = result,
                    call.fn = "info"
             PROVE  ConsoleInv'
  BY DEF ConsoleInv
<1> DEFINE k == Len(result) - Len(unsent)
<1>1. /\ call.items \in Messages
      /\ lost \in Nat /\ timeouts \in Nat /\ lost <= timeouts
      /\ line \in Seq(Char) /\ dr \in Seq(Char) /\ Len(dr) <= 1
  BY DEF ConsoleInv
<1>2. unsent # <<>> /\ unsent' = Tail(unsent) /\ line' = line
  BY DEF PutcStores
<1>3. /\ result # NULL /\ result \in Seq(Char) /\ Remains(result, unsent)
      /\ Delivered(result, k, line, dr, lost)
  BY <1>2 DEF ConsoleInv
<1>4. /\ Remains(result, unsent') /\ k \in Nat /\ k + 1 \in 1..Len(result)
      /\ Len(result) - Len(unsent') = k + 1
      /\ Head(unsent) = result[k + 1] /\ Head(unsent) \in Char
  BY <1>2, <1>3, NextStored
<1>5. SUFFICES /\ lost' \in Nat /\ timeouts' \in Nat /\ lost' <= timeouts'
               /\ dr' \in Seq(Char) /\ Len(dr') <= 1
               /\ Delivered(result, k + 1, line, dr', lost')
  <2> HIDE DEF k
  <2> QED
    BY <1>1, <1>2, <1>3, <1>4, <1>5 DEF ConsoleInv
<1> HIDE DEF k
<1>6. timeouts' \in Nat /\ timeouts <= timeouts'
  BY <1>1 DEF PutcStores
<1>7. CASE dr = <<>>
  <2>1. dr' = <<result[k + 1]>> /\ lost' = lost
    BY <1>4, <1>7 DEF PutcStores, TXFF
  <2>2. Delivered(result, k, line, <<>>, lost)
    BY <1>3, <1>7
  <2>3. Delivered(result, k + 1, line, <<result[k + 1]>>, lost)
    BY <1>1, <1>3, <1>4, <2>2, StoredInEmpty
  <2>4. dr' \in Seq(Char) /\ Len(dr') <= 1
    BY <1>4, <2>1
  <2> QED
    BY <1>1, <1>6, <2>1, <2>3, <2>4
<1>8. CASE dr # <<>>
  <2>1. PICK c \in Char : dr = <<c>>
    BY ONLY <1>1, <1>8, OneCharacter
  <2>2. /\ polls = MaxWait /\ lost' = lost + 1 /\ timeouts' = timeouts + 1
        /\ dr' \in {<<c>>, <<result[k + 1]>>}
    BY <1>4, <1>8, <2>1 DEF PutcStores, TXFF
  <2>3. Delivered(result, k, line, <<c>>, lost)
    BY <1>3, <2>1
  <2>4. /\ Delivered(result, k + 1, line, <<c>>, lost + 1)
        /\ Delivered(result, k + 1, line, <<result[k + 1]>>, lost + 1)
    BY <1>1, <1>3, <1>4, <2>3, StoredInFull
  <2>5. dr' \in Seq(Char) /\ Len(dr') <= 1
    <3>1. <<result[k + 1]>> \in Seq(Char) /\ Len(<<result[k + 1]>>) <= 1
      BY <1>4
    <3>2. <<c>> \in Seq(Char) /\ Len(<<c>>) <= 1
      OBVIOUS
    <3> QED
      BY <2>2, <3>1, <3>2
  <2>6. lost' \in Nat /\ timeouts' \in Nat /\ lost' <= timeouts'
    BY <1>1, <2>2
  <2> QED
    BY <2>2, <2>4, <2>5, <2>6
<1> QED
  BY <1>7, <1>8

LEMMA NextConsole == ConsoleInv /\ [Next]_vars => ConsoleInv'
<1> SUFFICES ASSUME ConsoleInv, [Next]_vars PROVE ConsoleInv'
  OBVIOUS
<1>1. CASE Info
  BY <1>1, InfoPrints
<1>2. CASE PutcStores /\ UNCHANGED <<call, result>>
  BY <1>2, PutcDelivers
<1>3. CASE PutcWaits /\ UNCHANGED <<call, result>>
  BY <1>3 DEF PutcWaits, ConsoleInv
<1>4. CASE Transmit /\ UNCHANGED <<call, result>>
  <2>1. /\ call' = call /\ result' = result /\ unsent' = unsent
        /\ lost' = lost /\ timeouts' = timeouts
        /\ line' = line \o dr /\ dr' = <<>> /\ dr # <<>>
    BY <1>4 DEF Transmit, TXFF
  <2> SUFFICES ASSUME call.fn = "info" PROVE ConsoleInv'
    BY <2>1 DEF ConsoleInv
  <2>2. line \in Seq(Char) /\ dr \in Seq(Char) /\ result # NULL
    BY <2>1 DEF ConsoleInv
  <2>3. line' \in Seq(Char) /\ line' \o <<>> = line \o dr
    BY <2>1, <2>2
  <2>4. dr' \in Seq(Char) /\ Len(dr') <= 1
    BY <2>1
  <2>5. Delivered(result, Len(result) - Len(unsent), line, dr, lost)
    BY <2>2 DEF ConsoleInv
  <2>6. Delivered(result, Len(result) - Len(unsent), line', dr', lost)
    BY <2>1, <2>3, <2>5 DEF Delivered
  <2> QED
    BY <2>1, <2>2, <2>3, <2>4, <2>6 DEF ConsoleInv
<1>5. CASE call' = call /\ call.fn # "info"
  BY <1>5 DEF ConsoleInv
<1>6. CASE Mem \/ Str \/ Strtoull \/ Qsort \/ Crc \/ Vsnprintf
  BY <1>5, <1>6 DEF Mem, Str, Strtoull, Qsort, Crc, Vsnprintf, Returns, Computes
<1>7. CASE UNCHANGED vars
  BY <1>7 DEF vars, uart, ConsoleInv
<1> QED
  BY <1>1, <1>2, <1>3, <1>4, <1>6, <1>7 DEF Next, Putc

\* Whatever the UART does with a message, what leaves it is the message in
\* order, and it misses a character only for a wait that ran to its end.
THEOREM ConsoleKeepsOrder == Spec => []ConsoleInOrder
<1>1. ConsoleInv => ConsoleInOrder
  <2> SUFFICES ASSUME ConsoleInv, Returned("info") PROVE ConsoleInOrder
    BY DEF ConsoleInOrder
  <2>1. /\ lost <= timeouts
        /\ Delivered(result, Len(result) - Len(unsent), line, dr, lost)
    BY DEF ConsoleInv, Returned
  <2> QED
    BY <2>1 DEF ConsoleInOrder, Delivered
<1> QED
  BY InitConsole, NextConsole, <1>1, PTL DEF Spec

=============================================================================
