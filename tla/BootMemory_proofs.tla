------------------------- MODULE BootMemory_proofs --------------------------
(***************************************************************************)
(* Theorems about BootMemory, for every layout of memory that the          *)
(* assumptions allow, every environment, image size and device tree.       *)
(***************************************************************************)
EXTENDS BootMemory, Util_proofs, SequenceTheorems

(***************************************************************************)
(* Rounding up.                                                            *)
(***************************************************************************)

LEMMA CeilingDivision ==
  ASSUME NEW n \in Nat, NEW k \in Nat \ {0}
  PROVE  /\ (n + k - 1) \div k \in Nat
         /\ n <= ((n + k - 1) \div k) * k
         /\ ((n + k - 1) \div k) * k <= n + k - 1
<1> DEFINE q == (n + k - 1) \div k
           r == (n + k - 1) % k
<1>1. q \in Int /\ r \in 0..(k - 1) /\ n + k - 1 = k * q + r
  OBVIOUS
<1>2. q \in Nat
  OBVIOUS
<1> HIDE DEF q, r
<1>3. k * q = q * k /\ k * q \in Nat
  BY <1>1, <1>2
<1>4. n <= k * q /\ k * q <= n + k - 1
  BY <1>1, <1>3
<1> QED
  BY <1>2, <1>3, <1>4 DEF q

\* A multiple of k.
LEMMA MultipleMod ==
  ASSUME NEW q \in Nat, NEW k \in Nat \ {0}
  PROVE  (q * k) % k = 0
OBVIOUS

LEMMA ModMultiple ==
  ASSUME NEW a \in Nat, NEW k \in Nat \ {0}, a % k = 0
  PROVE  a = (a \div k) * k /\ a \div k \in Nat
OBVIOUS

\* Of two multiples the smaller is at least k below.
LEMMA NextMultiple ==
  ASSUME NEW p \in Int, NEW q \in Int, NEW k \in Nat \ {0}, p * k < q * k
  PROVE  p * k + k <= q * k
<1>1. p < q
  OBVIOUS
<1>2. p + 1 <= q
  BY <1>1
<1>3. (p + 1) * k <= q * k
  BY <1>2
<1> QED
  BY <1>3

-----------------------------------------------------------------------------
(***************************************************************************)
(* The inductive invariant: what each step of the boot has put where.      *)
(***************************************************************************)

Cells == {"loader", "ram", "heap", "kernel", "dtb"} \X Nat

Request == [size : Nat, exit : BOOLEAN]

Headers == [magic : BOOLEAN, size : Nat]

\* The header has been read and accepted; the kernel has been read.
Accepted == {"load_rest", "poll", "load_dtb", "start_linux", "linux"}
KernelRead == {"load_dtb", "start_linux", "linux"}

Types ==
  /\ mem \in [Address -> Cells]
  /\ todo \in Seq(Request)
  /\ pc \in Accepted => /\ image \in Headers
                        /\ image.size <= KERNEL_MAX_LENGTH

\* The heap grows from the stack's top, block behind block.
HeapInv ==
  /\ pc = "util_init" => blocks = <<>> /\ heap = 0
  /\ pc # "util_init" => StackTop <= heap
  /\ \A n \in DOMAIN blocks :
       StackTop <= blocks[n].at /\ blocks[n].at + blocks[n].size <= heap

LoaderInv == \A x \in 0..(StackTop - 1) : mem[x] = <<"loader", x>>

\* The first n bytes of the kernel are in their place.
KernelAt(n) ==
  \A i \in 0..(n - 1) : mem[KERNEL_LOAD_ADDR + i] = <<"kernel", i>>

KernelInv ==
  /\ pc = "load_rest" => KernelAt(SECTOR_SIZE)
  /\ pc \in KernelRead => image.size > 0 /\ KernelAt(image.size)

DtbAt(a) == \A i \in 0..(dtb.totalsize - 1) : mem[a + i] = <<"dtb", i>>

ClearOf(a, end) == Disjoint(dtb.at, dtb.totalsize, a, end - a)

\* The tree where QEMU put it, until it is copied; then the copy.
DtbInv ==
  /\ pc = "util_init" => DtbAt(dtb.at)
  /\ pc \in {"process_uboot_env", "load_kernel"} =>
       (ClearOf(StackTop, heap) => DtbAt(dtb.at))
  /\ pc = "load_rest" =>
       (ClearOf(StackTop, heap)
          /\ ClearOf(KERNEL_LOAD_ADDR, KERNEL_LOAD_ADDR + SECTOR_SIZE)
        => DtbAt(dtb.at))
  /\ pc \in KernelRead =>
       (ClearOf(StackTop, heap) /\ ClearOf(KERNEL_LOAD_ADDR, KernelEnd)
        => DtbAt(IF pc = "load_dtb" THEN dtb.at ELSE dtb_load_addr))

IInv == /\ TypeOK /\ Types /\ HeapInv /\ LoaderInv /\ OwnMemoryKept
        /\ KernelInv /\ DtbInv

-----------------------------------------------------------------------------
(***************************************************************************)
(* The layout, the operators on memory and the sizes.                      *)
(***************************************************************************)

LEMMA Layout ==
  /\ RamSize \in Nat /\ StackTop \in Nat /\ KERNEL_LOAD_ADDR \in Nat
  /\ KERNEL_MAX_LENGTH \in Nat
  /\ SECTOR_SIZE \in Nat \ {0} /\ Align \in Nat \ {0} /\ UIntMod \in Nat \ {0}
  /\ UBOOT_ENV_SIZE \in Nat /\ PairSize \in Nat /\ PtrSize \in Nat
  /\ StackTop <= KERNEL_LOAD_ADDR
  /\ KERNEL_LOAD_ADDR + KERNEL_MAX_LENGTH + SECTOR_SIZE <= RamSize
BY LayoutAssumption

LEMMA DtbPlace ==
  ASSUME NEW d \in Dtbs
  PROVE  /\ d.at \in Nat /\ d.totalsize \in Nat \ {0}
         /\ StackTop <= d.at /\ d.at + d.totalsize <= RamSize
         /\ KERNEL_LOAD_ADDR + KERNEL_MAX_LENGTH + Align + d.totalsize <= RamSize
BY DtbAssumption, Layout

LEMMA StoreEffect ==
  ASSUME NEW m \in [Address -> Cells], NEW a \in Nat, NEW n \in Nat, NEW cell,
         \A i \in 0..(n - 1) : cell[i] \in Cells
  PROVE  /\ Store(m, a, n, cell) \in [Address -> Cells]
         /\ \A x \in Address :
              Store(m, a, n, cell)[x] =
                IF x \in a..(a + n - 1) THEN cell[x - a] ELSE m[x]
<1>1. ASSUME NEW x \in Address, x \in a..(a + n - 1)
      PROVE  cell[x - a] \in Cells
  BY <1>1, Layout DEF Address
<1> QED
  BY <1>1 DEF Store

LEMMA RoundUpNat ==
  ASSUME NEW n \in Nat
  PROVE  /\ RoundUp(n) \in Nat /\ n <= RoundUp(n)
         /\ RoundUp(n) <= n + Align - 1
         /\ \E q \in Nat : RoundUp(n) = q * Align
<1> DEFINE q == (n + Align - 1) \div Align
<1>1. q \in Nat /\ n <= q * Align /\ q * Align <= n + Align - 1
  BY CeilingDivision, Layout
<1>2. RoundUp(n) = q * Align
  BY DEF RoundUp
<1> HIDE DEF q
<1> QED
  BY <1>1, <1>2, Layout

\* Rounding up never passes a multiple.
LEMMA RoundUpLeast ==
  ASSUME NEW n \in Nat, NEW k \in Nat, n <= k * Align
  PROVE  RoundUp(n) <= k * Align
<1>1. PICK q \in Nat : RoundUp(n) = q * Align
  BY RoundUpNat
<1>2. CASE k * Align < q * Align
  <2>1. k * Align + Align <= q * Align
    BY <1>2, NextMultiple, Layout
  <2> DEFINE a == k * Align
             b == q * Align
  <2>2. a \in Nat /\ b \in Nat /\ RoundUp(n) = b /\ n <= a /\ a + Align <= b
    BY <1>1, <2>1, Layout
  <2> HIDE DEF a, b
  <2>3. b <= n + Align - 1
    BY <2>2, RoundUpNat
  <2> QED
    BY <2>2, <2>3, Layout
<1> QED
  BY <1>1, <1>2, Layout

LEMMA HeapAligned ==
  ASSUME NEW a \in Nat, NEW n \in Nat, a % Align = 0
  PROVE  (a + RoundUp(n)) % Align = 0
<1>1. PICK q \in Nat : RoundUp(n) = q * Align
  BY RoundUpNat
<1>2. a = (a \div Align) * Align /\ a \div Align \in Nat
  BY ModMultiple, Layout
<1>3. a + RoundUp(n) = ((a \div Align) + q) * Align
  BY <1>1, <1>2, Layout
<1>4. (((a \div Align) + q) * Align) % Align = 0
  <2>1. (a \div Align) + q \in Nat
    BY <1>2
  <2> QED
    BY <2>1, MultipleMod, Layout
<1> QED
  BY <1>3, <1>4

\* load_kernel asks for the sectors behind the first one, and exactly for them,
\* whenever the result is not taken for an error.
LEMMA RestOfKernel ==
  ASSUME NEW size \in Nat, size <= KERNEL_MAX_LENGTH
  PROVE  /\ RestLength(size) \in 0..(UIntMod - 1)
         /\ size = 0 => ToInt(RestLength(size)) < 0
         /\ size > 0 =>
              RestLength(size) + SECTOR_SIZE
                = SECTOR_SIZE * ((size + SECTOR_SIZE - 1) \div SECTOR_SIZE)
<1> DEFINE q == (size + SECTOR_SIZE - 1) \div SECTOR_SIZE
<1>1. /\ q \in Nat /\ size <= q * SECTOR_SIZE
      /\ q * SECTOR_SIZE <= size + SECTOR_SIZE - 1
  BY CeilingDivision, Layout
<1>2. RestLength(size) = ((q - 1) * SECTOR_SIZE) % UIntMod
  BY DEF RestLength
<1> HIDE DEF q
<1>3. (q - 1) * SECTOR_SIZE = q * SECTOR_SIZE - SECTOR_SIZE
      /\ q * SECTOR_SIZE \in Nat /\ SECTOR_SIZE * q = q * SECTOR_SIZE
  BY <1>1, Layout
<1>4. RestLength(size) \in 0..(UIntMod - 1)
  BY <1>1, <1>2, Layout
<1>5. ASSUME size = 0
      PROVE  ToInt(RestLength(size)) < 0
  <2>1. q * SECTOR_SIZE < SECTOR_SIZE /\ q * SECTOR_SIZE = 0
    <3>1. q * SECTOR_SIZE < 1 * SECTOR_SIZE
      BY <1>1, <1>3, <1>5, Layout
    <3>2. q < 1
      BY <1>1, <3>1, Layout
    <3> QED
      BY <1>1, <3>1, <3>2, Layout
  <2>2. (q - 1) * SECTOR_SIZE = -SECTOR_SIZE
    BY <1>3, <2>1, Layout
  <2>3. SECTOR_SIZE < UIntMod \div 2 /\ UIntMod \div 2 + UIntMod \div 2 <= UIntMod
        /\ UIntMod \div 2 \in Nat
    BY LayoutAssumption
  <2>4. (-SECTOR_SIZE) % UIntMod = UIntMod - SECTOR_SIZE
    BY <2>3, Layout
  <2> QED
    BY <1>2, <2>2, <2>3, <2>4, Layout DEF ToInt
<1>6. ASSUME size > 0
      PROVE  RestLength(size) + SECTOR_SIZE = SECTOR_SIZE * q
  <2>1. q * SECTOR_SIZE >= SECTOR_SIZE
    <3>1. q >= 1
      BY <1>1, <1>6, Layout
    <3> QED
      BY <1>1, <3>1, Layout
  <2>2. (q - 1) * SECTOR_SIZE \in 0..(UIntMod - 1)
    <3>1. KERNEL_MAX_LENGTH + SECTOR_SIZE < UIntMod
      BY LayoutAssumption
    <3> QED
      BY <1>1, <1>3, <2>1, <3>1, Layout
  <2>3. ((q - 1) * SECTOR_SIZE) % UIntMod = (q - 1) * SECTOR_SIZE
    BY <2>2, Layout
  <2> QED
    BY <1>1, <1>2, <1>3, <2>3, Layout
<1> QED
  BY <1>4, <1>5, <1>6 DEF q

\* The copy of the tree begins behind the kernel and not behind its last sector.
LEMMA DtbBehindKernel ==
  ASSUME NEW size \in Nat, size <= KERNEL_MAX_LENGTH
  PROVE  LET q == (size + SECTOR_SIZE - 1) \div SECTOR_SIZE
             d == DtbAddress(size)
         IN  /\ d \in Nat /\ KERNEL_LOAD_ADDR + size <= d
             /\ d <= KERNEL_LOAD_ADDR + SECTOR_SIZE * q
             /\ d < KERNEL_LOAD_ADDR + KERNEL_MAX_LENGTH + Align
             /\ SECTOR_SIZE * q \in Nat
             /\ SECTOR_SIZE * q < size + SECTOR_SIZE
<1> DEFINE q == (size + SECTOR_SIZE - 1) \div SECTOR_SIZE
           k == SECTOR_SIZE \div Align
<1>1. /\ q \in Nat /\ size <= q * SECTOR_SIZE
      /\ q * SECTOR_SIZE <= size + SECTOR_SIZE - 1
  BY CeilingDivision, Layout
<1>2. SECTOR_SIZE = k * Align /\ k \in Nat
  BY LayoutAssumption, ModMultiple
<1> HIDE DEF q, k
<1>3. SECTOR_SIZE * q = (k * q) * Align /\ k * q \in Nat
      /\ SECTOR_SIZE * q = q * SECTOR_SIZE
  BY <1>1, <1>2, Layout
<1>4. RoundUp(size) <= SECTOR_SIZE * q
  <2>1. size <= (k * q) * Align
    BY <1>1, <1>3
  <2> QED
    BY <1>3, <2>1, RoundUpLeast
<1>5. /\ RoundUp(size) \in Nat /\ size <= RoundUp(size)
      /\ RoundUp(size) <= size + Align - 1
  BY RoundUpNat
<1> QED
  BY <1>1, <1>3, <1>4, <1>5, Layout DEF DtbAddress, q

LEMMA SeqOf ==
  ASSUME NEW S, NEW n \in Nat, NEW f \in [1..n -> S]
  PROVE  f \in Seq(S)
BY SeqDef

LEMMA SeqOfOne ==
  ASSUME NEW S, NEW x \in S
  PROVE  <<x>> \in Seq(S)
OBVIOUS

LEMMA SeqOfTwo ==
  ASSUME NEW S, NEW x \in S, NEW y \in S
  PROVE  <<x, y>> \in Seq(S)
OBVIOUS

LEMMA RequestsType ==
  ASSUME NEW e \in Envs
  PROVE  Requests(e) \in Seq(Request)
<1> DEFINE Pair == [name : Nat, value : Nat]
           n == Len(e.pairs)
<1>1. e.pairs \in Seq(Pair) /\ e.lba \in Nat /\ e.args \in Nat
  BY InputAssumption
<1>2. n \in Nat /\ \A k \in 1..n : e.pairs[k] \in Pair
  <2> HIDE DEF Pair
  <2> QED
    BY <1>1, ElementOfSeq, LenProperties
<1> HIDE DEF n
<1>3. ASSUME NEW size \in Nat, NEW x \in BOOLEAN
      PROVE  Req(size, x) \in Request
  BY DEF Req, Request
<1>4. ASSUME NEW size \in Nat, NEW x \in BOOLEAN
      PROVE  <<Req(size, x)>> \in Seq(Request)
  BY <1>3, SeqOfOne
<1> DEFINE parse == [k \in 1..(3 * n) |->
                       LET p == e.pairs[(k + 2) \div 3]
                       IN  IF k % 3 = 1 THEN Req(PairSize, TRUE)
                           ELSE IF k % 3 = 2 THEN Req(p.name + 1, FALSE)
                           ELSE Req(p.value + 1, FALSE)]
           sets  == [k \in 1..(IF e.pending = "revert" THEN 3 ELSE 1) |->
                       Req(2, FALSE)]
           write == IF e.pending = "no" THEN <<>>
                    ELSE <<Req(2, TRUE)>> \o sets \o <<Req(n * PtrSize, FALSE)>>
<1>5. parse \in Seq(Request)
  <2>1. ASSUME NEW k \in 1..(3 * n)
        PROVE  parse[k] \in Request
    <3>1. (k + 2) \div 3 \in 1..n
      BY <1>2
    <3> DEFINE p == e.pairs[(k + 2) \div 3]
    <3>2. p.name + 1 \in Nat /\ p.value + 1 \in Nat
      BY <1>2, <3>1
    <3>3. \/ parse[k] = Req(PairSize, TRUE)
          \/ parse[k] = Req(p.name + 1, FALSE)
          \/ parse[k] = Req(p.value + 1, FALSE)
      OBVIOUS
    <3> HIDE DEF p, parse
    <3> QED
      BY <1>3, <3>2, <3>3, Layout
  <2>2. 3 * n \in Nat
    BY <1>2
  <2>3. parse = [k \in 1..(3 * n) |-> parse[k]]
    OBVIOUS
  <2> HIDE DEF parse
  <2>4. parse \in [1..(3 * n) -> Request]
    BY <2>1, <2>3
  <2> QED
    BY <2>2, <2>4, SeqOf
<1>6. write \in Seq(Request)
  <2>1. sets \in Seq(Request)
    <3>1. /\ sets \in [1..3 -> Request] \/ sets \in [1..1 -> Request]
          /\ 3 \in Nat /\ 1 \in Nat
      BY <1>3
    <3> HIDE DEF sets
    <3> QED
      BY <3>1, SeqOf
  <2>2. <<Req(2, TRUE)>> \in Seq(Request)
    BY <1>4
  <2>3. <<Req(n * PtrSize, FALSE)>> \in Seq(Request)
    <3>1. n * PtrSize \in Nat
      BY <1>2, Layout
    <3> QED
      BY <1>4, <3>1
  <2> HIDE DEF sets
  <2>4. <<Req(2, TRUE)>> \o sets \in Seq(Request)
    BY <2>1, <2>2, ConcatProperties
  <2>5. <<Req(2, TRUE)>> \o sets \o <<Req(n * PtrSize, FALSE)>> \in Seq(Request)
    BY <2>3, <2>4, ConcatProperties
  <2>6. <<>> \in Seq(Request)
    BY EmptySeq
  <2> QED
    BY <2>5, <2>6
<1> HIDE DEF parse, write
<1>7. <<Req(UBOOT_ENV_SIZE, FALSE)>> \o parse \in Seq(Request)
  BY <1>4, <1>5, ConcatProperties, Layout
<1>8. <<Req(2, TRUE), Req(2, TRUE)>> \in Seq(Request)
  BY <1>3, SeqOfTwo
<1>9. <<Req(e.lba + 1, TRUE), Req(e.args + 1, TRUE)>> \in Seq(Request)
  <2>1. e.lba + 1 \in Nat /\ e.args + 1 \in Nat
    BY <1>1
  <2>2. Req(e.lba + 1, TRUE) \in Request /\ Req(e.args + 1, TRUE) \in Request
    BY <1>3, <2>1
  <2> QED
    BY <2>2, SeqOfTwo
<1>10. Requests(e) = <<Req(UBOOT_ENV_SIZE, FALSE)>> \o parse
                       \o <<Req(2, TRUE), Req(2, TRUE)>> \o write
                       \o <<Req(e.lba + 1, TRUE), Req(e.args + 1, TRUE)>>
  BY DEF Requests, parse, write, n
<1>11. <<Req(UBOOT_ENV_SIZE, FALSE)>> \o parse \o <<Req(2, TRUE), Req(2, TRUE)>>
         \in Seq(Request)
  BY <1>7, <1>8, ConcatProperties
<1>12. <<Req(UBOOT_ENV_SIZE, FALSE)>> \o parse \o <<Req(2, TRUE), Req(2, TRUE)>>
         \o write \in Seq(Request)
  BY <1>6, <1>11, ConcatProperties
<1> QED
  BY <1>9, <1>10, <1>12, ConcatProperties

-----------------------------------------------------------------------------
(***************************************************************************)
(* Steps that store nothing, and what a store above KERNEL_LOAD_ADDR does  *)
(* not reach.                                                              *)
(***************************************************************************)

LEMMA InitIInv ==
  Init => IInv
<1> SUFFICES ASSUME Init PROVE IInv
  OBVIOUS
<1> USE DEF Init
<1>1. /\ dtb \in Dtbs /\ dtb.at \in Nat /\ dtb.totalsize \in Nat \ {0}
      /\ StackTop <= dtb.at /\ dtb.at + dtb.totalsize <= RamSize
  BY DtbPlace
<1> DEFINE m == [x \in Address |-> IF x < StackTop THEN <<"loader", x>>
                                   ELSE <<"ram", x>>]
           cell == Bytes("dtb", dtb.totalsize)
<1>2. m \in [Address -> Cells]
  BY Layout DEF Address, Cells
<1>3. \A i \in 0..(dtb.totalsize - 1) : cell[i] = <<"dtb", i>> /\ cell[i] \in Cells
  BY <1>1 DEF Bytes, Cells
<1>4. /\ mem \in [Address -> Cells]
      /\ \A x \in Address : mem[x] =
           IF x \in dtb.at..(dtb.at + dtb.totalsize - 1) THEN cell[x - dtb.at]
           ELSE m[x]
  <2>1. mem = Store(m, dtb.at, dtb.totalsize, cell)
    OBVIOUS
  <2> HIDE DEF m, cell, Init
  <2>2. \A i \in 0..(dtb.totalsize - 1) : cell[i] \in Cells
    BY <1>3
  <2> QED
    BY <1>1, <1>2, <2>1, <2>2, StoreEffect
<1>5. LoaderInv
  <2> SUFFICES ASSUME NEW x \in 0..(StackTop - 1) PROVE mem[x] = <<"loader", x>>
    BY DEF LoaderInv
  <2>1. x \in Address /\ x < StackTop /\ x \notin dtb.at..(dtb.at + dtb.totalsize - 1)
    BY <1>1, Layout DEF Address
  <2> QED
    BY <1>4, <2>1
<1>6. DtbAt(dtb.at)
  <2> SUFFICES ASSUME NEW i \in 0..(dtb.totalsize - 1)
               PROVE  mem[dtb.at + i] = <<"dtb", i>>
    BY DEF DtbAt
  <2>1. /\ dtb.at + i \in Address
        /\ dtb.at + i \in dtb.at..(dtb.at + dtb.totalsize - 1)
        /\ (dtb.at + i) - dtb.at = i
    BY <1>1, Layout DEF Address
  <2> HIDE DEF m, cell
  <2> QED
    BY <1>3, <1>4, <2>1
<1> HIDE DEF m, cell
<1>7. 0 % Align = 0
  BY Layout
<1>8. TypeOK
  BY <1>1, <1>4, <1>7, Layout DEF TypeOK, Cells
<1>9. Types
  <2>1. todo \in Seq(Request)
    BY EmptySeq
  <2> QED
    BY <1>4, <2>1 DEF Types, Accepted
<1>10. HeapInv /\ KernelInv
  BY DEF HeapInv, KernelInv, KernelRead
<1>11. OwnMemoryKept
  BY <1>5 DEF OwnMemoryKept, LoaderInv
<1>12. DtbInv
  BY <1>6 DEF DtbInv, KernelRead
<1> QED
  BY <1>5, <1>8, <1>9, <1>10, <1>11, <1>12 DEF IInv

LEMMA UtilInit ==
  IInv /\ util_init => IInv'
<1> SUFFICES ASSUME IInv, util_init PROVE IInv'
  OBVIOUS
<1> USE DEF IInv, util_init, Goto
<1>1. todo' \in Seq(Request)
  BY RequestsType
<1>2. blocks = <<>> /\ heap' = StackTop /\ StackTop \in Nat /\ StackTop % Align = 0
  BY LayoutAssumption DEF HeapInv
<1>3. TypeOK'
  BY <1>2 DEF TypeOK
<1>4. Types'
  BY <1>1 DEF Types, Accepted
<1>5. HeapInv'
  BY <1>2 DEF HeapInv
<1>6. LoaderInv' /\ OwnMemoryKept'
  BY <1>2 DEF LoaderInv, OwnMemoryKept
<1>7. KernelInv'
  BY DEF KernelInv, KernelRead
<1>8. DtbInv'
  BY DEF DtbInv, KernelRead, DtbAt
<1> QED
  BY <1>3, <1>4, <1>5, <1>6, <1>7, <1>8

\* A step that changes pc, request and the requests left to make, and goes to a
\* place of which the invariant says no more.
LEMMA QuietStep ==
  ASSUME IInv, pc # "util_init",
         pc' \in {"load_kernel", "fatal", "off", "wfe", "poll", "linux"},
         pc' = "load_kernel" => pc = "process_uboot_env",
         pc' = "poll" => pc = "load_rest",
         pc' = "linux" => pc = "start_linux",
         request' \in 0..(UIntMod - 1), todo' \in Seq(Request),
         UNCHANGED <<mem, heap, blocks, kernel_args, image, dtb, dtb_load_addr>>
  PROVE  IInv'
<1>1. TypeOK'
  BY DEF IInv, TypeOK
<1>2. Types'
  BY DEF IInv, Types, Accepted
<1>3. HeapInv' /\ LoaderInv' /\ OwnMemoryKept'
  BY DEF IInv, HeapInv, LoaderInv, OwnMemoryKept
<1>4. KernelInv'
  BY DEF IInv, KernelInv, KernelRead, KernelAt
<1>5. DtbInv'
  BY DEF IInv, DtbInv, KernelRead, DtbAt, ClearOf, KernelEnd
<1> QED
  BY <1>1, <1>2, <1>3, <1>4, <1>5 DEF IInv

LEMMA QuietSteps ==
  ASSUME IInv,
         \/ Cleanup \/ DeviceFails \/ ReadRestHangs \/ StartLinux \/ fatal
  PROVE  IInv'
<1>1. request \in 0..(UIntMod - 1) /\ todo \in Seq(Request)
  BY DEF IInv, TypeOK, Types
<1>2. CASE Cleanup
  <2>1. todo' \in Seq(Request)
    BY <1>2, EmptySeq DEF Cleanup
  <2> QED
    BY <1>1, <1>2, <2>1, QuietStep DEF Cleanup, Goto
<1>3. CASE DeviceFails
  BY <1>1, <1>3, QuietStep DEF DeviceFails, Goto
<1>4. CASE ReadRestHangs
  <2>1. image.size \in Nat /\ image.size <= KERNEL_MAX_LENGTH
    BY <1>4 DEF ReadRestHangs, IInv, Types, Accepted, Headers
  <2>2. request' \in 0..(UIntMod - 1)
    BY <1>4, <2>1, RestOfKernel DEF ReadRestHangs
  <2> QED
    BY <1>1, <1>4, <2>2, QuietStep DEF ReadRestHangs, Goto
<1>5. CASE StartLinux
  BY <1>1, <1>5, QuietStep DEF StartLinux, Goto
<1>6. CASE fatal
  BY <1>1, <1>6, QuietStep DEF fatal, Goto
<1> QED
  BY <1>2, <1>3, <1>4, <1>5, <1>6

\* Stores from KERNEL_LOAD_ADDR on reach neither the loader nor, while the heap
\* ends below, a block of it.
LEMMA StoreAbove ==
  ASSUME IInv, UNCHANGED <<heap, blocks>>,
         \A x \in Address : x < KERNEL_LOAD_ADDR => mem'[x] = mem[x]
  PROVE  LoaderInv' /\ OwnMemoryKept'
<1>1. ASSUME NEW x \in 0..(StackTop - 1)
      PROVE  mem'[x] = mem[x]
  BY Layout DEF Address
<1>2. ASSUME heap <= KERNEL_LOAD_ADDR, NEW n \in DOMAIN blocks,
             NEW i \in 0..(blocks[n].size - 1)
      PROVE  mem'[blocks[n].at + i] = <<"heap", n>>
  <2> DEFINE a == blocks[n].at
             s == blocks[n].size
  <2>1. a \in Nat /\ s \in Nat
    <3> DEFINE B == [at : Nat, size : Nat]
    <3>1. blocks \in Seq(B)
      BY DEF IInv, TypeOK
    <3>2. blocks[n] \in B
      <4> HIDE DEF B
      <4> QED
        BY <3>1, ElementOfSeq, LenProperties
    <3> QED
      BY <3>2
  <2>2. a + s <= heap /\ heap \in Nat
    BY DEF IInv, HeapInv, TypeOK
  <2>3. mem[a + i] = <<"heap", n>>
    BY <1>2 DEF IInv, OwnMemoryKept
  <2> HIDE DEF a
  <2>4. a + i \in Address /\ a + i < KERNEL_LOAD_ADDR
    <3> HIDE DEF s
    <3>1. i \in 0..(s - 1)
      BY <1>2 DEF s
    <3> QED
      BY <1>2, <2>1, <2>2, <3>1, Layout DEF Address
  <2>5. mem'[a + i] = <<"heap", n>>
    BY <2>3, <2>4
  <2> QED
    BY <2>5 DEF a
<1> QED
  BY <1>1, <1>2 DEF IInv, LoaderInv, OwnMemoryKept

-----------------------------------------------------------------------------
(***************************************************************************)
(* Steps that store.                                                       *)
(***************************************************************************)

LEMMA Malloc ==
  IInv /\ malloc_ => IInv'
<1> SUFFICES ASSUME IInv, malloc_ PROVE IInv'
  OBVIOUS
<1> DEFINE size == Head(todo).size
           end == heap + RoundUp(size)
           b == Len(blocks) + 1
           B == [at : Nat, size : Nat]
           cell == [i \in 0..(size - 1) |-> <<"heap", b>>]
<1>1. Head(todo) \in Request /\ Tail(todo) \in Seq(Request)
  BY HeadTailProperties DEF IInv, Types, malloc_
<1>2. size \in Nat
  BY <1>1 DEF Request
<1>3. /\ pc = "process_uboot_env" /\ pc' \in {pc, "load_kernel"}
      /\ heap' = end /\ blocks' = Append(blocks, [at |-> heap, size |-> size])
      /\ todo' = Tail(todo) /\ mem' = Store(mem, heap, size, cell)
      /\ UNCHANGED <<image, request, dtb, dtb_load_addr>>
  BY DEF malloc_, Goto
<1>4. blocks \in Seq(B) /\ heap \in Nat /\ heap % Align = 0 /\ StackTop <= heap
  BY <1>3 DEF IInv, TypeOK, HeapInv
<1>5. Len(blocks) \in Nat /\ DOMAIN blocks = 1..Len(blocks)
  <2> HIDE DEF B
  <2> QED
    BY <1>4, LenProperties
<1>6. end \in Nat /\ heap + size <= end /\ heap <= end /\ end % Align = 0
  <2>1. RoundUp(size) \in Nat /\ size <= RoundUp(size)
    BY <1>2, RoundUpNat
  <2> HIDE DEF size
  <2> QED
    BY <1>2, <1>4, <2>1, HeapAligned
<1>7. [at |-> heap, size |-> size] \in B
  BY <1>2, <1>4
<1> HIDE DEF size, end
<1>8. /\ blocks' \in Seq(B) /\ Len(blocks') = b /\ DOMAIN blocks' = 1..b
      /\ blocks'[b] = [at |-> heap, size |-> size]
      /\ \A n \in 1..Len(blocks) : blocks'[n] = blocks[n]
  <2> DEFINE new == [at |-> heap, size |-> size]
  <2> HIDE DEF B, new
  <2> QED
    BY <1>3, <1>4, <1>5, <1>7 DEF new
<1>9. mem \in [Address -> Cells]
  BY DEF IInv, Types
<1>10. /\ mem' \in [Address -> Cells]
       /\ \A x \in Address : mem'[x] =
            IF x \in heap..(heap + size - 1) THEN <<"heap", b>> ELSE mem[x]
  <2>1. \A i \in 0..(size - 1) : cell[i] = <<"heap", b>> /\ cell[i] \in Cells
    BY <1>2, <1>5 DEF Cells
  <2> HIDE DEF cell
  <2>2. /\ mem' \in [Address -> Cells]
        /\ \A x \in Address : mem'[x] =
             IF x \in heap..(heap + size - 1) THEN cell[x - heap] ELSE mem[x]
    <3>1. \A i \in 0..(size - 1) : cell[i] \in Cells
      BY <2>1
    <3>2. mem' = Store(mem, heap, size, cell)
      BY <1>3 DEF cell
    <3>3. heap \in Nat
      BY <1>4
    <3>4. /\ Store(mem, heap, size, cell) \in [Address -> Cells]
          /\ \A x \in Address : Store(mem, heap, size, cell)[x] =
               IF x \in heap..(heap + size - 1) THEN cell[x - heap] ELSE mem[x]
      BY ONLY <1>2, <1>9, <3>1, <3>3, StoreEffect
    <3> QED
      BY ONLY <3>2, <3>4
  <2>3. \A x \in heap..(heap + size - 1) : cell[x - heap] = <<"heap", b>>
    BY <1>2, <1>4, <2>1
  <2> QED
    BY <2>2, <2>3
<1> HIDE DEF cell
<1>11. kernel_args' \in {NULL} \cup DOMAIN blocks'
  BY <1>5, <1>8 DEF malloc_
<1>12. TypeOK'
  BY <1>3, <1>6, <1>8, <1>10, <1>11 DEF IInv, TypeOK, Cells
<1>13. Types'
  BY <1>1, <1>3, <1>10 DEF Types, Accepted
<1>14. HeapInv'
  <2>1. ASSUME NEW n \in DOMAIN blocks'
        PROVE  StackTop <= blocks'[n].at /\ blocks'[n].at + blocks'[n].size <= end
    <3>1. CASE n = b
      BY <1>2, <1>4, <1>6, <1>8, <3>1
    <3>2. CASE n \in 1..Len(blocks)
      <4>1. /\ blocks'[n] = blocks[n] /\ StackTop <= blocks[n].at
            /\ blocks[n].at + blocks[n].size <= heap
        BY <1>5, <1>8, <3>2 DEF IInv, HeapInv
      <4>2. blocks[n] \in B
        <5> HIDE DEF B
        <5> QED
          BY <1>4, <3>2, ElementOfSeq
      <4> QED
        BY <1>4, <1>6, <4>1, <4>2
    <3> QED
      BY <1>5, <1>8, <3>1, <3>2
  <2>2. StackTop <= end
    BY <1>4, <1>6, Layout
  <2> QED
    BY <1>3, <2>1, <2>2 DEF HeapInv
<1>15. \A x \in Address : x < heap => mem'[x] = mem[x]
  BY <1>4, <1>10, Layout DEF Address
<1>16. LoaderInv'
  <2>1. ASSUME NEW x \in 0..(StackTop - 1)
        PROVE  mem'[x] = mem[x]
    BY <1>4, <1>15, Layout DEF Address
  <2> QED
    BY <2>1 DEF IInv, LoaderInv
<1>17. OwnMemoryKept'
  <2> SUFFICES ASSUME end <= KERNEL_LOAD_ADDR, NEW n \in DOMAIN blocks',
                      NEW i \in 0..(blocks'[n].size - 1)
               PROVE  mem'[blocks'[n].at + i] = <<"heap", n>>
    BY <1>3, <1>16 DEF OwnMemoryKept, LoaderInv
  <2>1. CASE n = b
    <3>1. blocks'[n].at = heap /\ blocks'[n].size = size
      BY <1>8, <2>1
    <3>2. heap + i \in Address /\ heap + i \in heap..(heap + size - 1)
      BY <1>2, <1>4, <1>6, <3>1, Layout DEF Address
    <3> QED
      BY <1>10, <2>1, <3>1, <3>2
  <2>2. CASE n \in 1..Len(blocks)
    <3> DEFINE a == blocks[n].at
               s == blocks[n].size
    <3>1. blocks'[n] = blocks[n] /\ a + s <= heap
      BY <1>5, <1>8, <2>2 DEF IInv, HeapInv
    <3>2. blocks[n] \in B
      <4> HIDE DEF B
      <4> QED
        BY <1>4, <2>2, ElementOfSeq
    <3>3. a \in Nat /\ s \in Nat /\ i \in 0..(s - 1)
      BY <3>1, <3>2
    <3>4. mem[a + i] = <<"heap", n>>
      <4>1. heap <= KERNEL_LOAD_ADDR
        BY <1>4, <1>6, Layout
      <4> QED
        BY <1>5, <2>2, <3>3, <4>1 DEF IInv, OwnMemoryKept
    <3>5. blocks'[n].at = a
      BY <3>1
    <3> HIDE DEF a, s
    <3>6. a + i \in Address /\ a + i < heap
      BY <1>4, <1>6, <3>1, <3>3, Layout DEF Address
    <3> QED
      BY <1>15, <3>4, <3>5, <3>6
  <2>3. n = b \/ n \in 1..Len(blocks)
    BY <1>5, <1>8
  <2> QED
    BY <2>1, <2>2, <2>3
<1>18. KernelInv'
  BY <1>3 DEF KernelInv, KernelRead
<1>19. DtbInv'
  <2>1. /\ dtb.at \in Nat /\ dtb.totalsize \in Nat \ {0}
        /\ StackTop <= dtb.at /\ dtb.at + dtb.totalsize <= RamSize
    BY DtbPlace DEF IInv, TypeOK
  <2>2. ASSUME ClearOf(StackTop, heap)'
        PROVE  DtbAt(dtb.at)'
    <3>1. end <= dtb.at
      BY <1>3, <1>6, <2>1, <2>2, Layout DEF ClearOf, Disjoint
    <3>2. ClearOf(StackTop, heap)
      BY <1>4, <1>6, <2>1, <3>1, Layout DEF ClearOf, Disjoint
    <3>3. DtbAt(dtb.at)
      BY <1>3, <3>2 DEF IInv, DtbInv
    <3>4. ASSUME NEW i \in 0..(dtb.totalsize - 1)
          PROVE  mem'[dtb.at + i] = mem[dtb.at + i]
      <4>1. /\ dtb.at + i \in Address
            /\ dtb.at + i \notin heap..(heap + size - 1)
        <5>1. dtb.at <= dtb.at + i /\ dtb.at + i < dtb.at + dtb.totalsize
          BY <2>1
        <5>2. heap + size <= dtb.at
          BY <1>2, <1>4, <1>6, <2>1, <3>1
        <5> QED
          BY <1>2, <1>4, <2>1, <5>1, <5>2, Layout DEF Address
      <4> QED
        BY <1>10, <4>1
    <3> QED
      BY <1>3, <3>3, <3>4 DEF DtbAt
  <2> QED
    BY <1>3, <2>2 DEF DtbInv, KernelRead
<1> QED
  BY <1>12, <1>13, <1>14, <1>16, <1>17, <1>18, <1>19 DEF IInv

LEMMA HeaderRead ==
  IInv /\ ReadHeader => IInv'
<1> SUFFICES ASSUME IInv, ReadHeader PROVE IInv'
  OBVIOUS
<1> DEFINE K == KERNEL_LOAD_ADDR
           cell == Bytes("kernel", SECTOR_SIZE)
<1>1. /\ pc = "load_kernel" /\ request' = SECTOR_SIZE
      /\ mem' = Store(mem, K, SECTOR_SIZE, cell)
      /\ image' \in [magic : BOOLEAN, size : ImageSizes]
      /\ pc' \in {"load_rest", "fatal"}
      /\ pc' = "load_rest" => image'.size <= KERNEL_MAX_LENGTH
      /\ UNCHANGED <<heap, todo, blocks, kernel_args, dtb, dtb_load_addr>>
  BY DEF ReadHeader, Goto
<1>2. image' \in Headers
  BY <1>1, InputAssumption DEF Headers
<1>3. \A i \in 0..(SECTOR_SIZE - 1) : cell[i] = <<"kernel", i>> /\ cell[i] \in Cells
  BY Layout DEF Bytes, Cells
<1> HIDE DEF cell
<1>4. /\ mem' \in [Address -> Cells]
      /\ \A x \in Address : mem'[x] =
           IF x \in K..(K + SECTOR_SIZE - 1) THEN cell[x - K] ELSE mem[x]
  <2>1. mem \in [Address -> Cells]
    BY DEF IInv, Types
  <2>2. \A i \in 0..(SECTOR_SIZE - 1) : cell[i] \in Cells
    BY <1>3
  <2>3. mem' = Store(mem, K, SECTOR_SIZE, cell)
    BY <1>1
  <2> QED
    BY <2>1, <2>2, <2>3, StoreEffect, Layout
<1>5. TypeOK'
  <2>1. request' \in 0..(UIntMod - 1)
    BY <1>1, LayoutAssumption
  <2> QED
    BY <1>1, <1>2, <1>4, <2>1 DEF IInv, TypeOK, Cells, Headers
<1>6. Types'
  BY <1>1, <1>2, <1>4 DEF IInv, Types, Accepted
<1>7. HeapInv'
  BY <1>1 DEF IInv, HeapInv
<1>8. LoaderInv' /\ OwnMemoryKept'
  <2>1. \A x \in Address : x < K => mem'[x] = mem[x]
    BY <1>4, Layout DEF Address
  <2> QED
    BY <1>1, <2>1, StoreAbove
<1>9. KernelInv'
  <2>1. ASSUME NEW i \in 0..(SECTOR_SIZE - 1)
        PROVE  mem'[K + i] = <<"kernel", i>>
    <3>1. K + i \in Address /\ K + i \in K..(K + SECTOR_SIZE - 1) /\ (K + i) - K = i
      BY Layout DEF Address
    <3> QED
      BY <1>3, <1>4, <3>1
  <2> QED
    BY <1>1, <2>1 DEF KernelInv, KernelRead, KernelAt
<1>10. DtbInv'
  <2>1. /\ dtb.at \in Nat /\ dtb.totalsize \in Nat \ {0}
        /\ StackTop <= dtb.at /\ dtb.at + dtb.totalsize <= RamSize
    BY DtbPlace DEF IInv, TypeOK
  <2>2. ASSUME ClearOf(StackTop, heap), ClearOf(K, K + SECTOR_SIZE)
        PROVE  DtbAt(dtb.at)'
    <3>1. DtbAt(dtb.at)
      BY <1>1, <2>2 DEF IInv, DtbInv
    <3>2. ASSUME NEW i \in 0..(dtb.totalsize - 1)
          PROVE  mem'[dtb.at + i] = mem[dtb.at + i]
      <4>1. dtb.at <= dtb.at + i /\ dtb.at + i < dtb.at + dtb.totalsize
        BY <2>1
      <4>2. dtb.at + dtb.totalsize <= K \/ K + SECTOR_SIZE <= dtb.at
        BY <2>1, <2>2, Layout DEF ClearOf, Disjoint
      <4>3. dtb.at + i \in Address /\ dtb.at + i \notin K..(K + SECTOR_SIZE - 1)
        BY <2>1, <4>1, <4>2, Layout DEF Address
      <4> QED
        BY <1>4, <4>3
    <3> QED
      BY <1>1, <3>1, <3>2 DEF DtbAt
  <2> QED
    BY <1>1, <2>2 DEF DtbInv, KernelRead, ClearOf
<1> QED
  BY <1>5, <1>6, <1>7, <1>8, <1>9, <1>10 DEF IInv

LEMMA RestRead ==
  IInv /\ ReadRest => IInv'
<1> SUFFICES ASSUME IInv, ReadRest PROVE IInv'
  OBVIOUS
<1> DEFINE K == KERNEL_LOAD_ADDR
           at == K + SECTOR_SIZE
           size == image.size
           n == RestLength(size)
           sectors == SECTOR_SIZE * ((size + SECTOR_SIZE - 1) \div SECTOR_SIZE)
           cell == [i \in 0..(n - 1) |-> <<"kernel", SECTOR_SIZE + i>>]
<1>1. /\ pc = "load_rest" /\ request' = n /\ mem' = Store(mem, at, n, cell)
      /\ pc' = IF ToInt(n) < 0 THEN "fatal" ELSE "load_dtb"
      /\ UNCHANGED <<heap, todo, blocks, kernel_args, image, dtb, dtb_load_addr>>
  BY DEF ReadRest, Goto
<1>2. /\ size \in Nat /\ size <= KERNEL_MAX_LENGTH /\ image \in Headers
  BY <1>1 DEF IInv, Types, Accepted, Headers
<1>3. /\ n \in 0..(UIntMod - 1)
      /\ size = 0 => ToInt(n) < 0
      /\ size > 0 => n + SECTOR_SIZE = sectors
  BY <1>2, RestOfKernel
<1>4. sectors \in Nat /\ size <= sectors /\ sectors < size + SECTOR_SIZE
  <2> DEFINE q == (size + SECTOR_SIZE - 1) \div SECTOR_SIZE
  <2>1. /\ q \in Nat /\ size <= q * SECTOR_SIZE
        /\ q * SECTOR_SIZE <= size + SECTOR_SIZE - 1
    BY <1>2, CeilingDivision, Layout
  <2>2. sectors = SECTOR_SIZE * q
    OBVIOUS
  <2> HIDE DEF q, sectors, size
  <2>3. SECTOR_SIZE * q = q * SECTOR_SIZE /\ SECTOR_SIZE * q \in Nat
    BY <2>1, Layout
  <2> QED
    BY <1>2, <2>1, <2>2, <2>3, Layout
<1>5. KernelEnd = K + sectors
  BY DEF KernelEnd
<1>6. size > 0 \/ pc' = "fatal"
  BY <1>1, <1>2, <1>3
<1> HIDE DEF n, sectors
<1>7. \A i \in 0..(n - 1) : /\ cell[i] = <<"kernel", SECTOR_SIZE + i>>
                            /\ cell[i] \in Cells
  BY <1>3, Layout DEF Cells
<1> HIDE DEF cell
<1>8. /\ mem' \in [Address -> Cells]
      /\ \A x \in Address : mem'[x] =
           IF x \in at..(at + n - 1) THEN cell[x - at] ELSE mem[x]
  <2>1. mem \in [Address -> Cells]
    BY DEF IInv, Types
  <2>2. \A i \in 0..(n - 1) : cell[i] \in Cells
    BY <1>7
  <2>3. n \in Nat /\ at \in Nat
    BY <1>3, Layout
  <2> QED
    BY <1>1, <2>1, <2>2, <2>3, StoreEffect
<1>9. TypeOK'
  BY <1>1, <1>3, <1>8 DEF IInv, TypeOK, Cells
<1>10. Types'
  BY <1>1, <1>2, <1>8 DEF IInv, Types, Accepted
<1>11. HeapInv'
  BY <1>1 DEF IInv, HeapInv
<1>12. LoaderInv' /\ OwnMemoryKept'
  <2>1. \A x \in Address : x < K => mem'[x] = mem[x]
    BY <1>8, Layout DEF Address
  <2> QED
    BY <1>1, <2>1, StoreAbove
<1>13. KernelInv'
  <2> SUFFICES ASSUME size > 0, NEW i \in 0..(size - 1)
               PROVE  mem'[K + i] = <<"kernel", i>>
    BY <1>1, <1>6 DEF KernelInv, KernelRead, KernelAt
  <2>1. K + i \in Address
    BY <1>2, Layout DEF Address
  <2>2. CASE i < SECTOR_SIZE
    <3>1. mem[K + i] = <<"kernel", i>>
      BY <1>1, <1>2, <2>2, Layout DEF IInv, KernelInv, KernelAt
    <3>2. K + i \notin at..(at + n - 1)
      BY <1>2, <1>3, <2>2, Layout
    <3> QED
      BY <1>8, <2>1, <3>1, <3>2
  <2>3. CASE SECTOR_SIZE <= i
    <3> DEFINE j == i - SECTOR_SIZE
    <3>1. n \in Nat /\ n + SECTOR_SIZE = sectors
      BY <1>3
    <3>2. /\ j \in 0..(n - 1) /\ K + i \in at..(at + n - 1)
          /\ (K + i) - at = j /\ SECTOR_SIZE + j = i
      BY <1>2, <1>4, <2>3, <3>1, Layout
    <3> HIDE DEF j
    <3>3. mem'[K + i] = cell[j]
      BY <1>8, <2>1, <3>2
    <3> QED
      BY <1>7, <3>2, <3>3
  <2> QED
    BY <1>2, <2>2, <2>3, Layout
<1>14. DtbInv'
  <2>1. /\ dtb.at \in Nat /\ dtb.totalsize \in Nat \ {0}
        /\ StackTop <= dtb.at /\ dtb.at + dtb.totalsize <= RamSize
    BY DtbPlace DEF IInv, TypeOK
  <2>2. ASSUME ClearOf(StackTop, heap), ClearOf(K, K + sectors), size > 0
        PROVE  DtbAt(dtb.at)'
    <3>1. n \in Nat /\ n + SECTOR_SIZE = sectors
      BY <1>3, <2>2
    <3>2. dtb.at + dtb.totalsize <= K \/ K + sectors <= dtb.at
      BY <1>4, <2>1, <2>2, Layout DEF ClearOf, Disjoint
    <3>3. ClearOf(K, K + SECTOR_SIZE)
      BY <1>4, <2>1, <3>1, <3>2, Layout DEF ClearOf, Disjoint
    <3>4. DtbAt(dtb.at)
      BY <1>1, <2>2, <3>3 DEF IInv, DtbInv
    <3>5. ASSUME NEW i \in 0..(dtb.totalsize - 1)
          PROVE  mem'[dtb.at + i] = mem[dtb.at + i]
      <4>1. dtb.at <= dtb.at + i /\ dtb.at + i < dtb.at + dtb.totalsize
        BY <2>1
      <4>2. dtb.at + i \in Address /\ dtb.at + i \notin at..(at + n - 1)
        BY <2>1, <3>1, <3>2, <4>1, Layout DEF Address
      <4> QED
        BY <1>8, <4>2
    <3> QED
      BY <1>1, <3>4, <3>5 DEF DtbAt
  <2>3. KernelEnd' = K + sectors
    BY <1>1, <1>5 DEF KernelEnd
  <2> QED
    BY <1>1, <1>6, <2>2, <2>3 DEF DtbInv, KernelRead, ClearOf
<1> QED
  BY <1>9, <1>10, <1>11, <1>12, <1>13, <1>14 DEF IInv

\* The tree is clear of the kernel, so the copy either lies below it or begins
\* no later: memcpy_, which copies upwards, overwrites nothing it has to read.
LEMMA DtbLoaded ==
  IInv /\ load_dtb => IInv'
<1> SUFFICES ASSUME IInv, load_dtb PROVE IInv'
  OBVIOUS
<1> DEFINE K == KERNEL_LOAD_ADDR
           size == image.size
           sectors == SECTOR_SIZE * ((size + SECTOR_SIZE - 1) \div SECTOR_SIZE)
           d == DtbAddress(size)
           s == dtb.at
           n == dtb.totalsize
<1>1. /\ pc = "load_dtb" /\ dtb_load_addr' = d /\ pc' \in {"start_linux", "fatal"}
      /\ UNCHANGED <<heap, todo, blocks, kernel_args, image, request, dtb>>
  BY DEF load_dtb, Goto
<1>2. \/ UNCHANGED mem /\ pc' = "fatal"
      \/ mem' = memcpy_(mem, d, s, n)
  BY DEF load_dtb, Goto
<1>3. /\ size \in Nat /\ size <= KERNEL_MAX_LENGTH /\ image \in Headers
  BY <1>1 DEF IInv, Types, Accepted, Headers
<1>4. /\ d \in Nat /\ K + size <= d /\ d <= K + sectors
      /\ d < K + KERNEL_MAX_LENGTH + Align /\ sectors \in Nat
  BY <1>3, DtbBehindKernel
<1>5. KernelEnd = K + sectors
  BY DEF KernelEnd
<1>6. /\ s \in Nat /\ n \in Nat \ {0} /\ StackTop <= s /\ s + n <= RamSize
      /\ K + KERNEL_MAX_LENGTH + Align + n <= RamSize
  BY DtbPlace DEF IInv, TypeOK
<1>7. mem \in [Address -> Cells]
  BY DEF IInv, Types
<1>8. size > 0 /\ KernelAt(size)
  BY <1>1 DEF IInv, KernelInv, KernelRead
<1>9. ClearOf(StackTop, heap) /\ ClearOf(K, K + sectors) => DtbAt(s)
  BY <1>1, <1>5 DEF IInv, DtbInv, KernelRead
<1>10. pc' = "start_linux" \/ pc' = "fatal"
  BY <1>1
<1>11. KernelEnd' = K + sectors
  BY <1>1, <1>5 DEF KernelEnd
<1> HIDE DEF d, sectors
<1>12. /\ Address \in SUBSET Int /\ d \in Int /\ s \in Int /\ n \in Nat
       /\ s..(s + n - 1) \subseteq Address /\ d..(d + n - 1) \subseteq Address
  <2> HIDE DEF s, n
  <2> QED
    BY <1>4, <1>6, Layout DEF Address
<1>13. /\ mem' \in [Address -> Cells]
       /\ \A x \in Address : x \notin d..(d + n - 1) => mem'[x] = mem[x]
  <2>1. /\ memcpy_(mem, d, s, n) \in [Address -> Cells]
        /\ \A x \in Address :
             x \notin d..(d + n - 1) => memcpy_(mem, d, s, n)[x] = mem[x]
    <3> HIDE DEF s, n
    <3>1. memcpy_(mem, d, s, n) \in [Address -> Cells]
      BY <1>7, <1>12, CopyOutside
    <3>2. SameOutside(Address, mem, memcpy_(mem, d, s, n), d, n)
      BY <1>7, <1>12, CopyOutside
    <3> QED
      BY <3>1, <3>2 DEF SameOutside
  <2> QED
    BY <1>2, <1>7, <2>1
<1>14. TypeOK'
  BY <1>1, <1>4, <1>10, <1>13 DEF IInv, TypeOK, Cells
<1>15. Types'
  BY <1>1, <1>3, <1>13 DEF IInv, Types
<1>16. HeapInv'
  BY <1>1 DEF IInv, HeapInv
<1>17. LoaderInv' /\ OwnMemoryKept'
  <2>1. \A x \in Address : x < K => mem'[x] = mem[x]
    BY <1>3, <1>4, <1>13, Layout DEF Address
  <2> QED
    BY <1>1, <2>1, StoreAbove
<1>18. KernelInv'
  <2>1. ASSUME NEW i \in 0..(size - 1)
        PROVE  mem'[K + i] = <<"kernel", i>>
    <3>1. K + i \in Address /\ K + i \notin d..(d + n - 1)
      BY <1>3, <1>4, Layout DEF Address
    <3>2. mem[K + i] = <<"kernel", i>>
      BY <1>8 DEF KernelAt
    <3> QED
      BY <1>13, <3>1, <3>2
  <2> QED
    BY <1>1, <1>8, <2>1 DEF KernelInv, KernelRead, KernelAt
<1>19. DtbInv'
  <2>1. ASSUME ClearOf(StackTop, heap), ClearOf(K, K + sectors),
               pc' = "start_linux", NEW i \in 0..(n - 1)
        PROVE  mem'[d + i] = <<"dtb", i>>
    <3>1. mem' = memcpy_(mem, d, s, n)
      BY <1>2, <2>1
    <3>2. d <= s \/ s + n <= d
      <4>1. s + n <= K \/ K + sectors <= s
        BY <1>4, <1>6, <2>1, Layout DEF ClearOf, Disjoint
      <4> HIDE DEF s, n
      <4> QED
        BY <1>3, <1>4, <1>6, <4>1, Layout
    <3>3. mem' = [x \in Address |-> IF x \in d..(d + n - 1) THEN mem[s + x - d]
                                    ELSE mem[x]]
      <4> HIDE DEF s, n
      <4> QED
        BY <1>7, <1>12, <3>1, <3>2, CopyWhole DEF Moved
    <3>4. /\ d + i \in Address /\ d + i \in d..(d + n - 1)
          /\ s + (d + i) - d = s + i
      BY <1>4, <1>6, <1>12
    <3>5. mem'[d + i] = mem[s + i]
      BY <3>3, <3>4
    <3>6. mem[s + i] = <<"dtb", i>>
      BY <1>9, <2>1 DEF DtbAt
    <3> QED
      BY <3>5, <3>6
  <2> QED
    BY <1>1, <1>10, <1>11, <2>1 DEF DtbInv, KernelRead, ClearOf, DtbAt
<1> QED
  BY <1>14, <1>15, <1>16, <1>17, <1>18, <1>19 DEF IInv

-----------------------------------------------------------------------------

LEMMA StepIInv ==
  IInv /\ [Next]_vars => IInv'
<1> SUFFICES ASSUME IInv, [Next]_vars PROVE IInv'
  OBVIOUS
<1>1. CASE util_init
  BY <1>1, UtilInit
<1>2. CASE malloc_
  BY <1>2, Malloc
<1>3. CASE \/ Cleanup \/ DeviceFails \/ ReadRestHangs \/ StartLinux \/ fatal
  BY <1>3, QuietSteps
<1>4. CASE ReadHeader
  BY <1>4, HeaderRead
<1>5. CASE ReadRest
  BY <1>5, RestRead
<1>6. CASE load_dtb
  BY <1>6, DtbLoaded
<1>7. CASE UNCHANGED vars
  <2> USE <1>7 DEF vars
  <2>1. TypeOK'
    BY DEF IInv, TypeOK
  <2>2. Types' /\ HeapInv' /\ LoaderInv' /\ OwnMemoryKept'
    BY DEF IInv, Types, HeapInv, LoaderInv, OwnMemoryKept
  <2>3. KernelInv'
    BY DEF IInv, KernelInv, KernelAt
  <2>4. DtbInv'
    BY DEF IInv, DtbInv, DtbAt, ClearOf, KernelEnd
  <2> QED
    BY <2>1, <2>2, <2>3, <2>4 DEF IInv
<1> QED
  BY <1>1, <1>2, <1>3, <1>4, <1>5, <1>6, <1>7 DEF Next

LEMMA Invariance ==
  Spec => []IInv
BY InitIInv, StepIInv, PTL DEF Spec

\* Every state is well formed: the heap stays aligned, the command line is a
\* block of it, and what is passed as the length of a read fits a uint32_t
\* (malloc_, load_kernel).
THEOREM TypeCorrect ==
  Spec => []TypeOK
<1>1. IInv => TypeOK
  BY DEF IInv
<1> QED
  BY <1>1, Invariance, PTL

\* The kernel is whole when Linux starts, for every image size and layout: the
\* sectors load_kernel reads reach its last byte, a size of 0 is refused by the
\* sign of the result, and load_dtb copies the tree behind the last byte.
THEOREM KernelIntact ==
  Spec => []KernelWhole
<1>1. IInv => KernelWhole
  BY DEF IInv, KernelInv, KernelRead, KernelAt, KernelWhole
<1> QED
  BY <1>1, Invariance, PTL

\* A device tree that the heap and the kernel left alone is whole where load_dtb
\* copied it, wherever QEMU had put it, also where memcpy_ copies between
\* regions that overlap.
THEOREM DeviceTreeIntact ==
  Spec => []DtbWhole
<1>1. IInv => DtbWhole
  BY DEF IInv, DtbInv, KernelRead, DtbAt, ClearOf, DtbWhole
<1> QED
  BY <1>1, Invariance, PTL

\* Every block malloc_ gave out keeps its contents and the loader its code, as
\* long as the heap stays below KERNEL_LOAD_ADDR.
THEOREM HeapAndLoaderIntact ==
  Spec => []OwnMemoryKept
<1>1. IInv => OwnMemoryKept
  BY DEF IInv
<1> QED
  BY <1>1, Invariance, PTL

=============================================================================
