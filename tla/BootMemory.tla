----------------------------- MODULE BootMemory -----------------------------
(***************************************************************************)
(* What one boot does to memory: the loader's heap grows from its stack    *)
(* upwards, load_kernel reads the kernel to KERNEL_LOAD_ADDR, load_dtb     *)
(* copies the device tree behind it, and nothing in the code compares the  *)
(* four regions with each other.  It also models how a boot that fails     *)
(* ends (fatal, poweroff).                                                 *)
(*                                                                         *)
(* Memory is a function from addresses to cells.  A cell says what was     *)
(* stored last, as <<owner, index>>: byte i of the kernel, of the device   *)
(* tree, or a byte of the i-th block of the heap.  Address 0 stands for    *)
(* the start of RAM, where the linker puts the loader.  The sizes of the   *)
(* code are constants, so that TLC can take small ones.                    *)
(***************************************************************************)
EXTENDS CMem, Sequences

CONSTANTS
  RamSize,
  StackTop,            \* _stack_top: loader and stack are below
  KERNEL_LOAD_ADDR,
  KERNEL_MAX_LENGTH,
  SECTOR_SIZE,         \* 512
  Align,               \* 8: malloc_ and the device tree round up to it
  UIntMod,             \* 2^32, the width of len_bytes
  UBOOT_ENV_SIZE,
  PairSize, PtrSize,   \* sizeof(struct uboot_name_value), of a pointer
  Envs,                \* environments: lengths of their strings, see Requests
  ImageSizes,          \* what image_size of a kernel header may say
  Dtbs,                \* where QEMU may put the device tree: [at, totalsize]
  NULL

ASSUME LayoutAssumption ==
  /\ {RamSize, StackTop, KERNEL_LOAD_ADDR, KERNEL_MAX_LENGTH} \subseteq Nat
  /\ {SECTOR_SIZE, Align, UIntMod, UBOOT_ENV_SIZE, PairSize, PtrSize}
       \subseteq Nat \ {0}
  /\ StackTop % Align = 0 /\ KERNEL_LOAD_ADDR % Align = 0
  /\ SECTOR_SIZE % Align = 0
  /\ StackTop <= KERNEL_LOAD_ADDR
  /\ KERNEL_MAX_LENGTH + SECTOR_SIZE < UIntMod \div 2
  /\ KERNEL_LOAD_ADDR + KERNEL_MAX_LENGTH + SECTOR_SIZE <= RamSize

\* A device tree in RAM, aligned, not in the loader, and with room for a copy
\* of it behind the longest kernel.
ASSUME DtbAssumption ==
  \A d \in Dtbs : /\ d.at \in StackTop..(RamSize - d.totalsize)
                  /\ d.at % Align = 0
                  /\ d.totalsize \in 1..(RamSize - KERNEL_LOAD_ADDR
                                           - KERNEL_MAX_LENGTH - Align)

\* Lengths of strings, and a field of a header, are not negative.
ASSUME InputAssumption ==
  /\ ImageSizes \subseteq Nat
  /\ \A e \in Envs : /\ e.pairs \in Seq([name : Nat, value : Nat])
                     /\ e.lba \in Nat /\ e.args \in Nat

VARIABLES
  pc,
  mem,
  heap,          \* the next address malloc_ gives out
  todo,          \* requests process_uboot_env has still to make
  blocks,        \* history: what malloc_ returned, with the sizes asked for
  kernel_args,   \* a block of the heap or NULL
  image,         \* the header read: is its magic right, and image_size
  request,       \* history: len_bytes of the last read of the kernel
  dtb,           \* dtb_source and the total size in its header
  dtb_load_addr

vars == <<pc, mem, heap, todo, blocks, kernel_args, image, request, dtb,
          dtb_load_addr>>

-----------------------------------------------------------------------------

Address == 0..(RamSize - 1)

\* n bytes from address a on hold the given cells.
Store(m, a, n, cell) ==
  [x \in Address |-> IF x \in a..(a + n - 1) THEN cell[x - a] ELSE m[x]]

Bytes(owner, n) == [i \in 0..(n - 1) |-> <<owner, i>>]

RoundUp(n) == ((n + Align - 1) \div Align) * Align

\* A request to malloc_.  Before some of them the code may leave for cleanup.
Req(size, exit) == [size |-> size, exit |-> exit]

\* What process_uboot_env asks of malloc_, in order: the buffer; for every
\* variable its pair, name and value; the copies getenv and setenv make of
\* one-character values; the array of sort; the LBA and the arguments.
Requests(e) ==
  LET parse == [k \in 1..(3 * Len(e.pairs)) |->
                  LET p == e.pairs[(k + 2) \div 3]
                  IN  IF k % 3 = 1 THEN Req(PairSize, TRUE)
                      ELSE IF k % 3 = 2 THEN Req(p.name + 1, FALSE)
                      ELSE Req(p.value + 1, FALSE)]
      sets  == IF e.pending = "revert" THEN 3 ELSE 1
      write == IF e.pending = "no" THEN <<>>
               ELSE <<Req(2, TRUE)>> \o [k \in 1..sets |-> Req(2, FALSE)]
                      \o <<Req(Len(e.pairs) * PtrSize, FALSE)>>
  IN  <<Req(UBOOT_ENV_SIZE, FALSE)>> \o parse \o <<Req(2, TRUE), Req(2, TRUE)>>
        \o write \o <<Req(e.lba + 1, TRUE), Req(e.args + 1, TRUE)>>

-----------------------------------------------------------------------------

\* QEMU has put the loader and the device tree into RAM.
Init ==
  /\ pc = "util_init"
  /\ dtb \in Dtbs
  /\ mem = Store([x \in Address |-> IF x < StackTop THEN <<"loader", x>>
                                    ELSE <<"ram", x>>],
                 dtb.at, dtb.totalsize, Bytes("dtb", dtb.totalsize))
  /\ image = NULL
  /\ heap = 0 /\ todo = <<>> /\ blocks = <<>>
  /\ kernel_args = NULL /\ request = 0 /\ dtb_load_addr = 0

Goto(step) ==
  /\ pc' = step
  /\ UNCHANGED dtb

\* util_init, and process_uboot_env begins with some environment on the disk.
util_init ==
  /\ pc = "util_init"
  /\ heap' = StackTop
  /\ \E e \in Envs : todo' = Requests(e)
  /\ Goto("process_uboot_env")
  /\ UNCHANGED <<mem, blocks, kernel_args, image, request, dtb_load_addr>>

\* Mutant of malloc_: sizes are rounded down.
MallocRoundsDown ==
  /\ pc = "process_uboot_env" /\ todo # <<>>
  /\ heap' = heap + ((Head(todo).size \div Align) * Align)
  /\ mem' = Store(mem, heap, Head(todo).size,
                  [i \in 0..(Head(todo).size - 1) |-> <<"heap", Len(blocks) + 1>>])
  /\ blocks' = Append(blocks, [at |-> heap, size |-> Head(todo).size])
  /\ todo' = Tail(todo)
  /\ kernel_args' = IF todo' = <<>> THEN Len(blocks') ELSE NULL
  /\ Goto(IF todo' = <<>> THEN "load_kernel" ELSE pc)
  /\ UNCHANGED <<image, request, dtb_load_addr>>

\* malloc_, and its caller fills the block.  free_ does nothing: no block is
\* given out twice.  The last block is the kernel's command line.
malloc_ ==
  /\ pc = "process_uboot_env" /\ todo # <<>>
  /\ heap' = heap + RoundUp(Head(todo).size)
  /\ mem' = Store(mem, heap, Head(todo).size,
                  [i \in 0..(Head(todo).size - 1) |-> <<"heap", Len(blocks) + 1>>])
  /\ blocks' = Append(blocks, [at |-> heap, size |-> Head(todo).size])
  /\ todo' = Tail(todo)
  /\ kernel_args' = IF todo' = <<>> THEN Len(blocks') ELSE NULL
  /\ Goto(IF todo' = <<>> THEN "load_kernel" ELSE pc)
  /\ UNCHANGED <<image, request, dtb_load_addr>>

\* An unreadable block or a missing variable: on without a command line.
Cleanup ==
  /\ pc = "process_uboot_env" /\ todo # <<>> /\ Head(todo).exit
  /\ todo' = <<>>
  /\ Goto("load_kernel")
  /\ UNCHANGED <<mem, heap, blocks, kernel_args, image, request, dtb_load_addr>>

\* A read of the environment or the kernel fails.
DeviceFails ==
  /\ \/ pc = "process_uboot_env" /\ Len(blocks) = 1
     \/ pc \in {"load_kernel", "load_rest"}
  /\ Goto("fatal")
  /\ UNCHANGED <<mem, heap, todo, blocks, kernel_args, image, request,
                 dtb_load_addr>>

\* load_kernel reads the first sector and checks the header in it.
ReadHeader ==
  /\ pc = "load_kernel"
  /\ request' = SECTOR_SIZE
  /\ mem' = Store(mem, KERNEL_LOAD_ADDR, SECTOR_SIZE,
                  Bytes("kernel", SECTOR_SIZE))
  /\ image' \in [magic : BOOLEAN, size : ImageSizes]
  /\ Goto(IF image'.magic /\ image'.size <= KERNEL_MAX_LENGTH
          THEN "load_rest" ELSE "fatal")
  /\ UNCHANGED <<heap, todo, blocks, kernel_args, dtb_load_addr>>

\* Mutant of RestLength: rounds the number of sectors down.
RestLengthDown(size) == ((size \div SECTOR_SIZE - 1) * SECTOR_SIZE) % UIntMod

\* Mutant of RestLength: not converted to uint32_t.
RestLengthInt(size) ==
  ((size + SECTOR_SIZE - 1) \div SECTOR_SIZE - 1) * SECTOR_SIZE

\* (num_sectors - 1) * SECTOR_SIZE as the uint32_t it is passed as.
RestLength(size) ==
  (((size + SECTOR_SIZE - 1) \div SECTOR_SIZE - 1) * SECTOR_SIZE) % UIntMod

\* virtio_blk_read returns its uint32_t length as an int.
ToInt(n) == IF n < UIntMod \div 2 THEN n ELSE n - UIntMod

\* load_kernel reads the other sectors, and a device that can serves it.
ReadRest ==
  /\ pc = "load_rest"
  /\ LET at == KERNEL_LOAD_ADDR + SECTOR_SIZE
         n  == RestLength(image.size)
     IN  /\ request' = n
         /\ mem' = Store(mem, at, n,
                         [i \in 0..(n - 1) |-> <<"kernel", SECTOR_SIZE + i>>])
         /\ Goto(IF ToInt(n) < 0 THEN "fatal" ELSE "load_dtb")
  /\ UNCHANGED <<heap, todo, blocks, kernel_args, image, dtb_load_addr>>

\* A device may stop at an empty buffer or one outside RAM: the driver polls
\* forever.
ReadRestHangs ==
  /\ pc = "load_rest"
  /\ request' = RestLength(image.size)
  /\ \/ request' = 0
     \/ KERNEL_LOAD_ADDR + SECTOR_SIZE + request' > RamSize
  /\ Goto("poll")
  /\ UNCHANGED <<mem, heap, todo, blocks, kernel_args, image, dtb_load_addr>>

\* Mutant of DtbAddress: rounds down, into the kernel.
DtbAddressDown(len) == KERNEL_LOAD_ADDR + (len \div Align) * Align

DtbAddress(len) == KERNEL_LOAD_ADDR + RoundUp(len)

\* load_dtb: the magic number, then a copy of as many bytes as the word behind
\* it says.  Both lie in the first Align bytes of the tree, and everything
\* stored over it before begins at a multiple of Align: the size cannot be
\* damaged while the magic number is whole.  fdt_add_bootargs then edits the
\* copy inside its total size (module Fdt): here the bytes stay those of the
\* tree, and with a command line the edit may be fatal.
load_dtb ==
  /\ pc = "load_dtb"
  /\ dtb_load_addr' = DtbAddress(image.size)
  /\ IF mem[dtb.at] = <<"dtb", 0>>
     THEN /\ mem' = memcpy_(mem, DtbAddress(image.size), dtb.at, dtb.totalsize)
          /\ \/ Goto("start_linux")
             \/ kernel_args # NULL /\ Goto("fatal")
     ELSE /\ Goto("fatal")
          /\ UNCHANGED mem
  /\ UNCHANGED <<heap, todo, blocks, kernel_args, image, request>>

\* x0 is dtb_load_addr and the processor jumps to KERNEL_LOAD_ADDR.
StartLinux ==
  /\ pc = "start_linux"
  /\ Goto("linux")
  /\ UNCHANGED <<mem, heap, todo, blocks, kernel_args, image, request,
                 dtb_load_addr>>

\* poweroff: hvc in EL1, and then, as in EL2, smc.
PoweredOff(el, psci) == \/ el = 1 /\ psci = "hvc"
                        \/ el \in {1, 2} /\ psci = "smc"

\* fatal: a message, poweroff, and a loop of wfe when that does not work.  Which
\* call the machine answers depends on how QEMU was started.
fatal ==
  /\ pc = "fatal"
  /\ \E el \in 0..3, psci \in {"hvc", "smc", "none"} :
       Goto(IF PoweredOff(el, psci) THEN "off" ELSE "wfe")
  /\ UNCHANGED <<mem, heap, todo, blocks, kernel_args, image, request,
                 dtb_load_addr>>

Next ==
  \/ util_init \/ malloc_ \/ Cleanup \/ DeviceFails
  \/ ReadHeader \/ ReadRest \/ ReadRestHangs \/ load_dtb \/ StartLinux \/ fatal

Spec == Init /\ [][Next]_vars

\* The processor runs.
FairSpec == Spec /\ WF_vars(Next)

-----------------------------------------------------------------------------

TypeOK ==
  /\ pc \in {"util_init", "process_uboot_env", "load_kernel", "load_rest",
             "poll", "load_dtb", "start_linux", "linux", "fatal", "off", "wfe"}
  /\ \A x \in Address : mem[x] \in {"loader", "ram", "heap", "kernel", "dtb"} \X Nat
  /\ heap \in Nat /\ heap % Align = 0
  /\ blocks \in Seq([at : Nat, size : Nat])
  /\ kernel_args \in {NULL} \cup DOMAIN blocks
  /\ image # NULL => image \in [magic : BOOLEAN, size : Nat]
  /\ request \in 0..(UIntMod - 1)
  /\ dtb \in Dtbs /\ dtb_load_addr \in Nat

\* The kernel as it was on disk is at KERNEL_LOAD_ADDR when Linux starts, to
\* the last byte: the sector arithmetic reads enough, and the device tree,
\* copied over the padding of the last sector, does not reach into it.
KernelWhole ==
  pc = "linux" =>
    \A i \in 0..(image.size - 1) : mem[KERNEL_LOAD_ADDR + i] = <<"kernel", i>>

Disjoint(a, m, b, n) == a + m <= b \/ b + n <= a

\* The end of the last sector load_kernel stores.
KernelEnd ==
  KERNEL_LOAD_ADDR + SECTOR_SIZE * ((image.size + SECTOR_SIZE - 1) \div SECTOR_SIZE)

\* A device tree that neither the heap nor the kernel ran over reaches Linux
\* unharmed, even when source and destination of the copy overlap.
DtbWhole ==
  /\ pc = "linux"
  /\ Disjoint(dtb.at, dtb.totalsize, StackTop, heap - StackTop)
  /\ Disjoint(dtb.at, dtb.totalsize, KERNEL_LOAD_ADDR, KernelEnd - KERNEL_LOAD_ADDR)
  => \A i \in 0..(dtb.totalsize - 1) : mem[dtb_load_addr + i] = <<"dtb", i>>

\* As long as the heap ends below KERNEL_LOAD_ADDR, every block keeps what was
\* stored in it, the command line above all, until Linux starts, and the
\* loader's own code and stack are never stored to, whatever image_size says.
OwnMemoryKept ==
  heap <= KERNEL_LOAD_ADDR =>
    /\ \A n \in DOMAIN blocks :
         \A i \in 0..(blocks[n].size - 1) : mem[blocks[n].at + i] = <<"heap", n>>
    /\ \A x \in 0..(StackTop - 1) : mem[x] = <<"loader", x>>

\* An image of more than one sector never leaves the driver polling: the boot
\* ends in Linux or in fatal.
BootEnds ==
  <>(\/ pc \in {"linux", "off", "wfe"}
     \/ pc = "poll" /\ image.size <= SECTOR_SIZE)

\* What the check of image_size is for: the loader asks the device for no more
\* than KERNEL_MAX_LENGTH bytes of kernel.  image_size 0 passes the check and
\* asks for UIntMod - SECTOR_SIZE.
RequestWithinMax == request <= KERNEL_MAX_LENGTH

=============================================================================
