# little_loader in TLA+

little_loader is a boot loader for QEMU's aarch64 `virt` machine. It reads a
U-Boot environment block from a virtio disk, decides which of two firmware slots
to boot (and whether to go back to the other one), loads that slot's Linux
kernel, adds the kernel command line to the device tree and jumps. This
directory models it in TLA+, checks the models with TLC and proves the central
properties with TLAPS.

## Inventory

| Component | State | Operations | Correct when |
|---|---|---|---|
| boot flow, `src/main.c` | kernel LBA and arguments; environment in memory; active slot | `rom_main`, `process_uboot_env`, `load_kernel`, `load_dtb` | there is always validated firmware to fall back to; unvalidated firmware is tried once; a revert is final; command line and kernel belong together |
| U-Boot environment, `src/uboot_env.c` | list of name/value pairs, the block, cursors | read, setenv, unsetenv, getenv, sort, write, free | reads and writes stay in the block; what was written is read back; malformed blocks are refused |
| virtio driver, `src/virtio_blk.c` | rings, descriptors, request header, status byte, MMIO registers | init, read, write | a call takes effect exactly once before it returns; nothing is reused while the device works on it; every call returns |
| fwup recipe, `demo/fwup.conf` | the disk | tasks `complete`, `upgrade.a`, `upgrade.b` | never touches the firmware that the loader may need |
| C library, `src/util.c` | none | memory, strings, numbers, sorting | memory and strings agree with the C functions they replace, overlaps included; numbers are read as decimal or hexadecimal, modulo 2^64 |
| heap, `src/util.c` | the next free address | `malloc_`, `free_` | no block is given out twice or stored over |
| fatal and power off, `src/util.c` | none | `info`, `fatal`, `poweroff` | every boot that cannot go on ends |
| CRC-32, `src/crc32.c` | none | `crc32buf` | the table is that of the polynomial |
| device tree, `src/libfdt` (vendored) | the blob | `fdt_path_offset`, `fdt_add_subnode`, `fdt_setprop` | only `/chosen/bootargs` changes, within the blob's size |
| UART, `src/pl011_uart.c` | the transmitter | init, putc, puts | the wait is bounded; characters stay in order |
| printf, `src/nanoprintf.h` (vendored) | position in format and arguments | parsing, conversion, padding, storing | prints what the C standard says, inside its buffers |
| entry, `src/start.S`, `src/linker.ld` | none | stack, jump to `rom_main` | loader, stack, heap and kernel do not meet |

How they interact: `rom_main` calls `virtio_blk_init`, then `process_uboot_env`,
which reads the block through `virtio_blk_read`, parses it with `uboot_env_read`,
edits it with `uboot_env_setenv` and stores it with `uboot_env_write` and
`virtio_blk_write`. The disk outlives the loader: fwup and the running firmware
write the same block and the kernel images between two boots. The driver shares
its rings, descriptors and status byte with the device, which runs concurrently.
Heap, kernel, QEMU's device tree and its copy share one memory, and nothing in the
code compares their addresses. All messages go through nanoprintf to the UART.

What is hard: power may be lost between any two steps, and in the middle of the
128 KB write of the only copy of the environment; the write may fail and the boot
goes on; driver and device are concurrent, and the driver reuses the descriptors
as soon as the status byte changes; the parser meets blocks other tools wrote;
sizes come from a kernel header and a device tree and go into 32-bit arithmetic
and unchecked copies; a console that nobody reads must not stop a boot.
`PROJECT.json` lists these hazards line by line with the properties that cover
them.

## Modules

| Module | Role |
|---|---|
| `CLib` | `strcmp_`, `strnlen_`, `strndup_`, `strtoull_` as operators |
| `CMem` | `memcpy_`, `memmove_` and the other functions on memory, byte by byte |
| `CSort` | `qsort_`, one pass at a time |
| `LittleLoader` | the boot flow, with power, fwup and the firmware around it |
| `Failback` | abstract: the A/B mechanism as a machine of four phases |
| `MCLittleLoader` | instances for TLC, with the disk layout of `demo/fwup.conf` |
| `LittleLoader_proofs` | theorems about `LittleLoader` |
| `VirtioBlk` | driver and device, one step per shared access |
| `BlockIo` | abstract: atomic block I/O |
| `MCVirtioBlk` | symmetry for TLC |
| `VirtioBlk_proofs` | theorems about `VirtioBlk` |
| `UBootEnv` | the environment block byte by byte |
| `EnvMap` | abstract: a map from names to values, loaded and saved whole |
| `MCUBootEnv` | instances for TLC, with a small checksum for CRC-32 |
| `UBootEnv_proofs` | theorems about `UBootEnv` |
| `Fdt` | `load_dtb`, `fdt_add_bootargs` and the libfdt functions under them |
| `MCFdt` | device trees for TLC |
| `Fdt_proofs` | theorems about `Fdt` |
| `BootMemory` | one boot as stores to memory: heap, kernel, device tree; `fatal` |
| `MCBootMemory` | environments and device trees for a memory of 120 bytes |
| `BootMemory_proofs` | theorems about `BootMemory` |
| `Crc32` | `crc32buf` with its table, and the remainder by definition |
| `Printf` | nanoprintf as configured, and what a format means |
| `Uart` | the console driver and its transmitter |
| `Algorithms` | one call of a library function per behaviour, and what it must return |
| `MCAlgorithms` | the inputs |
| `Algorithms_proofs` | theorems about `Algorithms` |
| `SetInduction` | induction over the natural numbers, for the loops |
| `Util_proofs` | what the loops of `CMem` and `CSort` compute |

A definition whose comment starts with "Mutant of" is a deliberately wrong
version of the definition after it and is part of no specification. Each property
is violated when one of them takes the place of the right one.

### LittleLoader

`pc` is the step of `rom_main` the processor is at; a step ends where the disk is
touched or control branches. `disk` is the environment block: `crc_ok`, and the
variables the loader reads. `image` says what is at each slot's kernel LBA. The
other variables are the locals of `process_uboot_env` and `rom_main`, plus
history (`good`, `trial`, `reverted`, `lost`, `faults`) that no action reads
except for the bounds.

| Code | Actions |
|---|---|
| `rom_main` up to `virtio_blk_init` | `RomMain`, `DeviceFails` |
| `process_uboot_env`: read, parse, required variables | `ReadEnv`, `ParseFails`, `RequiredMissing`, `ParseOk` |
| failback branch | `Revert`, `FirstTry`, `WriteEnv`, `WriteEnvFails` |
| choice of the kernel | `SelectSlot` |
| `load_kernel` | `HeaderAccepted`, `HeaderRefused`, `LoadKernel`, `DeviceFails` |
| `load_dtb`, jump | `LoadDtb`, `DtbFails`, `StartLinux` |
| `demo/fwup.conf` | `FwupBegin`, `FwupFinish`, `FwupAbort`, `FwupComplete` |
| outside the code | `Reset`, `PowerCut`, `PowerCutInWrite`, `FwupCut`, `Validate` |

A write of the block that fails or is cut leaves the old block, the new one, or a
mixture that fails its CRC (`CutWrite`): the device gives no better promise for
256 sectors. An image being installed may or may not have its header already, so
`HeaderAccepted` and `HeaderRefused` are both possible for it. Two ways to hang are
not states here: polling a device forever (`VirtioBlk`) and the loop of `wfe` in
`fatal` (`BootMemory`). `UpgradeResolved` is about boots that go on or end.

Two assumptions about parties outside the repository: firmware validates itself
only if `nerves_fw_active` names the slot it runs from (`Validate`), and task
`complete` is not interrupted.

### VirtioBlk

Each driver action is one store, or one group of stores to memory the device
does not look at yet. The device wakes on a notification and then serves the ring
until it is empty, so it may take a request before it is notified of it; it
writes data, then the status byte, then the used ring, and the driver may run
between any two of these. Stores are seen in program order. The code has no
barrier before the notification, but the loader never turns the MMU on, so all its
accesses are to Device-nGnRnE memory, which is neither reordered nor buffered.

`SetFeaturesOk` follows the code: the test of `FEATURES_OK` never fires (see
Findings).

### UBootEnv

Offsets are those of the code. `uboot_env_read` has one action per turn of its
loops, with its four cursors; `uboot_env_write` one per pair. A C string is a
sequence of character codes. `At(c)` is the test against `end` followed by the
access, in the order of the code. `saved` is history: the map that the block on
disk stands for. `Entries`, `WellFormed` and `PairAt` define the format without
cursors, as a reference for the parser.

### Fdt

The structure block is a sequence of tags, the strings block a sequence of bytes;
the offsets and sizes of the header are fields of their own, because libfdt
updates them separately from the contents. `Tag` is `fdt_next_tag` with its two
ways to fail; a word that is no tag has the outcome of the second. One action per call of `fdt_add_bootargs`; `fdt_setprop` has three
(`ResizeProperty`, `AddString`, `AddProperty`), one per splice. Searches
(`fdt_subnode_offset`, `fdt_get_property`, `fdt_find_string_`) are written as the
first element of the set they look for. A source is any blob of the right types
(`SourceAssumption`): every field of its header may be wrong, except that the
strings block is by definition the bytes the header counts. `Path`, `Nodes` and
`Props` say what the tags stand for, and `WellFormed` which trees the Devicetree
Specification describes. Not used by the loader and left out:
version 1 to 15 trees, aliases, deletion, memory reservations. Offsets are far
below 2^32, so they do not wrap.

In the model instance the names are `ch` for `chosen` and `ba` for `bootargs`, to
keep the sizes small; nothing depends on them except alignment.

### BootMemory

A cell of memory says what was stored there last: byte `i` of the kernel or of the
device tree, or a byte of the `n`-th block of the heap. `util_init` and `malloc_`
make the requests of `process_uboot_env` in the order of the code (`Requests`),
with its early exits (`Cleanup`); `ReadHeader` and `ReadRest` are `load_kernel`,
with the number of sectors computed as the code does and converted to `uint32_t`
and back; `load_dtb` copies byte by byte with `memcpy_`. QEMU may put the device
tree anywhere. Every constant of the code is a constant of the module: memory is
scaled down, the inequalities between the constants (`LayoutAssumption`) are those
of the code. `fatal` ends in power off or a loop of `wfe` as the exception level
and the PSCI conduit decide.

Two limits of the code show here as conditions. Nothing compares the heap with
`KERNEL_LOAD_ADDR`, so `OwnMemoryKept` holds while the heap ends below it. The
loader has 2 MB: 128 KB for the buffer and, for each variable, 24 bytes and two
strings rounded up to 8, so only a block with some 40,000 variables of one
character would exceed it. And a device tree in the way of the heap or the kernel
is damaged before it is copied (`DtbWhole` excludes that; QEMU puts it above).

### Algorithms

`Algorithms` calls each function once on every input of the sets in
`MCAlgorithms` and compares the result with a definition that does not follow the
code: `memmove_` with the copy as a whole, `strtoull_` with the sum of its digits
times powers of the base (10 for base 0 without `0x`, as in the code: C would read
a leading 0 as octal; and modulo the width, where C saturates; the loader passes base
10 only), `qsort_` with a stable order, `crc32buf` with long
division by the polynomial, one bit at a time, and `npf_vsnprintf` with `Meaning`,
which takes a format as a list of items rather than as text. `info` prints
through `Printf` and then, character by character, through `Uart`.

`Printf` follows `npf_vpprintf` as `util.c` configures it; code for floating
point, `%n`, `h` and `#` is compiled out. Characters are strings of length one,
`int` and `long` have 4 and 9 bits, so that each range is met at both ends. What
the C standard leaves undefined is not compared: `%b` and `%p` with the flag `0`
and a precision. `%c` with a NUL prints nothing, where C prints the NUL; the
loader never does that.

`Uart`: `PutcWaits` is a turn of the loop of `uart_putc`, `PutcStores` its end. A
timeout is counted whenever the counter runs out, even if there is room by then.
The transmitter holds one character (the FIFO is disabled); what a store into a
full one does is not specified, so either character may be lost.

## Runs

| Run | Result | Shows |
|---|---|---|
| `LittleLoader_failback` | pass | `FallbackExists`, `TrialBound`, `RevertIsFinal`, `OnlyCompleteImages`, refinement of `Failback`; liveness: `UpgradeResolved` |
| `LittleLoader_anyenv` | pass | `TypeOK`, `ArgsMatchKernel`, `BootedAsRecorded` from any prepared disk |
| `LittleLoader_missing` | violated | finding 1 |
| `LittleLoader_bootcount` | violated | finding 2 |
| `VirtioBlk_io` | pass | `Delivered`, `QuietBetweenCalls`, `LiveMeansSetUp`, `TypeOK`, refinement of `BlockIo`; liveness: `CallsReturn` |
| `VirtioBlk_refused` | violated | finding 3 |
| `UBootEnv_parse` | pass | `ReadInBounds`, `CopiesWhole`, `ParsesFormat` |
| `UBootEnv_map` | pass | `WriteInBounds`, `FailsOnlyWhenFull`, refinement of `EnvMap` |
| `Fdt_bootargs` | pass | `HeaderInStep`, `BootargsReadBack`, `OnlyBootargsChanges`, `FailureRollsBack`, `NoSpaceOnlyWhenFull` |
| `BootMemory_layout` | pass | `TypeOK`, `KernelWhole`, `DtbWhole`, `OwnMemoryKept`; liveness: `BootEnds` |
| `BootMemory_request` | violated | finding 4 |
| `Algorithms` | pass | `MemoryAsC`, `NumbersRead`, `SortsStable`, `CrcByPolynomial`, `PrintsAsSpecified`, `PrintsInBounds`, `ConsoleInOrder`; liveness: `InfoReturns` |

Bounds. `MaxLost = 2` and `MaxFaults = 2` bound lost writes and faults over the
whole behaviour, which otherwise has any number of upgrades and resets: two let
both writes of one upgrade (the try and the revert) go wrong, or one write of two
upgrades. The theorems hold for every bound. `LittleLoader_anyenv` starts from
960 environments, every combination of missing variables and odd values.
`VirtioBlk` has a ring of two whose index wraps after four requests, so that a
wrap happens with the ring at either entry; the loader itself makes at most four
requests per boot, so that neither the 16-bit index nor the ring of eight wraps in
it, and the wrap is checked for the driver as such. `UBootEnv_parse` takes all 4^7 blocks
of seven bytes, enough for two entries, and for an entry that ends, or fails to
end, at the last byte. In `UBootEnv_map` the block has ten bytes for variables,
so that two or three variables fill it; it starts
from a new disk, from one with two variables that are not in order, and from one
that `uboot_env_read` refuses (`MCDisks`). `Fdt_bootargs` gives each of seven trees
and four strings blocks 0 to 48 bytes of slack, more than the 39 bytes
that the longest command line, the node and the name need together, so that every
splice fails in some tree and succeeds to the last byte in another; the damaged
trees cut the structure block inside and between tags; the others are well formed,
which TLC confirms (`GoodAssumption`). `BootMemory_layout` has
sectors of 4 bytes and image sizes 0 to 17 on both sides of every sector boundary
and of the limit of 16; the device tree starts in the heap, across the start of
the kernel, inside it, in its padding, across the copy's destination and above
it; one environment fills the heap to its last byte and one runs into the kernel.
`Algorithms`: memories of five bytes over three values with every pair of
addresses and every length; all byte strings of length one, which use every entry
of the CRC table; arrays of up to five elements; nine combinations of flags, five
widths and five precisions for every conversion at the ends of its range; buffers
of 0 to 8 characters; unfinished directives; a wait of two turns (`MaxWait`,
100,000 in the code).

Fairness. `LittleLoader!Fairness`: the processor runs the loader; a machine that
powered itself off is switched on; firmware that runs with an upgrade pending
validates or ends (watchdog, user, crash). Faults are finitely many because they
are bounded. `VirtioBlk!FairSpec`: the driver runs and the device serves its
queue. `BootMemory!FairSpec`: the processor runs. `Algorithms!Spec`: the processor
runs, and nothing is assumed of the UART. `UBootEnv` and `Fdt` need none.

The runs of `VirtioBlk`, `Fdt`, `BootMemory` and `Algorithms` do not check for
deadlock: a driver in `fatal`, or polling a device that refused its features,
really stops; `load_dtb`, a boot and a call end.

## Findings

1. A readable environment without `upgrade_available` (or without `bootcount`
   while an upgrade is pending) is treated like an unreadable one: the loader
   boots `DEFAULT_KERNEL_LBA`. The message says only the failback check is
   skipped (`src/main.c:62`, `65`).
2. `README.md:67` says a `bootcount` above 1 reverts; the code reverts on exactly
   `"1"` and takes any other value for a first try (`src/main.c:66`).
3. `VIRT_MMIO_STATUS & 8 == 0` (`src/virtio_blk.c:82`) parses as
   `VIRT_MMIO_STATUS & (8 == 0)`: a refusal of the features is never noticed, and
   the first request polls forever.
4. `image_size` 0, which kernels before 3.17 have in their headers, passes the
   size check (`src/main.c:128`) and gives `num_sectors` 0: the loader asks for
   `(0 - 1) * 512` bytes, 0xfffffe00 as a `uint32_t`. The message of the check
   (`src/main.c:129`) says that images above the maximum are refused. If a device
   served the request the result would be negative and the boot end in `fatal`; a
   device that stops at a buffer outside RAM leaves the driver polling.

Smaller observations, not checked by a run: an image of 1 to 512 bytes makes
`load_kernel` request 0 bytes, a descriptor of length 0 that a device need not
answer (`BootEnds` leaves images of one sector out for this reason); and the
message at `src/main.c:94` prints the address `kernel_lba`, not the LBA. If another
tool wrote a block with a variable twice, the list has both with the later one
first, and that one counts; `uboot_env_unsetenv` (`src/uboot_env.c:94`) removes
only it, so the older value comes back, and a write stores the two, sorted stably,
in the order of the list, so that after the next read the older value counts. And
a `size_dt_struct` that is not a multiple of four, which the format does not allow
and libfdt does not refuse, can leave the tag that was edited last outside the
block.

## Proofs

Every theorem holds for every value of the constants under the named `ASSUME`s of
the modules, which TLC evaluates on every run, and no other assumption.

| Module | Theorems |
|---|---|
| `LittleLoader_proofs` | `TypeCorrect`, `AlwaysFallback`, `TrialsBounded`, `RevertsAreFinal`, `ImagesComplete`, `OwnArguments`, `BootsRecordedSlot`, `Refinement` |
| `VirtioBlk_proofs` | `TypeCorrect`, `DeliveredOnce`, `QuietDevice`, `SetUpBeforeLive`, `DriverRefinesBlockIo` |
| `UBootEnv_proofs` | `ReaderStaysInBounds`, `ReaderCopiesWhole`, `ReaderParsesFormat`, `WriterStaysInBounds`, `WriterFailsOnlyWhenFull`, `EnvMapImplemented` |
| `Fdt_proofs` | `HeaderFollowsContents`, `FailedEditLeavesSource`, `NoSpaceExactlyWhenFull`, `KernelReadsBootargs`, `OnlyBootargsEdited` |
| `BootMemory_proofs` | `TypeCorrect`, `KernelIntact`, `DeviceTreeIntact`, `HeapAndLoaderIntact` |
| `Algorithms_proofs` | `MemoryFunctionsAsC`, `QsortSortsStable`, `StrtoullReadsNumbers`, `ConsoleKeepsOrder` |

### LittleLoader_proofs

For every layout of the disk, every set of texts and every `MaxLost` and
`MaxFaults`. `AlwaysFallback`, `TrialsBounded`, `RevertsAreFinal`,
`ImagesComplete` and `Refinement` start from a factory disk
(`InitialEnvs = {FactoryEnv}`), the others from any prepared one.

From a factory disk none of the properties is inductive. The invariant `IInv` adds
what each step of the loader knows: the block in `buffer` is the one on disk until
it is written; the environment in memory differs from it exactly by the decision
taken; a readable disk is healthy (its active slot is `a` or `b`, both kernel LBAs
are those of the layout, the fallback slot is good and complete); the slot chosen
is the active one of the decision. `TrialBound` needs the tighter count that a
fresh slot has been started at most `lost` times and a tried one at most
`1 + lost`; `RevertIsFinal` needs that a reverted slot is either off the record or
still on it as tried, so that the next boot reverts it again. The proof has one
step per action; `WriteOutcomes` treats the three results of a cut write once for
the writer and the power cut.

From any environment the disk may be unhealthy, and `AnyEnvInv` says less of it and
more of the locals: kernel LBA and arguments are the defaults until `SelectSlot`
(`DefaultsInv`), the copy in memory is the block on disk but for the decision
(`CopyInv`), and while no write was lost the slot being loaded is the one on record
(`RecordInv`).

### VirtioBlk_proofs

For every ring size, index width, set of calls and
interleaving of driver and device. `IInv` follows a published request through its
four stations, `Unseen`, `Taken`, `Executed`, `Answered` (`Handover`): each fixes
the distance of the two ring indices modulo `IdxMod`, the status byte and the
number of executions together, and outside them the device rests. `Prepared` says
that request header and descriptor are those of the current call from before it is
published; `SetUp` what the bits of the status register promise and that both rings
are at the start when `DRIVER_OK` is written. The refinement of
`BlockIo` maps the call to its begin at `Call`, to its effect when the device
transfers, and to its return when the status byte is read (`AbsPhase`, `AbsCall`,
`AbsResult`).

### UBootEnv_proofs

For every size and every content of the block. `ReadInv` says that no NUL lies
between the reader's cursors; `CopyOfString` then shows that the negated length
`value - endvalue` (`src/uboot_env.c:59`), a bound too large, does not matter for a
string that ends. It assumes `ULLMod >= 2 * env_size`, which 2^64 and 128 KB
satisfy. `ParseInv` relates the cursors to the definition of the format: `name` is
where an entry starts, the list holds the entries before it in order, and the `=`
found is the first; acceptance and refusal then agree with `WellFormed`.
`WriteInv` says that the writer's cursor is behind the bytes of the pairs stored so
far and leaves two bytes at the end, which gives both the bound and the exact
condition of a refusal; `DataInv` types the block and the list through every edit
and sort.

`EnvMapImplemented` is the refinement of `EnvMap`: while variables are read the map
is empty, otherwise it is the list's. `MapInv` says that the list names each
variable once (`ListedOnce`), so that the first match of a search is the only one,
that the block on disk does the same, and that `saved` is what the block says. Set,
unset and the sort then change the map as `EnvMap` does (`PutKeeps`, `RemoveKeeps`,
`SortKeeps`). For a write, `Stored` says that the texts of the pairs stored so far
are in the block, and `BlockWritten` that the finished block, parsed by its
definition, has exactly these entries, so that a later read loads the map that was
saved. The hypothesis `EachNameOnce` is needed: it says that no disk has one of the
callers' variables twice at the start (see the smaller observations). `setenv`
never adds a second.

### Fdt_proofs

For every device tree, damaged ones included, and every command line. `TreeInv`
says that the offset of the strings block and the size of the structure block
differ from the source's by the bytes really inserted (`InStep`), and keeps, step
by step, how tags and strings differ from the source's (`SameTree`, `SameStrings`,
`NameAdded`), which is what a roll back needs. The lemmas on `Inserted` and
`SizeOf` add up the bytes of tags before and behind a splice. `RoomInv` adds that
what the tree holds and what is still to be added sum up to the same number,
`Goal`, in every step; so the one comparison in `fdt_splice_` that fails or the
last that succeeds decides about the sum as a whole.

`KernelReadsBootargs` rests on `SearchInv`: from the time that `node` is known, the
search for `/chosen`, were it made again, would end there. A search that ends at a
tag depends on the tags up to it only (`FoundAgain`, `DepthAlike`), but the edited
tag itself must still be inside the block that `size_dt_struct` delimits; this
follows when that size is a multiple of four (`Aligned(source)`), as the format
requires, and is the theorem's hypothesis. Damaged trees are otherwise included.

`OnlyBootargsEdited` is about what the tags mean, in every tree that satisfies
`WellFormed`: nothing behind the end of the walk, names that end in the strings
block, the properties of a node directly behind it, no two of one name. `Opens`
finds the node of each depth around a tag without a choice among several, and
`SplicedPaths` shows that tags which return to the depth they start at can be put
between two others without changing the path of any of them; this covers both the
empty `/chosen` and the new property. `NameKept` says the same of the names when the
strings block grows. The invariant `OnlyInv` then has three parts: until the last
step the tree is the source with `/chosen` (`EditedAt`); when `fdt_get_property`
found none, no property of it is called `bootargs` (`Own` is empty), which needs
`WellFormed`, since libfdt looks only at what is directly behind the node; and the
last step changes or adds this one property (`ChangedOnly`).

### BootMemory_proofs

For every layout with the inequalities of the code, every environment, image size
and device tree. `IInv` describes the memory region by region: blocks of the heap
behind each other (`HeapInv`), the loader (`LoaderInv`), the bytes of the kernel
read so far (`KernelInv`), the device tree where QEMU put it and then its copy
(`DtbInv`, under the condition of `DtbWhole` for the part of the boot that has
happened). `CopyWhole` of `Util_proofs` shows that `memcpy_` copies right when it
copies downwards onto part of its source.

### Algorithms_proofs, Util_proofs, SetInduction

The loops of `util.c` are recursive functions over the turns. `SetInduction` derives
induction over the natural numbers from the least-element principle in the form
"a set that holds 0 and, with n, n + 1 holds every natural number", which the
provers can instantiate with a set, and from it the existence of what a recursion
defines. `Util_proofs` uses it for `memcpy_`, `memmove_`, `memset_`, `strlen_`,
`strrchr_` and the searches, and for `qsort_`: a turn of the inner loop leaves a
stable rearrangement, a pass brings the last element to its place, and the passes
sort. `Algorithms_proofs` states the results for every call (`CallInv`).

For `strtoull_` the reference is the sum of the digits times the powers of the
base, and the code multiplies and adds modulo the width of its type after every
digit. `SaidIsHorner` and `DigitsValueIsHorner` prove both equal to the same
recursion from the left, `DigitModulo` that the remainder may be taken at every turn;
`DigitsFound` shows that the loop ends where the digits do. `NumbersAssumption`
says what a number is: spaces, a prefix only for base 0, digits below the base, and
behind them nothing that could be one of them.

`ConsoleInv` follows a message through the transmitter: what is on the line or in
the transmitter is what was taken from the message so far without the characters
at some set of positions (`Kept`), as many as were lost, and each loss follows a
wait that ended. The proof takes one thing on `npf_vpprintf` from an assumption,
`MessagesAssumption`: that what it puts out for the messages is a sequence of
characters.

### Only model-checked

* `UpgradeResolved`, `CallsReturn`, `BootEnds`, `InfoReturns`: liveness under
  fairness is out of the prover's reach.
* `CrcByPolynomial`: the steps of its loop are exclusive or and shifts of 32-bit
  words, which the provers do not decide.
* `PrintsAsSpecified`, `PrintsInBounds`: they are about what `npf_vpprintf` puts
  out, a recursion over format states of more than a dozen fields that ends only
  for formats and arguments that fit together; its type alone would be a long
  proof.
* `BootargsReadBack` and `OnlyBootargsChanges` for trees outside the hypotheses of
  their theorems.

## Not modelled

The parts of libfdt the loader does not call (deletion, reservations, aliases,
phandles, packing, `fdt_wip.c`, trees before version 16) and the texts of
`fdt_strerror`; the parts of nanoprintf that the configuration compiles out; the
instructions of `start.S` and `setup_el2`; the baud rate. `nerves_fw_uuid` and the
partition table of `demo/fwup.conf` are not read by the loader.

## Plan

1. The output of `npf_vpprintf` typed, which would make `MessagesAssumption` a
   theorem and `PrintsInBounds` provable.
2. `LittleLoader` composed over `BlockIo`, sector by sector, in place of
   `CutWrite`.
