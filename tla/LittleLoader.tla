---------------------------- MODULE LittleLoader ----------------------------
(***************************************************************************)
(* One machine that boots through little_loader: rom_main with             *)
(* process_uboot_env, load_kernel and load_dtb (main.c), over a disk whose *)
(* U-Boot environment block and kernel images survive power loss.  Around  *)
(* the loader stand the parties that share that disk: fwup, which installs *)
(* firmware into the inactive slot (demo/fwup.conf), and the firmware that *)
(* runs, which validates itself or is reset.                               *)
(*                                                                         *)
(* A step of the loader ends where the disk is touched or where control    *)
(* branches, so that power may be lost between any two of them, and in the *)
(* middle of the write of the environment block.                           *)
(***************************************************************************)
EXTENDS CLib

CONSTANTS
  NULL,             \* an absent variable, the C null pointer
  ImageLba,         \* slot -> LBA of its kernel on disk (fwup.conf)
  LbaText,          \* slot -> text of its kernel_lba variable
  ArgsText,         \* slot -> its kernel_args variable
  InitialEnvs,      \* the environments the disk may hold at the start
  MaxLost,          \* bound on environment writes that fail or are cut
  MaxFaults         \* bound on power cuts and read errors while the loader runs

Slot == {"a", "b"}
Other(s) == IF s = "a" THEN "b" ELSE "a"

DEFAULT_KERNEL_LBA == 512

\* The value of nerves_fw_active: its first character and what follows it.
\* The empty string has NUL as its first character.
SlotText(c) == [c |-> c, rest |-> ""]
SlotTexts == [c : {"a", "b", "c"}, rest : {"", "junk"}] \cup {SlotText("NUL")}

Envs == [nerves_fw_active  : SlotTexts \cup {NULL},
         upgrade_available : {"0", "1", NULL},
         bootcount         : {"0", "1", "2", NULL},
         kernel_lba        : [Slot -> {LbaText["a"], LbaText["b"], NULL}],
         kernel_args       : [Slot -> {ArgsText["a"], ArgsText["b"], NULL}]]

\* The environment block: does uboot_env_read accept it (CRC and format), and
\* what does it hold.
Blocks == [crc_ok : BOOLEAN, vars : Envs]

\* What task "complete" of fwup.conf leaves on a new disk.
FactoryEnv ==
  [nerves_fw_active |-> SlotText("a"), upgrade_available |-> "0",
   bootcount |-> NULL, kernel_lba |-> LbaText, kernel_args |-> ArgsText]

ASSUME SlotLayout ==
  /\ ImageLba \in [Slot -> Nat]
  /\ ImageLba["a"] # ImageLba["b"]
  /\ \A s \in Slot : ImageLba[s] # DEFAULT_KERNEL_LBA
  /\ \A s \in Slot : strtoull_(LbaText[s], 10) = ImageLba[s]
  /\ DOMAIN LbaText = Slot /\ DOMAIN ArgsText = Slot
  /\ LbaText = [s \in Slot |-> LbaText[s]]
  /\ ArgsText = [s \in Slot |-> ArgsText[s]]

ASSUME NullIsNoValue ==
  /\ NULL \notin {LbaText["a"], LbaText["b"], ArgsText["a"], ArgsText["b"]}
  /\ NULL \notin {"0", "1", "2"} \cup SlotTexts \cup Slot
  /\ NULL \notin Envs \cup Blocks

ASSUME BoundsAssumption ==
  /\ InitialEnvs \subseteq Envs
  /\ MaxLost \in Nat /\ MaxFaults \in Nat

VARIABLES
  pc,           \* where the machine is: a step of the loader, "linux", "off"
  disk,         \* the environment block: does its CRC match, what does it hold
  image,        \* what is at each slot's kernel LBA
  buffer,       \* process_uboot_env: the block as read from disk
  env,          \* process_uboot_env: the parsed variables
  active_slot,  \* process_uboot_env: copy of nerves_fw_active, edited in place
  kernel_lba,   \* rom_main: where to load the kernel from
  kernel_args,  \* rom_main: its command line
  running,      \* the slot whose kernel the loader jumped to
  fwup,         \* the slot fwup is writing, or "idle"
  good,         \* history: slots whose present firmware validated itself
  trial,        \* history: hand-overs to a slot's firmware before it did
  reverted,     \* history: slots whose present firmware was reverted
  lost,         \* history: environment writes that failed or were cut short
  faults        \* history: power cuts and read errors in the loader

loaderVars == <<buffer, env, active_slot, kernel_lba, kernel_args>>
history == <<good, trial, reverted>>
vars == <<pc, disk, image, loaderVars, running, fwup, history, lost, faults>>

LoaderSteps == {"read_env", "parse_env", "failback", "write_env", "select",
                "load_header", "load_kernel", "load_dtb", "start_linux"}

Images == {"kernel",   \* a complete Image whose header load_kernel accepts
           "rejected", \* a complete image whose header it refuses
           "partial",  \* fwup has not finished writing it
           "blank"}    \* erased

TypeOK ==
  /\ pc \in LoaderSteps \cup {"off", "fatal", "linux"}
  /\ disk \in Blocks
  /\ image \in [Slot -> Images]
  /\ buffer \in Blocks \cup {NULL}
  /\ env \in Envs \cup {NULL}
  /\ active_slot \in SlotTexts \cup {NULL}
  /\ kernel_lba \in {DEFAULT_KERNEL_LBA, NULL}
                      \cup {strtoull_(LbaText[s], 10) : s \in Slot}
  /\ kernel_args \in {ArgsText["a"], ArgsText["b"], NULL}
  /\ running \in Slot \cup {NULL}
  /\ fwup \in Slot \cup {"idle"}
  /\ good \in SUBSET Slot
  /\ trial \in [Slot -> Nat]
  /\ reverted \in SUBSET Slot
  /\ lost \in 0..MaxLost
  /\ faults \in 0..MaxFaults

Init ==
  /\ pc = "off"
  /\ disk \in [crc_ok : {TRUE}, vars : InitialEnvs]
  /\ image = [s \in Slot |-> IF s = "a" THEN "kernel" ELSE "blank"]
  /\ buffer = NULL /\ env = NULL /\ active_slot = NULL
  /\ kernel_lba = NULL /\ kernel_args = NULL
  /\ running = NULL
  /\ fwup = "idle"
  /\ good = {"a"}
  /\ trial = [s \in Slot |-> 0]
  /\ reverted = {}
  /\ lost = 0
  /\ faults = 0

-----------------------------------------------------------------------------
(***************************************************************************)
(* The loader.                                                             *)
(***************************************************************************)

\* The machine is switched on: rom_main up to and including virtio_blk_init.
RomMain ==
  /\ pc = "off" /\ fwup = "idle"
  /\ pc' = "read_env"
  /\ UNCHANGED <<disk, image, loaderVars, running, fwup, history, lost, faults>>

\* Mutant of Fatal: it does not return and the power stays on.
FatalHangs ==
  UNCHANGED <<pc, disk, image, loaderVars, running, fwup, history, lost>>

\* fatal() prints and powers the machine off; everything in memory is gone.
Fatal ==
  /\ pc' = "fatal"
  /\ UNCHANGED <<disk, image, loaderVars, running, fwup, history, lost>>

\* virtio_blk_init finds no usable device, or an I/O on a read path fails.
DeviceFails ==
  /\ pc \in {"read_env", "load_header", "load_kernel"}
  /\ faults < MaxFaults
  /\ faults' = faults + 1
  /\ Fatal

\* process_uboot_env: read the block and set the defaults.
ReadEnv ==
  /\ pc = "read_env"
  /\ buffer' = disk
  /\ kernel_lba' = DEFAULT_KERNEL_LBA
  /\ kernel_args' = NULL
  /\ pc' = "parse_env"
  /\ UNCHANGED <<disk, image, env, active_slot, running, fwup, history,
                 lost, faults>>

\* The goto cleanup of process_uboot_env: the defaults stand.
Cleanup ==
  /\ pc' = "load_header"
  /\ UNCHANGED <<disk, image, buffer, kernel_lba, kernel_args, running, fwup,
                 history, lost, faults>>

\* uboot_env_read refuses the block.
ParseFails ==
  /\ pc = "parse_env"
  /\ ~buffer.crc_ok
  /\ Cleanup
  /\ UNCHANGED <<env, active_slot>>

\* A variable the loader insists on is missing.
RequiredMissing ==
  /\ pc = "parse_env"
  /\ buffer.crc_ok
  /\ \/ buffer.vars.nerves_fw_active = NULL
     \/ buffer.vars.upgrade_available = NULL
     \/ /\ buffer.vars.upgrade_available = "1"
        /\ buffer.vars.bootcount = NULL
  /\ env' = buffer.vars
  /\ active_slot' = buffer.vars.nerves_fw_active
  /\ Cleanup

\* All variables are there.  Only upgrade_available = "1" takes the failback
\* branch.
ParseOk ==
  /\ pc = "parse_env"
  /\ buffer.crc_ok
  /\ buffer.vars.nerves_fw_active # NULL
  /\ buffer.vars.upgrade_available # NULL
  /\ buffer.vars.upgrade_available = "1" => buffer.vars.bootcount # NULL
  /\ env' = buffer.vars
  /\ active_slot' = buffer.vars.nerves_fw_active
  /\ pc' = IF buffer.vars.upgrade_available = "1" THEN "failback" ELSE "select"
  /\ UNCHANGED <<disk, image, buffer, kernel_lba, kernel_args, running, fwup,
                 history, lost, faults>>

\* Mutant of Flip: the letter is put in front, not over the old one.
FlipInserts(v) == {[c |-> IF v.c = "a" THEN "b" ELSE "a", rest |-> v.c]}

\* The strings active_slot[0] = 'a' / 'b' may produce.  An empty string loses
\* its terminator; what follows is whatever the heap held.
Flip(v) ==
  {[c |-> IF v.c = "a" THEN "b" ELSE "a", rest |-> r] :
     r \in IF v.c = "NUL" THEN {"", "junk"} ELSE {v.rest}}

\* Mutant of Revert: nerves_fw_active is not set in the environment.
RevertUnrecorded ==
  /\ pc = "failback"
  /\ env.bootcount = "1"
  /\ active_slot' \in Flip(active_slot)
  /\ env' = [env EXCEPT !.upgrade_available = "0", !.bootcount = "0"]
  /\ reverted' = reverted \cup ({active_slot.c} \cap Slot)
  /\ pc' = "write_env"
  /\ UNCHANGED <<disk, image, buffer, kernel_lba, kernel_args, running, fwup,
                 good, trial, lost, faults>>

\* bootcount is "1": the previous boot did not validate, switch slots.
Revert ==
  /\ pc = "failback"
  /\ env.bootcount = "1"
  /\ \E v \in Flip(active_slot) :
       /\ active_slot' = v
       /\ env' = [env EXCEPT !.nerves_fw_active = v,
                             !.upgrade_available = "0",
                             !.bootcount = "0"]
  /\ reverted' = reverted \cup ({active_slot.c} \cap Slot)
  /\ pc' = "write_env"
  /\ UNCHANGED <<disk, image, buffer, kernel_lba, kernel_args, running, fwup,
                 good, trial, lost, faults>>

\* Mutant of FirstTry: the environment is not written.
FirstTryUnwritten ==
  /\ pc = "failback"
  /\ env.bootcount # "1"
  /\ env' = [env EXCEPT !.bootcount = "1"]
  /\ pc' = "select"
  /\ UNCHANGED <<disk, image, buffer, active_slot, kernel_lba, kernel_args,
                 running, fwup, history, lost, faults>>

\* Any other bootcount: the first try of the new slot.
FirstTry ==
  /\ pc = "failback"
  /\ env.bootcount # "1"
  /\ env' = [env EXCEPT !.bootcount = "1"]
  /\ pc' = "write_env"
  /\ UNCHANGED <<disk, image, buffer, active_slot, kernel_lba, kernel_args,
                 running, fwup, history, lost, faults>>

\* Mutant of WriteEnv: the block is formatted but not stored.
WriteEnvNowhere ==
  /\ pc = "write_env"
  /\ pc' = "select"
  /\ UNCHANGED <<disk, image, loaderVars, running, fwup, history, lost, faults>>

WriteEnv ==
  /\ pc = "write_env"
  /\ disk' = [crc_ok |-> TRUE, vars |-> env]
  /\ pc' = "select"
  /\ UNCHANGED <<image, loaderVars, running, fwup, history, lost, faults>>

\* What a write of the block that fails or is cut leaves behind: the old block,
\* the new one, or a mixture of their sectors that fails its CRC.
CutWrite ==
  disk' \in {disk, [crc_ok |-> TRUE, vars |-> env],
             [crc_ok |-> FALSE, vars |-> disk.vars]}

\* uboot_env_write runs out of room or virtio_blk_write fails: a message, and
\* the boot goes on with the variables in memory.
WriteEnvFails ==
  /\ pc = "write_env"
  /\ lost < MaxLost
  /\ CutWrite
  /\ lost' = lost + 1
  /\ pc' = "select"
  /\ UNCHANGED <<image, loaderVars, running, fwup, history, faults>>

\* getenv("<slot>.<name>"), the key built from the slot's first character.
SlotVar(f, c) == IF c \in Slot THEN f[c] ELSE NULL

\* Mutant of SelectSlot: the command line is taken even if the LBA is missing.
SelectArgsFirst ==
  /\ pc = "select"
  /\ kernel_args' = SlotVar(env.kernel_args, active_slot.c)
  /\ LET lba == SlotVar(env.kernel_lba, active_slot.c)
     IN  kernel_lba' = IF lba = NULL THEN kernel_lba ELSE strtoull_(lba, 10)
  /\ pc' = "load_header"
  /\ UNCHANGED <<disk, image, buffer, env, active_slot, running, fwup, history,
                 lost, faults>>

SelectSlot ==
  /\ pc = "select"
  /\ LET lba == SlotVar(env.kernel_lba, active_slot.c)
     IN  IF lba = NULL
         THEN UNCHANGED <<kernel_lba, kernel_args>>
         ELSE /\ kernel_lba' = strtoull_(lba, 10)
              /\ kernel_args' = SlotVar(env.kernel_args, active_slot.c)
  /\ pc' = "load_header"
  /\ UNCHANGED <<disk, image, buffer, env, active_slot, running, fwup, history,
                 lost, faults>>

\* The slot whose kernel is at an LBA, and what the disk holds there.
SlotAt(lba) == CHOOSE s \in Slot : ImageLba[s] = lba

ImageAt(lba) ==
  IF \E s \in Slot : ImageLba[s] = lba THEN image[SlotAt(lba)] ELSE "blank"

\* load_kernel: the header is read and its magic and size are checked.  fwup
\* may have written the header of an unfinished image already.
HeaderAccepted ==
  /\ pc = "load_header"
  /\ ImageAt(kernel_lba) \in {"kernel", "partial"}
  /\ pc' = "load_kernel"
  /\ UNCHANGED <<disk, image, loaderVars, running, fwup, history, lost, faults>>

HeaderRefused ==
  /\ pc = "load_header"
  /\ ImageAt(kernel_lba) # "kernel"
  /\ Fatal
  /\ UNCHANGED faults

LoadKernel ==
  /\ pc = "load_kernel"
  /\ pc' = "load_dtb"
  /\ UNCHANGED <<disk, image, loaderVars, running, fwup, history, lost, faults>>

\* load_dtb: copy the device tree and add the command line to it.
LoadDtb ==
  /\ pc = "load_dtb"
  /\ pc' = "start_linux"
  /\ UNCHANGED <<disk, image, loaderVars, running, fwup, history, lost, faults>>

\* Bad DTB magic, or libfdt cannot add the command line.
DtbFails ==
  /\ pc = "load_dtb"
  /\ Fatal
  /\ UNCHANGED faults

\* The jump to the kernel.
StartLinux ==
  /\ pc = "start_linux"
  /\ running' = SlotAt(kernel_lba)
  /\ trial' = IF running' \in good THEN trial
              ELSE [trial EXCEPT ![running'] = @ + 1]
  /\ pc' = "linux"
  /\ UNCHANGED <<disk, image, loaderVars, fwup, good, reverted, lost, faults>>

LoaderStep ==
  \/ RomMain \/ DeviceFails \/ ReadEnv
  \/ ParseFails \/ RequiredMissing \/ ParseOk
  \/ Revert \/ FirstTry \/ WriteEnv \/ WriteEnvFails
  \/ SelectSlot \/ HeaderAccepted \/ HeaderRefused
  \/ LoadKernel \/ LoadDtb \/ DtbFails \/ StartLinux

-----------------------------------------------------------------------------
(***************************************************************************)
(* Power.                                                                  *)
(***************************************************************************)

\* Memory is gone.
ForgetMemory ==
  /\ pc' = "off"
  /\ buffer' = NULL /\ env' = NULL /\ active_slot' = NULL
  /\ kernel_lba' = NULL /\ kernel_args' = NULL
  /\ running' = NULL
  /\ fwup' = "idle"

\* fatal() has powered the machine off, or the firmware ended: crash, reboot,
\* watchdog.  A fwup run on the machine dies with it.
Reset ==
  /\ pc \in {"fatal", "linux"}
  /\ ForgetMemory
  /\ UNCHANGED <<disk, image, history, lost, faults>>

\* Power is cut while the loader runs, not during the write.
PowerCut ==
  /\ pc \in LoaderSteps
  /\ faults < MaxFaults
  /\ faults' = faults + 1
  /\ ForgetMemory
  /\ UNCHANGED <<disk, image, history, lost>>

\* Power is cut during the write of the environment block.
PowerCutInWrite ==
  /\ pc = "write_env"
  /\ faults < MaxFaults /\ lost < MaxLost
  /\ faults' = faults + 1
  /\ lost' = lost + 1
  /\ CutWrite
  /\ ForgetMemory
  /\ UNCHANGED <<image, history>>

-----------------------------------------------------------------------------
(***************************************************************************)
(* fwup, on the running machine or on the disk image of one that is off.   *)
(***************************************************************************)

\* Mutant of FwupBegin: an upgrade may start while one is pending.
FwupBeginPending(s) ==
  /\ pc \in {"linux", "off"} /\ fwup = "idle"
  /\ disk.crc_ok
  /\ disk.vars.nerves_fw_active = SlotText(Other(s))
  /\ fwup' = s
  /\ image' = [image EXCEPT ![s] = "partial"]
  /\ good' = good \ {s}
  /\ UNCHANGED <<pc, disk, loaderVars, running, trial, reverted, lost, faults>>

\* upgrade.a / upgrade.b: the require-uboot-variable lines, then the image.
FwupBegin(s) ==
  /\ pc \in {"linux", "off"} /\ fwup = "idle"
  /\ disk.crc_ok
  /\ disk.vars.nerves_fw_active = SlotText(Other(s))
  /\ disk.vars.upgrade_available = "0"
  /\ fwup' = s
  /\ image' = [image EXCEPT ![s] = "partial"]
  /\ good' = good \ {s}
  /\ UNCHANGED <<pc, disk, loaderVars, running, trial, reverted, lost, faults>>

\* on-finish: the slot becomes the active one, unvalidated.
FwupFinish(s) ==
  /\ fwup = s
  /\ fwup' = "idle"
  /\ \E i \in {"kernel", "rejected"} : image' = [image EXCEPT ![s] = i]
  /\ disk' = [crc_ok |-> TRUE,
              vars |-> [disk.vars EXCEPT !.nerves_fw_active = SlotText(s),
                                         !.upgrade_available = "1",
                                         !.bootcount = "0"]]
  /\ trial' = [trial EXCEPT ![s] = 0]
  /\ reverted' = reverted \ {s}
  /\ UNCHANGED <<pc, loaderVars, running, good, lost, faults>>

\* The user stops fwup midway, or it fails.
FwupAbort(s) ==
  /\ fwup = s
  /\ fwup' = "idle"
  /\ UNCHANGED <<pc, disk, image, loaderVars, running, history, lost, faults>>

\* fwup is cut off while it writes the environment block.
FwupCut(s) ==
  /\ fwup = s
  /\ lost < MaxLost
  /\ lost' = lost + 1
  /\ fwup' = "idle"
  /\ disk' = [crc_ok |-> FALSE, vars |-> disk.vars]
  /\ UNCHANGED <<pc, image, loaderVars, running, history, faults>>

\* Task complete: the whole disk is written anew while the machine is off.
FwupComplete ==
  /\ pc = "off" /\ fwup = "idle"
  /\ disk' = [crc_ok |-> TRUE, vars |-> FactoryEnv]
  /\ image' = [s \in Slot |-> IF s = "a" THEN "kernel" ELSE "blank"]
  /\ good' = {"a"}
  /\ trial' = [s \in Slot |-> 0]
  /\ reverted' = {}
  /\ UNCHANGED <<pc, loaderVars, running, fwup, lost, faults>>

(***************************************************************************)
(* The firmware that runs: it validates itself by clearing                 *)
(* upgrade_available, if the environment says it is the active one.        *)
(***************************************************************************)

Validate ==
  /\ pc = "linux" /\ fwup = "idle"
  /\ disk.crc_ok
  /\ disk.vars.upgrade_available = "1"
  /\ disk.vars.nerves_fw_active = SlotText(running)
  /\ disk' = [crc_ok |-> TRUE,
              vars |-> [disk.vars EXCEPT !.upgrade_available = "0"]]
  /\ good' = good \cup {running}
  /\ UNCHANGED <<pc, image, loaderVars, running, fwup, trial, reverted,
                 lost, faults>>

World ==
  \/ Reset \/ PowerCut \/ PowerCutInWrite
  \/ \E s \in Slot : FwupBegin(s) \/ FwupFinish(s) \/ FwupAbort(s)
                                   \/ FwupCut(s)
  \/ FwupComplete
  \/ Validate

Next == LoaderStep \/ World

Spec == Init /\ [][Next]_vars

\* The processor executes the loader, a machine that is off is switched on
\* again, and firmware that runs unvalidated is validated or reset in the end
\* (by its watchdog, its user or a crash).  fwup and power cuts owe nothing.
UpgradePending == disk.crc_ok /\ disk.vars.upgrade_available = "1"

Fairness ==
  /\ WF_vars(LoaderStep)
  /\ WF_vars(pc = "fatal" /\ Reset)
  /\ WF_vars(UpgradePending /\ (Reset \/ Validate))

FairSpec == Spec /\ Fairness

-----------------------------------------------------------------------------
(***************************************************************************)
(* Properties.                                                             *)
(***************************************************************************)

ActiveSlot == disk.vars.nerves_fw_active.c

\* Whenever the environment is readable there is validated firmware to boot:
\* the active slot when no upgrade is pending, and while one is pending the
\* slot that process_uboot_env would revert to.
FallbackExists ==
  disk.crc_ok =>
    LET s == IF UpgradePending THEN Other(ActiveSlot) ELSE ActiveSlot
    IN  s \in good /\ image[s] = "kernel"

\* Firmware that has not validated itself is started at most once, plus once
\* for every write of the environment that was lost: the bootcount logic of
\* process_uboot_env, over resets and power cuts at any point.
TrialBound == \A s \in Slot \ good : trial[s] <= 1 + lost

\* Once process_uboot_env has reverted a slot, its firmware never runs again
\* (README: "the other firmware slot will be booted from then on"), even when
\* the write that records the decision fails or is cut by a power loss.
RevertIsFinal == pc = "linux" => running \notin reverted

\* The loader never jumps into an image that fwup left unfinished.
OnlyCompleteImages ==
  pc \in {"start_linux", "linux"} => ImageAt(kernel_lba) = "kernel"

\* The kernel never gets another slot's command line, and the fall back to
\* DEFAULT_KERNEL_LBA never carries one: kernel_lba and kernel_args are set
\* together on every path of process_uboot_env.
ArgsMatchKernel ==
  pc \in LoaderSteps \ {"read_env"} /\ kernel_args # NULL =>
    \E s \in Slot : /\ env.kernel_lba[s] # NULL
                    /\ kernel_lba = strtoull_(env.kernel_lba[s], 10)
                    /\ kernel_args = env.kernel_args[s]

\* If no write was lost, the slot that gets control is the one that
\* nerves_fw_active names on disk, so that firmware and fwup see the slot
\* they run from.
BootedAsRecorded ==
  pc = "start_linux" /\ lost = 0 =>
    /\ disk.crc_ok
    /\ ActiveSlot \in Slot
    /\ disk.vars.kernel_lba[ActiveSlot] # NULL
    /\ kernel_lba = strtoull_(disk.vars.kernel_lba[ActiveSlot], 10)

\* A pending upgrade is resolved: validated, reverted, or the environment is
\* lost.  Needs the fairness above and finitely many faults.
UpgradeResolved == UpgradePending ~> ~UpgradePending

\* The environment on disk moves only as the abstract failback mechanism
\* allows: the loader records one try, reverts to validated firmware, and
\* leaves a stable environment alone.
Phase ==
  IF ~disk.crc_ok THEN "lost"
  ELSE IF disk.vars.upgrade_available # "1" THEN "stable"
  ELSE IF disk.vars.bootcount = "1" THEN "tried"
  ELSE "fresh"

FB == INSTANCE Failback WITH phase <- Phase, active <- ActiveSlot

ImplementsFailback == FB!Spec

\* The message "Failed to get `upgrade_available`. Skipping automatic failback
\* check." says that only the check is skipped: the active slot still boots.
MissingOnlySkipsFailback ==
  pc = "load_header" /\ env # NULL /\ active_slot # NULL =>
    LET lba == SlotVar(env.kernel_lba, active_slot.c)
    IN  lba # NULL => kernel_lba = strtoull_(lba, 10)

\* README: bootcount "gets incremented on each boot. When > 1 [...] the other
\* firmware slot will be booted".
BootcountAboveOneReverts ==
  pc = "select" /\ buffer.vars.upgrade_available = "1"
                /\ buffer.vars.bootcount \in {"1", "2"} =>
    active_slot.c # buffer.vars.nerves_fw_active.c

=============================================================================
