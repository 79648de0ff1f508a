------------------------ MODULE LittleLoader_proofs -------------------------
(***************************************************************************)
(* Theorems about LittleLoader, for any layout of the disk and any number  *)
(* of faults.  strtoull_ is used only through what SlotLayout assumes of   *)
(* it, so no induction over strings is needed.                             *)
(***************************************************************************)
EXTENDS LittleLoader, TLAPS

(***************************************************************************)
(* Lemmas about the values the variables take.                             *)
(***************************************************************************)

LEMMA EnvFields ==
  ASSUME NEW v \in Envs
  PROVE  /\ v.nerves_fw_active \in SlotTexts \cup {NULL}
         /\ v.upgrade_available \in {"0", "1", NULL}
         /\ v.bootcount \in {"0", "1", "2", NULL}
         /\ v.kernel_lba \in [Slot -> {LbaText["a"], LbaText["b"], NULL}]
         /\ v.kernel_args \in [Slot -> {ArgsText["a"], ArgsText["b"], NULL}]
BY DEF Envs

LEMMA BlockFields ==
  ASSUME NEW d \in Blocks
  PROVE  d.crc_ok \in BOOLEAN /\ d.vars \in Envs
BY DEF Blocks

\* uboot_env_setenv on the three variables of the failback logic.
LEMMA EnvUpdates ==
  ASSUME NEW v \in Envs, NEW n \in SlotTexts,
         NEW u \in {"0", "1"}, NEW c \in {"0", "1", "2"}
  PROVE  /\ [v EXCEPT !.nerves_fw_active = n, !.upgrade_available = u,
                      !.bootcount = c] \in Envs
         /\ [v EXCEPT !.upgrade_available = u] \in Envs
         /\ [v EXCEPT !.bootcount = c] \in Envs
BY DEF Envs

LEMMA NewBlock ==
  ASSUME NEW b \in BOOLEAN, NEW v \in Envs
  PROVE  [crc_ok |-> b, vars |-> v] \in Blocks
BY DEF Blocks

LEMMA SlotTextType ==
  /\ \A s \in Slot : SlotText(s) \in SlotTexts
  /\ \A s \in Slot : Other(s) \in Slot /\ Other(s) # s /\ Other(Other(s)) = s
BY DEF SlotText, SlotTexts, Slot, Other

\* Flipping the first character of nerves_fw_active gives a value of the
\* same kind, and the other slot when it named one.
LEMMA FlipType ==
  ASSUME NEW v \in SlotTexts, NEW w \in Flip(v)
  PROVE  w \in SlotTexts
<1>1. PICK r : /\ w = [c |-> IF v.c = "a" THEN "b" ELSE "a", rest |-> r]
               /\ r \in IF v.c = "NUL" THEN {"", "junk"} ELSE {v.rest}
  BY Zenon DEF Flip
<1>2. v.rest \in {"", "junk"}
  <2>1. CASE v \in [c : {"a", "b", "c"}, rest : {"", "junk"}]
    BY <2>1
  <2>2. CASE v = [c |-> "NUL", rest |-> ""]
    BY <2>2
  <2> QED
    BY <2>1, <2>2 DEF SlotTexts, SlotText
<1>3. r \in {"", "junk"}
  BY <1>1, <1>2
<1> QED
  BY <1>1, <1>3 DEF SlotTexts

LEMMA FlipSlot ==
  ASSUME NEW s \in Slot
  PROVE  Flip(SlotText(s)) = {SlotText(Other(s))}
<1>1. SlotText(s).c = s /\ SlotText(s).rest = "" /\ s # "NUL"
  BY DEF SlotText, Slot
<1> QED
  BY <1>1 DEF Flip, SlotText, Other, Slot

LEMMA FactoryType == FactoryEnv \in Envs
<1>1. LbaText \in [Slot -> {LbaText["a"], LbaText["b"], NULL}]
  BY SlotLayout DEF Slot
<1>2. ArgsText \in [Slot -> {ArgsText["a"], ArgsText["b"], NULL}]
  BY SlotLayout DEF Slot
<1>3. SlotText("a") \in SlotTexts
  BY SlotTextType DEF Slot
<1> QED
  BY <1>1, <1>2, <1>3 DEF FactoryEnv, Envs

\* The image at a slot's LBA is the slot's, and there is none at the default.
LEMMA ImageAtSlot ==
  ASSUME NEW s \in Slot
  PROVE  ImageAt(ImageLba[s]) = image[s]
BY SlotLayout DEF ImageAt, SlotAt, Slot

LEMMA ImageAtDefault == ImageAt(DEFAULT_KERNEL_LBA) = "blank"
BY SlotLayout DEF ImageAt, Slot

LEMMA ImageElsewhere ==
  ASSUME NEW lba, ImageAt(lba) # "blank"
  PROVE  \E s \in Slot : ImageLba[s] = lba
BY DEF ImageAt

LEMMA SlotAtLba ==
  ASSUME NEW s \in Slot
  PROVE  SlotAt(ImageLba[s]) = s
BY SlotLayout DEF SlotAt, Slot

-----------------------------------------------------------------------------
(***************************************************************************)
(* Type correctness.  TypeOK alone is not inductive: which of the loader's *)
(* variables are set depends on how far it got.                            *)
(***************************************************************************)

Progress ==
  /\ pc = "parse_env" => buffer \in Blocks
  /\ pc \in {"failback", "write_env", "select"} =>
       env \in Envs /\ active_slot \in SlotTexts
  /\ pc \in {"load_kernel", "load_dtb", "start_linux"} =>
       \E s \in Slot : kernel_lba = ImageLba[s]
  /\ pc = "linux" => running \in Slot

TypeInv == TypeOK /\ Progress

LEMMA InitType == Init => TypeInv
<1> SUFFICES ASSUME Init PROVE TypeInv
  OBVIOUS
<1>1. disk \in Blocks
  BY BoundsAssumption DEF Init, Blocks
<1>2. image \in [Slot -> Images] /\ trial \in [Slot -> Nat]
  BY DEF Init, Images
<1> QED
  BY <1>1, <1>2, BoundsAssumption DEF Init, TypeInv, TypeOK, Progress, Slot

LEMMA NextType == TypeInv /\ [Next]_vars => TypeInv'
<1> SUFFICES ASSUME TypeInv, [Next]_vars PROVE TypeInv'
  OBVIOUS
<1> USE DEF TypeInv, TypeOK, Progress, LoaderSteps, loaderVars, history
<1>1. CASE RomMain
  BY <1>1 DEF RomMain
<1>2. CASE DeviceFails
  BY <1>2, BoundsAssumption DEF DeviceFails, Fatal
<1>3. CASE ReadEnv
  BY <1>3 DEF ReadEnv
<1>4. CASE ParseFails
  BY <1>4 DEF ParseFails, Cleanup
<1>5. CASE RequiredMissing
  <2>1. buffer.vars \in Envs
    BY <1>5, BlockFields DEF RequiredMissing
  <2> QED
    BY <1>5, <2>1, EnvFields DEF RequiredMissing, Cleanup
<1>6. CASE ParseOk
  <2>1. buffer.vars \in Envs
    BY <1>6, BlockFields DEF ParseOk
  <2>2. buffer.vars.nerves_fw_active \in SlotTexts
    BY <1>6, <2>1, EnvFields DEF ParseOk
  <2> QED
    BY <1>6, <2>1, <2>2 DEF ParseOk
<1>7. CASE Revert
  <2>1. env \in Envs /\ active_slot \in SlotTexts
    BY <1>7 DEF Revert
  <2>2. PICK v \in Flip(active_slot) :
           /\ active_slot' = v
           /\ env' = [env EXCEPT !.nerves_fw_active = v,
                                 !.upgrade_available = "0",
                                 !.bootcount = "0"]
    BY <1>7 DEF Revert
  <2>3. v \in SlotTexts /\ env' \in Envs
    BY <2>1, <2>2, FlipType, EnvUpdates
  <2> QED
    BY <1>7, <2>2, <2>3 DEF Revert
<1>8. CASE FirstTry
  <2>1. env' \in Envs
    BY <1>8, SlotTextType, EnvUpdates DEF FirstTry, Slot
  <2> QED
    BY <1>8, <2>1 DEF FirstTry
<1>9. CASE WriteEnv
  <2>1. disk' \in Blocks
    BY <1>9, NewBlock DEF WriteEnv
  <2> QED
    BY <1>9, <2>1 DEF WriteEnv
<1>10. CASE WriteEnvFails
  <2>1. disk' \in Blocks
    BY <1>10, NewBlock, BlockFields DEF WriteEnvFails, CutWrite
  <2> QED
    BY <1>10, <2>1, BoundsAssumption DEF WriteEnvFails
<1>11. CASE SelectSlot
  <2>1. /\ env.kernel_lba \in [Slot -> {LbaText["a"], LbaText["b"], NULL}]
        /\ env.kernel_args \in [Slot -> {ArgsText["a"], ArgsText["b"], NULL}]
    BY <1>11, EnvFields DEF SelectSlot
  <2>2. kernel_args' \in {ArgsText["a"], ArgsText["b"], NULL}
    BY <1>11, <2>1 DEF SelectSlot, SlotVar
  <2>3. kernel_lba' \in {DEFAULT_KERNEL_LBA, NULL}
                          \cup {strtoull_(LbaText[s], 10) : s \in Slot}
    BY <1>11, <2>1 DEF SelectSlot, SlotVar, Slot
  <2> QED
    BY <1>11, <2>2, <2>3 DEF SelectSlot
<1>12. CASE HeaderAccepted
  BY <1>12, ImageElsewhere DEF HeaderAccepted
<1>13. CASE HeaderRefused
  BY <1>13 DEF HeaderRefused, Fatal
<1>14. CASE LoadKernel
  BY <1>14 DEF LoadKernel
<1>15. CASE LoadDtb
  BY <1>15 DEF LoadDtb
<1>16. CASE DtbFails
  BY <1>16 DEF DtbFails, Fatal
<1>17. CASE StartLinux
  <2>1. PICK s \in Slot : kernel_lba = ImageLba[s]
    BY <1>17 DEF StartLinux
  <2>2. SlotAt(kernel_lba) = s
    BY <2>1, SlotAtLba
  <2>3. /\ running' = s
        /\ trial' = IF s \in good THEN trial ELSE [trial EXCEPT ![s] = @ + 1]
    BY <1>17, <2>2 DEF StartLinux
  <2>4. trial' \in [Slot -> Nat]
    BY <2>3
  <2> QED
    BY <1>17, <2>3, <2>4 DEF StartLinux
<1>18. CASE Reset
  BY <1>18 DEF Reset, ForgetMemory
<1>19. CASE PowerCut
  BY <1>19, BoundsAssumption DEF PowerCut, ForgetMemory
<1>20. CASE PowerCutInWrite
  <2>1. disk' \in Blocks
    BY <1>20, NewBlock, BlockFields DEF PowerCutInWrite, CutWrite
  <2> QED
    BY <1>20, <2>1, BoundsAssumption DEF PowerCutInWrite, ForgetMemory
<1>21. ASSUME NEW s \in Slot, FwupBegin(s) PROVE TypeInv'
  BY <1>21 DEF FwupBegin, Images
<1>22. ASSUME NEW s \in Slot, FwupFinish(s) PROVE TypeInv'
  <2>1. disk' \in Blocks
    BY <1>22, NewBlock, BlockFields, EnvUpdates, SlotTextType DEF FwupFinish
  <2>2. image' \in [Slot -> Images] /\ trial' \in [Slot -> Nat]
    BY <1>22 DEF FwupFinish, Images
  <2> QED
    BY <1>22, <2>1, <2>2 DEF FwupFinish
<1>23. ASSUME NEW s \in Slot, FwupAbort(s) PROVE TypeInv'
  BY <1>23 DEF FwupAbort
<1>24. ASSUME NEW s \in Slot, FwupCut(s) PROVE TypeInv'
  <2>1. disk' \in Blocks
    BY <1>24, NewBlock, BlockFields DEF FwupCut
  <2> QED
    BY <1>24, <2>1, BoundsAssumption DEF FwupCut
<1>25. CASE FwupComplete
  <2>1. disk' \in Blocks
    BY <1>25, NewBlock, FactoryType DEF FwupComplete
  <2>2. image' \in [Slot -> Images] /\ trial' \in [Slot -> Nat]
    BY <1>25 DEF FwupComplete, Images
  <2> QED
    BY <1>25, <2>1, <2>2 DEF FwupComplete, Slot
<1>26. CASE Validate
  <2>1. disk' \in Blocks
    BY <1>26, NewBlock, BlockFields, EnvUpdates, SlotTextType
      DEF Validate, Slot
  <2> QED
    BY <1>26, <2>1 DEF Validate
<1>27. CASE UNCHANGED vars
  BY <1>27 DEF vars
<1> QED
  BY <1>1, <1>2, <1>3, <1>4, <1>5, <1>6, <1>7, <1>8, <1>9, <1>10, <1>11,
     <1>12, <1>13, <1>14, <1>15, <1>16, <1>17, <1>18, <1>19, <1>20, <1>21,
     <1>22, <1>23, <1>24, <1>25, <1>26, <1>27 DEF Next, LoaderStep, World

\* Every step of the loader, of fwup and of the firmware keeps disk, memory
\* and the loader's variables within the values the code can give them; in
\* particular no step of main.c uses a variable it has not set.
THEOREM TypeCorrect == Spec => []TypeOK
<1>1. TypeInv => TypeOK
  BY DEF TypeInv
<1> QED
  BY InitType, NextType, <1>1, PTL DEF Spec

-----------------------------------------------------------------------------
(***************************************************************************)
(* The inductive invariant.                                                *)
(***************************************************************************)

\* What the loader and fwup write on a disk that left the factory.
HealthyVars(v) ==
  /\ v.nerves_fw_active \in {SlotText("a"), SlotText("b")}
  /\ v.upgrade_available \in {"0", "1"}
  /\ v.upgrade_available = "1" => v.bootcount # NULL
  /\ v.kernel_lba = LbaText

DiskHealthy == HealthyVars(disk.vars)

Untried == UpgradePending /\ disk.vars.bootcount # "1"

\* The active slot was installed to the end.
ActiveComplete == disk.crc_ok => image[ActiveSlot] \in {"kernel", "rejected"}

\* fwup works on the inactive slot of a stable environment.
FwupInv ==
  fwup # "idle" =>
    /\ pc \in {"linux", "off"}
    /\ disk.crc_ok /\ ~UpgradePending
    /\ fwup = Other(ActiveSlot)
    /\ fwup \notin good

\* Before the first recorded try, only lost writes have cost trials.
TrialInv ==
  /\ \A s \in Slot : trial[s] <= 1 + lost
  /\ Untried => trial[ActiveSlot] <= lost

\* A reverted slot is inactive, or will be reverted again.
RevertedInv ==
  disk.crc_ok =>
    \A s \in reverted : IF s = ActiveSlot
                        THEN UpgradePending /\ ~Untried
                        ELSE ~UpgradePending

\* process_uboot_env works on a faithful copy of the block.
EnvInv ==
  /\ pc = "parse_env" => buffer = disk /\ kernel_lba = DEFAULT_KERNEL_LBA
  /\ pc = "failback" =>
       /\ UpgradePending
       /\ env = disk.vars
       /\ active_slot = env.nerves_fw_active
  /\ pc = "write_env" =>
       /\ UpgradePending
       /\ active_slot = env.nerves_fw_active
       /\ IF Untried
          THEN env = [disk.vars EXCEPT !.bootcount = "1"]
          ELSE env = [disk.vars EXCEPT
                        !.nerves_fw_active = SlotText(Other(ActiveSlot)),
                        !.upgrade_available = "0", !.bootcount = "0"]

\* Slot b may be handed control.
Target(b) ==
  /\ b \notin reverted
  /\ b \notin good => /\ trial[b] <= lost
                      /\ Untried /\ b = ActiveSlot => trial[b] + 1 <= lost
  /\ disk.crc_ok /\ ~UpgradePending => b = ActiveSlot

BootInv ==
  /\ pc = "select" =>
       \E b \in Slot : /\ active_slot = SlotText(b)
                       /\ env.kernel_lba = LbaText
                       /\ image[b] \in {"kernel", "rejected"}
                       /\ Target(b)
  /\ pc = "load_header" =>
       \/ kernel_lba = DEFAULT_KERNEL_LBA
       \/ \E b \in Slot : /\ kernel_lba = ImageLba[b]
                          /\ image[b] \in {"kernel", "rejected"}
                          /\ Target(b)
  /\ pc \in {"load_kernel", "load_dtb", "start_linux"} =>
       \E b \in Slot : /\ kernel_lba = ImageLba[b]
                       /\ image[b] = "kernel"
                       /\ Target(b)
  /\ pc = "linux" =>
       /\ running \in Slot
       /\ kernel_lba = ImageLba[running]
       /\ image[running] = "kernel"
       /\ running \notin reverted
       /\ disk.crc_ok /\ ~UpgradePending => running = ActiveSlot

\* What depends on disk and history only.
DiskInv ==
  /\ DiskHealthy
  /\ FallbackExists
  /\ ActiveComplete
  /\ TrialInv
  /\ RevertedInv

IInv ==
  /\ TypeInv
  /\ DiskInv
  /\ FwupInv
  /\ EnvInv
  /\ BootInv

LEMMA SlotTextFields ==
  ASSUME NEW s \in Slot
  PROVE  SlotText(s).c = s /\ SlotText(s).rest = ""
BY DEF SlotText

LEMMA HealthyActive ==
  ASSUME TypeInv, DiskHealthy
  PROVE  /\ ActiveSlot \in Slot
         /\ disk.vars.nerves_fw_active = SlotText(ActiveSlot)
         /\ disk.crc_ok \in BOOLEAN /\ disk.vars \in Envs
BY BlockFields, SlotTextFields
  DEF TypeInv, TypeOK, DiskHealthy, HealthyVars, ActiveSlot, Slot

\* A step that leaves disk and history alone preserves what is said of them.
LEMMA DiskFrame ==
  ASSUME DiskInv, UNCHANGED <<disk, image, good, trial, reverted, lost>>
  PROVE  /\ DiskInv'
         /\ \A b \in Slot : Target(b) => Target(b)'
BY DEF DiskInv, DiskHealthy, HealthyVars, FallbackExists, ActiveComplete,
       TrialInv, RevertedInv, Target, Untried, UpgradePending, ActiveSlot

LEMMA InitInv ==
  ASSUME InitialEnvs = {FactoryEnv}
  PROVE  Init => IInv
<1> SUFFICES ASSUME Init PROVE IInv
  OBVIOUS
<1>1. TypeInv
  BY InitType
<1>2. /\ disk.crc_ok = TRUE
      /\ disk.vars = FactoryEnv
  BY DEF Init
<1>3. /\ disk.vars.nerves_fw_active = SlotText("a")
      /\ disk.vars.upgrade_available = "0"
      /\ disk.vars.kernel_lba = LbaText
  BY <1>2 DEF FactoryEnv
<1>4. ActiveSlot = "a" /\ ~UpgradePending /\ ~Untried
  BY <1>3, SlotTextFields DEF ActiveSlot, UpgradePending, Untried, Slot
<1>5. DiskInv
  BY <1>3, <1>4 DEF Init, DiskInv, DiskHealthy, HealthyVars, FallbackExists,
              ActiveComplete, TrialInv, RevertedInv, Slot
<1> QED
  BY <1>1, <1>5 DEF Init, IInv, FwupInv, EnvInv, BootInv

\* What uboot_env_setenv on the variables of the failback logic leaves.
LEMMA UpdatedFields ==
  ASSUME NEW v \in Envs, NEW n, NEW u, NEW c
  PROVE  LET w1 == [v EXCEPT !.nerves_fw_active = n, !.upgrade_available = u,
                             !.bootcount = c]
             w2 == [v EXCEPT !.bootcount = c]
             w3 == [v EXCEPT !.upgrade_available = u]
         IN  /\ w1.nerves_fw_active = n /\ w1.upgrade_available = u
             /\ w1.bootcount = c /\ w1.kernel_lba = v.kernel_lba
             /\ w2.nerves_fw_active = v.nerves_fw_active
             /\ w2.upgrade_available = v.upgrade_available
             /\ w2.bootcount = c /\ w2.kernel_lba = v.kernel_lba
             /\ w3.nerves_fw_active = v.nerves_fw_active
             /\ w3.upgrade_available = u
             /\ w3.bootcount = v.bootcount /\ w3.kernel_lba = v.kernel_lba
BY DEF Envs

\* How the next boot sees a block that was written to the end.
LEMMA WrittenBlock ==
  ASSUME NEW s \in Slot, NEW v, disk' = [crc_ok |-> TRUE, vars |-> v],
         v.nerves_fw_active = SlotText(s)
  PROVE  /\ ActiveSlot' = s
         /\ disk'.crc_ok
         /\ UpgradePending' <=> v.upgrade_available = "1"
         /\ Untried' <=> v.upgrade_available = "1" /\ v.bootcount # "1"
<1>1. disk'.crc_ok = TRUE /\ disk'.vars = v
  OBVIOUS
<1> QED
  BY <1>1, SlotTextFields DEF ActiveSlot, UpgradePending, Untried

\* The write of the block, complete or cut: every outcome leaves a disk from
\* which the next boot decides correctly, and the slot that was chosen in
\* memory may still be started.
LEMMA WriteOutcomes ==
  ASSUME IInv, pc = "write_env",
         UNCHANGED <<image, good, trial, reverted>>,
         \/ disk' = [crc_ok |-> TRUE, vars |-> env] /\ lost' = lost
         \/ CutWrite /\ lost' = lost + 1
  PROVE  /\ DiskInv'
         /\ \E b \in Slot : /\ active_slot = SlotText(b)
                            /\ env.kernel_lba = LbaText
                            /\ image[b] \in {"kernel", "rejected"}
                            /\ Target(b)'
<1> USE DEF IInv, DiskInv
<1>1. /\ ActiveSlot \in Slot
      /\ disk.vars.nerves_fw_active = SlotText(ActiveSlot)
      /\ disk.vars \in Envs
      /\ disk.crc_ok /\ UpgradePending
      /\ disk.vars.upgrade_available = "1"
      /\ disk.vars.kernel_lba = LbaText
  BY HealthyActive DEF EnvInv, UpgradePending, DiskHealthy, HealthyVars
<1>2. lost \in Nat /\ trial \in [Slot -> Nat]
  BY BoundsAssumption DEF TypeInv, TypeOK
<1>3. PICK b \in Slot : b = IF Untried THEN ActiveSlot ELSE Other(ActiveSlot)
  BY <1>1, SlotTextType
<1>4. /\ env.kernel_lba = LbaText
      /\ active_slot = SlotText(b)
      /\ env.nerves_fw_active = SlotText(b)
      /\ IF Untried
         THEN env.upgrade_available = "1" /\ env.bootcount = "1"
         ELSE env.upgrade_available = "0" /\ env.bootcount = "0"
  <2>1. CASE Untried
    <3>1. env = [disk.vars EXCEPT !.bootcount = "1"]
      BY <2>1 DEF EnvInv
    <3>2. active_slot = env.nerves_fw_active
      BY DEF EnvInv
    <3> QED
      BY <1>1, <1>3, <2>1, <3>1, <3>2, UpdatedFields
  <2>2. CASE ~Untried
    <3>1. env = [disk.vars EXCEPT
                   !.nerves_fw_active = SlotText(Other(ActiveSlot)),
                   !.upgrade_available = "0", !.bootcount = "0"]
      BY <2>2 DEF EnvInv
    <3>2. active_slot = env.nerves_fw_active
      BY DEF EnvInv
    <3> QED
      BY <1>1, <1>3, <2>2, <3>1, <3>2, UpdatedFields
  <2> QED
    BY <2>1, <2>2
<1>5. /\ image[b] \in {"kernel", "rejected"}
      /\ b \notin reverted
      /\ b \notin good => Untried /\ trial[b] <= lost
      /\ ~Untried => b \in good /\ image[b] = "kernel"
  BY <1>1, <1>3, SlotTextType
    DEF FallbackExists, ActiveComplete, RevertedInv, TrialInv
<1>6. CASE disk' = disk /\ lost' = lost + 1
  <2>1. /\ ActiveSlot' = ActiveSlot /\ UpgradePending' = UpgradePending
        /\ Untried' = Untried
    BY <1>6 DEF ActiveSlot, UpgradePending, Untried
  <2>2. DiskHealthy' /\ FallbackExists' /\ ActiveComplete' /\ RevertedInv'
    BY <1>6, <2>1 DEF DiskHealthy, HealthyVars, FallbackExists,
                      ActiveComplete, RevertedInv
  <2>3. TrialInv'
    BY <1>1, <1>2, <1>6, <2>1 DEF TrialInv
  <2>4. Target(b)'
    BY <1>1, <1>2, <1>5, <1>6, <2>1 DEF Target
  <2> QED
    BY <1>4, <1>5, <2>2, <2>3, <2>4
<1>7. CASE disk' = [crc_ok |-> TRUE, vars |-> env] /\ lost' \in {lost, lost + 1}
  <2>1. /\ ActiveSlot' = b /\ disk'.crc_ok
        /\ UpgradePending' <=> Untried
        /\ ~Untried'
    BY <1>4, <1>7, WrittenBlock
  <2>2. DiskHealthy'
    BY <1>4, <1>7, NullIsNoValue DEF DiskHealthy, HealthyVars, Slot
  <2>3. FallbackExists'
    BY <1>1, <1>4, <1>5, <1>3, <2>1 DEF FallbackExists
  <2>4. ActiveComplete' /\ RevertedInv'
    BY <1>1, <1>5, <1>3, <2>1 DEF ActiveComplete, RevertedInv, TypeInv, TypeOK,
                                  Slot, Other
  <2>5. TrialInv'
    BY <1>2, <1>7, <2>1 DEF TrialInv
  <2>6. Target(b)'
    BY <1>2, <1>4, <1>5, <1>7, <2>1 DEF Target
  <2> QED
    BY <1>4, <1>5, <2>2, <2>3, <2>4, <2>5, <2>6
<1>8. CASE disk' = [crc_ok |-> FALSE, vars |-> disk.vars] /\ lost' = lost + 1
  <2>1. ~disk'.crc_ok /\ disk'.vars = disk.vars
    BY <1>8
  <2>2. ~UpgradePending' /\ ~Untried'
    BY <2>1 DEF UpgradePending, Untried
  <2>3. DiskHealthy' /\ FallbackExists' /\ ActiveComplete' /\ RevertedInv'
    BY <2>1 DEF DiskHealthy, HealthyVars, FallbackExists, ActiveComplete,
                RevertedInv
  <2>4. TrialInv' /\ Target(b)'
    BY <1>2, <1>4, <1>5, <1>8, <2>1, <2>2 DEF TrialInv, Target
  <2> QED
    BY <1>4, <1>5, <2>3, <2>4
<1> QED
  BY <1>6, <1>7, <1>8 DEF CutWrite

\* A step of the loader that leaves disk and history alone.
LEMMA LoaderFrame ==
  ASSUME IInv, TypeInv', fwup = "idle",
         UNCHANGED <<disk, image, good, trial, reverted, lost, fwup>>,
         EnvInv', BootInv'
  PROVE  IInv'
BY DiskFrame DEF IInv, FwupInv

\* Off or powered down, nothing is claimed of the loader's memory.
LEMMA OffFrame ==
  ASSUME TypeInv', DiskInv', fwup' = "idle", pc' \in {"off", "fatal", "read_env"}
  PROVE  IInv'
BY DEF IInv, FwupInv, EnvInv, BootInv

LEMMA LoaderStepInv ==
  ASSUME IInv, TypeInv', LoaderStep
  PROVE  IInv'
<1> USE DEF IInv
<1>1. /\ ActiveSlot \in Slot
      /\ disk.vars.nerves_fw_active = SlotText(ActiveSlot)
      /\ disk.crc_ok \in BOOLEAN /\ disk.vars \in Envs
  BY HealthyActive DEF DiskInv
<1>2. pc \in LoaderSteps => fwup = "idle"
  BY DEF FwupInv, LoaderSteps
<1>3. CASE RomMain
  <2>1. DiskInv'
    BY <1>3, DiskFrame DEF RomMain, history
  <2> QED
    BY <1>3, <2>1, OffFrame DEF RomMain
<1>4. CASE DeviceFails \/ HeaderRefused \/ DtbFails
  <2>1. DiskInv'
    BY <1>4, DiskFrame DEF DeviceFails, HeaderRefused, DtbFails, Fatal, history
  <2>2. fwup' = "idle" /\ pc' = "fatal"
    BY <1>2, <1>4 DEF DeviceFails, HeaderRefused, DtbFails, Fatal, LoaderSteps
  <2> QED
    BY <2>1, <2>2, OffFrame
<1>5. CASE ReadEnv
  <2>1. EnvInv' /\ BootInv'
    BY <1>5 DEF ReadEnv, EnvInv, BootInv
  <2> QED
    BY <1>2, <1>5, <2>1, LoaderFrame DEF ReadEnv, LoaderSteps, history
<1>6. CASE ParseFails
  <2>1. EnvInv' /\ BootInv'
    BY <1>6 DEF ParseFails, Cleanup, EnvInv, BootInv
  <2> QED
    BY <1>2, <1>6, <2>1, LoaderFrame
      DEF ParseFails, Cleanup, LoaderSteps, history
<1>7. CASE RequiredMissing
  <2>1. SlotText(ActiveSlot) # NULL
    BY <1>1, SlotTextType, NullIsNoValue
  <2>2. FALSE
    BY <1>1, <1>7, <2>1, NullIsNoValue
      DEF RequiredMissing, EnvInv, DiskInv, DiskHealthy, HealthyVars
  <2> QED
    BY <2>2
<1>8. CASE ParseOk
  <2>1. /\ disk.crc_ok /\ env' = disk.vars
        /\ active_slot' = disk.vars.nerves_fw_active
        /\ kernel_lba' = DEFAULT_KERNEL_LBA
        /\ pc' = IF UpgradePending THEN "failback" ELSE "select"
        /\ disk' = disk
    BY <1>8 DEF ParseOk, EnvInv, UpgradePending
  <2>2. EnvInv'
    BY <2>1 DEF EnvInv, UpgradePending
  <2>3. ~UpgradePending => /\ image[ActiveSlot] = "kernel"
                           /\ disk.vars.kernel_lba = LbaText
                           /\ Target(ActiveSlot)
    BY <1>1, <2>1 DEF DiskInv, FallbackExists, RevertedInv, DiskHealthy,
                      HealthyVars, Target
  <2>4. \A b \in Slot : Target(b) => Target(b)'
    BY <1>8, DiskFrame DEF ParseOk, history
  <2>5. BootInv'
    BY <1>1, <1>8, <2>1, <2>3, <2>4 DEF BootInv, ParseOk
  <2> QED
    BY <1>2, <1>8, <2>2, <2>5, LoaderFrame DEF ParseOk, LoaderSteps, history
<1>9. CASE Revert
  <2>1. /\ UpgradePending /\ ~Untried
        /\ env = disk.vars /\ active_slot = SlotText(ActiveSlot)
    BY <1>1, <1>9 DEF Revert, EnvInv, Untried
  <2>2. active_slot.c = ActiveSlot
    BY <1>1, <2>1, SlotTextFields
  <2>3. /\ active_slot' = SlotText(Other(ActiveSlot))
        /\ env' = [disk.vars EXCEPT
                     !.nerves_fw_active = SlotText(Other(ActiveSlot)),
                     !.upgrade_available = "0", !.bootcount = "0"]
    <3>1. Flip(active_slot) = {SlotText(Other(ActiveSlot))}
      BY <1>1, <2>1, FlipSlot
    <3> QED
      BY <1>9, <2>1, <3>1 DEF Revert
  <2>4. active_slot' = env'.nerves_fw_active
    BY <1>1, <2>3, UpdatedFields
  <2>5. /\ ActiveSlot' = ActiveSlot
        /\ UpgradePending' = UpgradePending /\ Untried' = Untried
    BY <1>9 DEF Revert, ActiveSlot, UpgradePending, Untried
  <2>6. EnvInv' /\ BootInv'
    BY <1>9, <2>1, <2>3, <2>4, <2>5 DEF Revert, EnvInv, BootInv
  <2>7. reverted' = reverted \cup {ActiveSlot}
    BY <1>1, <1>9, <2>2 DEF Revert
  <2>8. DiskInv'
    <3>1. RevertedInv'
      BY <1>9, <2>1, <2>5, <2>7 DEF DiskInv, RevertedInv, Revert
    <3> QED
      BY <1>9, <2>5, <3>1 DEF DiskInv, DiskHealthy, FallbackExists,
                              ActiveComplete, TrialInv, Revert
  <2> QED
    BY <1>2, <1>9, <2>6, <2>8 DEF FwupInv, Revert, LoaderSteps
<1>10. CASE FirstTry
  <2>1. /\ UpgradePending /\ Untried
        /\ env' = [disk.vars EXCEPT !.bootcount = "1"]
        /\ active_slot' = disk.vars.nerves_fw_active
    BY <1>10 DEF FirstTry, EnvInv, Untried
  <2>2. active_slot' = env'.nerves_fw_active
    BY <1>1, <2>1, UpdatedFields
  <2>3. UpgradePending' /\ Untried' /\ disk' = disk
    BY <1>10, <2>1 DEF FirstTry, UpgradePending, Untried
  <2>4. EnvInv' /\ BootInv'
    BY <1>10, <2>1, <2>2, <2>3 DEF FirstTry, EnvInv, BootInv
  <2> QED
    BY <1>2, <1>10, <2>4, LoaderFrame DEF FirstTry, LoaderSteps, history
<1>11. CASE WriteEnv \/ WriteEnvFails
  <2>1. /\ DiskInv'
        /\ \E b \in Slot : /\ active_slot = SlotText(b)
                           /\ env.kernel_lba = LbaText
                           /\ image[b] \in {"kernel", "rejected"}
                           /\ Target(b)'
    BY <1>11, WriteOutcomes DEF WriteEnv, WriteEnvFails, history
  <2>2. BootInv'
    BY <1>11, <2>1 DEF BootInv, EnvInv, WriteEnv, WriteEnvFails, loaderVars
  <2>3. EnvInv' /\ FwupInv'
    BY <1>2, <1>11 DEF EnvInv, FwupInv, WriteEnv, WriteEnvFails, LoaderSteps
  <2> QED
    BY <2>1, <2>2, <2>3
<1>12. CASE SelectSlot
  <2>1. PICK b \in Slot : /\ active_slot = SlotText(b)
                          /\ env.kernel_lba = LbaText
                          /\ image[b] \in {"kernel", "rejected"}
                          /\ Target(b)
    BY <1>12 DEF SelectSlot, BootInv
  <2>2. SlotVar(env.kernel_lba, active_slot.c) = LbaText[b]
    BY <2>1, SlotTextFields DEF SlotVar
  <2>3. LbaText[b] # NULL
    BY NullIsNoValue DEF Slot
  <2>4. kernel_lba' = ImageLba[b]
    BY <1>12, <2>2, <2>3, SlotLayout DEF SelectSlot
  <2>5. Target(b)'
    BY <1>12, <2>1, DiskFrame DEF SelectSlot, history
  <2>6. EnvInv' /\ BootInv'
    BY <1>12, <2>1, <2>4, <2>5 DEF EnvInv, BootInv, SelectSlot
  <2> QED
    BY <1>2, <1>12, <2>6, LoaderFrame DEF SelectSlot, LoaderSteps, history
<1>13. CASE HeaderAccepted
  <2>1. kernel_lba # DEFAULT_KERNEL_LBA
    BY <1>13, ImageAtDefault DEF HeaderAccepted
  <2>2. PICK b \in Slot : /\ kernel_lba = ImageLba[b]
                          /\ image[b] \in {"kernel", "rejected"}
                          /\ Target(b)
    BY <1>13, <2>1 DEF HeaderAccepted, BootInv
  <2>3. image[b] = "kernel"
    BY <1>13, <2>2, ImageAtSlot DEF HeaderAccepted
  <2>4. Target(b)'
    BY <1>13, <2>2, DiskFrame DEF HeaderAccepted, history
  <2>5. EnvInv' /\ BootInv'
    BY <1>13, <2>2, <2>3, <2>4
      DEF EnvInv, BootInv, HeaderAccepted, loaderVars
  <2> QED
    BY <1>2, <1>13, <2>5, LoaderFrame DEF HeaderAccepted, LoaderSteps, history
<1>14. CASE LoadKernel \/ LoadDtb
  <2>1. PICK b \in Slot : /\ kernel_lba = ImageLba[b]
                          /\ image[b] = "kernel"
                          /\ Target(b)
    BY <1>14 DEF LoadKernel, LoadDtb, BootInv
  <2>2. Target(b)'
    BY <1>14, <2>1, DiskFrame DEF LoadKernel, LoadDtb, history
  <2>3. EnvInv' /\ BootInv'
    BY <1>14, <2>1, <2>2 DEF EnvInv, BootInv, LoadKernel, LoadDtb, loaderVars
  <2> QED
    BY <1>2, <1>14, <2>3, LoaderFrame
      DEF LoadKernel, LoadDtb, LoaderSteps, history
<1>15. CASE StartLinux
  <2>1. PICK b \in Slot : /\ kernel_lba = ImageLba[b]
                          /\ image[b] = "kernel"
                          /\ Target(b)
    BY <1>15 DEF StartLinux, BootInv
  <2>2. SlotAt(kernel_lba) = b
    BY <2>1, SlotAtLba
  <2>3. /\ running' = b
        /\ trial' = IF b \in good THEN trial ELSE [trial EXCEPT ![b] = @ + 1]
    BY <1>15, <2>2 DEF StartLinux
  <2>4. /\ ActiveSlot' = ActiveSlot
        /\ UpgradePending' = UpgradePending /\ Untried' = Untried
    BY <1>15 DEF StartLinux, ActiveSlot, UpgradePending, Untried
  <2>5. TrialInv'
    <3>1. lost \in Nat /\ lost' = lost /\ trial \in [Slot -> Nat]
      BY <1>15, BoundsAssumption DEF TypeInv, TypeOK, StartLinux
    <3>2. TrialInv /\ Target(b)
      BY <2>1 DEF DiskInv
    <3>3. CASE b \in good
      BY <2>3, <2>4, <3>1, <3>2, <3>3 DEF TrialInv
    <3>4. CASE b \notin good
      <4>1. /\ trial[b] <= lost
            /\ Untried /\ b = ActiveSlot => trial[b] + 1 <= lost
        BY <3>2, <3>4 DEF Target
      <4>2. /\ trial'[b] = trial[b] + 1
            /\ \A s \in Slot \ {b} : trial'[s] = trial[s]
        BY <2>3, <3>1, <3>4
      <4>3. \A s \in Slot : trial'[s] <= 1 + lost
        BY <3>1, <3>2, <4>1, <4>2 DEF TrialInv
      <4>4. Untried => trial'[ActiveSlot] <= lost
        BY <1>1, <3>1, <3>2, <4>1, <4>2 DEF TrialInv
      <4> QED
        BY <2>4, <3>1, <4>3, <4>4 DEF TrialInv
    <3> QED
      BY <3>3, <3>4
  <2>6. DiskInv'
    BY <1>15, <2>4, <2>5 DEF StartLinux, DiskInv, DiskHealthy, FallbackExists,
                             ActiveComplete, RevertedInv
  <2>7. EnvInv' /\ FwupInv'
    BY <1>2, <1>15 DEF EnvInv, FwupInv, StartLinux, LoaderSteps
  <2>8. BootInv'
    BY <1>15, <2>1, <2>3, <2>4 DEF BootInv, Target, StartLinux, loaderVars
  <2> QED
    BY <2>6, <2>7, <2>8
<1> QED
  BY <1>3, <1>4, <1>5, <1>6, <1>7, <1>8, <1>9, <1>10, <1>11, <1>12, <1>13,
     <1>14, <1>15 DEF LoaderStep

LEMMA WorldInv ==
  ASSUME IInv, TypeInv', World
  PROVE  IInv'
<1> USE DEF IInv
<1>1. /\ ActiveSlot \in Slot
      /\ disk.vars.nerves_fw_active = SlotText(ActiveSlot)
      /\ disk.crc_ok \in BOOLEAN /\ disk.vars \in Envs
      /\ disk.vars.kernel_lba = LbaText
  BY HealthyActive DEF DiskInv, DiskHealthy, HealthyVars
<1>2. /\ lost \in Nat /\ trial \in [Slot -> Nat]
      /\ image \in [Slot -> Images]
      /\ reverted \subseteq Slot /\ good \subseteq Slot
  BY BoundsAssumption DEF TypeInv, TypeOK
<1>3. CASE Reset \/ PowerCut
  <2>1. DiskInv'
    BY <1>3, DiskFrame DEF Reset, PowerCut, history
  <2> QED
    BY <1>3, <2>1, OffFrame DEF Reset, PowerCut, ForgetMemory
<1>4. CASE PowerCutInWrite
  <2>1. DiskInv'
    BY <1>4, WriteOutcomes DEF PowerCutInWrite, history
  <2> QED
    BY <1>4, <2>1, OffFrame DEF PowerCutInWrite, ForgetMemory
<1>5. ASSUME NEW s \in Slot, FwupBegin(s) PROVE IInv'
  <2>1. /\ disk.crc_ok /\ ~UpgradePending
        /\ ActiveSlot = Other(s) /\ s = Other(ActiveSlot) /\ s # ActiveSlot
    <3>1. disk.crc_ok /\ ~UpgradePending
      BY <1>5 DEF FwupBegin, UpgradePending
    <3>2. Other(s) \in Slot /\ s = Other(Other(s)) /\ s # Other(s)
      BY SlotTextType
    <3>3. SlotText(Other(s)).c = Other(s)
      BY <3>2, SlotTextFields
    <3>4. ActiveSlot = Other(s)
      BY <1>5, <3>3 DEF FwupBegin, ActiveSlot
    <3> QED
      BY <3>1, <3>2, <3>4
  <2>2. /\ ActiveSlot' = ActiveSlot
        /\ UpgradePending' = UpgradePending /\ Untried' = Untried
    BY <1>5 DEF FwupBegin, ActiveSlot, UpgradePending, Untried
  <2>3. image'[ActiveSlot] = image[ActiveSlot]
    BY <1>1, <1>2, <1>5, <2>1 DEF FwupBegin
  <2>4. DiskInv'
    BY <1>1, <1>5, <2>1, <2>2, <2>3
      DEF DiskInv, DiskHealthy, FallbackExists, ActiveComplete, TrialInv,
          RevertedInv, FwupBegin
  <2>5. FwupInv' /\ EnvInv'
    BY <1>5, <2>1, <2>2 DEF FwupInv, EnvInv, FwupBegin
  <2>6. BootInv'
    BY <1>5, <2>1, <2>2, <2>3 DEF BootInv, FwupBegin, loaderVars
  <2> QED
    BY <2>4, <2>5, <2>6
<1>6. ASSUME NEW s \in Slot, FwupFinish(s) PROVE IInv'
  <2>1. /\ pc \in {"linux", "off"}
        /\ disk.crc_ok /\ ~UpgradePending
        /\ s = Other(ActiveSlot) /\ s # ActiveSlot /\ ActiveSlot = Other(s)
    BY <1>1, <1>6, SlotTextType DEF FwupInv, FwupFinish, Slot
  <2> DEFINE v == [disk.vars EXCEPT !.nerves_fw_active = SlotText(s),
                                    !.upgrade_available = "1",
                                    !.bootcount = "0"]
  <2>2. /\ disk' = [crc_ok |-> TRUE, vars |-> v]
        /\ v.nerves_fw_active = SlotText(s) /\ v.upgrade_available = "1"
        /\ v.bootcount = "0" /\ v.kernel_lba = LbaText
    BY <1>1, <1>6, UpdatedFields DEF FwupFinish
  <2> HIDE DEF v
  <2>3. ActiveSlot' = s /\ disk'.crc_ok /\ UpgradePending' /\ Untried'
    BY <2>2, WrittenBlock
  <2>4. /\ image'[s] \in {"kernel", "rejected"}
        /\ image'[ActiveSlot] = image[ActiveSlot]
        /\ trial' = [trial EXCEPT ![s] = 0]
        /\ reverted' = reverted \ {s}
        /\ good' = good /\ lost' = lost /\ pc' = pc /\ fwup' = "idle"
        /\ running' = running /\ kernel_lba' = kernel_lba
    BY <1>1, <1>2, <1>6, <2>1 DEF FwupFinish, loaderVars
  <2>5. DiskHealthy'
    BY <2>2, NullIsNoValue DEF DiskHealthy, HealthyVars, Slot
  <2>6. FallbackExists' /\ ActiveComplete'
    BY <2>1, <2>3, <2>4 DEF DiskInv, FallbackExists, ActiveComplete
  <2>7. TrialInv'
    BY <1>2, <2>3, <2>4 DEF DiskInv, TrialInv
  <2>8. RevertedInv'
    BY <1>2, <2>1, <2>3, <2>4 DEF DiskInv, RevertedInv, Slot, Other
  <2>9. FwupInv' /\ EnvInv'
    BY <2>1, <2>4 DEF FwupInv, EnvInv
  <2>10. BootInv'
    BY <2>1, <2>3, <2>4 DEF BootInv
  <2> QED
    BY <2>5, <2>6, <2>7, <2>8, <2>9, <2>10 DEF DiskInv
<1>7. ASSUME NEW s \in Slot, FwupAbort(s) PROVE IInv'
  <2>1. pc \in {"linux", "off"}
    BY <1>7 DEF FwupInv, FwupAbort, Slot
  <2>2. DiskInv'
    BY <1>7, DiskFrame DEF FwupAbort, history
  <2>3. /\ ActiveSlot' = ActiveSlot /\ UpgradePending' = UpgradePending
    BY <1>7 DEF FwupAbort, ActiveSlot, UpgradePending
  <2>4. FwupInv' /\ EnvInv' /\ BootInv'
    BY <1>7, <2>1, <2>3
      DEF FwupInv, EnvInv, BootInv, FwupAbort, history, loaderVars
  <2> QED
    BY <2>2, <2>4
<1>8. ASSUME NEW s \in Slot, FwupCut(s) PROVE IInv'
  <2>1. pc \in {"linux", "off"}
    BY <1>8 DEF FwupInv, FwupCut, Slot
  <2>2. ~disk'.crc_ok /\ disk'.vars = disk.vars
    BY <1>8 DEF FwupCut
  <2>3. ~UpgradePending' /\ ~Untried'
    BY <2>2 DEF UpgradePending, Untried
  <2>4. DiskHealthy' /\ FallbackExists' /\ ActiveComplete' /\ RevertedInv'
    BY <2>2 DEF DiskInv, DiskHealthy, HealthyVars, FallbackExists,
                ActiveComplete, RevertedInv
  <2>5. TrialInv'
    BY <1>2, <1>8, <2>3 DEF DiskInv, TrialInv, FwupCut, history
  <2>6. FwupInv' /\ EnvInv' /\ BootInv'
    BY <1>8, <2>1, <2>2
      DEF FwupInv, EnvInv, BootInv, FwupCut, history, loaderVars
  <2> QED
    BY <2>4, <2>5, <2>6 DEF DiskInv
<1>9. CASE FwupComplete
  <2>1. /\ FactoryEnv.nerves_fw_active = SlotText("a")
        /\ FactoryEnv.upgrade_available = "0"
        /\ FactoryEnv.kernel_lba = LbaText
    BY DEF FactoryEnv
  <2>2. disk' = [crc_ok |-> TRUE, vars |-> FactoryEnv]
    BY <1>9 DEF FwupComplete
  <2>3. ActiveSlot' = "a" /\ ~UpgradePending' /\ ~Untried'
    BY <2>1, <2>2, WrittenBlock DEF Slot
  <2>4. DiskHealthy'
    BY <2>1, <2>2 DEF DiskHealthy, HealthyVars
  <2>5. DiskInv'
    BY <1>2, <1>9, <2>3, <2>4
      DEF DiskInv, FallbackExists, ActiveComplete, TrialInv, RevertedInv,
          FwupComplete, Slot
  <2> QED
    BY <1>9, <2>5, OffFrame DEF FwupComplete
<1>10. CASE Validate
  <2>1. /\ pc = "linux" /\ fwup = "idle" /\ running \in Slot
        /\ disk.crc_ok /\ UpgradePending
        /\ running = ActiveSlot /\ image[ActiveSlot] = "kernel"
        /\ running \notin reverted
    <3>1. /\ pc = "linux" /\ fwup = "idle" /\ disk.crc_ok /\ UpgradePending
          /\ disk.vars.nerves_fw_active = SlotText(running)
      BY <1>10 DEF Validate, UpgradePending
    <3>2. running \in Slot /\ image[running] = "kernel" /\ running \notin reverted
      BY <3>1 DEF BootInv
    <3>3. running = ActiveSlot
      BY <3>1, <3>2, SlotTextFields DEF ActiveSlot
    <3> QED
      BY ONLY <3>1, <3>2, <3>3
  <2> DEFINE v == [disk.vars EXCEPT !.upgrade_available = "0"]
  <2>2. /\ disk' = [crc_ok |-> TRUE, vars |-> v]
        /\ v.nerves_fw_active = SlotText(ActiveSlot)
        /\ v.upgrade_available = "0" /\ v.kernel_lba = LbaText
    BY <1>1, <1>10, UpdatedFields DEF Validate
  <2> HIDE DEF v
  <2>3. ActiveSlot' = ActiveSlot /\ ~UpgradePending' /\ ~Untried'
    BY <1>1, <2>2, WrittenBlock
  <2>4. DiskHealthy'
    BY <1>1, <2>2 DEF DiskHealthy, HealthyVars, Slot
  <2>5. FallbackExists' /\ ActiveComplete' /\ TrialInv' /\ RevertedInv'
    BY <1>10, <2>1, <2>3
      DEF DiskInv, FallbackExists, ActiveComplete, TrialInv, RevertedInv,
          Validate
  <2>6. FwupInv' /\ EnvInv' /\ BootInv'
    BY <1>10, <2>1, <2>3
      DEF FwupInv, EnvInv, BootInv, Validate, loaderVars
  <2> QED
    BY <2>4, <2>5, <2>6 DEF DiskInv
<1> QED
  BY <1>3, <1>4, <1>5, <1>6, <1>7, <1>8, <1>9, <1>10 DEF World

LEMMA StutterInv ==
  ASSUME IInv, UNCHANGED vars
  PROVE  IInv'
BY DEF IInv, vars, loaderVars, history, TypeInv, TypeOK, Progress, DiskInv,
       DiskHealthy, HealthyVars, FallbackExists, ActiveComplete, TrialInv,
       RevertedInv, FwupInv, EnvInv, BootInv, Target, Untried, UpgradePending,
       ActiveSlot

LEMMA NextInv == IInv /\ [Next]_vars => IInv'
<1> SUFFICES ASSUME IInv, [Next]_vars PROVE IInv'
  OBVIOUS
<1>1. TypeInv'
  BY NextType DEF IInv
<1> QED
  BY <1>1, LoaderStepInv, WorldInv, StutterInv DEF Next

LEMMA Invariance ==
  ASSUME InitialEnvs = {FactoryEnv}
  PROVE  Spec => []IInv
BY InitInv, NextInv, PTL DEF Spec

-----------------------------------------------------------------------------
(***************************************************************************)
(* The theorems, for a disk that left the factory.                         *)
(***************************************************************************)

\* At every moment at which the environment can be read, the slot the loader
\* would end up in holds validated, complete firmware: no order of upgrades,
\* resets, power cuts and failing writes loses both slots.
THEOREM AlwaysFallback ==
  ASSUME InitialEnvs = {FactoryEnv}
  PROVE  Spec => []FallbackExists
<1>1. IInv => FallbackExists
  BY DEF IInv, DiskInv
<1> QED
  BY Invariance, <1>1, PTL

\* Unvalidated firmware is started at most once, and once more for every
\* environment write that was lost.
THEOREM TrialsBounded ==
  ASSUME InitialEnvs = {FactoryEnv}
  PROVE  Spec => []TrialBound
<1>1. IInv => TrialBound
  BY DEF IInv, DiskInv, TrialInv, TrialBound
<1> QED
  BY Invariance, <1>1, PTL

\* Firmware that process_uboot_env gave up on is never started again.
THEOREM RevertsAreFinal ==
  ASSUME InitialEnvs = {FactoryEnv}
  PROVE  Spec => []RevertIsFinal
<1>1. IInv => RevertIsFinal
  BY DEF IInv, BootInv, RevertIsFinal
<1> QED
  BY Invariance, <1>1, PTL

\* Control is only handed to images that fwup wrote to the end, although
\* load_kernel checks nothing but magic and size of the header.
THEOREM ImagesComplete ==
  ASSUME InitialEnvs = {FactoryEnv}
  PROVE  Spec => []OnlyCompleteImages
<1>1. IInv => OnlyCompleteImages
  BY ImageAtSlot DEF IInv, BootInv, OnlyCompleteImages
<1> QED
  BY Invariance, <1>1, PTL

-----------------------------------------------------------------------------
(***************************************************************************)
(* Refinement: the environment block moves as Failback allows.             *)
(***************************************************************************)

\* The phase of a block, from what was proved about it.
LEMMA PhaseOf ==
  ASSUME TypeInv
  PROVE  Phase = IF ~disk.crc_ok THEN "lost"
                 ELSE IF ~UpgradePending THEN "stable"
                 ELSE IF Untried THEN "fresh" ELSE "tried"
BY BlockFields DEF Phase, UpgradePending, Untried, TypeInv, TypeOK

\* Steps that do not touch what Failback sees.
LEMMA FailbackStutter ==
  ASSUME UNCHANGED <<disk, good>>
  PROVE  UNCHANGED <<Phase, ActiveSlot, good>>
BY DEF Phase, ActiveSlot

LEMMA InitRefines ==
  ASSUME InitialEnvs = {FactoryEnv}
  PROVE  Init => FB!Init
<1> SUFFICES ASSUME Init PROVE FB!Init
  OBVIOUS
<1>1. disk.crc_ok = TRUE /\ disk.vars = FactoryEnv
  BY DEF Init
<1>2. /\ disk.vars.nerves_fw_active = SlotText("a")
      /\ disk.vars.upgrade_available = "0"
  BY <1>1 DEF FactoryEnv
<1>3. ActiveSlot = "a" /\ Phase = "stable"
  BY <1>1, <1>2, SlotTextFields DEF ActiveSlot, Phase, Slot
<1> QED
  BY <1>3 DEF FB!Init, Init, Slot

\* A write of the block by process_uboot_env is Try or Revert, a cut one Lose
\* or nothing.
LEMMA WriteRefines ==
  ASSUME IInv, IInv', pc = "write_env", UNCHANGED good,
         disk' = [crc_ok |-> TRUE, vars |-> env] \/ CutWrite
  PROVE  FB!Next \/ UNCHANGED <<Phase, ActiveSlot, good>>
<1>1. /\ ActiveSlot \in Slot
      /\ disk.vars.nerves_fw_active = SlotText(ActiveSlot)
      /\ disk.vars \in Envs /\ disk.crc_ok /\ UpgradePending
  BY HealthyActive DEF IInv, DiskInv, EnvInv, UpgradePending
<1>2. TypeInv /\ TypeInv'
  BY DEF IInv
<1>3. CASE disk' = disk
  BY <1>3, FailbackStutter
<1>4. CASE disk' = [crc_ok |-> FALSE, vars |-> disk.vars]
  <2>1. ActiveSlot' = ActiveSlot /\ Phase' = "lost"
    BY <1>4 DEF ActiveSlot, Phase
  <2> QED
    BY <2>1 DEF FB!Next, FB!Lose
<1>5. CASE disk' = [crc_ok |-> TRUE, vars |-> env] /\ Untried
  <2>1. env = [disk.vars EXCEPT !.bootcount = "1"]
    BY <1>5 DEF IInv, EnvInv
  <2>2. /\ env.nerves_fw_active = SlotText(ActiveSlot)
        /\ env.upgrade_available = disk.vars.upgrade_available
        /\ env.bootcount = "1"
    BY <1>1, <2>1, UpdatedFields
  <2>3. disk.vars.upgrade_available = "1"
    BY <1>1 DEF UpgradePending
  <2>4. ActiveSlot' = ActiveSlot /\ Phase = "fresh" /\ Phase' = "tried"
    BY <1>1, <1>2, <1>5, <2>2, <2>3, WrittenBlock, PhaseOf DEF Phase
  <2> QED
    BY <2>4 DEF FB!Next, FB!Try
<1>6. CASE disk' = [crc_ok |-> TRUE, vars |-> env] /\ ~Untried
  <2>1. env = [disk.vars EXCEPT
                 !.nerves_fw_active = SlotText(Other(ActiveSlot)),
                 !.upgrade_available = "0", !.bootcount = "0"]
    BY <1>6 DEF IInv, EnvInv
  <2>2. /\ env.nerves_fw_active = SlotText(Other(ActiveSlot))
        /\ env.upgrade_available = "0"
    BY <1>1, <2>1, UpdatedFields
  <2>3. ActiveSlot' = Other(ActiveSlot) /\ ~UpgradePending'
    BY <1>1, <1>6, <2>2, WrittenBlock, SlotTextType
  <2>4. Phase = "tried" /\ Phase' = "stable"
    BY <1>1, <1>2, <1>6, <2>2, PhaseOf DEF Phase
  <2>5. Other(ActiveSlot) \in good
    BY <1>1 DEF IInv, DiskInv, FallbackExists
  <2> QED
    BY <2>3, <2>4, <2>5 DEF FB!Next, FB!Revert
<1> QED
  BY <1>3, <1>4, <1>5, <1>6 DEF CutWrite

LEMMA NextRefines ==
  ASSUME IInv, IInv', [Next]_vars
  PROVE  [FB!Next]_<<Phase, ActiveSlot, good>>
<1>1. TypeInv /\ TypeInv'
  BY DEF IInv
<1>2. /\ ActiveSlot \in Slot
      /\ disk.vars.nerves_fw_active = SlotText(ActiveSlot)
      /\ disk.crc_ok \in BOOLEAN /\ disk.vars \in Envs
  BY HealthyActive DEF IInv, DiskInv
<1>3. CASE WriteEnv \/ WriteEnvFails \/ PowerCutInWrite
  BY <1>3, WriteRefines DEF WriteEnv, WriteEnvFails, PowerCutInWrite, history
<1>4. ASSUME NEW s \in Slot, FwupBegin(s)
      PROVE  [FB!Next]_<<Phase, ActiveSlot, good>>
  <2>1. UNCHANGED <<Phase, ActiveSlot>> /\ good' = good \ {s}
    BY <1>4 DEF FwupBegin, Phase, ActiveSlot
  <2>2. Phase = "stable"
    BY <1>1, <1>2, <1>4, PhaseOf DEF FwupBegin, UpgradePending
  <2>3. s = Other(ActiveSlot)
    BY <1>4 DEF IInv, FwupInv, FwupBegin, Slot, ActiveSlot
  <2> QED
    BY <2>1, <2>2, <2>3 DEF FB!Next, FB!Overwrite
<1>5. ASSUME NEW s \in Slot, FwupFinish(s)
      PROVE  [FB!Next]_<<Phase, ActiveSlot, good>>
  <2>1. disk.crc_ok /\ ~UpgradePending /\ s = Other(ActiveSlot) /\ s \notin good
    BY <1>5 DEF IInv, FwupInv, FwupFinish, Slot
  <2>2. LET v == [disk.vars EXCEPT !.nerves_fw_active = SlotText(s),
                                   !.upgrade_available = "1", !.bootcount = "0"]
        IN  /\ disk' = [crc_ok |-> TRUE, vars |-> v]
            /\ v.nerves_fw_active = SlotText(s) /\ v.upgrade_available = "1"
            /\ v.bootcount = "0"
    BY <1>2, <1>5, UpdatedFields DEF FwupFinish
  <2>3. ActiveSlot' = s /\ disk'.crc_ok /\ UpgradePending' /\ Untried'
    BY <2>2, WrittenBlock
  <2>4. Phase = "stable"
    BY <1>1, <2>1, PhaseOf
  <2>5. Phase' = "fresh"
    BY <2>3 DEF Phase, UpgradePending, Untried
  <2> QED
    BY <1>5, <2>1, <2>3, <2>4, <2>5 DEF FB!Next, FB!Install, FwupFinish
<1>6. ASSUME NEW s \in Slot, FwupCut(s)
      PROVE  [FB!Next]_<<Phase, ActiveSlot, good>>
  <2>1. ActiveSlot' = ActiveSlot /\ Phase' = "lost" /\ good' = good
    BY <1>6 DEF FwupCut, ActiveSlot, Phase, history
  <2> QED
    BY <2>1 DEF FB!Next, FB!Lose
<1>7. CASE FwupComplete
  <2>1. /\ FactoryEnv.nerves_fw_active = SlotText("a")
        /\ FactoryEnv.upgrade_available = "0"
    BY DEF FactoryEnv
  <2>2. disk' = [crc_ok |-> TRUE, vars |-> FactoryEnv] /\ good' = {"a"}
    BY <1>7 DEF FwupComplete
  <2>3. ActiveSlot' = "a" /\ Phase' = "stable"
    BY <2>1, <2>2, WrittenBlock DEF Phase, Slot
  <2> QED
    BY <2>2, <2>3 DEF FB!Next, FB!Reflash, Slot
<1>8. CASE Validate
  <2>1. /\ Phase \in {"fresh", "tried"}
    BY <1>8 DEF Validate, Phase
  <2>2. running \in Slot /\ ActiveSlot = running
    <3>1. running \in Slot
      BY <1>1, <1>8 DEF Validate, TypeInv, Progress
    <3>2. SlotText(running).c = running
      BY <3>1, SlotTextFields
    <3> QED
      BY <1>8, <3>1, <3>2 DEF Validate, ActiveSlot
  <2>3. LET v == [disk.vars EXCEPT !.upgrade_available = "0"]
        IN  /\ disk' = [crc_ok |-> TRUE, vars |-> v]
            /\ v.nerves_fw_active = SlotText(ActiveSlot)
            /\ v.upgrade_available = "0"
    BY <1>2, <1>8, UpdatedFields DEF Validate
  <2>4. ActiveSlot' = ActiveSlot /\ Phase' = "stable"
    BY <1>2, <2>3, WrittenBlock DEF Phase
  <2> QED
    BY <1>8, <2>1, <2>2, <2>4 DEF FB!Next, FB!Confirm, Validate
<1>9. CASE UNCHANGED <<disk, good>>
  BY <1>9, FailbackStutter
<1> QED
  BY <1>3, <1>4, <1>5, <1>6, <1>7, <1>8, <1>9
    DEF Next, LoaderStep, World, vars, history, RomMain, DeviceFails, Fatal,
        ReadEnv, ParseFails, Cleanup, RequiredMissing, ParseOk, Revert,
        FirstTry, SelectSlot, HeaderAccepted, HeaderRefused, LoadKernel,
        LoadDtb, DtbFails, StartLinux, Reset, PowerCut, FwupAbort

\* Whatever happens around it, the loader with fwup and the firmware moves
\* the environment only as the abstract A/B mechanism does.
THEOREM Refinement ==
  ASSUME InitialEnvs = {FactoryEnv}
  PROVE  Spec => ImplementsFailback
<1>1. IInv /\ IInv' /\ [Next]_vars => [FB!Next]_<<Phase, ActiveSlot, good>>
  BY NextRefines
<1> QED
  BY Invariance, InitRefines, <1>1, PTL DEF Spec, ImplementsFailback, FB!Spec

-----------------------------------------------------------------------------
(***************************************************************************)
(* Whatever the environment says: Spec from any InitialEnvs.               *)
(***************************************************************************)

\* Before a slot is selected the defaults stand.
DefaultsInv ==
  pc \in {"parse_env", "failback", "write_env", "select"} =>
    kernel_args = NULL /\ kernel_lba = DEFAULT_KERNEL_LBA

\* fwup runs under Linux or on the disk of a machine that is off.
FwupElsewhere == fwup # "idle" => pc \in {"linux", "off"}

\* The variables in memory are those on disk, but for a write to come.
CopyInv ==
  /\ pc = "parse_env" => buffer = disk
  /\ pc \in {"failback", "write_env", "select"} =>
       active_slot = env.nerves_fw_active
  /\ pc = "select" /\ lost = 0 => disk.crc_ok /\ env = disk.vars

\* kernel_lba is the one recorded for the active slot.
Recorded ==
  /\ disk.crc_ok
  /\ ActiveSlot \in Slot
  /\ disk.vars.kernel_lba[ActiveSlot] # NULL
  /\ kernel_lba = strtoull_(disk.vars.kernel_lba[ActiveSlot], 10)

RecordInv ==
  /\ pc = "load_header" /\ lost = 0 =>
       kernel_lba = DEFAULT_KERNEL_LBA \/ Recorded
  /\ pc \in {"load_kernel", "load_dtb", "start_linux"} /\ lost = 0 => Recorded

AnyEnvInv ==
  /\ TypeInv /\ DefaultsInv /\ FwupElsewhere /\ CopyInv /\ RecordInv
  /\ ArgsMatchKernel

LEMMA AnyEnvInit == Init => AnyEnvInv
BY InitType DEF Init, AnyEnvInv, DefaultsInv, FwupElsewhere, CopyInv, RecordInv,
                ArgsMatchKernel, LoaderSteps

\* A step that leaves the loader, or begins it anew.
LEMMA AnyEnvElsewhere ==
  ASSUME AnyEnvInv, TypeInv', pc' \in {"off", "fatal", "linux", "read_env"},
         fwup' # "idle" => pc' \in {"linux", "off"}
  PROVE  AnyEnvInv'
BY DEF AnyEnvInv, DefaultsInv, FwupElsewhere, CopyInv, RecordInv,
       ArgsMatchKernel, LoaderSteps

LEMMA AnyEnvLoader ==
  ASSUME AnyEnvInv, TypeInv', LoaderStep
  PROVE  AnyEnvInv'
<1> USE DEF loaderVars, history
<1>1. TypeInv
  BY DEF AnyEnvInv
<1>2. CASE RomMain \/ DeviceFails \/ HeaderRefused \/ DtbFails
  BY <1>2, AnyEnvElsewhere
    DEF RomMain, DeviceFails, HeaderRefused, DtbFails, Fatal, AnyEnvInv,
        FwupElsewhere
<1>3. CASE StartLinux
  BY <1>3, AnyEnvElsewhere DEF StartLinux
<1> USE DEF AnyEnvInv, DefaultsInv, FwupElsewhere, CopyInv, RecordInv,
            ArgsMatchKernel, LoaderSteps
<1>4. CASE ReadEnv
  BY <1>4 DEF ReadEnv
<1>5. CASE ParseFails
  BY <1>5 DEF ParseFails, Cleanup
<1>6. CASE RequiredMissing
  BY <1>6 DEF RequiredMissing, Cleanup
<1>7. CASE ParseOk
  BY <1>7 DEF ParseOk
<1>8. CASE Revert
  <2>1. env \in Envs
    BY <1>1, <1>8 DEF TypeInv, Progress, Revert
  <2>2. active_slot' = env'.nerves_fw_active
    BY <1>8, <2>1, UpdatedFields DEF Revert
  <2> QED
    BY <1>8, <2>2 DEF Revert
<1>9. CASE FirstTry
  <2>1. env \in Envs
    BY <1>1, <1>9 DEF TypeInv, Progress, FirstTry
  <2>2. env'.nerves_fw_active = env.nerves_fw_active
    BY <1>9, <2>1, UpdatedFields DEF FirstTry
  <2> QED
    BY <1>9, <2>2 DEF FirstTry
<1>10. CASE WriteEnv
  <2>1. disk'.crc_ok /\ disk'.vars = env
    BY <1>10 DEF WriteEnv
  <2> QED
    BY <1>10, <2>1 DEF WriteEnv
<1>11. CASE WriteEnvFails
  <2>1. lost' # 0
    BY <1>1, <1>11, BoundsAssumption DEF WriteEnvFails, TypeInv, TypeOK
  <2> QED
    BY <1>11, <2>1 DEF WriteEnvFails
<1>12. CASE SelectSlot
  <2> DEFINE c == active_slot.c
             lba == SlotVar(env.kernel_lba, c)
  <2>1. CASE lba = NULL
    BY <1>12, <2>1 DEF SelectSlot
  <2>2. CASE lba # NULL
    <3>1. c \in Slot /\ lba = env.kernel_lba[c]
      BY <2>2 DEF SlotVar
    <3>2. /\ kernel_lba' = strtoull_(env.kernel_lba[c], 10)
          /\ kernel_args' = env.kernel_args[c]
          /\ pc = "select" /\ pc' = "load_header"
          /\ UNCHANGED <<disk, env, fwup, lost>>
      BY <1>12, <2>2, <3>1 DEF SelectSlot, SlotVar
    <3>3. ArgsMatchKernel'
      BY <2>2, <3>1, <3>2
    <3>4. lost = 0 => Recorded'
      <4> SUFFICES ASSUME lost = 0 PROVE Recorded'
        OBVIOUS
      <4>1. disk.crc_ok /\ env = disk.vars /\ active_slot = env.nerves_fw_active
        BY <3>2
      <4>2. ActiveSlot' = c
        BY <3>2, <4>1 DEF ActiveSlot
      <4> QED
        BY <2>2, <3>1, <3>2, <4>1, <4>2 DEF Recorded
    <3>5. DefaultsInv' /\ FwupElsewhere' /\ CopyInv'
      BY <3>2
    <3>6. RecordInv'
      BY <3>2, <3>4
    <3> QED
      BY <3>3, <3>5, <3>6
  <2> QED
    BY <2>1, <2>2
<1>13. CASE HeaderAccepted
  <2>1. kernel_lba # DEFAULT_KERNEL_LBA
    BY <1>13, ImageAtDefault DEF HeaderAccepted
  <2> QED
    BY <1>13, <2>1 DEF HeaderAccepted, Recorded, ActiveSlot
<1>14. CASE LoadKernel
  BY <1>14 DEF LoadKernel, Recorded, ActiveSlot
<1>15. CASE LoadDtb
  BY <1>15 DEF LoadDtb, Recorded, ActiveSlot
<1> QED
  BY <1>2, <1>3, <1>4, <1>5, <1>6, <1>7, <1>8, <1>9, <1>10, <1>11, <1>12,
     <1>13, <1>14, <1>15 DEF LoaderStep

\* fwup and the firmware do not run beside the loader.
LEMMA AnyEnvWorld ==
  ASSUME AnyEnvInv, TypeInv', World
  PROVE  AnyEnvInv'
<1>1. CASE Reset \/ PowerCut \/ PowerCutInWrite
  BY <1>1, AnyEnvElsewhere DEF Reset, PowerCut, PowerCutInWrite, ForgetMemory
<1>2. ASSUME NEW s \in Slot,
             FwupBegin(s) \/ FwupFinish(s) \/ FwupAbort(s) \/ FwupCut(s)
      PROVE  AnyEnvInv'
  <2>1. pc \in {"linux", "off"} /\ pc' = pc
    BY <1>2 DEF AnyEnvInv, FwupElsewhere, FwupBegin, FwupFinish, FwupAbort,
                FwupCut, Slot
  <2> QED
    BY <2>1, AnyEnvElsewhere
<1>3. CASE FwupComplete \/ Validate
  BY <1>3, AnyEnvElsewhere DEF FwupComplete, Validate
<1> QED
  BY <1>1, <1>2, <1>3 DEF World

LEMMA AnyEnvNext == AnyEnvInv /\ [Next]_vars => AnyEnvInv'
<1> SUFFICES ASSUME AnyEnvInv, [Next]_vars PROVE AnyEnvInv'
  OBVIOUS
<1>1. TypeInv'
  BY NextType DEF AnyEnvInv
<1>2. CASE UNCHANGED vars
  BY <1>1, <1>2 DEF vars, loaderVars, AnyEnvInv, DefaultsInv, FwupElsewhere,
       CopyInv, RecordInv, Recorded, ActiveSlot, ArgsMatchKernel
<1> QED
  BY <1>1, <1>2, AnyEnvLoader, AnyEnvWorld DEF Next

\* Whatever environment the disk holds, the kernel gets the command line of its
\* own slot or none: process_uboot_env sets kernel_lba and kernel_args together.
THEOREM OwnArguments == Spec => []ArgsMatchKernel
<1>1. AnyEnvInv => ArgsMatchKernel
  BY DEF AnyEnvInv
<1> QED
  BY AnyEnvInit, AnyEnvNext, <1>1, PTL DEF Spec

\* Whatever environment the disk holds, as long as no write of it was lost, the
\* kernel that is started is the one the disk names: the slot process_uboot_env
\* switched to in memory is the slot it has written.
THEOREM BootsRecordedSlot == Spec => []BootedAsRecorded
<1>1. AnyEnvInv => BootedAsRecorded
  BY DEF AnyEnvInv, RecordInv, Recorded, BootedAsRecorded
<1> QED
  BY AnyEnvInit, AnyEnvNext, <1>1, PTL DEF Spec

=============================================================================
