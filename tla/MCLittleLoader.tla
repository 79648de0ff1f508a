--------------------------- MODULE MCLittleLoader ---------------------------
(***************************************************************************)
(* Instances of LittleLoader for TLC, with the disk layout of              *)
(* demo/fwup.conf: kernels at LBA 8192 and 73728.                          *)
(***************************************************************************)
EXTENDS LittleLoader

MCImageLba == [s \in Slot |-> IF s = "a" THEN 8192 ELSE 73728]

\* "8192" and "73728"
MCLbaText == [s \in Slot |-> IF s = "a" THEN <<56, 49, 57, 50>>
                             ELSE <<55, 51, 55, 50, 56>>]

MCArgsText == [s \in Slot |-> IF s = "a" THEN "booting=a" ELSE "booting=b"]

\* The disk fwup's task complete writes.
MCFactory == {FactoryEnv}

\* Disks prepared by other tools: any variable may be missing, the counters
\* may hold any value, nerves_fw_active may be empty or name no slot.
MCAnyEnv ==
  {[nerves_fw_active |-> n, upgrade_available |-> u, bootcount |-> c,
    kernel_lba |-> l, kernel_args |-> a] :
     n \in {SlotText(x) : x \in {"a", "b", "c", "NUL"}} \cup {NULL},
     u \in {"0", "1", NULL},
     c \in {"0", "1", "2", NULL},
     l \in {[s \in Slot |-> IF s \in P THEN LbaText[s] ELSE NULL] :
              P \in SUBSET Slot},
     a \in {[s \in Slot |-> IF s \in P THEN ArgsText[s] ELSE NULL] :
              P \in SUBSET Slot}}
=============================================================================
