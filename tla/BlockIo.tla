------------------------------ MODULE BlockIo -------------------------------
(***************************************************************************)
(* What virtio_blk_read and virtio_blk_write promise their callers: a call *)
(* takes effect exactly once, in one step, between its start and its       *)
(* return, and the result tells whether it did.                            *)
(***************************************************************************)
CONSTANTS Lba, Buf, Data, Failures, Ok

VARIABLES phase,   \* "ready", "called", "done"
          call,    \* the arguments of the call
          disk,    \* LBA -> contents
          mem,     \* buffer -> contents
          result   \* the device's status, meaningful when done

\* The caller fills a buffer between two calls.
Fill ==
  /\ phase = "ready"
  /\ \E b \in Buf, v \in Data : mem' = [mem EXCEPT ![b] = v]
  /\ UNCHANGED <<phase, call, disk, result>>

Call ==
  /\ phase = "ready"
  /\ phase' = "called"
  /\ call' \in [type : {"IN", "OUT"}, lba : Lba, buf : Buf]
  /\ UNCHANGED <<disk, mem, result>>

Read ==
  /\ phase = "called" /\ call.type = "IN"
  /\ mem' = [mem EXCEPT ![call.buf] = disk[call.lba]]
  /\ result' = Ok
  /\ phase' = "done"
  /\ UNCHANGED <<call, disk>>

Write ==
  /\ phase = "called" /\ call.type = "OUT"
  /\ disk' = [disk EXCEPT ![call.lba] = mem[call.buf]]
  /\ result' = Ok
  /\ phase' = "done"
  /\ UNCHANGED <<call, mem>>

\* A call that fails leaves what it was to change in any state.
Fail ==
  /\ phase = "called"
  /\ result' \in Failures
  /\ \E v \in Data :
       IF call.type = "IN"
       THEN mem' = [mem EXCEPT ![call.buf] = v] /\ UNCHANGED disk
       ELSE disk' = [disk EXCEPT ![call.lba] = v] /\ UNCHANGED mem
  /\ phase' = "done"
  /\ UNCHANGED call

Return ==
  /\ phase = "done"
  /\ phase' = "ready"
  /\ UNCHANGED <<call, disk, mem, result>>

Next == Fill \/ Call \/ Read \/ Write \/ Fail \/ Return

Spec == phase = "ready" /\ [][Next]_<<phase, call, disk, mem, result>>

=============================================================================
