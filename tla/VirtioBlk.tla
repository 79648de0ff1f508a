----------------------------- MODULE VirtioBlk ------------------------------
(***************************************************************************)
(* virtio_blk.c: the driver, which sets up one virtqueue through the MMIO  *)
(* registers and then runs one request at a time, polling the status byte; *)
(* and the device, which works on its own between any two steps of the     *)
(* driver.  The device is QEMU's, modelled from how the driver uses it.    *)
(*                                                                         *)
(* The rings, the descriptors, the request header and the status byte are  *)
(* memory both sides touch.  The driver reuses all of them for the next    *)
(* request as soon as the status byte changes, while the device may still  *)
(* be about to update the used ring.                                       *)
(***************************************************************************)
EXTENDS Integers, FiniteSets

CONSTANTS
  QUEUE_SIZE,      \* 8
  IdxMod,          \* 2^16: ring indices are uint16_t
  IntMod,          \* 2^32: len_bytes is uint32_t, the result an int
  Lba, Buf, Data,  \* sectors, buffers and their contents
  Lens,            \* lengths callers pass
  Features,        \* feature bits the device may offer
  FeatureAnswers,  \* may the device keep (TRUE) or clear (FALSE) FEATURES_OK?
  NULL

ASSUME QueueAssumption ==
  /\ QUEUE_SIZE \in Nat \ {0}
  /\ IdxMod \in Nat /\ IdxMod > 1
  /\ IntMod \in Nat /\ IntMod > 512

ASSUME CallsAssumption ==
  /\ Lens \subseteq 0..(IntMod - 1)
  /\ FeatureAnswers \subseteq BOOLEAN
  /\ NULL \notin [type : {"IN", "OUT"}, lba : Lba, buf : Buf, len : Lens]

Unsupported == {"RO", "SCSI", "CONFIG_WCE", "MQ", "ANY_LAYOUT",
                "EVENT_IDX", "INDIRECT_DESC"}
HighFeatures == {"VERSION_1", "ACCESS_PLATFORM"}  \* bits 32 and 33

VIRTIO_BLK_S_OK == 0
Failures == {1, 2}      \* VIRTIO_BLK_S_IOERR, VIRTIO_BLK_S_UNSUPP
Waiting == 255          \* 0xff, what the driver stores before a request

\* The contents of the shared structures that change.
Registers == [status : SUBSET {"ACKNOWLEDGE", "DRIVER", "FEATURES_OK", "DRIVER_OK"},
              features : SUBSET Features, queue_ready : BOOLEAN]
virtq_desc == [addr : Buf, len : Lens, write : BOOLEAN]
virtq_avail == [idx : 0..(IdxMod - 1), ring : [0..(QUEUE_SIZE - 1) -> 0..2]]
virtio_blk_req == [type : {"IN", "OUT"}, sector : Lba]

Calls == [type : {"IN", "OUT"}, lba : Lba, buf : Buf, len : Lens]

VARIABLES
  pc,        \* where the driver is
  call,      \* do_virtio_blk_io: its arguments
  ret,       \* do_virtio_blk_io: its result
  mmio,      \* the registers: status bits, accepted features, QUEUE_READY
  device,    \* what the device offers
  avail,     \* driver ring: idx, ring
  used_idx,  \* device ring: idx
  req,       \* request header: type, sector
  desc,      \* data descriptor: addr, len, write flag
  status,    \* status byte
  kicked,    \* QUEUE_NOTIFY was written and the device has not looked yet
  dev,       \* the device's own state
  disk, mem, \* contents of the sectors and of the callers' buffers
  executed   \* history: how often the device executed the present call

driverVars == <<call, ret, avail, req, desc>>
vars == <<pc, driverVars, mmio, device, used_idx, status, kicked, dev,
          disk, mem, executed>>

InitSteps == {"probe", "reset", "acknowledge", "features", "features_ok",
              "queue", "driver_ok"}
IoSteps == {"fill", "ring", "publish", "clear_used", "notify", "poll"}

TypeOK ==
  /\ pc \in InitSteps \cup IoSteps \cup {"ready", "returned", "fatal"}
  /\ call \in Calls \cup {NULL}
  /\ ret \in Int
  /\ mmio \in Registers
  /\ device \in [found : BOOLEAN, queue_ok : BOOLEAN,
                 features : SUBSET Features]
  /\ avail \in virtq_avail
  /\ used_idx \in 0..(IdxMod - 1)
  /\ req \in virtio_blk_req \cup {NULL}
  /\ desc \in virtq_desc \cup {NULL}
  /\ status \in {VIRTIO_BLK_S_OK, Waiting} \cup Failures
  /\ kicked \in BOOLEAN
  /\ dev \in [stage : {"idle", "scan", "fetched", "transferred", "answered"},
              last_avail : 0..(IdxMod - 1), used_idx : 0..(IdxMod - 1),
              outcome : {VIRTIO_BLK_S_OK} \cup Failures]
  /\ disk \in [Lba -> Data]
  /\ mem \in [Buf -> Data]
  /\ executed \in Nat

\* The device is as a machine reset leaves it; the rings are memory that may
\* still hold what the last boot left there.
Init ==
  /\ pc = "probe"
  /\ call = NULL /\ ret = 0
  /\ mmio = [status |-> {}, features |-> {}, queue_ready |-> FALSE]
  /\ device \in [found : BOOLEAN, queue_ok : BOOLEAN,
                 features : SUBSET Features]
  /\ avail \in [idx : {0, 1}, ring : {[i \in 0..(QUEUE_SIZE - 1) |-> 0]}]
  /\ used_idx = avail.idx
  /\ req = NULL /\ desc = NULL
  /\ status = VIRTIO_BLK_S_OK
  /\ kicked = FALSE
  /\ dev = [stage |-> "idle", last_avail |-> 0, used_idx |-> 0,
            outcome |-> VIRTIO_BLK_S_OK]
  /\ disk \in [Lba -> Data]
  /\ mem \in [Buf -> Data]
  /\ executed = 0

-----------------------------------------------------------------------------
(***************************************************************************)
(* virtio_blk_init                                                         *)
(***************************************************************************)

Probe ==
  /\ pc = "probe"
  /\ pc' = IF device.found THEN "reset" ELSE "fatal"
  /\ UNCHANGED <<driverVars, mmio, device, used_idx, status, kicked, dev,
                 disk, mem, executed>>

\* STATUS = 0: the device forgets its queue and its position in it.
ResetDevice ==
  /\ pc = "reset"
  /\ mmio' = [status |-> {}, features |-> {}, queue_ready |-> FALSE]
  /\ dev' = [stage |-> "idle", last_avail |-> 0, used_idx |-> 0,
             outcome |-> VIRTIO_BLK_S_OK]
  /\ kicked' = FALSE
  /\ pc' = "acknowledge"
  /\ UNCHANGED <<driverVars, device, used_idx, status, disk, mem, executed>>

Acknowledge ==
  /\ pc = "acknowledge"
  /\ mmio' = [mmio EXCEPT !.status = {"ACKNOWLEDGE", "DRIVER"}]
  /\ pc' = "features"
  /\ UNCHANGED <<driverVars, device, used_idx, status, kicked, dev, disk, mem,
                 executed>>

\* Mutant of NegotiateFeatures: every offered bit is accepted.
NegotiateAll ==
  /\ pc = "features"
  /\ mmio' = [mmio EXCEPT !.features = device.features]
  /\ pc' = "features_ok"
  /\ UNCHANGED <<driverVars, device, used_idx, status, kicked, dev, disk, mem,
                 executed>>

\* Low word: everything offered but the unsupported bits.  High word:
\* VERSION_1 only.
NegotiateFeatures ==
  /\ pc = "features"
  /\ mmio' = [mmio EXCEPT !.features =
                (device.features \ (Unsupported \cup HighFeatures))
                  \cup (device.features \cap {"VERSION_1"})]
  /\ pc' = "features_ok"
  /\ UNCHANGED <<driverVars, device, used_idx, status, kicked, dev, disk, mem,
                 executed>>

\* STATUS |= FEATURES_OK, and the device keeps the bit or not.  The code's test
\* VIRT_MMIO_STATUS & 8 == 0 compares first: it is 0, and never fatal.
SetFeaturesOk ==
  /\ pc = "features_ok"
  /\ \E accepted \in FeatureAnswers :
       mmio' = IF accepted
               THEN [mmio EXCEPT !.status = @ \cup {"FEATURES_OK"}]
               ELSE mmio
  /\ pc' = "queue"
  /\ UNCHANGED <<driverVars, device, used_idx, status, kicked, dev, disk, mem,
                 executed>>

\* The queue is in use or too short.
QueueRefused ==
  /\ pc = "queue"
  /\ ~device.queue_ok
  /\ pc' = "fatal"
  /\ UNCHANGED <<driverVars, mmio, device, used_idx, status, kicked, dev,
                 disk, mem, executed>>

\* Mutant of SetupQueue: the rings keep what the last boot left in them.
SetupKeepsRings ==
  /\ pc = "queue"
  /\ device.queue_ok
  /\ mmio' = [mmio EXCEPT !.queue_ready = TRUE]
  /\ pc' = "driver_ok"
  /\ UNCHANGED <<driverVars, device, used_idx, status, kicked, dev, disk, mem,
                 executed>>

\* Size, zeroed rings, their addresses, QUEUE_READY.
SetupQueue ==
  /\ pc = "queue"
  /\ device.queue_ok
  /\ avail' = [idx |-> 0, ring |-> [i \in 0..(QUEUE_SIZE - 1) |-> 0]]
  /\ used_idx' = 0
  /\ req' = NULL /\ desc' = NULL
  /\ mmio' = [mmio EXCEPT !.queue_ready = TRUE]
  /\ pc' = "driver_ok"
  /\ UNCHANGED <<call, ret, device, status, kicked, dev, disk, mem, executed>>

\* A device that refused the features ignores DRIVER_OK.
DriverOk ==
  /\ pc = "driver_ok"
  /\ mmio' = [mmio EXCEPT !.status =
                IF "FEATURES_OK" \in @ THEN @ \cup {"DRIVER_OK"} ELSE @]
  /\ pc' = "ready"
  /\ UNCHANGED <<driverVars, device, used_idx, status, kicked, dev, disk, mem,
                 executed>>

-----------------------------------------------------------------------------
(***************************************************************************)
(* do_virtio_blk_io                                                        *)
(***************************************************************************)

\* The caller prepares a buffer.
FillBuffer ==
  /\ pc = "ready"
  /\ \E b \in Buf, v \in Data : mem' = [mem EXCEPT ![b] = v]
  /\ UNCHANGED <<pc, driverVars, mmio, device, used_idx, status, kicked, dev,
                 disk, executed>>

CallIo ==
  /\ pc = "ready"
  /\ call' \in Calls
  /\ executed' = 0
  /\ pc' = "fill"
  /\ UNCHANGED <<ret, avail, req, desc, mmio, device, used_idx, status, kicked,
                 dev, disk, mem>>

\* Mutant of FillRequest: the status byte keeps the last answer.
FillKeepsStatus ==
  /\ pc = "fill"
  /\ req' = [type |-> call.type, sector |-> call.lba]
  /\ desc' = [addr |-> call.buf, len |-> call.len,
              write |-> call.type = "IN"]
  /\ pc' = "ring"
  /\ UNCHANGED <<call, ret, avail, mmio, device, used_idx, status, kicked, dev,
                 disk, mem, executed>>

\* The header, the three descriptors and the status byte.
FillRequest ==
  /\ pc = "fill"
  /\ req' = [type |-> call.type, sector |-> call.lba]
  /\ desc' = [addr |-> call.buf, len |-> call.len,
              write |-> call.type = "IN"]
  /\ status' = Waiting
  /\ pc' = "ring"
  /\ UNCHANGED <<call, ret, avail, mmio, device, used_idx, kicked, dev, disk,
                 mem, executed>>

\* avail.ring[avail.idx & (QUEUE_SIZE-1)] = 0
WriteRing ==
  /\ pc = "ring"
  /\ avail' = [avail EXCEPT !.ring[avail.idx % QUEUE_SIZE] = 0]
  /\ pc' = "publish"
  /\ UNCHANGED <<call, ret, req, desc, mmio, device, used_idx, status, kicked,
                 dev, disk, mem, executed>>

\* Mutant of Publish: the index does not wrap.
PublishUnwrapped ==
  /\ pc = "publish"
  /\ avail' = [avail EXCEPT !.idx = @ + 1]
  /\ pc' = "clear_used"
  /\ UNCHANGED <<call, ret, req, desc, mmio, device, used_idx, status, kicked,
                 dev, disk, mem, executed>>

\* avail.idx++: from here on a device that is looking sees the request.
Publish ==
  /\ pc = "publish"
  /\ avail' = [avail EXCEPT !.idx = (@ + 1) % IdxMod]
  /\ pc' = "clear_used"
  /\ UNCHANGED <<call, ret, req, desc, mmio, device, used_idx, status, kicked,
                 dev, disk, mem, executed>>

ClearUsed ==
  /\ pc = "clear_used"
  /\ used_idx' = 0
  /\ pc' = "notify"
  /\ UNCHANGED <<driverVars, mmio, device, status, kicked, dev, disk, mem,
                 executed>>

\* Mutant of Notify: the device is not told.
NotifyForgotten ==
  /\ pc = "notify"
  /\ pc' = "poll"
  /\ UNCHANGED <<driverVars, mmio, device, used_idx, status, kicked, dev, disk,
                 mem, executed>>

Notify ==
  /\ pc = "notify"
  /\ kicked' = TRUE
  /\ pc' = "poll"
  /\ UNCHANGED <<driverVars, mmio, device, used_idx, status, dev, disk, mem,
                 executed>>

\* uint32_t to int.
ToInt(n) == IF 2 * n < IntMod THEN n ELSE n - IntMod

PollDone ==
  /\ pc = "poll"
  /\ status # Waiting
  /\ ret' = IF status = VIRTIO_BLK_S_OK THEN ToInt(call.len) ELSE -status
  /\ pc' = "returned"
  /\ UNCHANGED <<call, avail, req, desc, mmio, device, used_idx, status, kicked,
                 dev, disk, mem, executed>>

\* The caller goes on.
Resume ==
  /\ pc = "returned"
  /\ pc' = "ready"
  /\ UNCHANGED <<driverVars, mmio, device, used_idx, status, kicked, dev, disk,
                 mem, executed>>

Driver ==
  \/ Probe \/ ResetDevice \/ Acknowledge \/ NegotiateFeatures \/ SetFeaturesOk
  \/ QueueRefused \/ SetupQueue \/ DriverOk
  \/ FillRequest \/ WriteRing \/ Publish \/ ClearUsed \/ Notify \/ PollDone

Caller == FillBuffer \/ CallIo \/ Resume

-----------------------------------------------------------------------------
(***************************************************************************)
(* The device.                                                             *)
(***************************************************************************)

Live == "DRIVER_OK" \in mmio.status /\ mmio.queue_ready

\* A notification wakes it.
DevWake ==
  /\ Live /\ kicked
  /\ dev.stage = "idle"
  /\ kicked' = FALSE
  /\ dev' = [dev EXCEPT !.stage = "scan"]
  /\ UNCHANGED <<pc, driverVars, mmio, device, used_idx, status, disk, mem,
                 executed>>

\* It takes the next available chain; the head of every chain is descriptor 0.
DevFetch ==
  /\ dev.stage = "scan"
  /\ dev.last_avail # avail.idx
  /\ avail.ring[dev.last_avail % QUEUE_SIZE] = 0
  /\ dev' = [dev EXCEPT !.stage = "fetched",
                        !.last_avail = (@ + 1) % IdxMod]
  /\ UNCHANGED <<pc, driverVars, mmio, device, used_idx, status, kicked,
                 disk, mem, executed>>

DevSleep ==
  /\ dev.stage = "scan"
  /\ dev.last_avail = avail.idx
  /\ dev' = [dev EXCEPT !.stage = "idle"]
  /\ UNCHANGED <<pc, driverVars, mmio, device, used_idx, status, kicked,
                 disk, mem, executed>>

\* It executes the request.  A data buffer of the wrong direction breaks the
\* queue for good.
DevTransfer ==
  /\ dev.stage = "fetched"
  /\ desc.write <=> req.type = "IN"
  /\ IF req.type = "IN"
     THEN mem' = [mem EXCEPT ![desc.addr] = disk[req.sector]] /\ UNCHANGED disk
     ELSE disk' = [disk EXCEPT ![req.sector] = mem[desc.addr]] /\ UNCHANGED mem
  /\ dev' = [dev EXCEPT !.stage = "transferred", !.outcome = VIRTIO_BLK_S_OK]
  /\ executed' = executed + 1
  /\ UNCHANGED <<pc, driverVars, mmio, device, used_idx, status, kicked>>

\* Or fails, with any part of the transfer done.
DevFail ==
  /\ dev.stage = "fetched"
  /\ desc.write <=> req.type = "IN"
  /\ \E v \in Data :
       IF req.type = "IN"
       THEN mem' = [mem EXCEPT ![desc.addr] = v] /\ UNCHANGED disk
       ELSE disk' = [disk EXCEPT ![req.sector] = v] /\ UNCHANGED mem
  /\ \E f \in Failures :
       dev' = [dev EXCEPT !.stage = "transferred", !.outcome = f]
  /\ executed' = executed + 1
  /\ UNCHANGED <<pc, driverVars, mmio, device, used_idx, status, kicked>>

DevAnswer ==
  /\ dev.stage = "transferred"
  /\ status' = dev.outcome
  /\ dev' = [dev EXCEPT !.stage = "answered"]
  /\ UNCHANGED <<pc, driverVars, mmio, device, used_idx, kicked, disk, mem,
                 executed>>

\* Only now does the used ring learn of it; then the device looks for more.
DevPush ==
  /\ dev.stage = "answered"
  /\ used_idx' = (dev.used_idx + 1) % IdxMod
  /\ dev' = [dev EXCEPT !.stage = "scan", !.used_idx = (@ + 1) % IdxMod]
  /\ UNCHANGED <<pc, driverVars, mmio, device, status, kicked, disk, mem,
                 executed>>

Device ==
  DevWake \/ DevFetch \/ DevSleep \/ DevTransfer \/ DevFail \/ DevAnswer
    \/ DevPush

Next == Driver \/ Caller \/ Device

Spec == Init /\ [][Next]_vars

\* The processor runs and the device serves its queue.
FairSpec == Spec /\ WF_vars(Driver) /\ WF_vars(Device)

-----------------------------------------------------------------------------
(***************************************************************************)
(* Properties.                                                             *)
(***************************************************************************)

\* When do_virtio_blk_io returns success, a read has delivered what the sector
\* holds and a written sector holds what the buffer held; the device executed
\* the request exactly once, whatever it still has to do to the used ring.
Delivered ==
  pc = "returned" =>
    /\ executed = 1
    /\ ret >= 0 => mem[call.buf] = disk[call.lba]

\* From the return of one call until the next one is published the device
\* neither reads nor writes buffers, sectors, descriptors or the status byte:
\* the driver may rewrite them although the used ring was not consulted.
QuietBetweenCalls ==
  pc \in {"ready", "fill", "ring", "publish", "returned"} =>
    /\ dev.stage \in {"idle", "scan", "answered"}
    /\ dev.last_avail = avail.idx

\* virtio_blk_init hands the device a queue it agrees with the driver about:
\* when DRIVER_OK is about to be written, both ring indices are where the
\* device stands, whatever the previous boot left in memory; and it takes
\* effect only for a queue that is ready, after FEATURES_OK, and for features
\* that the driver can handle and the device offered.
LiveMeansSetUp ==
  /\ pc = "driver_ok" =>
       avail.idx = dev.last_avail /\ used_idx = dev.used_idx
  /\ "DRIVER_OK" \in mmio.status =>
       /\ mmio.queue_ready
       /\ "FEATURES_OK" \in mmio.status
       /\ mmio.features \cap Unsupported = {}
       /\ mmio.features \subseteq device.features

\* A driver that polls is answered: no notification is lost although the
\* device may take the request before it, or be going to sleep.
CallsReturn ==
  pc = "fill" /\ "DRIVER_OK" \in mmio.status ~> pc = "returned"

\* The driver and the device together implement atomic block I/O.
Done == pc \in IoSteps \ {"fill"} /\
          (dev.stage = "transferred" \/ status # Waiting)

AbsPhase == IF pc \in IoSteps THEN IF Done THEN "done" ELSE "called" ELSE "ready"

AbsCall == IF call = NULL THEN NULL
           ELSE [type |-> call.type, lba |-> call.lba, buf |-> call.buf]

AbsResult == IF Done /\ dev.stage # "transferred" THEN status ELSE dev.outcome

BIO == INSTANCE BlockIo WITH
         Ok <- VIRTIO_BLK_S_OK,
         phase <- AbsPhase, call <- AbsCall, result <- AbsResult

ImplementsBlockIo == BIO!Spec

\* The test after FEATURES_OK (fatal "virtio disk didn't like our feature
\* selection?") stops a driver whose features were refused.
RefusedFeaturesAreFatal ==
  pc \in {"queue", "driver_ok", "ready"} => "FEATURES_OK" \in mmio.status

=============================================================================
