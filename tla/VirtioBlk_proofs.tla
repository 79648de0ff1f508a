-------------------------- MODULE VirtioBlk_proofs --------------------------
(***************************************************************************)
(* Theorems about the driver and the device of VirtioBlk, for every size   *)
(* of the queue, width of the ring indices, set of sectors and buffers,    *)
(* and every interleaving of the two: type correctness, what a returned    *)
(* call means, and that the pair implements the atomic block I/O of        *)
(* BlockIo.                                                                *)
(***************************************************************************)
EXTENDS VirtioBlk, TLAPS

(***************************************************************************)
(* The inductive invariant.                                                *)
(***************************************************************************)

\* Stages in which the device touches nothing but its own ring.
Resting == {"idle", "scan", "answered"}

\* The driver has prepared or published nothing, or has been answered.
Settled == {"ready", "fill", "ring", "publish", "returned"}

\* The request is in the ring.
Published == {"clear_used", "notify", "poll"}

DeviceReset ==
  dev = [stage |-> "idle", last_avail |-> 0, used_idx |-> 0,
         outcome |-> VIRTIO_BLK_S_OK]

\* virtio_blk_init: the device sleeps until DRIVER_OK, and what the bits in the
\* status register promise is true.
SetUp ==
  /\ mmio.features \cap Unsupported = {}
  /\ mmio.features \subseteq device.features
  /\ "DRIVER_OK" \in mmio.status => "FEATURES_OK" \in mmio.status
  /\ pc \in InitSteps \cup {"fatal"} =>
       "DRIVER_OK" \notin mmio.status /\ ~kicked /\ DeviceReset
  /\ pc \in Settled \cup Published \cup {"driver_ok"} => mmio.queue_ready
  /\ pc = "driver_ok" => avail.idx = 0 /\ used_idx = 0

\* Every entry of the ring is the head of the only chain.
RingHeads == \A i \in 0..(QUEUE_SIZE - 1) : avail.ring[i] = 0

\* What the caller asked for is what the device will find.
Prepared ==
  /\ pc \in IoSteps \cup {"returned"} => call \in Calls
  /\ pc \in Published \cup {"ring", "publish"} =>
       /\ req = [type |-> call.type, sector |-> call.lba]
       /\ desc = [addr |-> call.buf, len |-> call.len,
                  write |-> call.type = "IN"]

Effect == mem[call.buf] = disk[call.lba]

\* The four stations of a published request.
Unseen ==
  /\ avail.idx = (dev.last_avail + 1) % IdxMod
  /\ dev.stage \in Resting
  /\ status = Waiting /\ executed = 0

Taken ==
  /\ avail.idx = dev.last_avail
  /\ dev.stage = "fetched"
  /\ status = Waiting /\ executed = 0

Executed ==
  /\ avail.idx = dev.last_avail
  /\ dev.stage = "transferred"
  /\ status = Waiting /\ executed = 1
  /\ dev.outcome = VIRTIO_BLK_S_OK => Effect

Answered ==
  /\ avail.idx = dev.last_avail
  /\ dev.stage \in Resting
  /\ status = dev.outcome /\ executed = 1
  /\ status = VIRTIO_BLK_S_OK => Effect

Handover ==
  /\ pc \in Settled => avail.idx = dev.last_avail /\ dev.stage \in Resting
  /\ pc = "fill" => executed = 0
  /\ pc \in {"ring", "publish"} => status = Waiting /\ executed = 0
  /\ pc \in Published => Unseen \/ Taken \/ Executed \/ Answered
  /\ pc = "returned" => Answered /\ (ret >= 0 => status = VIRTIO_BLK_S_OK)

IInv == TypeOK /\ SetUp /\ RingHeads /\ Prepared /\ Handover

-----------------------------------------------------------------------------
(***************************************************************************)
(* The initial states and the steps.                                       *)
(***************************************************************************)

\* The device's own state.
DevStates == [stage : {"idle", "scan", "fetched", "transferred", "answered"},
              last_avail : 0..(IdxMod - 1), used_idx : 0..(IdxMod - 1),
              outcome : {VIRTIO_BLK_S_OK} \cup Failures]

LEMMA InitIInv == Init => IInv
<1> SUFFICES ASSUME Init PROVE IInv
  OBVIOUS
<1> USE DEF Init, InitSteps, IoSteps, Settled, Published
<1>1. TypeOK
  <2>1. avail \in virtq_avail /\ used_idx \in 0..(IdxMod - 1)
    BY QueueAssumption DEF virtq_avail
  <2>2. dev \in DevStates
    BY QueueAssumption DEF DevStates
  <2>3. mmio \in Registers
    BY DEF Registers
  <2>4. pc \in InitSteps /\ ret \in Int /\ executed \in Nat
    OBVIOUS
  <2> QED
    BY <2>1, <2>2, <2>3, <2>4 DEF TypeOK, DevStates
<1>2. SetUp
  BY DEF SetUp, DeviceReset
<1>3. RingHeads
  BY DEF RingHeads
<1>4. Prepared /\ Handover
  BY DEF Prepared, Handover
<1> QED
  BY <1>1, <1>2, <1>3, <1>4 DEF IInv

\* Ring indices stay in range, and a step changes them.
LEMMA Wrap ==
  ASSUME NEW i \in 0..(IdxMod - 1)
  PROVE  (i + 1) % IdxMod \in 0..(IdxMod - 1) /\ (i + 1) % IdxMod # i
BY QueueAssumption

LEMMA RingSlot ==
  ASSUME NEW i \in Nat
  PROVE  i % QUEUE_SIZE \in 0..(QUEUE_SIZE - 1)
BY QueueAssumption

\* A device that has fetched a request works on the present call.
LEMMA FetchedRequest ==
  ASSUME IInv, dev.stage = "fetched"
  PROVE  /\ pc \in Published /\ Taken /\ call \in Calls
         /\ call.buf \in Buf /\ call.lba \in Lba /\ call.type \in {"IN", "OUT"}
         /\ desc.addr = call.buf /\ desc.write = (call.type = "IN")
         /\ req.type = call.type /\ req.sector = call.lba
<1>1. pc \in Published
  BY DEF IInv, TypeOK, SetUp, DeviceReset, Handover, Settled, Published, Resting,
         InitSteps, IoSteps
<1>2. Taken
  BY <1>1 DEF IInv, Handover, Unseen, Taken, Executed, Answered, Resting
<1>3. call \in Calls
  BY <1>1 DEF IInv, Prepared, Published, IoSteps
<1> QED
  BY <1>1, <1>2, <1>3 DEF IInv, Prepared, Calls

LEMMA StepType == IInv /\ [Next]_vars => TypeOK'
<1> SUFFICES ASSUME IInv, [Next]_vars PROVE TypeOK'
  OBVIOUS
<1> USE DEF IInv, TypeOK, vars, driverVars, InitSteps, IoSteps
<1>1. CASE Probe
  BY <1>1 DEF Probe
<1>2. CASE ResetDevice
  <2>1. dev' \in DevStates
    BY <1>2, QueueAssumption DEF ResetDevice, DevStates
  <2> QED
    BY <1>2, <2>1 DEF ResetDevice, Registers, DevStates
<1>3. CASE Acknowledge
  BY <1>3 DEF Acknowledge, Registers
<1>4. CASE NegotiateFeatures
  BY <1>4 DEF NegotiateFeatures, Registers
<1>5. CASE SetFeaturesOk
  BY <1>5 DEF SetFeaturesOk, Registers
<1>6. CASE QueueRefused
  BY <1>6 DEF QueueRefused
<1>7. CASE SetupQueue
  <2>1. avail' \in virtq_avail /\ used_idx' \in 0..(IdxMod - 1)
    BY <1>7, QueueAssumption DEF SetupQueue, virtq_avail
  <2> QED
    BY <1>7, <2>1 DEF SetupQueue, Registers
<1>8. CASE DriverOk
  BY <1>8 DEF DriverOk, Registers
<1>9. CASE FillRequest
  <2>1. call \in Calls
    BY <1>9 DEF FillRequest, Prepared
  <2>2. req' \in virtio_blk_req /\ desc' \in virtq_desc
    BY <1>9, <2>1 DEF FillRequest, Calls, virtio_blk_req, virtq_desc
  <2> QED
    BY <1>9, <2>2 DEF FillRequest
<1>10. CASE WriteRing
  <2>1. avail.idx % QUEUE_SIZE \in 0..(QUEUE_SIZE - 1)
    BY RingSlot DEF virtq_avail
  <2>2. avail' \in virtq_avail
    <3>1. avail'.ring = [avail.ring EXCEPT ![avail.idx % QUEUE_SIZE] = 0]
          /\ avail'.idx = avail.idx
      BY <1>10 DEF WriteRing, virtq_avail
    <3>2. avail'.ring \in [0..(QUEUE_SIZE - 1) -> 0..2]
      BY <2>1, <3>1 DEF virtq_avail
    <3>3. avail' = [idx |-> avail.idx, ring |-> avail'.ring]
      BY <1>10 DEF WriteRing, virtq_avail
    <3> QED
      BY <3>2, <3>3 DEF virtq_avail
  <2> QED
    BY <1>10, <2>2 DEF WriteRing
<1>11. CASE Publish
  <2>1. (avail.idx + 1) % IdxMod \in 0..(IdxMod - 1)
    BY Wrap DEF virtq_avail
  <2>2. avail' \in virtq_avail
    BY <1>11, <2>1 DEF Publish, virtq_avail
  <2> QED
    BY <1>11, <2>2 DEF Publish
<1>12. CASE ClearUsed
  BY <1>12, QueueAssumption DEF ClearUsed
<1>13. CASE Notify
  BY <1>13 DEF Notify
<1>14. CASE PollDone
  <2>1. call \in Calls
    BY <1>14 DEF PollDone, Prepared
  <2>2. call.len \in 0..(IntMod - 1)
    BY <2>1, CallsAssumption DEF Calls
  <2>3. status \in Int
    BY DEF Failures, VIRTIO_BLK_S_OK, Waiting
  <2>4. ret' \in Int
    BY <1>14, <2>2, <2>3, QueueAssumption DEF PollDone, ToInt
  <2> QED
    BY <1>14, <2>4 DEF PollDone
<1>15. CASE FillBuffer
  BY <1>15 DEF FillBuffer
<1>16. CASE CallIo
  BY <1>16 DEF CallIo
<1>17. CASE Resume
  BY <1>17 DEF Resume
<1>18. CASE DevWake
  BY <1>18 DEF DevWake
<1>19. CASE DevFetch
  <2>1. (dev.last_avail + 1) % IdxMod \in 0..(IdxMod - 1)
    BY Wrap
  <2>2. dev' \in DevStates
    BY <1>19, <2>1 DEF DevFetch, DevStates
  <2> QED
    BY <1>19, <2>1, <2>2 DEF DevFetch, DevStates
<1>20. CASE DevSleep
  BY <1>20 DEF DevSleep
<1>21. CASE DevTransfer
  <2>1. disk' \in [Lba -> Data] /\ mem' \in [Buf -> Data]
    BY <1>21, FetchedRequest DEF DevTransfer
  <2>2. dev' \in DevStates
    BY <1>21, <2>1 DEF DevTransfer, DevStates
  <2> QED
    BY <1>21, <2>1, <2>2 DEF DevTransfer, DevStates
<1>22. CASE DevFail
  <2>1. disk' \in [Lba -> Data] /\ mem' \in [Buf -> Data]
    BY <1>22 DEF DevFail
  <2>2. dev' \in DevStates
    BY <1>22, <2>1 DEF DevFail, DevStates
  <2> QED
    BY <1>22, <2>1, <2>2 DEF DevFail, DevStates
<1>23. CASE DevAnswer
  BY <1>23 DEF DevAnswer
<1>24. CASE DevPush
  <2>1. (dev.used_idx + 1) % IdxMod \in 0..(IdxMod - 1)
    BY Wrap
  <2>2. dev' \in DevStates
    BY <1>24, <2>1 DEF DevPush, DevStates
  <2> QED
    BY <1>24, <2>1, <2>2 DEF DevPush, DevStates
<1>25. CASE UNCHANGED vars
  BY <1>25
<1> QED
  BY <1>1, <1>2, <1>3, <1>4, <1>5, <1>6, <1>7, <1>8, <1>9, <1>10,
     <1>11, <1>12, <1>13, <1>14, <1>15, <1>16, <1>17, <1>18, <1>19,
     <1>20, <1>21, <1>22, <1>23, <1>24, <1>25 DEF Next, Driver, Caller, Device

LEMMA StepSetUp == IInv /\ [Next]_vars => SetUp'
<1> SUFFICES ASSUME IInv, [Next]_vars PROVE SetUp'
  OBVIOUS
<1> USE DEF IInv, SetUp, DeviceReset, vars, driverVars, InitSteps, IoSteps, Settled, Published
<1>1. CASE Probe
  BY <1>1 DEF Probe
<1>2. CASE ResetDevice
  BY <1>2 DEF ResetDevice
<1>3. CASE Acknowledge
  BY <1>3 DEF Acknowledge
<1>4. CASE NegotiateFeatures
  <2>1. mmio'.features = (device.features \ (Unsupported \cup HighFeatures))
                           \cup (device.features \cap {"VERSION_1"})
    BY <1>4 DEF NegotiateFeatures, TypeOK, Registers
  <2>2. /\ mmio'.features \cap Unsupported = {}
        /\ mmio'.features \subseteq device'.features
    BY <1>4, <2>1 DEF NegotiateFeatures, Unsupported
  <2> QED
    BY <1>4, <2>2 DEF NegotiateFeatures, TypeOK, Registers
<1>5. CASE SetFeaturesOk
  BY <1>5 DEF SetFeaturesOk
<1>6. CASE QueueRefused
  BY <1>6 DEF QueueRefused
<1>7. CASE SetupQueue
  BY <1>7 DEF SetupQueue
<1>8. CASE DriverOk
  BY <1>8 DEF DriverOk
<1>9. CASE \/ FillRequest \/ WriteRing \/ Publish \/ ClearUsed \/ Notify \/ PollDone
            \/ Caller
  BY <1>9 DEF FillRequest, WriteRing, Publish, ClearUsed, Notify, PollDone,
              Caller, FillBuffer, CallIo, Resume
<1>10. CASE Device
  <2>1. dev.stage = "idle" => "DRIVER_OK" \in mmio.status
    BY <1>10 DEF Device, Live, DevWake, DevFetch, DevSleep, DevTransfer, DevFail,
                 DevAnswer, DevPush
  <2>2. UNCHANGED <<pc, mmio, device, avail>>
    BY <1>10 DEF Device, DevWake, DevFetch, DevSleep, DevTransfer, DevFail,
                 DevAnswer, DevPush
  <2> QED
    BY <2>1, <2>2
<1>11. CASE UNCHANGED vars
  BY <1>11
<1> QED
  BY <1>1, <1>2, <1>3, <1>4, <1>5, <1>6, <1>7, <1>8, <1>9, <1>10, <1>11
    DEF Next, Driver

LEMMA StepRingHeads == IInv /\ [Next]_vars => RingHeads'
<1> SUFFICES ASSUME IInv, [Next]_vars PROVE RingHeads'
  OBVIOUS
<1> USE DEF IInv, RingHeads
<1>1. CASE SetupQueue
  BY <1>1 DEF SetupQueue
<1>2. CASE WriteRing
  BY <1>2 DEF WriteRing
<1>3. CASE Publish
  BY <1>3 DEF Publish
<1>4. CASE UNCHANGED avail
  BY <1>4
<1>5. Driver => SetupQueue \/ WriteRing \/ Publish \/ UNCHANGED avail
  BY DEF Driver, driverVars, Probe, ResetDevice, Acknowledge, NegotiateFeatures,
         SetFeaturesOk, QueueRefused, DriverOk, FillRequest, ClearUsed, Notify,
         PollDone
<1>6. Caller \/ Device => UNCHANGED avail
  BY DEF Caller, FillBuffer, CallIo, Resume, Device, driverVars, DevWake, DevFetch,
         DevSleep, DevTransfer, DevFail, DevAnswer, DevPush
<1> QED
  BY <1>1, <1>2, <1>3, <1>4, <1>5, <1>6 DEF Next, vars, driverVars

LEMMA StepPrepared == IInv /\ [Next]_vars => Prepared'
<1> SUFFICES ASSUME IInv, [Next]_vars PROVE Prepared'
  OBVIOUS
<1> USE DEF IInv, Prepared, InitSteps, IoSteps, Published
<1>1. CASE CallIo
  BY <1>1 DEF CallIo
<1>2. CASE FillRequest
  BY <1>2 DEF FillRequest
<1>3. CASE SetupQueue
  BY <1>3 DEF SetupQueue
<1>4. CASE Driver /\ ~FillRequest /\ ~SetupQueue
  BY <1>4 DEF Driver, driverVars, Probe, ResetDevice, Acknowledge,
              NegotiateFeatures, SetFeaturesOk, QueueRefused, DriverOk, WriteRing,
              Publish, ClearUsed, Notify, PollDone
<1>5. CASE FillBuffer \/ Resume
  BY <1>5 DEF FillBuffer, Resume, driverVars
<1>6. CASE Device
  BY <1>6 DEF Device, driverVars, DevWake, DevFetch, DevSleep, DevTransfer,
              DevFail, DevAnswer, DevPush
<1>7. CASE UNCHANGED vars
  BY <1>7 DEF vars, driverVars
<1> QED
  BY <1>1, <1>2, <1>3, <1>4, <1>5, <1>6, <1>7 DEF Next, Caller

LEMMA StepHandover == IInv /\ [Next]_vars => Handover'
<1> SUFFICES ASSUME IInv, [Next]_vars PROVE Handover'
  OBVIOUS
<1> USE DEF IInv, Handover, Unseen, Taken, Executed, Answered, Effect, vars, driverVars, InitSteps, IoSteps, Published, Settled, Resting
<1>1. CASE Probe
  BY <1>1 DEF Probe
<1>2. CASE ResetDevice
  BY <1>2 DEF ResetDevice
<1>3. CASE Acknowledge
  BY <1>3 DEF Acknowledge
<1>4. CASE NegotiateFeatures
  BY <1>4 DEF NegotiateFeatures
<1>5. CASE SetFeaturesOk
  BY <1>5 DEF SetFeaturesOk
<1>6. CASE QueueRefused
  BY <1>6 DEF QueueRefused
<1>7. CASE SetupQueue
  BY <1>7 DEF SetupQueue
<1>8. CASE DriverOk
  BY <1>8 DEF DriverOk, SetUp, DeviceReset
<1>9. CASE FillRequest
  BY <1>9 DEF FillRequest
<1>10. CASE WriteRing
  BY <1>10 DEF WriteRing
<1>11. CASE Publish
  BY <1>11 DEF Publish
<1>12. CASE ClearUsed
  BY <1>12 DEF ClearUsed
<1>13. CASE Notify
  BY <1>13 DEF Notify
<1>14. CASE PollDone
  <2>1. Answered
    BY <1>14 DEF PollDone
  <2>2. status \in {VIRTIO_BLK_S_OK} \cup Failures
    BY <2>1 DEF TypeOK
  <2>3. ret' >= 0 => status = VIRTIO_BLK_S_OK
    BY <1>14, <2>2 DEF PollDone, VIRTIO_BLK_S_OK, Failures
  <2> QED
    BY <1>14, <2>1, <2>3 DEF PollDone
<1>15. CASE FillBuffer
  BY <1>15 DEF FillBuffer
<1>16. CASE CallIo
  BY <1>16 DEF CallIo
<1>17. CASE Resume
  BY <1>17 DEF Resume
<1>18. CASE DevWake
  BY <1>18 DEF DevWake
<1>19. CASE DevFetch
  BY <1>19 DEF DevFetch
<1>20. CASE DevSleep
  BY <1>20 DEF DevSleep
<1>21. CASE DevTransfer
  <2>1. pc \in Published /\ Taken
    BY <1>21, FetchedRequest DEF DevTransfer
  <2>2. Effect'
    BY <1>21, FetchedRequest DEF DevTransfer, TypeOK
  <2>3. Executed'
    BY <1>21, <2>1, <2>2 DEF DevTransfer, TypeOK
  <2> QED
    BY <1>21, <2>1, <2>3 DEF DevTransfer
<1>22. CASE DevFail
  <2>1. pc \in Published /\ Taken
    BY <1>22, FetchedRequest DEF DevFail
  <2>2. Executed'
    BY <1>22, <2>1 DEF DevFail, TypeOK, Failures, VIRTIO_BLK_S_OK
  <2> QED
    BY <1>22, <2>1, <2>2 DEF DevFail
<1>23. CASE DevAnswer
  BY <1>23 DEF DevAnswer
<1>24. CASE DevPush
  BY <1>24 DEF DevPush
<1>25. CASE UNCHANGED vars
  BY <1>25
<1> QED
  BY <1>1, <1>2, <1>3, <1>4, <1>5, <1>6, <1>7, <1>8, <1>9, <1>10,
     <1>11, <1>12, <1>13, <1>14, <1>15, <1>16, <1>17, <1>18, <1>19,
     <1>20, <1>21, <1>22, <1>23, <1>24, <1>25 DEF Next, Driver, Caller, Device

LEMMA Invariance == Spec => []IInv
<1>1. IInv /\ [Next]_vars => IInv'
  BY StepType, StepSetUp, StepRingHeads, StepPrepared, StepHandover DEF IInv
<1> QED
  BY InitIInv, <1>1, PTL DEF Spec

-----------------------------------------------------------------------------
(***************************************************************************)
(* The properties.                                                         *)
(***************************************************************************)

\* The rings, descriptors, registers and the status byte keep their types,
\* however driver and device interleave and however often the indices wrap.
THEOREM TypeCorrect == Spec => []TypeOK
<1>1. IInv => TypeOK
  BY DEF IInv
<1> QED
  BY Invariance, <1>1, PTL

\* A call of do_virtio_blk_io that returned was executed exactly once, and one
\* that returned success has delivered its sector.
THEOREM DeliveredOnce == Spec => []Delivered
<1>1. IInv => Delivered
  BY DEF IInv, Handover, Answered, Effect, Delivered
<1> QED
  BY Invariance, <1>1, PTL

\* Polling the status byte alone is enough: once do_virtio_blk_io has seen it
\* change, the device keeps off the structures the next call rewrites.
THEOREM QuietDevice == Spec => []QuietBetweenCalls
<1>1. IInv => QuietBetweenCalls
  BY DEF IInv, Handover, Settled, Resting, QuietBetweenCalls
<1> QED
  BY Invariance, <1>1, PTL

\* virtio_blk_init announces DRIVER_OK only for a queue that is ready, with
\* both rings where the device starts, and for features that were offered and
\* are supported.
THEOREM SetUpBeforeLive == Spec => []LiveMeansSetUp
<1>1. IInv => LiveMeansSetUp
  BY DEF IInv, TypeOK, SetUp, DeviceReset, LiveMeansSetUp, InitSteps, IoSteps, Settled, Published
<1> QED
  BY Invariance, <1>1, PTL

-----------------------------------------------------------------------------
(***************************************************************************)
(* Refinement.  BlockIo's only step with an effect is the device's         *)
(* transfer; its return is the driver's read of the status byte.  The      *)
(* mapped result is the outcome, before and after it is in the status byte.*)
(***************************************************************************)

absVars == <<AbsPhase, AbsCall, disk, mem, AbsResult>>

\* Every step of the driver or the device is one of BlockIo or none.
LEMMA Refines ==
  ASSUME IInv, IInv', [Next]_vars
  PROVE  [BIO!Next]_absVars
<1> USE DEF AbsPhase, AbsCall, AbsResult, Done, absVars, vars, driverVars,
            InitSteps, IoSteps
<1>1. CASE \/ Probe \/ Acknowledge \/ NegotiateFeatures \/ SetFeaturesOk
           \/ QueueRefused \/ SetupQueue \/ DriverOk
  BY <1>1 DEF Probe, Acknowledge, NegotiateFeatures, SetFeaturesOk, QueueRefused,
              SetupQueue, DriverOk
<1>2. CASE ResetDevice
  BY <1>2 DEF ResetDevice, IInv, SetUp, DeviceReset
<1>3. CASE FillRequest
  <2>1. dev.stage # "transferred" /\ dev' = dev /\ pc' = "ring" /\ call' = call
    BY <1>3 DEF FillRequest, IInv, Handover, Settled, Resting
  <2> QED
    BY <1>3, <2>1 DEF FillRequest
<1>4. CASE WriteRing \/ Publish \/ ClearUsed \/ Notify
  BY <1>4 DEF WriteRing, Publish, ClearUsed, Notify
<1>5. CASE PollDone
  <2>1. Answered
    BY <1>5 DEF PollDone, IInv, Handover, Published, Unseen, Taken, Executed
  <2>2. AbsPhase = "done" /\ AbsPhase' = "ready" /\ AbsResult = AbsResult'
    BY <1>5, <2>1 DEF PollDone, Answered, Resting
  <2> QED
    BY <1>5, <2>2 DEF PollDone, BIO!Next, BIO!Return
<1>6. CASE FillBuffer
  <2>1. AbsPhase = "ready" /\ UNCHANGED <<AbsPhase, AbsCall, disk, AbsResult>>
    BY <1>6 DEF FillBuffer
  <2> QED
    BY <1>6, <2>1 DEF FillBuffer, BIO!Next, BIO!Fill
<1>7. CASE CallIo
  <2>1. AbsPhase = "ready" /\ AbsPhase' = "called" /\ UNCHANGED <<disk, mem, AbsResult>>
    BY <1>7 DEF CallIo
  <2>2. call' # NULL
    BY <1>7, CallsAssumption DEF CallIo, Calls
  <2>3. AbsCall' \in [type : {"IN", "OUT"}, lba : Lba, buf : Buf]
    BY <1>7, <2>2 DEF CallIo, Calls
  <2> QED
    BY <2>1, <2>3 DEF BIO!Next, BIO!Call
<1>8. CASE Resume
  BY <1>8 DEF Resume
<1>9. CASE DevWake \/ DevFetch \/ DevSleep \/ DevPush
  BY <1>9 DEF DevWake, DevFetch, DevSleep, DevPush, IInv, TypeOK
<1>10. CASE DevTransfer
  <2>1. /\ pc \in Published /\ Taken /\ call \in Calls
        /\ desc.addr = call.buf /\ req.type = call.type /\ req.sector = call.lba
        /\ call.type \in {"IN", "OUT"}
    BY <1>10, FetchedRequest DEF DevTransfer
  <2>2. AbsCall = [type |-> call.type, lba |-> call.lba, buf |-> call.buf]
    BY <2>1, CallsAssumption DEF Calls
  <2>3. dev'.stage = "transferred" /\ dev'.outcome = VIRTIO_BLK_S_OK
    BY <1>10 DEF DevTransfer, IInv, TypeOK
  <2>4. /\ AbsPhase = "called" /\ AbsPhase' = "done"
        /\ UNCHANGED AbsCall /\ AbsResult' = dev'.outcome
    BY <1>10, <2>1, <2>3 DEF DevTransfer, Taken, Published
  <2> QED
    BY <1>10, <2>1, <2>2, <2>3, <2>4 DEF DevTransfer, BIO!Next, BIO!Read, BIO!Write
<1>11. CASE DevFail
  <2>1. /\ pc \in Published /\ Taken /\ call \in Calls
        /\ desc.addr = call.buf /\ req.type = call.type /\ req.sector = call.lba
        /\ call.type \in {"IN", "OUT"}
    BY <1>11, FetchedRequest DEF DevFail
  <2>2. AbsCall = [type |-> call.type, lba |-> call.lba, buf |-> call.buf]
    BY <2>1, CallsAssumption DEF Calls
  <2>3. dev'.stage = "transferred" /\ dev'.outcome \in Failures
    BY <1>11 DEF DevFail, IInv, TypeOK
  <2>4. /\ AbsPhase = "called" /\ AbsPhase' = "done"
        /\ UNCHANGED AbsCall /\ AbsResult' = dev'.outcome
    BY <1>11, <2>1, <2>3 DEF DevFail, Taken, Published
  <2> QED
    BY <1>11, <2>1, <2>2, <2>3, <2>4 DEF DevFail, BIO!Next, BIO!Fail
<1>12. CASE DevAnswer
  <2>1. pc \in Published
    BY <1>12 DEF DevAnswer, IInv, TypeOK, SetUp, DeviceReset, Handover, Settled,
                 Published, Resting
  <2>2. dev'.stage = "answered" /\ dev'.outcome = dev.outcome /\ dev.outcome # Waiting
    BY <1>12 DEF DevAnswer, IInv, TypeOK, Failures, VIRTIO_BLK_S_OK, Waiting
  <2> QED
    BY <1>12, <2>1, <2>2 DEF DevAnswer, Published
<1>13. CASE UNCHANGED vars
  BY <1>13
<1> QED
  BY <1>1, <1>2, <1>3, <1>4, <1>5, <1>6, <1>7, <1>8, <1>9, <1>10, <1>11, <1>12, <1>13
    DEF Next, Driver, Caller, Device

\* Driver and device together implement atomic block I/O: whatever they do to
\* the shared structures and in whichever order, a caller of virtio_blk_read or
\* virtio_blk_write sees one transfer between its call and its return.
THEOREM DriverRefinesBlockIo == Spec => ImplementsBlockIo
<1>1. Init => AbsPhase = "ready"
  BY DEF Init, AbsPhase, IoSteps
<1>2. IInv /\ IInv' /\ [Next]_vars => [BIO!Next]_absVars
  BY Refines
<1> QED
  BY Invariance, <1>1, <1>2, PTL DEF Spec, ImplementsBlockIo, BIO!Spec, absVars

=============================================================================
