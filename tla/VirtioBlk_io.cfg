\* Driver and device interleaved, feature refusal included.
SPECIFICATION FairSpec
CONSTANTS
  QUEUE_SIZE = 2
  IdxMod = 4
  IntMod = 4096
  Lba = {l1, l2}
  Buf = {b1, b2}
  Data = {d1, d2}
  Lens = {512}
  Features = {"EVENT_IDX"}
  FeatureAnswers = {TRUE, FALSE}
  NULL = NULL
PROPERTIES
  ImplementsBlockIo
  CallsReturn
INVARIANTS
  TypeOK
  Delivered
  QuietBetweenCalls
  LiveMeansSetUp
CHECK_DEADLOCK FALSE
