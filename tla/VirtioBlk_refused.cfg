\* Expected to be violated: a device that refuses the features.
SPECIFICATION Spec
CONSTANTS
  QUEUE_SIZE = 2
  IdxMod = 4
  IntMod = 4096
  Lba = {l1, l2}
  Buf = {b1, b2}
  Data = {d1, d2}
  Lens = {512}
  Features = {"EVENT_IDX", "VERSION_1"}
  FeatureAnswers = {TRUE, FALSE}
  NULL = NULL
SYMMETRY Symmetry
INVARIANT RefusedFeaturesAreFatal
CHECK_DEADLOCK FALSE
