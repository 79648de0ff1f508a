\* Expected to be violated: a header with image_size 0.
SPECIFICATION Spec
CONSTANTS
  RamSize = 120
  StackTop = 8
  KERNEL_LOAD_ADDR = 72
  KERNEL_MAX_LENGTH = 16
  SECTOR_SIZE = 4
  Align = 2
  UIntMod = 1024
  UBOOT_ENV_SIZE = 8
  PairSize = 6
  PtrSize = 2
  Envs <- MCEnvs
  ImageSizes = {0, 1, 3, 4, 5, 7, 8, 13, 16, 17}
  Dtbs <- MCDtbs
  NULL = NULL
INVARIANT RequestWithinMax
CHECK_DEADLOCK FALSE
