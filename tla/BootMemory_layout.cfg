\* Every image size around the sector boundaries, wherever QEMU put the tree.
SPECIFICATION FairSpec
CONSTANTS
  RamSize = 120
  StackTop = 8
  KERNEL_LOAD_ADDR = 72
  KERNEL_MAX_LENGTH = 16
  SECTOR_SIZE = 4
  Align = 2
  UIntMod = 1024
  UBOOT_ENV_SIZE = 8
  PairSize = 6
  PtrSize = 2
  Envs <- MCEnvs
  ImageSizes = {0, 1, 3, 4, 5, 7, 8, 13, 16, 17}
  Dtbs <- MCDtbs
  NULL = NULL
PROPERTY BootEnds
INVARIANTS
  TypeOK
  KernelWhole
  DtbWhole
  OwnMemoryKept
CHECK_DEADLOCK FALSE
