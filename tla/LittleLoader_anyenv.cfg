\* Disks prepared by any tool.
SPECIFICATION Spec
CONSTANTS
  NULL = NULL
  ULLMod = 1048576
  ImageLba <- MCImageLba
  LbaText <- MCLbaText
  ArgsText <- MCArgsText
  InitialEnvs <- MCAnyEnv
  MaxLost = 1
  MaxFaults = 1
INVARIANTS
  TypeOK
  ArgsMatchKernel
  BootedAsRecorded
