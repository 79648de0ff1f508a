\* Expected to be violated.
SPECIFICATION Spec
CONSTANTS
  NULL = NULL
  ULLMod = 1048576
  ImageLba <- MCImageLba
  LbaText <- MCLbaText
  ArgsText <- MCArgsText
  InitialEnvs <- MCAnyEnv
  MaxLost = 0
  MaxFaults = 0
INVARIANT BootcountAboveOneReverts
