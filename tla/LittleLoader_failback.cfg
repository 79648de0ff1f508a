\* A factory disk, upgrades, resets, and faults during environment writes.
SPECIFICATION FairSpec
CONSTANTS
  NULL = NULL
  ULLMod = 1048576
  ImageLba <- MCImageLba
  LbaText <- MCLbaText
  ArgsText <- MCArgsText
  InitialEnvs <- MCFactory
  MaxLost = 2
  MaxFaults = 2
PROPERTIES
  ImplementsFailback
  UpgradeResolved
INVARIANTS
  FallbackExists
  TrialBound
  RevertIsFinal
  OnlyCompleteImages
