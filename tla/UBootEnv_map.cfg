\* All sequences of operations that fill a block of ten bytes for variables.
SPECIFICATION Spec
CONSTANTS
  ULLMod = 1048576
  NULL = NULL
  env_size = 14
  Byte = {0, 49, 61, 97, 98, 255}
  Crc <- MCCrc
  InitialBlocks <- MCDisks
  Name <- MCName
  Value <- MCValue
PROPERTY ImplementsEnvMap
INVARIANTS
  WriteInBounds
  FailsOnlyWhenFull
