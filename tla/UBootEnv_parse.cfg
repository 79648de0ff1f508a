\* The parser on every block of seven bytes.
SPECIFICATION Spec
CONSTANTS
  ULLMod = 1048576
  NULL = NULL
  env_size = 11
  Byte = {0, 61, 97, 255}
  Crc <- MCCrc
  InitialBlocks <- MCEveryBlock
  Name <- MCNoArguments
  Value <- MCNoArguments
INVARIANTS
  ReadInBounds
  CopiesWhole
  ParsesFormat
