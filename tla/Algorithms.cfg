\* Every library function on every input of a small set.
SPECIFICATION Spec
CONSTANTS
  IntMod = 16
  LongMod = 512
  CbufSize = 3
  PtrDigits = 3
  NULL = NULL
  ULLMod = 4096
  Memories <- MCMemories
  Numbers <- MCNumbers
  Arrays <- MCArrays
  Buffers <- MCBuffers
  Printed <- MCPrinted
  Messages <- MCMessages
  MaxWait = 2
INVARIANTS
  MemoryAsC
  NumbersRead
  SortsStable
  CrcByPolynomial
  PrintsAsSpecified
  PrintsInBounds
  ConsoleInOrder
PROPERTY InfoReturns
CHECK_DEADLOCK FALSE
