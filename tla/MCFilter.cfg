\* Any word in RAM, any allocation may fail; the words that give room are among them.
SPECIFICATION Spec
CONSTANTS
  FZero = 0
  FAdd <- SatAdd
  FSub <- SatSub
  FMul <- SatMul
  BUFFER_SIZE = 2
  SIZEOF_FLOAT = 4
  MEM_ALIGN_SIZE = 8
  SIZE_MODULUS = 256
  HeapBytes = 64
  HeapMayFail = TRUE
  StaleFloats = {5}
  Orders = {0, 1, 2, 3}
  ArraysX <- MCArraysX
  ArraysB <- MCArraysB
  ArraysY <- MCArraysY
  ArraysA <- MCArraysA
  Samples = {1, 3}
  StaleWords <- MCStaleWords
  MaxSamples = 7
INVARIANTS TypeOK BuffersHoldNewest OutOfBoundsOnlyIfUndersized
PROPERTY ImplementsDifferenceEquation
CHECK_DEADLOCK FALSE
