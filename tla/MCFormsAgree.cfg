SPECIFICATION Spec
CONSTANTS
  FZero = 0
  FAdd <- ModAdd
  FSub <- ModSub
  FMul <- ModMul
  BUFFER_SIZE = 2
  SIZEOF_FLOAT = 4
  MEM_ALIGN_SIZE = 8
  SIZE_MODULUS = 256
  HeapBytes = 64
  HeapMayFail = FALSE
  StaleFloats = {4}
  Orders = {1, 2}
  ArraysX <- MCArraysX
  ArraysB <- MCArraysB
  ArraysA <- MCArraysA
  Samples = {0, 1}
  StaleWords = {2}
  MaxSamples = 5
INVARIANT FormsReturnTheSame
CHECK_DEADLOCK FALSE
