\* The order and buffer of main.cpp, RAM that holds zeros, a heap that never runs out.
SPECIFICATION Spec
CONSTANTS
  FZero = 0
  FAdd <- SatAdd
  FSub <- SatSub
  FMul <- SatMul
  BUFFER_SIZE = 10
  SIZEOF_FLOAT = 4
  MEM_ALIGN_SIZE = 8
  SIZE_MODULUS = 256
  HeapBytes = 64
  HeapMayFail = FALSE
  StaleFloats = {5}
  Orders = {3}
  ArraysX <- MCArraysX
  ArraysB <- MCArraysB
  ArraysY <- MCArraysY
  ArraysA <- MCArraysA
  Samples = {1}
  StaleWords = {0}
  MaxSamples = 50
INVARIANT AccessesInBounds
CHECK_DEADLOCK FALSE
