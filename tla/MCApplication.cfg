\* The program with stale words 0 and 3 and allocations that may fail.
SPECIFICATION AppSpec
CONSTANTS
  FZero = 0
  FAdd <- SatAdd
  FSub <- SatSub
  FMul <- SatMul
  BUFFER_SIZE = 10
  SIZEOF_FLOAT = 4
  MEM_ALIGN_SIZE = 8
  SIZE_MODULUS = 256
  HeapBytes = 64
  HeapMayFail = TRUE
  StaleFloats = {5}
  Orders = {3}
  ArraysX <- MCArraysX
  ArraysB <- MCArraysB
  ArraysY <- MCArraysY
  ArraysA <- MCArraysA
  Samples = {0, 1, 2, 4}
  StaleWords = {0, 3}
  MaxSamples = 50
  TiposFiltro = {0, 1, 2}
  EntradasX <- MCEntradasX
  NumEntradas = 50
INVARIANTS FormMatchesData EachSampleOnce
PROPERTY AllSamplesFiltered
\* Nothing follows an undefined step.
CHECK_DEADLOCK FALSE
