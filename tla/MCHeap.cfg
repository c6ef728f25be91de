\* The default heap: memory comes from the core.
SPECIFICATION FairSpec
CONSTANTS
  t1 = t1
  t2 = t2
  Threads = {t1, t2}
  HEADER = 2
  MEM_ALIGN_SIZE = 2
  SIZE_MODULUS = 64
  HEAD = 2
  heap_base = 10
  heap_end = 22
  HasProvider = TRUE
  Requests = {0, 1, 4, 7}
VIEW View
INVARIANTS
  TypeOK
  BlocksTile
  ListSorted
  Coalesced
  EnoughRoom
  FreeFindsItsPlace
PROPERTIES HeldBlocksUntouched FirstFit WalksEnd
