\* More output than the queue holds: the printers and the transmitter under a fair processor; nothing arrives.
SPECIFICATION FairSpec
CONSTANTS
  main = main
  thread1 = thread1
  reader = reader
  IDLE = IDLE
  Writers = {main, thread1}
  Reader = reader
  Prio <- MCPrio
  IN_SIZE = 1
  OUT_SIZE = 2
  CHARS <- MCChars
  BYTES = 0
INVARIANT OutputInOrder NoLostWakeup
PROPERTIES EverythingSent EndReported
