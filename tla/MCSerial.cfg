\* A printer, a reader that listens to the events, and the USART, with more
\* input and more output than the queues hold.
SPECIFICATION Spec
VIEW View
CONSTANTS
  main = main
  thread1 = thread1
  reader = reader
  IDLE = IDLE
  Writers = {main}
  Reader = reader
  Prio <- MCPrio
  IN_SIZE = 2
  OUT_SIZE = 2
  CHARS <- MCChars
  BYTES = 4
INVARIANT TypeOK QueuesConsistent InputInOrder TransmitterOn NoLostWakeup
