\* Mailboxes and semaphores with timeouts, interrupts and resets.
SPECIFICATION Spec
VIEW View
SYMMETRY Symmetry
CONSTANTS
  low = low
  high = high
  IDLE = IDLE
  a = a
  b = b
  s1 = s1
  s2 = s2
  Threads = {low, high}
  Prio <- MCPrio
  Messages = {a, b}
  N = 3
  Sems = {s1, s2}
  MaxCount = 1
INVARIANT TypeOK SemaphoresConsistent SlotsConserved BufferHoldsQueued
PROPERTY GrantedInOrder
