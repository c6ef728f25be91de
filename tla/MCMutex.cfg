\* Mutexes, condition variables and priority inheritance; threads that nest
\* the mutexes in different orders may come to wait for each other, and stop.
SPECIFICATION Spec
VIEW View
SYMMETRY MCSymmetry
CONSTANTS
  low = low
  mid = mid
  high = high
  IDLE = IDLE
  m1 = m1
  m2 = m2
  c1 = c1
  Threads = {low, mid, high}
  Mutexes = {m1, m2}
  Conds = {c1}
  BasePrio <- MCBasePrio
  NewPrios = {1, 3}
INVARIANT TypeOK OwnersListed QueuesOrdered HighestRuns PriorityInherited
CHECK_DEADLOCK FALSE
