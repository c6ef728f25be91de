\* The virtual timers: deadlines, the alarm, the timer service.
SPECIFICATION Spec
CONSTANTS
  v1 = v1
  v2 = v2
  v3 = v3
  Timers = {v1, v2, v3}
  TIME_MODULUS = 16
  TIMEDELTA = 2
  Delays = {1, 3, 5}
  CRIT = 1
  LATENCY = 2
  LAG = 6
SYMMETRY Symmetry
VIEW View
INVARIANT DeltasGiveDeadlines AlarmAhead
PROPERTY NeverEarlyNorLate
