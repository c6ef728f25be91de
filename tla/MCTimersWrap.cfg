\* Timers that are reset again and again: lasttime is left behind.
SPECIFICATION Spec
CONSTANTS
  v1 = v1
  v2 = v2
  Timers = {v1, v2}
  TIME_MODULUS = 16
  TIMEDELTA = 2
  Delays = {1, 3, 5}
  CRIT = 1
  LATENCY = 2
  LAG = 15
SYMMETRY Symmetry
VIEW View
PROPERTY NeverEarly
