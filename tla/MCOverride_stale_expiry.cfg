SPECIFICATION Spec
CONSTANTS
  Tasks = {t1, t2}
  Managers = {m1}
  Socs = {s1, s2}
  Fallback = s1
  Others = {o1}
  Durations = {1}
  RetryDelay = 1
  MaxCalls = 2
  MaxRestarts = 0
  Overlap = FALSE
  Events = {}
  None = None
PROPERTIES NotCutShort
SYMMETRY Symmetry
\* Calls and restarts are bounded: the system stops when they are used up.
CHECK_DEADLOCK FALSE
