SPECIFICATION Spec
CONSTANTS
  Tasks = {t1, t2}
  Managers = {m1, m2}
  Socs = {s1, s2}
  Fallback = s1
  Others = {o1, o2}
  Durations = {1}
  RetryDelay = 1
  MaxCalls = 2
  MaxRestarts = 1
  Overlap = FALSE
  Events = {"reject", "restart"}
  None = None
PROPERTIES SettingsIndependent
SYMMETRY Symmetry
\* Calls and restarts are bounded: the system stops when they are used up.
CHECK_DEADLOCK FALSE
