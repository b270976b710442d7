SPECIFICATION FairSpec
CONSTANTS
  Tasks = {t1, t2, t3}
  Managers = {m1}
  Socs = {s1, s2}
  Fallback = s1
  Others = {o1, o2}
  Durations = {1, 2}
  RetryDelay = 1
  MaxCalls = 4
  MaxRestarts = 1
  Overlap = FALSE
  Events = {"reject", "restart"}
  None = None
INVARIANTS TypeOK StoreKeepsPromise NoOrphan
PROPERTIES SettingsIndependent EventuallyReverted
\* Calls and restarts are bounded: the system stops when they are used up.
CHECK_DEADLOCK FALSE
