SPECIFICATION FairSpec
CONSTANTS
  Tasks = {t1, t2}
  Managers = {m1, m2}
  Socs = {s1}
  Fallback = s1
  Others = {o1}
  Durations = {1}
  RetryDelay = 1
  MaxCalls = 2
  MaxRestarts = 1
  Overlap = TRUE
  Events = {"reject", "lost", "unreported", "reload", "crash"}
  None = None
INVARIANTS RevertPending
PROPERTIES OverridesEnd
\* Calls and restarts are bounded: the system stops when they are used up.
CHECK_DEADLOCK FALSE
