SPECIFICATION Spec
CONSTANTS
  Tasks = {t1, t2, t3}
  Managers = {m1}
  Socs = {s1, s2, s3}
  Fallback = s1
  Others = {o1}
  Durations = {1, 2}
  RetryDelay = 1
  MaxCalls = 4
  MaxRestarts = 0
  Overlap = FALSE
  Events = {"reject", "empty"}
  None = None
INVARIANTS BaselineKept ActiveInForce
PROPERTIES ImplementsPromise
SYMMETRY Symmetry
\* Calls and restarts are bounded: the system stops when they are used up.
CHECK_DEADLOCK FALSE
