SPECIFICATION FairSpec
CONSTANTS
  Fast = {"pv"}
  Slow = {"detail"}
  Listed = {"pv"}
  Interval = 1
  MaxVersions = 1
  Error = Error
  Unavailable = Unavailable
  None = None
INVARIANTS TypeOK UnavailableIsAbsent
PROPERTIES NeverBlanked EventuallyCurrent
\* A refresh that is refused its token is the last one of the schedule.
CHECK_DEADLOCK FALSE
