SPECIFICATION FairSpec
CONSTANTS
  Tasks = {t1, t2}
  Socs = {20}
  Lists = {workday, summer}
  Daylight = {summer}
  Initial <- MCInitial
  Unreported = {"mode", "grid"}
  Mutes <- MCMutes
  MaxCalls = 2
  Faults = {"reject", "lost", "ignore", "stale", "modeless"}
  None = None
INVARIANTS TypeOK PayloadTaken
PROPERTIES  ShownIsHeld ModeOnFloor VerdictIsTrue CallsEnd
\* Once the calls are used up nothing but the poll is left.
CHECK_DEADLOCK FALSE
