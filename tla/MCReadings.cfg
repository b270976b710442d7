SPECIFICATION Spec
CONSTANTS
  Flows <- MCFlows
  Slots = 2
  Hours = 3
  Behind = 1
  None = None
INVARIANTS TypeOK BatteryIsTrue SolarNotUnderstated SourceIsHonest
\* The slots are bounded; refreshes go on.
CHECK_DEADLOCK FALSE
