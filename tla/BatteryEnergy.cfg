SPECIFICATION Spec
CONSTANTS
  Levels = {0, 1, 2, 3, 4}
  MinDelta = 2
  MaxSamples = 5
  MaxRestarts = 2
  None = None
INVARIANTS TypeOK Conserved NothingInvented
PROPERTY TotalsIncrease
\* Nothing but a stutter is left once the restarts are used up and the entry is gone.
CHECK_DEADLOCK FALSE
