SPECIFICATION FairSpec
CONSTANTS
  Requests = {r1, r2, r3}
  NoToken = {r3}
  MaxAttempts = 3
  HistoryLimit = 2
INVARIANTS TypeOK SuccessIsReal RepeatedOnlyWhenUnsettled HistoryIsLatest
PROPERTIES RequestEnds
\* Every request ends and is not made again.
CHECK_DEADLOCK FALSE
