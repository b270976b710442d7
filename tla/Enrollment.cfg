SPECIFICATION FairSpec
CONSTANTS
  Systems = {home, cabin}
  Users = {u1}
  Attempts = 2
  MaxSubmits = 2
  MaxEvents = 2
  Foreign = FALSE
  None = None
INVARIANTS TypeOK ServicesFollowEntries ReauthPending ErrorTellsWhy
PROPERTIES SignInEnds ReauthRecovers
\* A user may leave all forms closed.
CHECK_DEADLOCK FALSE
