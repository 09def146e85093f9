CONSTANTS
  n1 = n1  n2 = n2  k1 = k1
  Call = {n1, n2}
  Key = {k1}
  KeyOf <- SameKey
  User = User  NoRun = NoRun  NoOwner = 0
  Drainer = {1}
  MaxAttempts = 2  MaxEvents = 1
SPECIFICATION FairSpec
CHECK_DEADLOCK FALSE
INVARIANTS NotificationsTypeOK AnswersNameTheRun QueuedRunsAreWoken RepeatedOnlyWhenLost
PROPERTIES RowsOutliveRuns NotificationsEnd
