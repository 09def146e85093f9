CONSTANTS
  p1 = p1  p2 = p2  t1 = t1  t2 = t2  NoOwner = NoOwner
  Process = {p1, p2}
  Task = {t1, t2}
  Home <- Apart
  Skew <- Ahead
  LeaseMs = 6  RenewMs = 2
  MaxAttempts = 2
  ProvesDeath = TRUE  LateBackstop = TRUE  Prompt = TRUE
  MaxFaults = 1  MaxWrites = 1
SPECIFICATION Spec
CHECK_DEADLOCK FALSE
PROPERTIES RenewedNeverTaken
