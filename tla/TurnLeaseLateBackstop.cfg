CONSTANTS
  p1 = p1  p2 = p2  t1 = t1  t2 = t2  NoOwner = NoOwner
  Process = {p1, p2}
  Task = {t1, t2}
  Home <- Apart
  Skew <- InStep
  LeaseMs = 1  RenewMs = 1
  MaxAttempts = 2
  ProvesDeath = FALSE  LateBackstop = TRUE  Prompt = FALSE
  MaxFaults = 0  MaxWrites = 0
SPECIFICATION FairSpec
CHECK_DEADLOCK FALSE
PROPERTIES SupersededTurnStops
