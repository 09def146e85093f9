CONSTANTS
  p1 = p1  t1 = t1  t2 = t2  NoOwner = NoOwner  NoClaim = NoClaim
  Process = {p1}
  Task = {t1, t2}
  Drainer = {t2}
  Home <- InOneObject
  Skew <- OneClock
  LeaseMs = 2  RenewMs = 1
  BackstopMs = 3  MarginMs = 1  ClaimMs = 1  ErrorRetryMs = 1
  MaxAttempts = 2
  ProvesDeath = TRUE  LateBackstop = FALSE  Prompt = TRUE  StartFails = TRUE
  MaxFaults = 2  MaxWrites = 0
SPECIFICATION FairBSpec
CHECK_DEADLOCK FALSE
PROPERTIES CrashedTurnResumes
