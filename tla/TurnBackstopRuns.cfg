CONSTANTS
  p1 = p1  t1 = t1  t2 = t2  NoOwner = NoOwner  NoClaim = NoClaim
  Process = {p1}
  Task = {t1, t2}
  Drainer = {t2}
  Home <- InOneObject
  Skew <- OneClock
  LeaseMs = 1  RenewMs = 1
  BackstopMs = 3  MarginMs = 2  ClaimMs = 1  ErrorRetryMs = 1
  MaxAttempts = 3
  ProvesDeath = TRUE  LateBackstop = FALSE  Prompt = FALSE  StartFails = TRUE
  MaxFaults = 1  MaxWrites = 0
SPECIFICATION FairBSpec
CHECK_DEADLOCK FALSE
INVARIANTS BackstopTypeOK RunningHasCheck
PROPERTIES OnlyLostChecksStrand TakenOnlyWhenLapsed SettledForever SupersededTurnStops
