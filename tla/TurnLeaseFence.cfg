CONSTANTS
  p1 = p1  p2 = p2  t1 = t1  t2 = t2  NoOwner = NoOwner
  Process = {p1, p2}
  Task = {t1, t2}
  Home <- Apart
  Skew <- InStep
  LeaseMs = 1  RenewMs = 1
  MaxAttempts = 2
  ProvesDeath = TRUE  LateBackstop = TRUE  Prompt = FALSE
  MaxFaults = 1  MaxWrites = 2
SPECIFICATION Spec
CHECK_DEADLOCK FALSE
SYMMETRY SwapApart
INVARIANTS TypeOK WritesFollowLeases OneAuthority
PROPERTIES TakeoverSpendsAttempt ImplementsAuthority
