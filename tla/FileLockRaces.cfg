CONSTANTS
  Process = {p1, p2}
  NoOwner = NoOwner
  MaxCrashes = 1
SPECIFICATION LockSpec
CHECK_DEADLOCK FALSE
INVARIANTS OneHolder
