CONSTANTS
  p1 = p1  p2 = p2
  Process = {p1, p2}
  NoOwner = NoOwner  Nothing = Nothing
  MaxCrashes = 1  MaxCalls = 3
SPECIFICATION FairSpec
CHECK_DEADLOCK FALSE
INVARIANTS StoreTypeOK HoldersExclude PointerNamesGeneration
PROPERTIES CallsEnd ImplementsRegister
