CONSTANTS
  a = a  b = b  NoOwner = NoOwner
  Call = {a, b}
  MaxOwners = 2  MaxRequests = 1  MaxWork = 5
  MaxFaults = 1  LostAnswers = TRUE
SPECIFICATION Spec
CHECK_DEADLOCK FALSE
SYMMETRY AnyCall
PROPERTIES SavedOutcomeStays
