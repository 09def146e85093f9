CONSTANTS
  a = a  b = b  NoOwner = NoOwner
  Call = {a, b}
  MaxOwners = 3  MaxRequests = 2  MaxWork = 6
  MaxFaults = 1  LostAnswers = FALSE
SPECIFICATION Spec
CHECK_DEADLOCK FALSE
SYMMETRY AnyCall
INVARIANTS TypeOK CallsCommittedOnce EffectsKnownToModel EvidenceSuffices EffectsAtMostOnce AttemptsDiffer
PROPERTIES SavedOutcomeStays OwnerNeverReruns
