CONSTANTS
  h1 = h1  h2 = h2  None = None
  Handle = {h1, h2}
  MaxSends = 2  FollowUp = {2}
  MaxCrashes = 0  MaxFailures = 0  MaxKills = 0  MaxInterrupts = 1  MaxResumes = 0
  MaxEvents = 4
  InterruptStarts = TRUE
SPECIFICATION FairSpec
CHECK_DEADLOCK FALSE
PROPERTY EveryCallEnds
