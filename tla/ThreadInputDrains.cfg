CONSTANTS
  h1 = h1  h2 = h2  None = None
  Handle = {h1, h2}
  MaxSends = 3  FollowUp = {2}
  MaxCrashes = 1  MaxFailures = 2  MaxKills = 1  MaxInterrupts = 1  MaxResumes = 1
  MaxEvents = 4
  InterruptStarts = FALSE
SPECIFICATION FairSpec
CHECK_DEADLOCK FALSE
INVARIANTS TypeOK InputsSettleOnce AdmissionOrder CommitsAreFresh KillEndsCallers
PROPERTY AcceptedCallsEnd
