\* Three commits under one tag that moves; anything is run again.
\* The system may stop: nobody has to push another tag.
CONSTANTS
  c1 = c1
  c2 = c2
  c3 = c3
  c4 = c4
  Commits = {c1, c2, c3}
  VersionOf <- MCVersionOf
  Acceptable = {c1, c2}
  Run <- MovedTag
  None = None
  MaxAttempts = 2
  MaxFaults = 2
  Runbook = FALSE
SPECIFICATION Spec
INVARIANTS
  PublishedIsVetted
  SuccessIsAnchored
PROPERTIES
  KeepsPromise
  RunsEnd
CHECK_DEADLOCK FALSE
