\* Recovery of two releases as RUNBOOK.md prescribes it, with fair reruns.
\* The system may stop: nobody has to push another tag.
CONSTANTS
  c1 = c1
  c2 = c2
  c3 = c3
  c4 = c4
  Commits = {c1, c2, c3, c4}
  VersionOf <- MCVersionOf
  Acceptable = {c1, c4}
  Run <- TwoTags
  None = None
  MaxAttempts = 2
  MaxFaults = 2
  Runbook = TRUE
SPECIFICATION RecoverySpec
PROPERTIES
  Recovers
CHECK_DEADLOCK FALSE
