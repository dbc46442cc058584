\* Tags follow main, on commits whose CI passed. The history stops at
\* MaxCommits commits once every one is released.
CONSTANTS
  NotSemVer = NotSemVer
  Undefined = Undefined
  Contract <- MCContract
  Level <- MCLevel
  Versions <- EarlyVersions
  Documents <- SomeDocuments
  MaxCommits = 3
  Orderly = TRUE
SPECIFICATION Spec
INVARIANTS
  PublishedAnnounceChanges
CHECK_DEADLOCK FALSE
