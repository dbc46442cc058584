\* Tags anywhere, in any order, releases that overlap. The history stops at
\* MaxCommits commits once every one is released.
CONSTANTS
  NotSemVer = NotSemVer
  Undefined = Undefined
  Contract <- OneFeature
  Level <- OneFeatureLevel
  Versions <- StableVersions
  Documents <- AllDocuments
  MaxCommits = 3
  Orderly = FALSE
SPECIFICATION Spec
INVARIANTS
  MainAnnouncesChanges
  ReleaseAnnouncesChanges
CHECK_DEADLOCK FALSE
