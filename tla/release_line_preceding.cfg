\* The name of the release workflow's check against what it compares with:
\* four commits.  The second breaks the contract and its CI is cancelled by the next
\* push; the third is tagged, and no check of its release can pass.
CONSTANTS
  NotSemVer = NotSemVer
  Undefined = Undefined
  Contract <- OneBreak
  Level <- OneBreakLevel
  Versions <- PatchVersions
  Documents <- NoDocuments
  MaxCommits = 4
  Orderly = TRUE
SPECIFICATION Spec
INVARIANTS
  PrecedingReleaseAnnounced
CHECK_DEADLOCK FALSE
