\* One check with at most one edit while it runs.
\* A check ends; nothing happens after it.
CONSTANTS
  Absent = Absent
  Null = Null
  Blank = Blank
  Unreadable = Unreadable
  Unread = Unread
  CodeOrder <- MCCodeOrder
  ValidCodes = {"gone", "limit", "lost"}
  ValidOwners = {"auth", "mail", "post"}
  RelativePaths <- MCRelativePaths
  Arguments <- MCArguments
  Disks <- MCDisks
  Contracts <- EditedContracts
  Catalogs <- EditedCatalogs
  Documents <- EditedDocuments
  MaxEdits = 1
SPECIFICATION Spec
INVARIANTS
  OptionsAreHonoured
  VerdictIsExact
  ReportTellsTheExit
  FindingsPointToTheirFile
PROPERTIES
  CheckEnds
CHECK_DEADLOCK FALSE
