\* Every text of the catalog after every other, nesting limited to 2 levels.
CONSTANTS
  NotSemVer = NotSemVer
  Undefined = Undefined
  Malformed = Malformed
  MaxDepth = 2
  Raws <- Properties
  Texts <- MCTexts
SPECIFICATION SchemaSpec
INVARIANTS
  SilentReleasesPublishTheSame
  PublishedComparesEqual
