\* One strict load and one registry load over every content of four files, with
\* at most one edit.
\* The behaviour stops when both loads have settled.
CONSTANTS
  Keys <- MCKeys
  CatalogKey = "apiCatalog"
  ValidNames = {"catalog", "policy", "link", "extra"}
  PathOrder <- MCPathOrder
  RequiredBundles = {"session.yaml"}
  Registries <- MCRegistries
  Committed <- MCCommitted
  Asserted = {"catalog.yaml", "link.yaml"}
  Permissive = {"link.yaml"}
  WithBundle = {"link.yaml"}
  BadRef = BadRef
  Missing = Missing
  Unread = Unread
  Contents <- MCContents
  MaxEdits = 1
SPECIFICATION BothSpec
INVARIANTS
  ReturnedContractsHang
  ReportsEveryFailure
  QuietLoadIsAtomic
  LoadersAgree
PROPERTIES
  LoadSettles
CHECK_DEADLOCK FALSE
