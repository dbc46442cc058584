\* One edit of one bundle file at any moment of a build.
\* A build ends; nothing happens after it.
CONSTANTS
  None = None
  Unreadable = Unreadable
  Unread = Unread
  Metadata <- MCMetadata
  BodylessSchemas = {}
  Catalogs <- MCCatalogs
  Contents <- MCContents
  Required <- MCRequired
  Profile <- MCProfile
  MethodKey <- MCMethodKey
  MaxEdits = 1
  Surfaces <- MCSurfaces
  Demanded <- MCDemanded
  Canonical <- MCCanonical
  Reviewed <- MCReviewed
  Rest <- MCRest
SPECIFICATION Spec
INVARIANTS
  NeverThrows
  EveryRouteHasItsPlace
  ReferencesResolve
  ComponentsHangTogether
  SecretsAreNotEchoed
  HeadersDiffer
  PlanMatchesDocument
  PlanKeepsMetadata
  AuthorityStaysWithTheServer
CHECK_DEADLOCK FALSE
