----------------------------- MODULE ErrorCodes -----------------------------
(***************************************************************************)
(* src/api-contracts/error-code-catalog.ts: parseErrorCodeCatalog and      *)
(* validateErrorCodeCatalog.                                               *)
(*                                                                         *)
(* A catalog file is [wellFormed, version, status, prefix, lifecycle,      *)
(* entries]; wellFormed stands for the shape the parser demands outside    *)
(* the entries, prefix and lifecycle are defaults.  An entry may leave its *)
(* localization key and its lifecycle Absent.  A localization key is       *)
(* <<prefix, code>>.  retryable and user_visible have no rule.             *)
(***************************************************************************)
EXTENDS Integers, Sequences

CONSTANTS
  Absent,       \* a field the entry does not declare
  CodeOrder,    \* error codes, in the order of localeCompare
  ValidCodes,   \* those of ERROR_CODE_PATTERN
  ValidOwners   \* service ids of SERVICE_ID_PATTERN

\* The order is strict and total on the codes it lists.
ASSUME CodeOrderAssumption ==
  /\ CodeOrder \in Seq({CodeOrder[i] : i \in DOMAIN CodeOrder})
  /\ \A i, j \in DOMAIN CodeOrder : CodeOrder[i] = CodeOrder[j] => i = j

Shared == "shared"
Prefix == "api.errors."
Lifecycles == {"active", "deprecated", "retired"}

\* parseErrorCodeCatalog does not throw.
CodesParse(file) ==
  /\ file.wellFormed
  /\ file.entries # <<>>
  /\ \A n \in DOMAIN file.entries : file.entries[n].wellFormed

\* parseErrorCodeCatalogEntry
ParsedEntry(file, entry) ==
  [code |-> entry.code, status |-> entry.status, owner |-> entry.owner,
   key |-> IF entry.key = Absent THEN <<file.prefix, entry.code>> ELSE entry.key,
   lifecycle |-> IF entry.lifecycle = Absent THEN file.lifecycle ELSE entry.lifecycle]

\* parseErrorCodeCatalog
ParsedCodes(file) ==
  [version |-> file.version, status |-> file.status, prefix |-> file.prefix,
   lifecycle |-> file.lifecycle,
   entries |-> [n \in DOMAIN file.entries |-> ParsedEntry(file, file.entries[n])]]

-----------------------------------------------------------------------------
(* The codes validateErrorCodeCatalog reports, without their common start *)

\* validateCatalogHeader
HeaderDiagnostics(catalog) ==
  {c \in {"CATALOG_SCHEMA_VERSION_INVALID"} : catalog.version # 1}
  \cup {c \in {"CATALOG_STATUS_INVALID"} : catalog.status # "active"}
  \cup {c \in {"LOCALIZATION_PREFIX_INVALID"} : catalog.prefix # Prefix}
  \cup {c \in {"DEFAULT_LIFECYCLE_INVALID"} : catalog.lifecycle \notin Lifecycles}

\* localeCompare
SortsBefore(code, other) ==
  \E i, j \in DOMAIN CodeOrder : i < j /\ CodeOrder[i] = code /\ CodeOrder[j] = other

\* The rules on the n-th entry; services are those of the routes.
EntryDiagnostics(catalog, n, services) ==
  LET entry == catalog.entries[n] IN
  {c \in {"INVALID"} : entry.code \notin ValidCodes}
  \cup {c \in {"CATALOG_ORDER_INVALID"} :
          n > 1 /\ ~ SortsBefore(catalog.entries[n - 1].code, entry.code)}
  \cup {c \in {"DUPLICATE"} : \E m \in 1 .. n - 1 : catalog.entries[m].code = entry.code}
  \cup {c \in {"HTTP_STATUS_INVALID"} : entry.status \notin 400 .. 599}
  \cup {c \in {"LOCALIZATION_KEY_INVALID"} : entry.key # <<Prefix, entry.code>>}
  \cup {c \in {"OWNER_SERVICE_INVALID"} : entry.owner \notin ValidOwners \cup {Shared}}
  \cup {c \in {"OWNER_SERVICE_UNKNOWN"} :
          entry.owner \in ValidOwners \ ({Shared} \cup services)}
  \cup {c \in {"LIFECYCLE_INVALID"} : entry.lifecycle \notin Lifecycles}

\* entriesByCode: the first entry of a code stays.
EntriesOf(catalog, code) ==
  {n \in DOMAIN catalog.entries :
     /\ catalog.entries[n].code = code
     /\ \A m \in 1 .. n - 1 : catalog.entries[m].code # code}

\* validateRouteErrorCodeReferences, for the k-th code of a route
ReferenceDiagnostics(catalog, route, k) ==
  LET code     == route.errorCodes[k]
      repeated == \E j \in 1 .. k - 1 : route.errorCodes[j] = code
  IN
  IF repeated THEN {"ROUTE_DUPLICATE"}
  ELSE IF EntriesOf(catalog, code) = {} THEN {"ROUTE_UNREGISTERED"}
  ELSE UNION {{c \in {"ROUTE_OWNER_MISMATCH"} :
                 catalog.entries[n].owner \notin {Shared, route.service}}
              \cup {c \in {"ROUTE_RETIRED"} : catalog.entries[n].lifecycle = "retired"} :
                n \in EntriesOf(catalog, code)}

Services(routes) == {routes[n].service : n \in DOMAIN routes}

\* validateErrorCodeCatalog
CodeDiagnostics(catalog, routes) ==
  HeaderDiagnostics(catalog)
  \cup (UNION {EntryDiagnostics(catalog, n, Services(routes)) : n \in DOMAIN catalog.entries})
  \cup UNION {UNION {ReferenceDiagnostics(catalog, routes[r], k) : k \in DOMAIN routes[r].errorCodes} :
                r \in DOMAIN routes}
=============================================================================
