-------------------------- MODULE RouteCatalogCheck --------------------------
(***************************************************************************)
(* compareOpenApiRouteCatalog of src/api-contracts/openapi-route-catalog   *)
(* .ts: does one OpenAPI document describe the routes the catalog holds    *)
(* for one service?                                                        *)
(*                                                                         *)
(* A document is [version, root, info, paths]: is the version supported,   *)
(* the two service ids it may declare, and a function from paths to path   *)
(* items.  A path item is [ref, operations], operations a function from    *)
(* methods (a method key in upper case) to [ref, id, responses]; responses *)
(* is [given, range]: given[status] says whether the response of that      *)
(* status is valid, range whether there is one for 2XX.  Null stands for   *)
(* what is absent, empty or not an object.                                 *)
(***************************************************************************)
EXTENDS Naturals, Sequences

CONSTANTS
  Null,
  RelativePaths   \* paths that do not start with a slash

OperationMethods == {"GET", "PUT", "POST", "DELETE", "OPTIONS", "HEAD", "PATCH", "TRACE"}
Success == 200 .. 299

\* The path items that are objects, and the operations of a path item.
Items(document) == {path \in DOMAIN document.paths : document.paths[path] # Null}
OperationKeys(item) == DOMAIN item.operations \cap OperationMethods

\* readSuccessStatuses: statuses of valid responses
ReadStatuses(responses) ==
  IF responses = Null THEN {} ELSE {s \in DOMAIN responses.given \cap Success : responses.given[s]}

ResponseDiagnostics(responses) ==
  IF responses = Null THEN {"RESPONSES_MISSING"}
  ELSE {c \in {"RESPONSE_INVALID"} : \E s \in DOMAIN responses.given \cap Success : ~ responses.given[s]}
       \cup {c \in {"SUCCESS_STATUS_RANGE_UNSUPPORTED"} : responses.range}

OperationDiagnostics(operation) ==
  IF operation = Null THEN {"OPERATION_INVALID"}
  ELSE {c \in {"OPERATION_REF_UNSUPPORTED"} : operation.ref}
       \cup ResponseDiagnostics(operation.responses)

\* collectOpenApiOperations: what it collects, and what it reports of a path.
Operations(document) ==
  UNION {{[method |-> m, path |-> path, id |-> document.paths[path].operations[m].id,
           statuses |-> ReadStatuses(document.paths[path].operations[m].responses)] :
             m \in {m \in OperationKeys(document.paths[path]) :
                      document.paths[path].operations[m] # Null}} :
           path \in Items(document)}

PathDiagnostics(document, path) ==
  LET item == document.paths[path] IN
  {c \in {"PATH_INVALID"} : path \in RelativePaths}
  \cup IF item = Null THEN {"PATH_ITEM_INVALID"}
       ELSE {c \in {"PATH_ITEM_REF_UNSUPPORTED"} : item.ref}
            \cup UNION {OperationDiagnostics(item.operations[m]) : m \in OperationKeys(item)}

\* validateUniqueOperationIds
IdDiagnostics(operations) ==
  {c \in {"OPERATION_ID_MISSING"} : \E o \in operations : o.id = Null}
  \cup {c \in {"OPERATION_ID_DUPLICATE"} : \E o, p \in operations : o # p /\ o.id # Null /\ o.id = p.id}

\* The service a document is compared for.
Declared(document) == IF document.root # Null THEN document.root ELSE document.info
ServiceOf(document, requested) == IF requested # Null THEN requested ELSE Declared(document)

ServiceDiagnostics(document, requested) ==
  {c \in {"DECLARED_SERVICE_ID_MISMATCH"} :
     document.root # Null /\ document.info # Null /\ document.root # document.info}
  \cup {c \in {"SERVICE_ID_REQUIRED"} : ServiceOf(document, requested) = Null}
  \cup {c \in {"SERVICE_ID_MISMATCH"} :
          requested # Null /\ Declared(document) # Null /\ requested # Declared(document)}

RoutePath(route) == <<route.template, route.params>>

Answers(operation, route) == operation.method = route.method /\ operation.path = RoutePath(route)

\* One catalog route against the operation in its place.
PairDiagnostics(operation, route) ==
  {c \in {"OPERATION_ID_MISMATCH"} : operation.id # Null /\ operation.id # route.operationId}
  \cup {c \in {"SUCCESS_STATUS_MISSING"} : route.statuses \ operation.statuses # {}}
  \cup {c \in {"SUCCESS_STATUS_UNDECLARED"} : operation.statuses \ route.statuses # {}}

\* Mutant of RouteDiagnostics: operations outside the catalog are let through.
RouteDiagnosticsOneWay(service, routes, operations) ==
  LET own == {routes[n] : n \in {n \in DOMAIN routes : routes[n].service = service}} IN
  IF own = {} THEN {"SERVICE_NOT_FOUND"}
  ELSE {c \in {"OPERATION_MISSING"} :
          \E route \in own : \A o \in operations : ~ Answers(o, route)}
       \cup (UNION {UNION {PairDiagnostics(o, route) : o \in {o \in operations : Answers(o, route)}} :
                      route \in own})

\* compareServiceRoutes
RouteDiagnostics(service, routes, operations) ==
  LET own == {routes[n] : n \in {n \in DOMAIN routes : routes[n].service = service}} IN
  IF own = {} THEN {"SERVICE_NOT_FOUND"}
  ELSE {c \in {"OPERATION_MISSING"} :
          \E route \in own : \A o \in operations : ~ Answers(o, route)}
       \cup (UNION {UNION {PairDiagnostics(o, route) : o \in {o \in operations : Answers(o, route)}} :
                      route \in own})
       \cup {c \in {"ROUTE_UNDECLARED"} :
               \E o \in operations : \A route \in own : ~ Answers(o, route)}

\* compareOpenApiRouteCatalog
Comparison(document, routes, requested) ==
  LET service    == ServiceOf(document, requested)
      operations == Operations(document)
      header     == {c \in {"VERSION_UNSUPPORTED"} : ~ document.version}
                    \cup ServiceDiagnostics(document, requested)
  IN
  IF document = Null THEN {"PARSE_FAILED"}
  ELSE IF document.paths = Null THEN header \cup {"PATHS_MISSING"}
  ELSE header
       \cup (UNION {PathDiagnostics(document, path) : path \in DOMAIN document.paths})
       \cup IdDiagnostics(operations)
       \cup IF service = Null THEN {} ELSE RouteDiagnostics(service, routes, operations)
=============================================================================
