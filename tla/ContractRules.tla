---------------------------- MODULE ContractRules ----------------------------
(***************************************************************************)
(* validateApiContracts of src/api-contracts/validator.ts, as far as the   *)
(* exports depend on it: the rules on routes, schema bundles and what      *)
(* connects them.  What is checked value by value (patterns, fixed         *)
(* vocabularies) is summed up in the flag valid of a route or a schema.    *)
(*                                                                         *)
(* bundles is a function from files to schema bundles; a schema ref is     *)
(* <<file, schema id>>; null is None.                                      *)
(***************************************************************************)
EXTENDS Naturals, Sequences

CONSTANTS
  None,
  Metadata,       \* Metadata[service]: the names of its metadata headers, if it has any
  BodylessSchemas \* request schemas that may have no required field

\* Header names are their lower case here: they are compared in that form.  The
\* headers of a schema are a set: parseRequestHeaders refuses a name given twice.
\* parseMetadataHeaders makes the three names of a service differ.
ASSUME HeadersAssumption ==
  \A service \in DOMAIN Metadata :
    LET names == Metadata[service] IN
    /\ names.requestId # names.traceId
    /\ names.key \notin {names.requestId, names.traceId}

Ids(bundle) == {bundle.schemas[n].id : n \in DOMAIN bundle.schemas}

\* find(): the first schema of that id.
SchemaById(bundle, id) ==
  bundle.schemas[CHOOSE n \in DOMAIN bundle.schemas :
                   /\ bundle.schemas[n].id = id
                   /\ \A m \in 1 .. n - 1 : bundle.schemas[m].id # id]

Refs(bundles) == UNION {{f} \X Ids(bundles[f]) : f \in DOMAIN bundles}

\* A schema ref is <<file, schema id>>.
SchemaAt(bundles, ref) == SchemaById(bundles[ref[1]], ref[2])

Fields(schema) == schema.required \cup schema.optional

Path(route) == <<route.template, route.params>>

\* isSingleUsePasskeyLoginRoute; ceremony says that the route's id, path, owner,
\* permissions and schemas are those of a passkey login.
SingleUse(route) ==
  route.ceremony /\ route.method = "POST" /\ route.idempotency = "not_required"

-----------------------------------------------------------------------------
(* Routes *)

AllowedMethods  == {"GET", "POST", "PUT", "PATCH", "DELETE"}
MutatingMethods == AllowedMethods \ {"GET"}
Statuses        == {200, 201, 202, 204}
NoContent       == {204}

\* Mutant of UniqueRouteKeys: the same path may have a method twice.
UniqueOperationIds(routes) ==
  \A i, j \in DOMAIN routes : i # j =>
    /\ routes[i].operationId # routes[j].operationId
    /\ routes[i].template = routes[j].template => Path(routes[i]) = Path(routes[j])

\* validateUniqueRouteKeys
UniqueRouteKeys(routes) ==
  \A i, j \in DOMAIN routes : i # j =>
    /\ routes[i].operationId # routes[j].operationId
    /\ <<routes[i].method, Path(routes[i])>> # <<routes[j].method, Path(routes[j])>>
    /\ routes[i].template = routes[j].template => Path(routes[i]) = Path(routes[j])

\* Mutant of Resolves: the bundle is found and the id is not looked for.
ResolvesBundle(bundles, ref) == ref[1] \in DOMAIN bundles

Resolves(bundles, ref) == ref[1] \in DOMAIN bundles /\ ref[2] \in Ids(bundles[ref[1]])

\* validateRouteSchemaRef
SchemaRefValid(route, bundles, ref, kind) ==
  /\ Resolves(bundles, ref)
  /\ ref \in Refs(bundles) =>
       /\ bundles[ref[1]].service = route.service
       /\ bundles[ref[1]].owner = route.owner
       /\ SchemaAt(bundles, ref).kind = kind
       /\ kind = "response" => SchemaAt(bundles, ref).sessionEffect = route.sessionEffect

\* validateRouteRequestIdempotencyMetadata and the policy of mutating methods
IdempotencyValid(route, bundles) ==
  LET demanded == route.idempotency = "required_idempotency_key" IN
  /\ route.idempotency \in {"required_idempotency_key", "optional_idempotency_key", "not_required"}
  /\ route.method \in MutatingMethods => demanded \/ SingleUse(route)
  /\ bundles[route.request[1]].key <=> demanded

\* validateRouteResponseBodyContract
ResponseBodyValid(route) ==
  /\ route.statuses \subseteq Statuses
  /\ route.statuses \subseteq NoContent \/ route.statuses \cap NoContent = {}
  /\ (route.statuses \cap NoContent # {}) <=> route.response = None

\* SESSION_EFFECT_REQUIRED_ERROR_CODES
SessionErrorCodes(effect) ==
  IF effect = "issue" THEN {"account_restricted"}
  ELSE IF effect = "refresh" THEN {"session_expired", "session_compromised", "account_restricted"}
  ELSE IF effect = "revoke" THEN {"session_expired", "session_compromised"}
  ELSE {}

\* A discoverable login masks restricted accounts.
ErrorCodesValid(route) ==
  SessionErrorCodes(route.sessionEffect)
    \ {c \in {"account_restricted"} : SingleUse(route)} \subseteq route.errorCodes

\* validateSecretMaterialDoesNotEcho
NoEcho(request, response) ==
  request.carriesSecret => request.secretFields \cap Fields(response) = {}

\* validateRouteDefinition
RouteValid(route, bundles) ==
  /\ route.valid
  /\ route.method \in AllowedMethods
  /\ route.requestId /\ route.traceId
  /\ SchemaRefValid(route, bundles, route.request, "request")
  /\ route.response # None => SchemaRefValid(route, bundles, route.response, "response")
  /\ IdempotencyValid(route, bundles)
  /\ ResponseBodyValid(route)
  /\ ErrorCodesValid(route)
  /\ (route.response # None /\ {route.request, route.response} \subseteq Refs(bundles)) =>
       NoEcho(SchemaAt(bundles, route.request), SchemaAt(bundles, route.response))

-----------------------------------------------------------------------------
(* Schema bundles *)

\* validateSchemaDefinition
SchemaValid(schema) ==
  /\ schema.valid
  /\ schema.kind \in {"request", "response"}
  /\ schema.kind = "request" <=> schema.sessionEffect = None
  /\ schema.required # {} \/ (schema.kind = "request" /\ schema.id \in BodylessSchemas)
  /\ schema.required \cap schema.optional = {}
  /\ IF schema.carriesSecret
     THEN /\ schema.kind = "request" \/ schema.outputOnlySecret
          /\ schema.secretFields # {} /\ schema.secretFields \subseteq schema.required
     ELSE schema.secretFields = {}

\* validateSchemaBundle
BundleValid(bundle) ==
  /\ bundle.schemas # <<>>
  /\ \A m, n \in DOMAIN bundle.schemas :
       bundle.schemas[m].id = bundle.schemas[n].id => m = n
  /\ \A n \in DOMAIN bundle.schemas : SchemaValid(bundle.schemas[n])

-----------------------------------------------------------------------------
(* Headers *)

\* resolveRequestMetadataHeaders and the headers a route takes of them, each as
\* <<what for, name>>.
MetadataNames(route) ==
  IF route.service \notin DOMAIN Metadata THEN {} ELSE
  LET names == Metadata[route.service] IN
  {h \in {<<"requestId", names.requestId>>} : route.requestId}
  \cup {h \in {<<"traceId", names.traceId>>} : route.traceId}
  \cup {h \in {<<"key", names.key>>} : route.idempotency # "not_required"}

Names(headers) == {h[2] : h \in headers}

\* Mutant of HeadersCollide: nothing collides with an optional key.
HeadersCollideIfRequired(route, bundles) ==
  /\ route.request \in Refs(bundles)
  /\ Names({h \in MetadataNames(route) :
              h[1] = "key" => route.idempotency = "required_idempotency_key"})
       \cap SchemaAt(bundles, route.request).headers # {}

\* validateTransportHeaderCollisions
HeadersCollide(route, bundles) ==
  /\ route.request \in Refs(bundles)
  /\ Names(MetadataNames(route)) \cap SchemaAt(bundles, route.request).headers # {}

\* validateApiContracts
ContractsValid(routes, bundles) ==
  /\ UniqueRouteKeys(routes)
  /\ \A n \in DOMAIN routes : RouteValid(routes[n], bundles) /\ ~ HeadersCollide(routes[n], bundles)
  /\ \A f \in DOMAIN bundles : BundleValid(bundles[f])
=============================================================================
