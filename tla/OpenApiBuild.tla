---------------------------- MODULE OpenApiBuild ----------------------------
(***************************************************************************)
(* buildOpenApi31Document of src/api-export-plan/openapi.ts: load the      *)
(* contracts, validate them, read every schema bundle a second time for    *)
(* its typed properties, read package.json, build the document.  The reads *)
(* of one phase settle in any order, and files may be edited between the   *)
(* first and the second reading; the document joins what both have read.   *)
(*                                                                         *)
(* A bundle file holds [contract, typed, service, owner, key, schemas]:    *)
(* do parseApiSchemaBundleContract and parseTypedSchemaBundle accept its   *)
(* form, and does it ask for an idempotency key.  A schema's properties    *)
(* are None or [fields, sound]: the fields they name, and whether          *)
(* TypedSchemas finds nothing wrong with any of them.                      *)
(***************************************************************************)
EXTENDS ContractRules

CONSTANTS
  Catalogs,       \* what contracts/apis/catalog.yaml may hold: route sequences
  Contents,       \* Contents[f]: what schema bundle file f may hold
  Required,       \* the bundle files loaded whatever the catalog says
  Unreadable,     \* a file that is missing or does not parse at all
  Unread,         \* a file a phase has still to read
  Profile,        \* the HTTP profile of the access decision route
  MethodKey,      \* MethodKey[m]: m in lower case, the key in a path item
  MaxEdits        \* bound on the edits during one build

Files == DOMAIN Contents

ASSUME ContentsAssumption ==
  /\ Required \subseteq Files
  /\ MaxEdits \in Nat
  /\ Unread # Unreadable
  /\ \A f \in Files :
       /\ Unread \notin Contents[f]
       /\ \A content \in Contents[f] \ {Unreadable} :
            content.schemas \in Seq({content.schemas[n] : n \in DOMAIN content.schemas})

ASSUME CatalogsAssumption ==
  \A routes \in Catalogs \ {Unreadable} : \A n \in DOMAIN routes :
    /\ routes[n].request \in Files \X STRING
    /\ routes[n].response \in (Files \X STRING) \cup {None}

\* toLowerCase keeps the allowed methods apart.
ASSUME MethodsAssumption ==
  \A m, n \in AllowedMethods : MethodKey[m] = MethodKey[n] => m = n

VARIABLES
  options,    \* strictTypedSchemas and includeRestrictedRoutes, captured at the call
  disk,       \* disk[f]: what bundle file f holds
  catalog,    \* the catalog: what the file holds, and from its reading on what was read
  phase,      \* "catalog", "bundles", "typed", "manifest" or "settled"
  first,      \* first[f]: f as the contract loader read it
  second,     \* second[f]: f as the typed schema registry read it
  outcome,    \* what the build returned or threw
  edits

vars == <<options, disk, catalog, phase, first, second, outcome, edits>>

ErrorEnvelope == "ErrorEnvelope"

-----------------------------------------------------------------------------
(* The typed schema registry *)

\* Mutant of FieldListsAgree: properties may say more than the field lists.
FieldsDefined(schema, raw) ==
  /\ schema.secretFields \subseteq Fields(schema)
  /\ Fields(schema) \subseteq raw.properties.fields

\* Mutant of FieldListsAgree: a listed field may be without a property.
FieldsListed(schema, raw) ==
  /\ schema.secretFields \subseteq Fields(schema)
  /\ raw.properties.fields \subseteq Fields(schema)

\* parseSchemaDefinition: the lists of the first reading, the properties of
\* the second.
FieldListsAgree(schema, raw) ==
  /\ schema.secretFields \subseteq Fields(schema)
  /\ raw.properties.fields = Fields(schema)

\* parseTypedSchemaBundle finds nothing wrong: bundle is the first reading,
\* content the second.
TypedOk(bundle, content) ==
  /\ content # Unreadable
  /\ content.typed
  /\ \A m, n \in DOMAIN content.schemas : content.schemas[m].id = content.schemas[n].id => m = n
  /\ \A n \in DOMAIN bundle.schemas :
       LET schema == bundle.schemas[n] IN
       /\ schema.id \in Ids(content)
       /\ LET raw == SchemaById(content, schema.id) IN
          raw.properties # None => raw.properties.sound /\ FieldListsAgree(schema, raw)

\* Is a schema typed, and which fields does it define?  A legacy schema has an
\* unknown property for every listed field.
IsTyped(contents, ref) == SchemaAt(contents, ref).properties # None

TypedFields(bundles, contents, ref) ==
  IF IsTyped(contents, ref) THEN SchemaAt(contents, ref).properties.fields
  ELSE Fields(SchemaAt(bundles, ref))

-----------------------------------------------------------------------------
(* The document *)

\* Mutant of NamesConflict: schemas of two bundles may share a name.
NamesReserved(bundles) == \E ref \in Refs(bundles) : ref[2] = ErrorEnvelope

\* buildSchemaContexts reports something: a component name is reserved, or
\* two schema refs share it.
NamesConflict(bundles) ==
  \/ \E ref \in Refs(bundles) : ref[2] = ErrorEnvelope
  \/ \E ref, other \in Refs(bundles) : ref # other /\ ref[2] = other[2]

\* buildSchemaComponent, from both readings of the schema
Component(bundles, contents, ref) ==
  LET schema == SchemaAt(bundles, ref) IN
  [ref |-> ref, kind |-> schema.kind, typed |-> IsTyped(contents, ref),
   required |-> schema.required,
   properties |-> TypedFields(bundles, contents, ref),
   hidden |-> schema.secretFields \cap TypedFields(bundles, contents, ref)]

\* buildSchemaComponents; of two schemas of one name only one can stay.
Components(bundles, contents) ==
  [id \in {ref[2] : ref \in Refs(bundles)} |->
     Component(bundles, contents, CHOOSE ref \in Refs(bundles) : ref[2] = id)]

\* The routes that are exported.
Exported(routes, restricted) ==
  {n \in DOMAIN routes : restricted \/ ~ routes[n].restricted}

\* requireContext throws for some exported route.
MissesContext(routes, exported, bundles) ==
  \E n \in exported :
    \/ routes[n].request \notin Refs(bundles)
    \/ /\ routes[n].response \notin Refs(bundles) \cup {None}
       /\ ~ routes[n].statuses \subseteq NoContent

\* Header parameters: metadata, the schema's own rules, and on the access
\* decision route the profile's in place of those of the same name.
HeaderParameters(route, bundles) ==
  LET own == MetadataNames(route)
             \cup ({"rule"} \X SchemaAt(bundles, route.request).headers)
  IN IF route.method = "POST" /\ Path(route) = Profile.path
     THEN {h \in own : h[2] \notin Profile.headers} \cup ({"profile"} \X Profile.headers)
     ELSE own

\* buildOperation and buildSuccessResponse; the body and the responses are
\* references to components, by name.
Operation(route, bundles) ==
  LET schema == SchemaAt(bundles, route.request)
      placed == {route.params[n] : n \in DOMAIN route.params}
  IN
  [operationId |-> route.operationId,
   headers |-> HeaderParameters(route, bundles),
   query |-> IF route.method = "GET" THEN Fields(schema) \ placed ELSE {},
   body |-> IF route.method # "GET" /\ Fields(schema) # {} THEN route.request[2] ELSE None,
   responses |-> [status \in route.statuses |->
                    IF status = 204 \/ route.response = None THEN None ELSE route.response[2]]]

\* The place of a route in the paths object.
Place(route) == <<Path(route), MethodKey[route.method]>>

\* buildPaths; of two routes in one place only one can stay.
Paths(routes, exported, bundles) ==
  [place \in {Place(routes[n]) : n \in exported} |->
     Operation(routes[CHOOSE n \in exported : Place(routes[n]) = place], bundles)]

Document(routes, restricted, bundles, contents) ==
  [paths |-> Paths(routes, Exported(routes, restricted), bundles),
   components |-> Components(bundles, contents)]

-----------------------------------------------------------------------------

Pending == [kind |-> "pending"]

\* The build returns or throws.
Settle(result) == phase' = "settled" /\ outcome' = result

Init ==
  /\ options \in [strict : BOOLEAN, restricted : BOOLEAN]
  /\ disk \in {d \in [Files -> UNION {Contents[f] : f \in Files}] : \A f \in Files : d[f] \in Contents[f]}
  /\ catalog \in Catalogs
  /\ phase = "catalog"
  /\ first = <<>>
  /\ second = <<>>
  /\ outcome = Pending
  /\ edits = 0

\* The files listApiSchemaBundleSourcePaths asks for.
BundleFiles(routes) ==
  Required \cup {routes[n].request[1] : n \in DOMAIN routes}
           \cup {routes[n].response[1] : n \in {m \in DOMAIN routes : routes[m].response # None}}

\* The families are read; their load is ContractLoader's.
ReadCatalog ==
  /\ phase = "catalog"
  /\ IF catalog = Unreadable
     THEN Settle([kind |-> "load failed"]) /\ UNCHANGED first
     ELSE /\ phase' = "bundles"
          /\ first' = [f \in BundleFiles(catalog) |-> Unread]
          /\ UNCHANGED outcome
  /\ UNCHANGED <<options, disk, catalog, second, edits>>

ReadBundle(f) ==
  /\ phase = "bundles"
  /\ first[f] = Unread
  /\ first' = [first EXCEPT ![f] = disk[f]]
  /\ UNCHANGED <<options, disk, catalog, phase, second, outcome, edits>>

BundleParses(content) == content # Unreadable /\ content.contract

\* The load is complete; the validators and the code up to the next await.
Validate ==
  /\ phase = "bundles"
  /\ \A f \in DOMAIN first : first[f] # Unread
  /\ IF \E f \in DOMAIN first : ~ BundleParses(first[f])
     THEN Settle([kind |-> "load failed"]) /\ UNCHANGED second
     ELSE IF ~ ContractsValid(catalog, first)
     THEN Settle([kind |-> "invalid"]) /\ UNCHANGED second
     ELSE /\ phase' = "typed"
          /\ second' = [f \in DOMAIN first |-> Unread]
          /\ UNCHANGED outcome
  /\ UNCHANGED <<options, disk, catalog, first, edits>>

ReadTyped(f) ==
  /\ phase = "typed"
  /\ second[f] = Unread
  /\ second' = [second EXCEPT ![f] = disk[f]]
  /\ UNCHANGED <<options, disk, catalog, phase, first, outcome, edits>>

\* loadTypedSchemaRegistry's Promise.all and the strict mode.
JoinTyped ==
  /\ phase = "typed"
  /\ \A f \in DOMAIN second : second[f] # Unread
  /\ IF \E f \in DOMAIN second : ~ TypedOk(first[f], second[f])
     THEN Settle([kind |-> "typed invalid"])
     ELSE IF options.strict /\ \E ref \in Refs(first) : ~ IsTyped(second, ref)
     THEN Settle([kind |-> "untyped"])
     ELSE phase' = "manifest" /\ UNCHANGED outcome
  /\ UNCHANGED <<options, disk, catalog, first, second, edits>>

\* package.json is read, or is not what it should be; the rest is synchronous.
Build ==
  /\ phase = "manifest"
  /\ \E readable \in BOOLEAN :
       IF ~ readable THEN Settle([kind |-> "manifest invalid"])
       ELSE IF NamesConflict(first) THEN Settle([kind |-> "names conflict"])
       ELSE IF MissesContext(catalog, Exported(catalog, options.restricted), first)
       THEN Settle([kind |-> "threw"])
       ELSE Settle([kind |-> "document",
                    document |-> Document(catalog, options.restricted, first, second)])
  /\ UNCHANGED <<options, disk, catalog, first, second, edits>>

\* Somebody saves or removes a bundle file while the build runs.
Edit(f, content) ==
  /\ phase \notin {"manifest", "settled"}
  /\ edits < MaxEdits
  /\ disk[f] # content
  /\ disk' = [disk EXCEPT ![f] = content]
  /\ edits' = edits + 1
  /\ UNCHANGED <<options, catalog, phase, first, second, outcome>>

Next ==
  \/ ReadCatalog \/ Validate \/ JoinTyped \/ Build
  \/ \E f \in DOMAIN first : ReadBundle(f)
  \/ \E f \in DOMAIN second : ReadTyped(f)
  \/ \E f \in Files : \E content \in Contents[f] : Edit(f, content)

Spec == Init /\ [][Next]_vars

-----------------------------------------------------------------------------

TypeOK ==
  /\ options \in [strict : BOOLEAN, restricted : BOOLEAN]
  /\ DOMAIN disk = Files /\ \A f \in Files : disk[f] \in Contents[f]
  /\ catalog \in Catalogs
  /\ phase \in {"catalog", "bundles", "typed", "manifest", "settled"}
  /\ DOMAIN first \subseteq Files
  /\ \A f \in DOMAIN first : first[f] \in Contents[f] \cup {Unread}
  /\ second # <<>> => DOMAIN second = DOMAIN first
  /\ \A f \in DOMAIN second : second[f] \in Contents[f] \cup {Unread}
  /\ phase = "settled" <=> outcome # Pending
  /\ edits \in 0 .. MaxEdits

\* openapi.ts:594: a validated route never refers to a schema without context,
\* whatever is edited between the readings: the build returns and never throws.
NeverThrows == outcome.kind # "threw"

Built == outcome.kind = "document"
Chosen == Exported(catalog, options.restricted)

\* openapi.ts:422: every exported route of the catalog has its own place in the
\* document, in spite of the lower case of its method, and no other route has.
EveryRouteHasItsPlace ==
  Built => /\ DOMAIN outcome.document.paths = {Place(catalog[n]) : n \in Chosen}
           /\ \A n \in Chosen : outcome.document.paths[Place(catalog[n])].operationId
                                  = catalog[n].operationId

\* Does name stand for the schema ref in the document, as a kind of message?
StandsFor(document, name, ref, kind) ==
  /\ name \in DOMAIN document.components
  /\ document.components[name].ref = ref
  /\ document.components[name].kind = kind

\* openapi.ts:600: every reference of an operation leads to the very schema its
\* route named, and bodies and responses have the kind they should.
ReferencesResolve ==
  Built => \A n \in Chosen :
    LET operation == outcome.document.paths[Place(catalog[n])] IN
    /\ operation.body # None =>
         StandsFor(outcome.document, operation.body, catalog[n].request, "request")
    /\ \A status \in DOMAIN operation.responses :
         operation.responses[status] # None =>
           StandsFor(outcome.document, operation.responses[status], catalog[n].response, "response")

\* openapi.ts:326-343: a component defines every field it requires and marks
\* every secret one, even when the field lists and the properties come from
\* different versions of the file.
ComponentsHangTogether ==
  Built => \A id \in DOMAIN outcome.document.components :
    LET component == outcome.document.components[id] IN
    /\ component.required \subseteq component.properties
    /\ component.hidden = SchemaAt(first, component.ref).secretFields

\* api-catalog.ts:613: no published response of a route has a field that is
\* secret in its request, even when the response's properties were read later
\* than the field lists that were checked.
SecretsAreNotEchoed ==
  Built => \A n \in Chosen :
    LET components == outcome.document.components IN
    catalog[n].response # None =>
      components[catalog[n].request[2]].hidden \cap components[catalog[n].response[2]].properties = {}

\* openapi.ts:449-473: the header parameters of an operation have different
\* names, whichever of the three sources they come from.
HeadersDiffer ==
  Built => \A place \in DOMAIN outcome.document.paths :
    LET headers == outcome.document.paths[place].headers IN
    \A g, h \in headers : g[2] = h[2] => g = h
=============================================================================
