------------------------- MODULE ContractEvolution -------------------------
(***************************************************************************)
(* What the levels of the comparer promise to a consumer.                  *)
(*                                                                         *)
(* A consumer is built against one version of the contracts and talks to a *)
(* service that moves on through later versions, each compared with the    *)
(* one before it.  While no step was breaking, what the consumer sends     *)
(* must be served and what it receives must be understood, however many    *)
(* steps there were; the comparer only ever sees one of them at a time.    *)
(***************************************************************************)
EXTENDS ContractComparer, TLC

CONSTANTS
  Catalogs,    \* sequences of contract trees; the releases of one line are of one of them
  Properties,  \* Properties[n]: typed properties with at most n levels below them
  Payloads     \* the message bodies to try: functions from field to value

\* The tree <<c, n>> is the n-th of catalog c.  LET and @@ make TLC compute the
\* table here once and not at every use.
Contracts ==
  LET catalogs == Catalogs IN
  [p \in UNION {{c} \X DOMAIN catalogs[c] : c \in DOMAIN catalogs} |-> catalogs[p[1]][p[2]]] @@ <<>>

\* parseProperty of the export plan: nesting ends at the depth limit, and what an
\* object requires is among its properties.
NestsWithin(levels) ==
  \A n \in 0 .. MaxDepth : \A p \in levels[n] :
    /\ p.required \subseteq DOMAIN p.properties
    /\ p.type = "object" =>
         \A f \in DOMAIN p.properties : n > 0 /\ p.properties[f] \in levels[n - 1]
    /\ p.type = "array" => n > 0 /\ p.items \in levels[n - 1]

ASSUME PropertiesAssumption == NestsWithin(Properties)

\* parseSchemaDefinition: a schema lists the fields it has properties for.
ListsItsFields(schema, properties) ==
  schema.properties # Undefined =>
    /\ DOMAIN schema.properties = FieldsOf(schema)
    /\ \A f \in DOMAIN schema.properties : schema.properties[f] \in properties

SchemaWellFormed(schema) == ListsItsFields(schema, Properties[MaxDepth])

\* What the loader and the export plan let pass; revisions are positive.
WellFormed(contracts) ==
  /\ \A b \in DOMAIN contracts.bundles : \A s \in DOMAIN contracts.bundles[b].schemas :
       SchemaWellFormed(contracts.bundles[b].schemas[s])
  /\ \A r \in DOMAIN contracts.routes : contracts.routes[r].idempotency.strength \in 0 .. 2
  /\ contracts.oidcClientRegistry.registryRevision \in Nat
  /\ \A e \in DOMAIN contracts.oidcClientRegistry.entries :
       contracts.oidcClientRegistry.entries[e].entryRevision \in Nat

ASSUME ContractsAssumption == \A i \in DOMAIN Contracts : WellFormed(Contracts[i])

\* The trees of the same line.
Line(p) == {q \in DOMAIN Contracts : q[1] = p[1]}

VARIABLES
  built,      \* the contracts the consumer was built against
  served,     \* the contracts the service implements
  worst       \* heaviest level reported since the consumer was built

vars == <<built, served, worst>>

TypeOK ==
  /\ built \in DOMAIN Contracts
  /\ served \in DOMAIN Contracts
  /\ worst \in ChangeLevel

Init ==
  /\ built \in DOMAIN Contracts
  /\ served = built
  /\ worst = "none"

LevelOf(base, head) == ContractLevel(Contracts[base], Contracts[head])

\* The service implements the next version.
Evolve(next) ==
  /\ worst # "breaking"
  /\ served' = next
  /\ worst' = HighestLevel({worst, LevelOf(served, next)})
  /\ UNCHANGED built

\* The consumer is rebuilt, which a breaking version obliges it to.
Rebuild ==
  /\ built' = served
  /\ worst' = "none"
  /\ UNCHANGED served

Next == Rebuild \/ \E next \in Line(served) : Evolve(next)

Spec == Init /\ [][Next]_vars

-----------------------------------------------------------------------------
(* Messages *)

\* A request or response body fits a schema; the component schemas of the
\* OpenAPI document are closed, a tolerant reader ignores unknown fields.
FieldsFit(schema, tolerant, body) ==
  /\ schema.required \subseteq DOMAIN body
  /\ tolerant \/ DOMAIN body \subseteq FieldsOf(schema)

ValuesFit(schema, tolerant, body) == Admits(schema.properties, tolerant, body)

IsTyped(schema) == schema.properties # Undefined

Fits(schema, tolerant, body) ==
  /\ FieldsFit(schema, tolerant, body)
  /\ IsTyped(schema) => ValuesFit(schema, tolerant, body)

\* The schemas of version i: <<bundle, schema id>>.
SchemaNames(i) ==
  UNION {{<<b, s>> : s \in DOMAIN Contracts[i].bundles[b].schemas} : b \in DOMAIN Contracts[i].bundles}

SchemaAt(i, name) == Contracts[i].bundles[name[1]].schemas[name[2]]

\* A consumer of an untyped schema relies on its fields, not on their values.
Sendable(schema, tolerant, sender) ==
  {body \in Payloads :
     IF IsTyped(sender) THEN Fits(schema, tolerant, body) ELSE FieldsFit(schema, tolerant, body)}

Outcomes(route) == <<route.successStatuses, route.errorCodes>>

\* A call says which optional parts it carries.
Call == [auth : BOOLEAN, requestId : BOOLEAN, traceId : BOOLEAN, key : BOOLEAN]

Serves(route, call) ==
  /\ route.authRequired => call.auth
  /\ route.requestIdRequired => call.requestId
  /\ route.traceIdRequired => call.traceId
  /\ route.idempotency.strength = 2 => call.key

-----------------------------------------------------------------------------

\* Without a breaking step, every request the consumer's version allows, with
\* the headers that version requires, is accepted by the service's version.
RequestsStillAccepted ==
  worst # "breaking" =>
    \A name \in SchemaNames(built) :
      LET old == SchemaAt(built, name) new == SchemaAt(served, name) IN
      /\ name \in SchemaNames(served)
      /\ old.kind = "request" =>
           /\ Sendable(old, FALSE, old) \subseteq Sendable(new, FALSE, old)
           /\ \A h \in DOMAIN new.requestHeaders :
                h \in DOMAIN old.requestHeaders /\ new.requestHeaders[h] = old.requestHeaders[h]

\* Without a breaking step, every response the service's version allows is
\* understood by a consumer that ignores fields it does not know.
ResponsesStillUnderstood ==
  worst # "breaking" =>
    \A name \in SchemaNames(built) :
      LET old == SchemaAt(built, name) new == SchemaAt(served, name) IN
      (name \in SchemaNames(served) /\ old.kind = "response") =>
        Sendable(new, FALSE, old) \subseteq Sendable(old, TRUE, old)

\* Without a breaking step, every call the consumer's version allows on a
\* route is still served, and no outcome the route promised is withdrawn.
CallsStillServed ==
  worst # "breaking" =>
    \A r \in DOMAIN Contracts[built].routes :
      LET old == Contracts[built].routes[r] new == Contracts[served].routes[r] IN
      /\ r \in DOMAIN Contracts[served].routes
      /\ old.anchor = new.anchor
      /\ \A call \in Call : Serves(old, call) => Serves(new, call)
      /\ old.successStatuses \subseteq new.successStatuses
      /\ old.errorCodes \subseteq new.errorCodes

\* A patch, or any number of them, changes no message and no outcome: the same
\* routes with the same outcomes, the same schemas with the same bodies.
PatchesChangeNoMessage ==
  worst \in {"none", "patch"} =>
    /\ DOMAIN Contracts[built].routes = DOMAIN Contracts[served].routes
    /\ \A r \in DOMAIN Contracts[built].routes :
         Outcomes(Contracts[built].routes[r]) = Outcomes(Contracts[served].routes[r])
    /\ SchemaNames(built) = SchemaNames(served)
    /\ \A name \in SchemaNames(built) : \A tolerant \in BOOLEAN : \A body \in Payloads :
         Fits(SchemaAt(built, name), tolerant, body) <=> Fits(SchemaAt(served, name), tolerant, body)

\* Comparing two versions directly never reports a heavier change than the
\* steps between them did (what lets a gate look at one step only).
DirectNoHeavierThanSteps ==
  Weight(LevelOf(built, served)) <= Weight(worst)
=============================================================================
