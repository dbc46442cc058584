-------------------------- MODULE CompatStrategies --------------------------
(***************************************************************************)
(* The comparison strategies of scripts/lib/compatibility-*.ts.  A change  *)
(* record {level, code, path, message} is abstracted to its level: each    *)
(* operator returns the set of levels of the changes its function pushes.  *)
(*                                                                         *)
(* Lists the comparer turns into Sets or Maps are sets and functions here; *)
(* texts it only compares for equality are values of any kind.  The typed  *)
(* properties of a schema are the module TypedProperties; ContractComparer *)
(* puts everything together.                                               *)
(***************************************************************************)
EXTENDS VersionGate

CONSTANT Undefined   \* an optional part the contract file does not have

\* compareSetDelta
SetDelta(base, head, removedLevel, addedLevel) ==
  {l \in {removedLevel} : base \ head # {}} \cup {l \in {addedLevel} : head \ base # {}}

RequiredSet(base, head)  == SetDelta(base, head, "breaking", "breaking")
Allowlist(base, head)    == SetDelta(base, head, "breaking", "feature")
ForbiddenSet(base, head) == SetDelta(base, head, "breaking", "patch")

Differs(base, head, level) == IF base = head THEN {} ELSE {level}

BreakingScalar(base, head) == Differs(base, head, "breaking")

RequirementBoolean(base, head) ==
  Differs(base, head, IF head THEN "breaking" ELSE "patch")

\* Two keyed collections: a lost key is breaking, a new one has its own
\* level, a kept key k has the changes entries[k].
Kept(base, head) == DOMAIN base \cap DOMAIN head

Keyed(base, head, addedLevel, entries) ==
  SetDelta(DOMAIN base, DOMAIN head, "breaking", addedLevel)
  \cup UNION {entries[k] : k \in Kept(base, head)}

-----------------------------------------------------------------------------
(* Routes *)

\* Mutant of Idempotency: the comparison the wrong way round.
IdempotencyFlipped(base, head) ==
  Differs(base, head, IF head.strength > base.strength THEN "patch" ELSE "breaking")

\* An idempotency policy is its wording and the strength idempotencyStrength
\* reads off it: 0 none, 1 optional or unknown wording, 2 required.
Idempotency(base, head) ==
  Differs(base, head, IF head.strength < base.strength THEN "patch" ELSE "breaking")

\* anchor: the values of a route whose every change is breaking (service,
\* resource, action, method, path, schema refs, permission, boundaries,
\* session effect, export and authorization policy, audit event).
RouteChanges(base, head) ==
  BreakingScalar(base.anchor, head.anchor)
  \cup Allowlist(base.successStatuses, head.successStatuses)
  \cup Allowlist(base.errorCodes, head.errorCodes)
  \cup RequirementBoolean(base.authRequired, head.authRequired)
  \cup RequirementBoolean(base.requestIdRequired, head.requestIdRequired)
  \cup RequirementBoolean(base.traceIdRequired, head.traceIdRequired)
  \cup Idempotency(base.idempotency, head.idempotency)
  \cup Differs(base.credentialPolicy, head.credentialPolicy, "patch")

\* compareRoutes
RoutesChanges(base, head) ==
  Keyed(base, head, "feature", [r \in Kept(base, head) |-> RouteChanges(base[r], head[r])])

\* One of requestMetadataHeaders and serviceRequestMetadataHeaders, as
\* canonicalMetadataHeaders leaves it.
MetadataHeaders(base, head) ==
  Differs(base, head, IF base = Undefined THEN "feature" ELSE "breaking")

\* allowed: the methods, success statuses and session effects a route may use.
RouteContractChanges(base, head) ==
  MetadataHeaders(base.requestHeaders, head.requestHeaders)
  \cup MetadataHeaders(base.serviceRequestHeaders, head.serviceRequestHeaders)
  \cup RequiredSet(base.requiredPerRoute, head.requiredPerRoute)
  \cup Allowlist(base.allowed, head.allowed)
  \cup ForbiddenSet(base.forbiddenShapes, head.forbiddenShapes)

-----------------------------------------------------------------------------
(* Schemas *)

Presence(schema, field) ==
  IF field \in schema.required THEN "required"
  ELSE IF field \in schema.optional THEN "optional"
  ELSE "absent"

\* Mutant of FieldTransition: a response may make a required field optional.
FieldTransitionLenient(kind, base, head) ==
  IF kind = "request"
  THEN IF head = "required" \/ head = "absent" THEN "breaking" ELSE "feature"
  ELSE IF kind = "response" /\ head # "absent" THEN "feature" ELSE "breaking"

\* classifySchemaFieldTransition, for base # head
FieldTransition(kind, base, head) ==
  IF kind = "request"
  THEN IF head = "required" \/ head = "absent" THEN "breaking" ELSE "feature"
  ELSE IF kind = "response"
  THEN IF base = "required" \/ head = "absent" THEN "breaking" ELSE "feature"
  ELSE "breaking"

FieldsOf(schema) == schema.required \cup schema.optional

FieldChanges(base, head) ==
  {FieldTransition(base.kind, Presence(base, f), Presence(head, f)) :
     f \in {g \in FieldsOf(base) \cup FieldsOf(head) : Presence(base, g) # Presence(head, g)}}

\* Mutant of RequestHeaders: new headers are not looked at.
RequestHeadersKept(base, head) ==
  {l \in {"breaking"} : \E n \in DOMAIN head \cap DOMAIN base : base[n] # head[n]}
  \cup {l \in {"patch"} : DOMAIN base \ DOMAIN head # {}}

\* requestHeaders: name -> rule
RequestHeaders(base, head) ==
  {l \in {"breaking"} : \E n \in DOMAIN head : n \notin DOMAIN base \/ base[n] # head[n]}
  \cup {l \in {"patch"} : DOMAIN base \ DOMAIN head # {}}

-----------------------------------------------------------------------------
(* Calculators and the families compared by structure *)

\* The inputs or outputs of one calculator: id -> [required, meaning].
CalculatorFields(base, head, kind) ==
  LET added == DOMAIN head \ DOMAIN base IN
  {l \in {"breaking"} : DOMAIN base \ DOMAIN head # {}}
  \cup (UNION {BreakingScalar(base[k], head[k]) : k \in DOMAIN base \cap DOMAIN head})
  \cup {IF kind = "INPUT" /\ head[k].required THEN "breaking" ELSE "feature" : k \in added}

CalculatorChanges(base, head) ==
  BreakingScalar(base.semantics, head.semantics)
  \cup Differs(base.contractVersion, head.contractVersion, "patch")
  \cup Allowlist(base.engines, head.engines)
  \cup Allowlist(base.errorCodes, head.errorCodes)
  \cup CalculatorFields(base.inputs, head.inputs, "INPUT")
  \cup CalculatorFields(base.outputs, head.outputs, "OUTPUT")

CalculatorsChanges(base, head) ==
  BreakingScalar(base.policy, head.policy)
  \cup Differs(base.metadata, head.metadata, "patch")
  \cup Keyed(base.definitions, head.definitions, "feature",
             [c \in Kept(base.definitions, head.definitions) |->
                CalculatorChanges(base.definitions[c], head.definitions[c])])
  \cup Keyed(base.cases, head.cases, "patch",
             [c \in Kept(base.cases, head.cases) |-> BreakingScalar(base.cases[c], head.cases[c])])

\* compareFields of compatibility-families.ts on a field of the OIDC client
\* registry that ends in registryRevision or entryRevision.
Revision(base, head) ==
  Differs(base, head, IF head > base THEN "patch" ELSE "breaking")

OidcEntryChanges(base, head) ==
  Revision(base.entryRevision, head.entryRevision) \cup BreakingScalar(base.client, head.client)

OidcRegistryChanges(base, head) ==
  Revision(base.registryRevision, head.registryRevision)
  \cup BreakingScalar(base.rules, head.rules)
  \cup Keyed(base.entries, head.entries, "feature",
             [e \in Kept(base.entries, head.entries) |->
                OidcEntryChanges(base.entries[e], head.entries[e])])

=============================================================================
