-------------------------- MODULE ContractComparer --------------------------
(***************************************************************************)
(* compareApiContracts: schemas, bundles of schemas and whole contract     *)
(* trees, compared with the strategies of CompatStrategies.                *)
(***************************************************************************)
EXTENDS TypedProperties

\* Mutant of SchemaProperties: typing an untyped schema is a patch.
SchemaPropertiesPatch(base, head) ==
  IF base.properties # Undefined /\ head.properties # Undefined THEN TypedChanges(base, head)
  ELSE Differs(base.properties, head.properties,
               IF base.properties = Undefined THEN "patch" ELSE "breaking")

\* compareSchemaProperties; an untyped schema has no properties.
SchemaProperties(base, head) ==
  IF base.properties # Undefined /\ head.properties # Undefined THEN TypedChanges(base, head)
  ELSE Differs(base.properties, head.properties,
               IF base.properties = Undefined THEN "feature" ELSE "breaking")

SchemaChanges(base, head) ==
  RequestHeaders(base.requestHeaders, head.requestHeaders)
  \cup BreakingScalar(base.kind, head.kind)
  \cup BreakingScalar(base.anchor, head.anchor)
  \cup Differs(base.secretMaterialPolicy, head.secretMaterialPolicy, "patch")
  \cup FieldChanges(base, head)
  \cup SchemaProperties(base, head)
  \cup SetDelta(base.secretFields, head.secretFields, "patch", "breaking")

BundleChanges(base, head) ==
  BreakingScalar(base.anchor, head.anchor)
  \cup RequiredSet(base.requiredMetadata, head.requiredMetadata)
  \cup ForbiddenSet(base.forbiddenPayload, head.forbiddenPayload)
  \cup Keyed(base.schemas, head.schemas, "feature",
             [s \in Kept(base.schemas, head.schemas) |->
                SchemaChanges(base.schemas[s], head.schemas[s])])

BundlesChanges(base, head) ==
  Keyed(base, head, "feature", [b \in Kept(base, head) |-> BundleChanges(base[b], head[b])])

\* compareApiContracts.  requiredItems, allowedItems and forbiddenItems hold the
\* sets of the error envelope, webhook and SDK input contracts, which only ever
\* go through these three strategies; structural holds the families compared
\* field by field and the access decision HTTP profile, where every change is
\* breaking.
ContractChanges(base, head) ==
  RouteContractChanges(base.routeContract, head.routeContract)
  \cup RoutesChanges(base.routes, head.routes)
  \cup BundlesChanges(base.bundles, head.bundles)
  \cup RequiredSet(base.requiredItems, head.requiredItems)
  \cup Allowlist(base.allowedItems, head.allowedItems)
  \cup ForbiddenSet(base.forbiddenItems, head.forbiddenItems)
  \cup CalculatorsChanges(base.calculators, head.calculators)
  \cup OidcRegistryChanges(base.oidcClientRegistry, head.oidcClientRegistry)
  \cup BreakingScalar(base.structural, head.structural)

ContractLevel(base, head) == HighestLevel(ContractChanges(base, head))
=============================================================================
