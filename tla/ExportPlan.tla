----------------------------- MODULE ExportPlan -----------------------------
(***************************************************************************)
(* buildApiExportPlan of src/api-export-plan: what an SDK generator is     *)
(* told about the contracts.  It is computed from one load and reads no    *)
(* file, so it is a function here: of the catalog and the bundles as the   *)
(* OpenAPI builder has read them (catalog and first) and of the lists of   *)
(* the shared contracts, each of the function Surfaces.                    *)
(***************************************************************************)
EXTENDS OpenApiBuild, SurfaceRules

CONSTANT Surfaces   \* what the lists of the shared contracts may hold

RouteFile    == "contracts/route-contract.yaml"
ErrorFile    == "contracts/error-envelope.yaml"
WebhookFile  == "contracts/webhook-contract.yaml"
SdkInputFile == "contracts/sdk-generation-input.yaml"
CatalogFile  == "contracts/apis/catalog.yaml"

\* API_CONTRACT_FAMILY_REGISTRY's exportTargets, read by target; the families not
\* named here have none.
FamilySources ==
  [openapi |-> {RouteFile, ErrorFile, CatalogFile},
   sdk_generation_input |-> {RouteFile, ErrorFile, WebhookFile, SdkInputFile, CatalogFile},
   webhook_schema |-> {WebhookFile},
   docs_contract |-> {RouteFile, ErrorFile, WebhookFile, SdkInputFile, CatalogFile}]

-----------------------------------------------------------------------------
(* What the plan needs beyond valid contracts *)

RuntimeMetadata ==
  {"typed_fetch_operation_map", "standard_error_envelope_normalization", "request_id_propagation",
   "trace_id_propagation", "timeout_ms_option", "abort_signal_option",
   "idempotency_key_required_for_mutations"}

ExtraRouteMetadata == {"operation_id", "request_schema_ref", "response_schema_ref"}

\* Mutant of PlanInputsAgree: only what SDKs always need is looked for.
PlanInputsAgreeAtLeast(lists, bundles) ==
  /\ ExtraRouteMetadata \subseteq lists["sdk.required_route_metadata"]
  /\ lists["error.required_fields"] \subseteq lists["sdk.required_error_metadata"]
  /\ RuntimeMetadata \subseteq lists["sdk.required_client_runtime_metadata"]

\* validateExportPlanInputs finds nothing.
PlanInputsAgree(lists, bundles) ==
  /\ lists["route.required_per_route"] \cup ExtraRouteMetadata
       \subseteq lists["sdk.required_route_metadata"]
  /\ lists["route.required_per_route"] \cup lists["sdk.required_route_metadata"]
       \subseteq lists["catalog.route_definition_required_fields"]
  /\ lists["error.required_fields"] \cup (lists["error.optional_fields"] \ {"details"})
       \subseteq lists["sdk.required_error_metadata"]
  /\ RuntimeMetadata \subseteq lists["sdk.required_client_runtime_metadata"]
  /\ lists["webhook.required_controls"] \subseteq lists["sdk.required_webhook_metadata"]
  /\ {RouteFile, ErrorFile, WebhookFile, CatalogFile} \cup bundles \subseteq lists["sdk.source_contracts"]
  /\ lists["sdk.forbidden_values"] \subseteq lists["catalog.forbidden_values"]
  /\ Canonical \subseteq lists["sdk.forbidden_values"]

-----------------------------------------------------------------------------
(* The plan *)

\* Mutant of PlannedRoutes: the export policy of a route is not looked at.
AllRoutes(routes) == DOMAIN routes

\* exportableRoutes
PlannedRoutes(routes) == {n \in DOMAIN routes : ~ routes[n].restricted}

\* buildTypedFetchOperationMap; of two routes of one id only one can stay.
PlannedOperation(route, bundles) ==
  [place |-> Place(route), statuses |-> route.statuses,
   request |-> route.request, response |-> route.response,
   bodyMode |-> IF route.response = None THEN "none" ELSE "schema",
   headers |-> IF route.request \in Refs(bundles) THEN SchemaAt(bundles, route.request).headers ELSE {},
   idempotency |-> route.idempotency, requestId |-> route.requestId, traceId |-> route.traceId]

PlannedOperations(routes, bundles) ==
  [id \in {routes[n].operationId : n \in PlannedRoutes(routes)} |->
     PlannedOperation(routes[CHOOSE n \in PlannedRoutes(routes) : routes[n].operationId = id], bundles)]

\* buildSchemaModel
Model(bundles, ref) ==
  LET schema == SchemaAt(bundles, ref) IN
  [kind |-> schema.kind, service |-> bundles[ref[1]].service, owner |-> bundles[ref[1]].owner,
   required |-> schema.required, optional |-> schema.optional, secret |-> schema.secretFields]

\* buildSchemaModelMap
Models(bundles) == [ref \in Refs(bundles) |-> Model(bundles, ref)]

\* An output of plan.ts with the sources registry-plan.ts adds to it.
Output(kind, sources, metadata, forbidden) ==
  [sources |-> sources \cup FamilySources[kind], metadata |-> metadata, forbidden |-> forbidden]

TraceFields == {"request_id", "trace_id"}

\* error-envelope.ts:5: every error carries them.
ASSUME TraceAssumption == TraceFields \subseteq Demanded["error.required_fields"]

Outputs(lists, bundles) ==
  LET forbidden == lists["route.forbidden_shapes"] \cup lists["error.forbidden_fields"] IN
  [openapi |->
     Output("openapi", {RouteFile, ErrorFile, CatalogFile} \cup bundles,
            lists["route.required_per_route"] \cup ExtraRouteMetadata \cup lists["error.required_fields"],
            forbidden),
   sdk |->
     Output("sdk_generation_input", lists["sdk.source_contracts"],
            UNION {lists[name] : name \in {"sdk.required_route_metadata", "sdk.required_error_metadata",
                     "sdk.required_client_runtime_metadata", "sdk.required_webhook_metadata"}},
            lists["sdk.forbidden_values"]),
   webhook |->
     Output("webhook_schema", {WebhookFile}, lists["webhook.required_controls"],
            lists["webhook.forbidden_controls"]),
   docs |->
     Output("docs_contract", {RouteFile, ErrorFile, WebhookFile, SdkInputFile, CatalogFile} \cup bundles,
            {"auth_required", "permission_check", "audit_event", "idempotency", "success_statuses"}
              \cup TraceFields,
            forbidden \cup lists["webhook.forbidden_controls"] \cup lists["sdk.forbidden_values"])]

\* requireSchemaModelKind throws for some schema.
HasOtherKind(bundles) == \E ref \in Refs(bundles) : SchemaAt(bundles, ref).kind \notin {"request", "response"}

\* What buildApiExportPlan returns for validated routes and bundles.
PlanResult(lists, routes, bundles) ==
  IF ~ ListsValid(lists, DOMAIN bundles) THEN [kind |-> "invalid"]
  ELSE IF ~ PlanInputsAgree(lists, DOMAIN bundles) THEN [kind |-> "inputs drift"]
  ELSE IF HasOtherKind(bundles) THEN [kind |-> "threw"]
  ELSE [kind |-> "plan", operations |-> PlannedOperations(routes, bundles),
        models |-> Models(bundles), outputs |-> Outputs(lists, DOMAIN bundles)]

-----------------------------------------------------------------------------

\* Is the contract past its validators, so that a plan can be asked for?
Validated == phase \in {"typed", "manifest"} \/ Built

Plans == {PlanResult(lists, catalog, first) : lists \in Surfaces}

\* Do SDK and documentation tell the same about a message?  The model is made of
\* the field lists, the component of the properties, read later.
SameMessage(model, component) ==
  /\ model.kind = component.kind
  /\ model.required = component.required
  /\ model.required \cup model.optional = component.properties
  /\ model.secret = component.hidden

\* The places of the document that the plan knows.
PublicPlaces ==
  {place \in DOMAIN outcome.document.paths :
     options.restricted => \E n \in PlannedRoutes(catalog) : Place(catalog[n]) = place}

\* Is the call id of the plan what the document describes?
DescribesCall(plan, id) ==
  LET call == plan.operations[id] shown == outcome.document.paths[call.place] IN
  /\ shown.operationId = id
  /\ call.statuses = DOMAIN shown.responses
  /\ call.headers \subseteq Names(shown.headers)
  /\ shown.body # None =>
       SameMessage(plan.models[call.request], outcome.document.components[shown.body])
  /\ \A status \in call.statuses :
       IF call.bodyMode = "none" THEN shown.responses[status] = None
       ELSE SameMessage(plan.models[call.response],
                        outcome.document.components[shown.responses[status]])

\* plan.ts:133 and openapi.ts:175: a client generated from the plan calls what the
\* document describes, although each builder picks its routes and schemas by
\* itself: the public operations, at their places, with the same statuses, the
\* headers the document knows, and bodies that both sides define alike.
PlanMatchesDocument ==
  Built => \A plan \in {p \in Plans : p.kind = "plan"} :
    /\ DOMAIN plan.operations = {outcome.document.paths[place].operationId : place \in PublicPlaces}
    /\ \A id \in DOMAIN plan.operations : DescribesCall(plan, id)

\* plan.ts:238-318, docs/ops/export-plan.md:15-19: a plan never throws half-way and
\* loses nothing the shared contracts demand: SDKs hear of all route, error and
\* webhook metadata and of what is forbidden, documents and SDKs of the trace
\* fields, and every bundle with a model is a source of what is made of it.
PlanKeepsMetadata ==
  Validated => \A lists \in Surfaces :
    LET plan == PlanResult(lists, catalog, first) IN
    /\ plan.kind # "threw"
    /\ plan.kind = "plan" =>
         /\ lists["route.required_per_route"] \cup lists["error.required_fields"]
              \cup lists["webhook.required_controls"] \subseteq plan.outputs.sdk.metadata
         /\ Canonical \subseteq plan.outputs.sdk.forbidden
         /\ \A output \in {plan.outputs.sdk, plan.outputs.docs, plan.outputs.openapi} :
              /\ TraceFields \subseteq output.metadata
              /\ {ref[1] : ref \in DOMAIN plan.models} \subseteq output.sources
=============================================================================
