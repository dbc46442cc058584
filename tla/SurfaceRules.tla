---------------------------- MODULE SurfaceRules ----------------------------
(***************************************************************************)
(* The rules of validateApiContracts on the lists of names that the shared *)
(* contracts hold: the route contract, the error envelope, webhooks, the   *)
(* input of SDK generation and the head of the API catalog.                *)
(*                                                                         *)
(* lists is a function from the name of a list to the set of its entries;  *)
(* bundles is the set of schema bundle files.  The fixed values (schema    *)
(* versions, statuses, the form of a target) are the set "wellFormed": the *)
(* contracts whose own ones are what they must be.                         *)
(***************************************************************************)
CONSTANTS
  Demanded,   \* Demanded[list]: the entries a validator's own table asks for
  Canonical   \* CANONICAL_FORBIDDEN_VALUES

\* The lists, under the names they have in the YAML files.
ListNames ==
  {"wellFormed",
   "route.required_per_route", "route.allowed_methods", "route.allowed_success_statuses",
   "route.no_content_success_statuses", "route.forbidden_shapes", "route.allowed_session_effects",
   "error.required_fields", "error.optional_fields", "error.forbidden_fields",
   "webhook.required_controls", "webhook.forbidden_controls",
   "sdk.source_contracts", "sdk.allowed_generation_targets", "sdk.generation_targets",
   "sdk.required_route_metadata", "sdk.required_error_metadata",
   "sdk.required_client_runtime_metadata", "sdk.required_webhook_metadata",
   "sdk.forbidden_ownership", "sdk.forbidden_values",
   "catalog.route_definition_required_fields", "catalog.forbidden_values"}

ASSUME DemandedAssumption == DOMAIN Demanded \subseteq ListNames

\* Every entry a table asks for is there.
Carries(lists, name) == Demanded[name] \subseteq lists[name]

\* validateRouteContract: three lists are fixed, the others may only grow.
RouteContractValid(lists) ==
  /\ "route" \in lists["wellFormed"]
  /\ Carries(lists, "route.required_per_route")
  /\ \A name \in {"route.allowed_methods", "route.allowed_success_statuses",
                  "route.no_content_success_statuses"} : lists[name] = Demanded[name]
  /\ lists["route.no_content_success_statuses"] \subseteq lists["route.allowed_success_statuses"]
  /\ Canonical \subseteq lists["route.forbidden_shapes"] /\ Carries(lists, "route.forbidden_shapes")
  /\ Carries(lists, "route.allowed_session_effects")

\* validateErrorEnvelopeContract
ErrorEnvelopeValid(lists) ==
  /\ "error" \in lists["wellFormed"]
  /\ Carries(lists, "error.required_fields")
  /\ Canonical \subseteq lists["error.forbidden_fields"]

\* validateWebhookContract
WebhookValid(lists) ==
  /\ "webhook" \in lists["wellFormed"]
  /\ Carries(lists, "webhook.required_controls")
  /\ Carries(lists, "webhook.forbidden_controls")

\* validateSdkGenerationInputContract
SdkInputValid(lists, bundles) ==
  /\ "sdk" \in lists["wellFormed"]
  /\ bundles \subseteq lists["sdk.source_contracts"]
  /\ lists["sdk.generation_targets"] \subseteq lists["sdk.allowed_generation_targets"]
  /\ \A name \in {"sdk.source_contracts", "sdk.generation_targets", "sdk.required_route_metadata",
                  "sdk.required_error_metadata", "sdk.required_client_runtime_metadata",
                  "sdk.required_webhook_metadata", "sdk.forbidden_ownership"} : Carries(lists, name)
  /\ Canonical \subseteq lists["sdk.forbidden_values"]

\* validateApiCatalogContract, up to its routes: the catalog mirrors the others.
CatalogListsValid(lists) ==
  /\ "catalog" \in lists["wellFormed"]
  /\ Carries(lists, "catalog.route_definition_required_fields")
  /\ lists["route.required_per_route"] \cup lists["sdk.required_route_metadata"]
       \subseteq lists["catalog.route_definition_required_fields"]
  /\ lists["sdk.forbidden_values"] \cup Canonical \subseteq lists["catalog.forbidden_values"]

ListsValid(lists, bundles) ==
  /\ RouteContractValid(lists)
  /\ ErrorEnvelopeValid(lists)
  /\ WebhookValid(lists)
  /\ SdkInputValid(lists, bundles)
  /\ CatalogListsValid(lists)
=============================================================================
