--------------------------- MODULE MCOpenApiBuild ---------------------------
(***************************************************************************)
(* Two bundle files: the session's serves a login and the current session, *)
(* the decision's the access decision, or it is another service's and may  *)
(* take a name away from the first.                                        *)
(***************************************************************************)
EXTENDS FamilyContracts, TLC

Schema(id, kind, required) ==
  [id |-> id, kind |-> kind, valid |-> TRUE, required |-> required, optional |-> {},
   sessionEffect |-> IF kind = "request" THEN None ELSE "issue",
   carriesSecret |-> FALSE, outputOnlySecret |-> FALSE, secretFields |-> {},
   headers |-> {}, secretPolicy |-> None, properties |-> [fields |-> required, sound |-> TRUE]]

\* A login: the request has a secret, the response must not show it.
Request ==
  [Schema("LoginRequest", "request", {"user", "password"})
     EXCEPT !.carriesSecret = TRUE, !.secretFields = {"password"}, !.headers = {"x-client"}]

Response == Schema(CurrentSession[2], "response", {"token"})

Ping == Schema("PingRequest", "request", {"n"})

Bundle(service, schemas) ==
  [contract |-> TRUE, typed |-> TRUE, service |-> service, owner |-> "identity", key |-> FALSE,
   schemas |-> schemas]

Auth(request, response) == Bundle("core-api", <<request, response>>)

Echo == {"token", "password"}

\* An optional key, a header of that name, a legacy response, a response that
\* lists the secret, one that only defines it, one without the property it
\* lists, one whose properties are not sound, files with other defects, one
\* that takes a name away from the other bundle, and a session that tells a
\* decision.
AuthFiles ==
  {Unreadable,
   Auth(Request, Response),
   Auth([Request EXCEPT !.headers = {"x-client", "x-key"}], Response),
   Auth(Request, [Response EXCEPT !.properties = None]),
   Auth(Request, [Response EXCEPT !.optional = {"password"}, !.properties.fields = Echo]),
   Auth(Request, [Response EXCEPT !.properties.fields = Echo]),
   Auth(Request, [Response EXCEPT !.properties.fields = {}]),
   Auth(Request, [Response EXCEPT !.properties.sound = FALSE]),
   Auth([Request EXCEPT !.required = {"user"}], Response),
   Bundle("core-api", <<Request>>),
   Bundle("core-api", <<Request, Response, Response>>),
   Bundle("core-api", <<Request, Response, Ping>>),
   [Auth(Request, Response) EXCEPT !.contract = FALSE],
   [Auth(Request, Response) EXCEPT !.typed = FALSE],
   [Auth(Request, Response) EXCEPT !.key = TRUE],
   Auth(Request, [Response EXCEPT !.optional = {"decision"}, !.properties.fields = {"token", "decision"}])}

Other(schemas) == [Bundle("other", schemas) EXCEPT !.key = TRUE]

Asked    == Schema(DecisionRequest[2], "request", {"action"})
Answered == [Schema(DecisionResponse[2], "response", {"decision"}) EXCEPT !.sessionEffect = "none"]

Decision(request) ==
  [Bundle("core-api", <<request, Answered, Ping>>) EXCEPT !.owner = "access", !.key = TRUE]

\* The decision's bundle as it should be, with a request that may bring the
\* subject, and with one whose properties only have it.
OtherFiles ==
  {Other(<<Ping>>),
   Other(<<Ping, Schema(CurrentSession[2], "response", {"n"})>>),
   Other(<<Ping, Schema(ErrorEnvelope, "response", {"n"})>>),
   Decision(Asked),
   Decision([Asked EXCEPT !.optional = {"subject_ref"}, !.properties.fields = {"action", "subject_ref"}]),
   Decision([Asked EXCEPT !.properties.fields = {"action", "subject_ref"}])}

MCRequired == {SessionFile, DecisionFile}
MCContents == [f \in MCRequired |-> IF f = SessionFile THEN AuthFiles ELSE OtherFiles]

\* The login is a single-use ceremony without a key.
Login ==
  [operationId |-> "login", service |-> "core-api", owner |-> "identity", method |-> "POST",
   template |-> "/login/{}", params |-> <<"user">>, statuses |-> {200},
   request |-> <<SessionFile, "LoginRequest">>, response |-> CurrentSession,
   idempotency |-> "not_required", sessionEffect |-> "issue", errorCodes |-> {},
   requestId |-> TRUE, traceId |-> TRUE, restricted |-> FALSE, ceremony |-> TRUE, valid |-> TRUE,
   authRequired |-> TRUE, tenant |-> None, policy |-> None, reviewed |-> TRUE]

Ask == [Login EXCEPT !.operationId = "ask", !.method = "GET", !.ceremony = FALSE,
                     !.idempotency = "optional_idempotency_key",
                     !.errorCodes = {"account_restricted"}]

\* A route of the other bundle in the same place, without a response.
Leave == [Login EXCEPT !.operationId = "leave", !.service = "other", !.method = "DELETE",
                       !.request = <<DecisionFile, "PingRequest">>, !.response = None,
                       !.idempotency = "required_idempotency_key", !.statuses = {204},
                       !.sessionEffect = "none", !.restricted = TRUE, !.ceremony = FALSE]

\* The access decision, and one that asks with another request.
Decide == [Leave EXCEPT !.operationId = DecisionOperation, !.service = "core-api", !.owner = "access",
                        !.template = DecisionPath[1], !.params = DecisionPath[2], !.method = "POST",
                        !.request = DecisionRequest, !.response = DecisionResponse,
                        !.statuses = {201}, !.restricted = FALSE, !.tenant = "core_resolved_scope"]

MCCatalogs ==
  {Unreadable, <<>>,
   <<Login, Ask, Leave>>,
   <<Login, [Leave EXCEPT !.method = "POST"]>>,
   <<Login, [Ask EXCEPT !.method = "Post"]>>,
   <<Login, [Ask EXCEPT !.params = <<"id">>]>>,
   <<[Login EXCEPT !.idempotency = "required_idempotency_key", !.ceremony = FALSE,
                   !.errorCodes = {"account_restricted"}]>>,
   <<[Ask EXCEPT !.response = <<DecisionFile, "PingRequest">>]>>,
   <<[Login EXCEPT !.statuses = {200, 204}]>>,
   <<Ask, Decide>>, <<Ask, [Decide EXCEPT !.request[2] = "PingRequest"]>>}

\* The other service declares no metadata headers.
MCMetadata ==
  [s \in {"core-api"} |-> [requestId |-> "x-request-id", traceId |-> "traceparent", key |-> "x-key"]]

\* The profile's trace header is one of its own.
MCProfile == [path |-> DecisionPath, headers |-> {"x-request-id", "x-trace-id", "x-key"}]

MCMethodKey ==
  [m \in {"GET", "POST", "Post", "PUT", "PATCH", "DELETE"} |->
     CASE m = "GET" -> "get" [] m \in {"POST", "Post"} -> "post" [] m = "PUT" -> "put"
       [] m = "PATCH" -> "patch" [] m = "DELETE" -> "delete"]
-----------------------------------------------------------------------------
(* The shared contracts: a few entries of each list. *)

MCDemanded ==
  ("route.required_per_route" :> {"method", "idempotency"}) @@
  ("route.allowed_methods" :> AllowedMethods) @@
  ("route.allowed_success_statuses" :> Statuses) @@
  ("route.no_content_success_statuses" :> NoContent) @@
  ("route.forbidden_shapes" :> {"raw_storage_url"}) @@
  ("route.allowed_session_effects" :> {"none", "issue"}) @@
  ("error.required_fields" :> {"code"} \cup TraceFields) @@
  ("webhook.required_controls" :> {"event_id", "replay_policy"}) @@
  ("webhook.forbidden_controls" :> {"unversioned_payload"}) @@
  ("sdk.source_contracts" :> {RouteFile, ErrorFile, WebhookFile, SdkInputFile, CatalogFile}) @@
  ("sdk.generation_targets" :> {"rust"}) @@
  ("sdk.required_route_metadata" :> {"method", "idempotency"} \cup ExtraRouteMetadata) @@
  ("sdk.required_error_metadata" :> {"code", "retry_after_seconds"} \cup TraceFields) @@
  ("sdk.required_client_runtime_metadata" :> RuntimeMetadata) @@
  ("sdk.required_webhook_metadata" :> {"event_id", "replay_policy"}) @@
  ("sdk.forbidden_ownership" :> {"generated_sdk_source"}) @@
  ("catalog.route_definition_required_fields" :> {"method", "idempotency", "service_id"})

MCCanonical == {"stack_trace", "provider_secret"}

Plus(lists, name, entry) == [lists EXCEPT ![name] = @ \cup {entry}]
Less(lists, name, entry) == [lists EXCEPT ![name] = @ \ {entry}]

\* The shared contracts as they are; bundle files are sources.
Surface ==
  ("wellFormed" :> {"route", "error", "webhook", "sdk", "catalog"}) @@
  ("error.optional_fields" :> {"retry_after_seconds", "details"}) @@
  ("error.forbidden_fields" :> MCCanonical) @@
  ("sdk.allowed_generation_targets" :> {"rust", "go"}) @@
  ("sdk.forbidden_values" :> MCCanonical) @@
  ("catalog.forbidden_values" :> MCCanonical) @@
  [MCDemanded EXCEPT !["route.forbidden_shapes"] = @ \cup MCCanonical,
                     !["sdk.source_contracts"] = @ \cup {SessionFile, DecisionFile},
                     !["catalog.route_definition_required_fields"] = @ \cup ExtraRouteMetadata]

\* A name added to one list after the other, and one name missing from each.
Grown ==
  {Plus(Surface, "route.required_per_route", "quota"),
   Plus(Plus(Surface, "route.required_per_route", "quota"), "catalog.route_definition_required_fields", "quota"),
   Plus(Plus(Plus(Surface, "route.required_per_route", "quota"), "sdk.required_route_metadata", "quota"),
        "catalog.route_definition_required_fields", "quota"),
   Plus(Surface, "error.required_fields", "hint"), Plus(Surface, "error.optional_fields", "hint"),
   Plus(Plus(Surface, "error.required_fields", "hint"), "sdk.required_error_metadata", "hint"),
   Plus(Surface, "webhook.required_controls", "signature"), Plus(Surface, "sdk.generation_targets", "dart"),
   Plus(Surface, "route.allowed_success_statuses", 203), Plus(Surface, "sdk.forbidden_values", "cookie_header")}

Shrunk ==
  {Less(Surface, "sdk.source_contracts", SessionFile), Less(Surface, "error.required_fields", "trace_id"),
   Less(Surface, "sdk.required_error_metadata", "trace_id"), Less(Surface, "error.forbidden_fields", "stack_trace"),
   Less(Surface, "sdk.forbidden_values", "stack_trace"), Less(Surface, "wellFormed", "sdk"),
   Less(Surface, "catalog.forbidden_values", "stack_trace"), Less(Surface, "route.allowed_methods", "PUT")}

MCSurfaces == {Surface} \cup Grown \cup Shrunk
-----------------------------------------------------------------------------
(* The product families: a few entries of each table. *)

MCReviewed ==
  [decision |-> [decision_values |-> {"allow", "deny"}, required_request_bindings |-> {"action"},
     required_response_bindings |-> {"decision"}, trusted_authority_sources |-> {"scope_from_core"},
     forbidden_request_authority_fields |-> {"subject_ref"}, forbidden_consumer_uses |-> {"as_credential"},
     forbidden_values |-> {"password"}, current_session_forbidden_fields |-> {"decision"}],
   credit |-> [operation_ids |-> {"credit.buy", "credit.return"}, checkout_states |-> {"created", "completed"},
     payment_states |-> {"pending"}, credit_issuance_states |-> {"pending"},
     return_receipt_states |-> {"available"}, non_terminal_states |-> {"created"},
     terminal_states |-> {"completed"}, required_intent_bindings |-> {"product_ref"},
     server_revalidated_claims |-> {"product_ref"}, immutable_snapshot_refs |-> {"price_snapshot_ref"},
     separated_identifiers |-> {"operation_ref"}, authoritative_payment_evidence |-> {"reconciliation"},
     authoritative_completion_evidence |-> {"payment_status_succeeded"},
     forbidden_url_values |-> {"central_session"}, forbidden_consumer_uses |-> {"arbitrary_return_url"},
     forbidden_values |-> MCCanonical, client_authority_fields |-> {"amount"},
     return_receipt_bindings |-> {"return_receipt", "product_ref"}],
   policy |-> [operation_ids |-> {"policy.resolve"}, staging_implemented_operation_ids |-> {"policy.resolve"},
     contract_only_operation_ids |-> {}, document_kinds |-> {"common"}, publication_states |-> {"draft"},
     resolution_statuses |-> {"resolved"}, change_action_classes |-> {"notice"},
     required_resolution_bindings |-> {"locale"}, server_authoritative_fields |-> {"policy_set_id"},
     forbidden_request_authority_fields |-> {"policy_set_id"},
     forbidden_consumer_uses |-> {"latest_alias_in_receipt"}, forbidden_values |-> MCCanonical],
   abuse |-> [operation_ids |-> {"abuse.redeem", "abuse.verify"}, public_operation_ids |-> {"abuse.redeem"},
     private_operation_ids |-> {"abuse.verify"}, required_binding_fields |-> {"action"},
     provider_adapter_operations |-> {"verify"}, internal_caller_families |-> {"operator_health"},
     forbidden_consumer_uses |-> {"as_payment_evidence"}],
   session |-> [token_endpoint_grant_types |-> {"authorization_code", "refresh_token"},
     required_refresh_token_exchange_bindings |-> {"refresh_token"},
     initial_token_response_optional_fields |-> {"refresh_token"},
     refresh_token_response_fields |-> {"access_token", "refresh_token"},
     revocation_token_type_hints |-> {"refresh_token"}, introspection_token_type_hints |-> {"access_token"},
     required_authorization_bindings |-> {"state"}, required_token_exchange_bindings |-> {"code_verifier"},
     required_client_registry_fields |-> {"client_id"}, required_access_decision_bindings |-> {"subject_ref"},
     invalidation_events |-> {"account_deleted"}, forbidden_consumer_uses |-> {"wildcard_redirect_uri"},
     forbidden_values |-> {"password"}],
   runtime |-> [refresh_token_required_bindings |-> {"refresh_token"},
     authorization_code_response_fields |-> {"access_token"},
     authorization_code_optional_response_fields |-> {"refresh_token"},
     refresh_token_response_fields |-> {"access_token", "refresh_token"},
     refresh_token_denial_reasons |-> {"invalid_grant"},
     revocation_token_type_hints |-> {"refresh_token"}, introspection_token_type_hints |-> {"access_token"},
     authorization_code_required_bindings |-> {"nonce"}, required_denial_reasons |-> {"access_denied"},
     forbidden_values |-> {"password"}],
   registry |-> [allowed_grant_type_sets |-> {{"authorization_code"}, {"authorization_code", "refresh_token"}},
     states |-> {"disabled", "active", "suspended", "retired"}, terminal_states |-> {"retired"},
     allowed_transitions |-> {"disabled:active"}, immutable_fields |-> {"client_id"},
     security_sensitive_fields |-> {"jwks_ref"}, required_audit_events |-> {"oidc_client.retired"},
     forbidden_values |-> {"password"}, activation_requirements |-> {"smoke_passed"}],
   link |-> [lifecycle_states |-> {"pending", "consumed"}, terminal_states |-> {"consumed"},
     required_bindings |-> {"product_ref"}, exchange_response_refs |-> {"subject_ref"},
     forbidden_values |-> {"password"}, allowed_transitions |-> {"approved:exchange:consumed"}],
   sensitive |-> [required_consumer_controls |-> {"exact_binding_match"}]]

Client ==
  [id |-> "zdp-web-public-staging", environment |-> "staging", revision |-> 1, status |-> "disabled",
   grants |-> {"authorization_code"}, activation |-> {"smoke_passed"}, sound |-> TRUE, reviewed |-> TRUE]

\* The family contracts, each with what its own validator looks at.
MCFamilies ==
  [family \in DOMAIN MCReviewed |->
     [reviewed |-> TRUE, lists |-> MCReviewed[family],
      productIdle |-> 1, centralIdle |-> 2, productAbsolute |-> 3, centralAbsolute |-> 3,
      revision |-> 1, entries |-> <<Client, [Client EXCEPT !.id = "next", !.status = "suspended"]>>]]

Secret(schema, fields, policy) ==
  [schema EXCEPT !.carriesSecret = TRUE, !.outputOnlySecret = schema.kind = "response",
                 !.secretFields = fields, !.secretPolicy = policy]

Reply(id) == [Schema(id, "response", {"done"}) EXCEPT !.sessionEffect = "none"]

Intent  == Schema(CreditIntentRequest[2], "request", {"product_ref"})
Resolve == Schema(PolicyResolveRequest[2], "request", {"locale"})

\* The other families' bundles; their routes need a key.
Served(service, owner, schemas) == [Bundle(service, schemas) EXCEPT !.owner = owner, !.key = TRUE]

Bundles(intent, receiptPolicy) ==
  (CreditFile :>
     Served("money-api", "money",
       <<intent, Reply("Bought"),
         Secret(Schema(CreditReceiptRequest[2], "request", {"return_receipt", "product_ref"}),
                {"return_receipt"}, receiptPolicy)>>)) @@
  (PolicyFile :>
     Served("core-api", "policy", <<Resolve, Schema(PolicyReceiptRequest[2], "request", {"locale"})>>)) @@
  (AbuseFile :>
     Served("abuse-api", "platform",
       <<Secret(Schema(RedeemRequest[2], "request", {"action", "challenge_response"}),
                {"challenge_response"}, "solution_input_only"),
         Secret([Reply(RedeemResponse[2]) EXCEPT !.required = {"verification_ref"},
                                                 !.properties.fields = {"verification_ref"}],
                {"verification_ref"}, "verification_output_only"),
         Secret(Schema(VerifyRequest[2], "request", {"verification_ref", "consumer_operation_ref"}),
                {"verification_ref"}, "verification_input_only"),
         Reply("Verified")>>)) @@
  (ReferralFile :>
     Served("core-api", "consent", <<Schema(ReferralRequest[2], "request", {"referral_code"}), Reply("Used")>>)) @@
  (SensitiveFile :>
     Served("core-api", "consent", <<Schema("SensitiveActionRequest", "request", {"action"})>>))

Route(id, service, owner, request, response) ==
  [Decide EXCEPT !.operationId = id, !.service = service, !.owner = owner, !.template = id,
                 !.request = request, !.response = response, !.tenant = "common_zdp_wallet"]

Routes ==
  <<Route("credit.buy", "money-api", "money", CreditIntentRequest, <<CreditFile, "Bought">>),
    Route("credit.return", "money-api", "money", CreditReceiptRequest, <<CreditFile, "Bought">>),
    [Route("abuse.redeem", "abuse-api", "platform", RedeemRequest, RedeemResponse) EXCEPT !.authRequired = FALSE],
    Route("abuse.verify", "abuse-api", "platform", VerifyRequest, <<AbuseFile, "Verified">>),
    [Route("core.referral.uses.create", "core-api", "consent", ReferralRequest, <<ReferralFile, "Used">>)
       EXCEPT !.policy = "account_and_campaign_of_code"],
    [Route("money.referral_rewards.status.get", "core-api", "consent", ReferralRequest, <<ReferralFile, "Used">>)
       EXCEPT !.policy = "session_owns_referral_use"]>>

World == [families |-> MCFamilies, routes |-> Routes, bundles |-> Bundles(Intent, "receipt_input_only")]

\* As reviewed; a decision contract that withholds more; and one flaw each.
MCRest ==
  {World,
   [World EXCEPT !.families.decision.lists.forbidden_request_authority_fields = @ \cup {"role"}],
   [World EXCEPT !.families.decision.lists.forbidden_request_authority_fields = {}],
   [World EXCEPT !.families.registry.entries[2].status = "active"],
   [World EXCEPT !.bundles = Bundles([Intent EXCEPT !.optional = {"amount"}, !.properties.fields = @ \cup {"amount"}],
                                     "receipt_input_only")],
   [World EXCEPT !.bundles = Bundles(Intent, None)],
   [World EXCEPT !.routes[3].authRequired = TRUE],
   [World EXCEPT !.routes[5].request = <<SensitiveFile, "SensitiveActionRequest">>]}
=============================================================================
