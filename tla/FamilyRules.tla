---------------------------- MODULE FamilyRules ----------------------------
(***************************************************************************)
(* The validators of the product families: what each family's own contract *)
(* file must keep, and what they ask of the routes and the schema bundles. *)
(*                                                                         *)
(* A family's contract is [reviewed, lists]: are its single values (the    *)
(* version, the owner, flags and named policies) the reviewed ones, and    *)
(* what do its lists hold.  Lists are sets; one that is compared exactly   *)
(* and names an entry twice makes its contract not reviewed.  Besides what *)
(* ContractRules knows, a route has authRequired, tenant, policy (its      *)
(* authorization policy) and reviewed (are its resource, action,           *)
(* permission and audit event the ones its family asks for), and a schema  *)
(* has secretPolicy.                                                       *)
(***************************************************************************)
EXTENDS ContractRules

CONSTANT Reviewed   \* Reviewed[family][list]: the entries in a validator's own tables

DecisionFile  == "contracts/apis/core-api/access-decision.yaml"
SessionFile   == "contracts/apis/core-api/auth-session-consumer.yaml"
CreditFile    == "contracts/apis/money-api/credit-purchase.yaml"
PolicyFile    == "contracts/apis/core-api/customer-policy-registry.yaml"
AbuseFile     == "contracts/apis/abuse-api/challenge.yaml"
ReferralFile  == "contracts/apis/core-api/referral.yaml"
SensitiveFile == "contracts/apis/core-api/sensitive-action-authorization.yaml"

\* hasExactStringValues
Exact(contract, family, names) ==
  \A name \in names : contract.lists[name] = Reviewed[family][name]

\* validateRequiredAccessDecisionValues, validateRequiredOidcValues
Complete(contract, family, names) ==
  \A name \in names : Reviewed[family][name] \subseteq contract.lists[name]

\* The routes of an operation: find() takes the first, a Map built of them the last.
Named(routes, id) == {n \in DOMAIN routes : routes[n].operationId = id}
FirstNamed(routes, id) == routes[CHOOSE n \in Named(routes, id) : \A m \in Named(routes, id) : n <= m]
LastNamed(routes, id)  == routes[CHOOSE n \in Named(routes, id) : \A m \in Named(routes, id) : m <= n]

-----------------------------------------------------------------------------
(* Access decisions *)

DecisionOperation == "core.access.authorization_decisions.create"
DecisionPath      == <<"/v1/access/authorization-decisions", <<>>>>
DecisionRequest   == <<DecisionFile, "AccessAuthorizationDecisionCreateRequest">>
DecisionResponse  == <<DecisionFile, "AccessAuthorizationDecisionCreateResponse">>
CurrentSession    == <<SessionFile, "AuthSessionCurrentGetResponse">>

\* Only the outcomes are fixed; the bindings and the fields a request may not
\* bring may grow.
DecisionContractValid(contract) ==
  /\ contract.reviewed
  /\ Exact(contract, "decision", {"decision_values"})
  /\ Complete(contract, "decision",
       {"required_request_bindings", "required_response_bindings", "trusted_authority_sources",
        "forbidden_request_authority_fields", "forbidden_consumer_uses", "forbidden_values"})

\* A denied request is a decision like any other, never a transport error.
DecisionRouteValid(routes) ==
  /\ Named(routes, DecisionOperation) # {}
  /\ LET route == FirstNamed(routes, DecisionOperation) IN
     /\ route.service = "core-api" /\ route.owner = "access" /\ route.tenant = "core_resolved_scope"
     /\ route.method = "POST" /\ Path(route) = DecisionPath /\ route.statuses = {201}
     /\ route.authRequired /\ route.reviewed
     /\ route.idempotency = "required_idempotency_key" /\ route.sessionEffect = "none"
     /\ route.request = DecisionRequest /\ route.response = DecisionResponse
     /\ route.errorCodes \cap {"access_denied", "scope_not_allowed", "consent_required"} = {}

\* Mutant of DecisionSchemasValid: an optional field may bring what only required
\* ones may not.
DecisionRequiresOnlyItsOwn(contract, bundles) ==
  /\ {DecisionRequest, DecisionResponse} \subseteq Refs(bundles)
  /\ contract.lists["required_request_bindings"] \subseteq SchemaAt(bundles, DecisionRequest).required
  /\ contract.lists["required_response_bindings"] \subseteq SchemaAt(bundles, DecisionResponse).required
  /\ contract.lists["forbidden_request_authority_fields"]
       \cap SchemaAt(bundles, DecisionRequest).required = {}

DecisionSchemasValid(contract, bundles) ==
  /\ {DecisionRequest, DecisionResponse} \subseteq Refs(bundles)
  /\ contract.lists["required_request_bindings"] \subseteq SchemaAt(bundles, DecisionRequest).required
  /\ contract.lists["required_response_bindings"] \subseteq SchemaAt(bundles, DecisionResponse).required
  /\ contract.lists["forbidden_request_authority_fields"]
       \cap Fields(SchemaAt(bundles, DecisionRequest)) = {}

\* Who somebody is says nothing of what they may do.
SessionStaysIdentity(bundles) ==
  /\ CurrentSession \in Refs(bundles)
  /\ Reviewed["decision"]["current_session_forbidden_fields"]
       \cap Fields(SchemaAt(bundles, CurrentSession)) = {}

-----------------------------------------------------------------------------
(* Credit purchases *)

CreditIntentRequest  == <<CreditFile, "CreditCheckoutIntentCreateRequest">>
CreditReceiptRequest == <<CreditFile, "CreditCheckoutReturnReceiptExchangeRequest">>

CreditContractValid(contract) ==
  /\ contract.reviewed
  /\ Exact(contract, "credit",
       {"operation_ids", "checkout_states", "payment_states", "credit_issuance_states",
        "return_receipt_states", "non_terminal_states", "terminal_states",
        "required_intent_bindings", "server_revalidated_claims", "immutable_snapshot_refs",
        "separated_identifiers", "authoritative_payment_evidence",
        "authoritative_completion_evidence", "forbidden_url_values", "forbidden_consumer_uses"})
  /\ Complete(contract, "credit", {"forbidden_values"})

CreditRoutesValid(routes) ==
  \A id \in Reviewed["credit"]["operation_ids"] :
    /\ Named(routes, id) # {}
    /\ LET route == FirstNamed(routes, id) IN
       route.service = "money-api" /\ route.owner = "money" /\ route.tenant = "common_zdp_wallet"

CreditIntentValid(bundles) ==
  /\ CreditIntentRequest \in Refs(bundles)
  /\ LET intent == SchemaAt(bundles, CreditIntentRequest) IN
     /\ intent.required = Reviewed["credit"]["required_intent_bindings"]
     /\ intent.optional = {}
     /\ Fields(intent) \cap Reviewed["credit"]["client_authority_fields"] = {}

CreditReceiptValid(bundles) ==
  /\ CreditReceiptRequest \in Refs(bundles)
  /\ LET exchange == SchemaAt(bundles, CreditReceiptRequest) IN
     /\ exchange.carriesSecret /\ exchange.secretPolicy = "receipt_input_only"
     /\ exchange.required = Reviewed["credit"]["return_receipt_bindings"]
     /\ exchange.optional = {}
     /\ exchange.secretFields = {"return_receipt"}

-----------------------------------------------------------------------------
(* Customer policies *)

PolicyResolveRequest == <<PolicyFile, "CustomerPolicySetResolveRequest">>
PolicyReceiptRequest == <<PolicyFile, "CustomerPolicyReceiptCreateRequest">>

PolicyContractValid(contract) ==
  /\ contract.reviewed
  /\ Exact(contract, "policy",
       {"operation_ids", "staging_implemented_operation_ids", "contract_only_operation_ids",
        "document_kinds", "publication_states", "resolution_statuses", "change_action_classes",
        "required_resolution_bindings", "server_authoritative_fields",
        "forbidden_request_authority_fields", "forbidden_consumer_uses"})
  /\ Complete(contract, "policy", {"forbidden_values"})

PolicyRequestsValid(bundles) ==
  /\ {PolicyResolveRequest, PolicyReceiptRequest} \subseteq Refs(bundles)
  /\ SchemaAt(bundles, PolicyResolveRequest).required
       = Reviewed["policy"]["required_resolution_bindings"]
  /\ \A ref \in {PolicyResolveRequest, PolicyReceiptRequest} :
       Fields(SchemaAt(bundles, ref))
         \cap Reviewed["policy"]["forbidden_request_authority_fields"] = {}

-----------------------------------------------------------------------------
(* Abuse challenges *)

RedeemRequest  == <<AbuseFile, "AbuseChallengeRedeemRequest">>
RedeemResponse == <<AbuseFile, "AbuseChallengeRedeemResponse">>
VerifyRequest  == <<AbuseFile, "AbuseVerificationVerifyRequest">>

AbuseContractValid(contract) ==
  /\ contract.reviewed
  /\ Exact(contract, "abuse",
       {"operation_ids", "public_operation_ids", "private_operation_ids",
        "required_binding_fields", "provider_adapter_operations", "internal_caller_families"})
  /\ Complete(contract, "abuse", {"forbidden_consumer_uses"})

\* Only issue and redeem are public.
AbuseRoutesValid(routes) ==
  \A id \in Reviewed["abuse"]["operation_ids"] :
    /\ Named(routes, id) # {}
    /\ LET route == LastNamed(routes, id) IN
       /\ route.service = "abuse-api" /\ route.owner = "platform"
       /\ route.authRequired <=> id \notin Reviewed["abuse"]["public_operation_ids"]

AbuseSchemasValid(bundles) ==
  /\ {RedeemRequest, RedeemResponse, VerifyRequest} \subseteq Refs(bundles)
  /\ LET redeem   == SchemaAt(bundles, RedeemRequest)
         redeemed == SchemaAt(bundles, RedeemResponse)
         verify   == SchemaAt(bundles, VerifyRequest)
     IN
     /\ Reviewed["abuse"]["required_binding_fields"] \subseteq redeem.required
     /\ redeem.secretPolicy = "solution_input_only" /\ "challenge_response" \in redeem.secretFields
     /\ "verification_ref" \in redeemed.required \cap redeemed.secretFields
     /\ redeemed.carriesSecret /\ redeemed.secretPolicy = "verification_output_only"
     /\ "consumer_operation_ref" \in verify.required
     /\ verify.secretPolicy = "verification_input_only" /\ "verification_ref" \in verify.secretFields

-----------------------------------------------------------------------------
(* Sign-in of products: the session handoff, the provider and its clients *)

SessionContractValid(contract) ==
  /\ contract.reviewed
  /\ Exact(contract, "session",
       {"token_endpoint_grant_types", "required_refresh_token_exchange_bindings",
        "initial_token_response_optional_fields", "refresh_token_response_fields",
        "revocation_token_type_hints", "introspection_token_type_hints"})
  /\ Complete(contract, "session",
       {"required_authorization_bindings", "required_token_exchange_bindings",
        "required_client_registry_fields", "required_access_decision_bindings",
        "invalidation_events", "forbidden_consumer_uses", "forbidden_values"})

\* The limits of a product's session are not fixed, but those of the central
\* session, which bound them, are.
ProviderRuntimeValid(contract) ==
  /\ contract.reviewed
  /\ contract.productIdle <= contract.centralIdle
  /\ contract.productAbsolute <= contract.centralAbsolute
  /\ Exact(contract, "runtime",
       {"refresh_token_required_bindings", "authorization_code_response_fields",
        "authorization_code_optional_response_fields", "refresh_token_response_fields",
        "refresh_token_denial_reasons", "revocation_token_type_hints",
        "introspection_token_type_hints"})
  /\ Complete(contract, "runtime",
       {"authorization_code_required_bindings", "required_denial_reasons", "forbidden_values"})

RegistryContractValid(contract) ==
  /\ contract.reviewed
  /\ contract.revision >= 1
  /\ Exact(contract, "registry",
       {"allowed_grant_type_sets", "states", "terminal_states", "allowed_transitions"})
  /\ Complete(contract, "registry",
       {"immutable_fields", "security_sensitive_fields", "required_audit_events",
        "forbidden_values"})

\* A client is [id, environment, revision, status, grants, activation, sound]:
\* sound says that its URIs, scopes, key set and policy references are of the
\* reviewed form.  Nobody can be active yet, with or without evidence.
ClientsValid(contract) ==
  /\ \A m, n \in DOMAIN contract.entries :
       contract.entries[m].id = contract.entries[n].id => m = n
  /\ \A n \in DOMAIN contract.entries :
       LET client == contract.entries[n] IN
       /\ client.sound
       /\ client.environment = "staging" /\ client.revision >= 1
       /\ client.status \in Reviewed["registry"]["states"] \ {"active"}
       /\ client.grants \in Reviewed["registry"]["allowed_grant_type_sets"]
       /\ Reviewed["registry"]["activation_requirements"] \subseteq client.activation

\* The reviewed first client, whose own values are as reviewed, is still disabled.
FixtureValid(contract) ==
  \E n \in DOMAIN contract.entries :
    LET client == contract.entries[n] IN
    /\ client.id = "zdp-web-public-staging" /\ client.reviewed
    /\ \A m \in 1 .. n - 1 : contract.entries[m].id # client.id
    /\ client.status = "disabled" /\ client.grants = {"authorization_code"}

-----------------------------------------------------------------------------
(* The smaller families *)

ProductLinkValid(contract) ==
  /\ contract.reviewed
  /\ Exact(contract, "link",
       {"lifecycle_states", "terminal_states", "required_bindings", "exchange_response_refs",
        "forbidden_values", "allowed_transitions"})

SensitiveActionValid(contract, routes) ==
  /\ contract.reviewed
  /\ \A n \in DOMAIN routes :
       /\ routes[n].request[1] # SensitiveFile
       /\ routes[n].response # None => routes[n].response[1] # SensitiveFile
  /\ Exact(contract, "sensitive", {"required_consumer_controls"})

ReferralRequest == <<ReferralFile, "ReferralUseCreateRequest">>

\* Is the operation there, with this authorization policy?
Authorized(routes, id, policy) == Named(routes, id) # {} /\ FirstNamed(routes, id).policy = policy

ReferralsValid(routes, bundles) ==
  /\ ReferralRequest \in Refs(bundles)
  /\ SchemaAt(bundles, ReferralRequest).required = {"referral_code"}
  /\ SchemaAt(bundles, ReferralRequest).optional = {}
  /\ Authorized(routes, "core.referral.uses.create", "account_and_campaign_of_code")
  /\ Authorized(routes, "money.referral_rewards.status.get", "session_owns_referral_use")

\* The product families' part of validateApiContracts.
FamiliesValid(families, routes, bundles) ==
  /\ DecisionContractValid(families.decision) /\ DecisionRouteValid(routes)
  /\ DecisionSchemasValid(families.decision, bundles) /\ SessionStaysIdentity(bundles)
  /\ PolicyContractValid(families.policy) /\ PolicyRequestsValid(bundles)
  /\ CreditContractValid(families.credit) /\ CreditRoutesValid(routes)
  /\ CreditIntentValid(bundles) /\ CreditReceiptValid(bundles)
  /\ AbuseContractValid(families.abuse) /\ AbuseRoutesValid(routes) /\ AbuseSchemasValid(bundles)
  /\ SessionContractValid(families.session) /\ ProviderRuntimeValid(families.runtime)
  /\ RegistryContractValid(families.registry) /\ ClientsValid(families.registry)
  /\ FixtureValid(families.registry)
  /\ ProductLinkValid(families.link)
  /\ SensitiveActionValid(families.sensitive, routes)
  /\ ReferralsValid(routes, bundles)
=============================================================================
