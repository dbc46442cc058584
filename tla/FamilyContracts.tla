-------------------------- MODULE FamilyContracts --------------------------
(***************************************************************************)
(* What the validators of the product families are for: the document that  *)
(* OpenApiBuild makes of two readings of the schema bundles.  The bundles  *)
(* of access decisions and of sessions are files of the build and may      *)
(* change under it; the other families' routes and bundles, and what the   *)
(* family contracts say, stay the same during a build and are taken from   *)
(* Rest.                                                                   *)
(***************************************************************************)
EXTENDS ExportPlan, FamilyRules

CONSTANT Rest   \* [families, routes, bundles]: contracts and the files outside Files

ASSUME RestAssumption ==
  \A rest \in Rest :
    /\ rest.routes \in Seq({rest.routes[n] : n \in DOMAIN rest.routes})
    /\ \A n \in DOMAIN rest.routes :
         /\ rest.routes[n].request \in STRING \X STRING
         /\ rest.routes[n].response \in (STRING \X STRING) \cup {None}
    /\ DOMAIN rest.bundles \cap Files = {}
    /\ \A f \in DOMAIN rest.bundles :
         LET schemas == rest.bundles[f].schemas IN schemas \in Seq({schemas[n] : n \in DOMAIN schemas})

\* The catalog's routes are a list.
ASSUME RoutesAssumption ==
  \A routes \in Catalogs \ {Unreadable} : routes \in Seq({routes[n] : n \in DOMAIN routes})

\* access-decision.ts:125, :16: the profile is that of the reviewed path, and the
\* validator's table of what a decision must be asked with is not empty.
ASSUME DecisionAssumption ==
  /\ Profile.path = DecisionPath
  /\ Reviewed["decision"]["required_request_bindings"] # {}

\* The files of two disjoint sets.
Beside(f, g) == [x \in DOMAIN f \cup DOMAIN g |-> IF x \in DOMAIN f THEN f[x] ELSE g[x]]

\* What requests may not bring and what a session may not tell, whatever else
\* their schemas have.
Withheld(families) ==
  [ref \in {DecisionRequest, CurrentSession, CreditIntentRequest, PolicyResolveRequest,
            PolicyReceiptRequest} |->
     IF ref = DecisionRequest THEN families.decision.lists["forbidden_request_authority_fields"]
     ELSE IF ref = CurrentSession THEN Reviewed["decision"]["current_session_forbidden_fields"]
     ELSE IF ref = CreditIntentRequest THEN Reviewed["credit"]["client_authority_fields"]
     ELSE Reviewed["policy"]["forbidden_request_authority_fields"]]

\* Receipts and solutions, secret wherever they appear.
Receipts ==
  [ref \in {CreditReceiptRequest, RedeemRequest, RedeemResponse, VerifyRequest} |->
     IF ref = CreditReceiptRequest THEN "return_receipt"
     ELSE IF ref = RedeemRequest THEN "challenge_response"
     ELSE "verification_ref"]

\* The names an operation refers to.
Messages(operation) ==
  ({operation.body} \cup {operation.responses[status] : status \in DOMAIN operation.responses}) \ {None}

\* Everything a build publishes, with the rest beside its own files.
AllContracts(rest) ==
  [routes |-> catalog \o rest.routes, bundles |-> Beside(first, rest.bundles),
   contents |-> Beside(second, rest.bundles)]

\* The validators and the typed registry accept all of it.
Publishes(rest) ==
  LET all == AllContracts(rest) IN
  /\ FamiliesValid(rest.families, all.routes, all.bundles)
  /\ ContractsValid(all.routes, all.bundles)
  /\ \A f \in DOMAIN rest.bundles : TypedOk(rest.bundles[f], rest.bundles[f])
  /\ ~ NamesConflict(all.bundles)

\* The components bring and tell nothing that is withheld, and hide the receipts.
ComponentsKeepAuthority(families, components) ==
  /\ \A ref \in DOMAIN Withheld(families) :
       components[ref[2]].properties \cap Withheld(families)[ref] = {}
  /\ \A ref \in DOMAIN Receipts : Receipts[ref] \in components[ref[2]].hidden
  /\ components[ReferralRequest[2]].properties = {"referral_code"}
  /\ families.decision.lists["required_response_bindings"] \subseteq components[DecisionResponse[2]].required

\* A decision is asked for at its one place and answered in one way.
AsksForDecision(place, operation) ==
  /\ place = <<Profile.path, MethodKey["POST"]>>
  /\ Profile.headers \subseteq Names(operation.headers)
  /\ operation.body = DecisionRequest[2]
  /\ DOMAIN operation.responses = {201} /\ operation.responses[201] = DecisionResponse[2]

\* Decisions are asked for nowhere else, and no operation leads to a sensitive action.
OperationKeepsAuthority(place, operation, components) ==
  /\ operation.operationId = DecisionOperation => AsksForDecision(place, operation)
  /\ \A name \in Messages(operation) : components[name].ref[1] # SensitiveFile

\* access-decision.ts:359, credit-purchase.ts:328, customer-policy-registry.ts:252,
\* referral-contracts.ts:12, sensitive-action-authorization.ts:22: what a server
\* decides stays with it in what is published, though the validators look at the
\* field lists of one reading and the document shows the properties of another.
\* No published request brings a decision, a price or a policy version, the
\* session tells no decision, receipts are marked secret, a referral has its code
\* and nothing else, a decision is asked for at its one place and answers with
\* its bindings and status 201, and no operation leads to a sensitive action.
AuthorityStaysWithTheServer ==
  Built => \A rest \in Rest :
    LET all      == AllContracts(rest)
        document == Document(all.routes, options.restricted, all.bundles, all.contents)
    IN
    Publishes(rest) =>
      /\ ComponentsKeepAuthority(rest.families, document.components)
      /\ \A place \in DOMAIN document.paths :
           OperationKeepsAuthority(place, document.paths[place], document.components)
=============================================================================
