------------------------ MODULE MCContractEvolution ------------------------
(***************************************************************************)
(* Catalogs of small contracts for ContractEvolution.  Each contract is    *)
(* Blank with one surface varied, so a run takes every sequence of         *)
(* versions of every surface; a combination of surfaces is the union of    *)
(* their changes in CompatStrategies and in the code.                      *)
(***************************************************************************)
EXTENDS ContractEvolution, FiniteSetsExt, Sequences, TLC

\* The elements of a set in some order.
Listed(S) == FoldSet(LAMBDA x, list : Append(list, x), <<>>, S)

Empty == <<>>

BlankRoute ==
  [anchor |-> "a", successStatuses |-> {"200"}, errorCodes |-> {"E1"},
   authRequired |-> FALSE, requestIdRequired |-> FALSE, traceIdRequired |-> FALSE,
   idempotency |-> [wording |-> "none", strength |-> 0], credentialPolicy |-> "p"]

BlankSchema(kind) ==
  [kind |-> kind, anchor |-> "a", secretMaterialPolicy |-> "p", required |-> {"f"},
   optional |-> {}, properties |-> Undefined, secretFields |-> {}, requestHeaders |-> Empty]

BlankBundle ==
  [anchor |-> "a", requiredMetadata |-> {"x"}, forbiddenPayload |-> {"x"},
   schemas |-> "S" :> BlankSchema("request")]

BlankCalculator ==
  [semantics |-> "a", contractVersion |-> 1, engines |-> {"x"}, errorCodes |-> {"E1"},
   inputs |-> "i" :> [required |-> TRUE, meaning |-> "a"],
   outputs |-> "o" :> [required |-> TRUE, meaning |-> "a"]]

Blank ==
  [routeContract |->
     [requestHeaders |-> Undefined, serviceRequestHeaders |-> Undefined,
      requiredPerRoute |-> {"x"}, allowed |-> {"x"}, forbiddenShapes |-> {"x"}],
   routes |-> "r" :> BlankRoute,
   bundles |-> "B" :> BlankBundle,
   requiredItems |-> {"x"}, allowedItems |-> {"x"}, forbiddenItems |-> {"x"},
   calculators |->
     [policy |-> "a", metadata |-> 1, definitions |-> "c" :> BlankCalculator, cases |-> "k" :> 1],
   oidcClientRegistry |->
     [registryRevision |-> 1, rules |-> "a", entries |-> "e" :> [entryRevision |-> 1, client |-> "a"]],
   structural |-> "a"]

-----------------------------------------------------------------------------
(* One schema varied *)

Property(type) ==
  [type |-> type, nullable |-> FALSE, format |-> Undefined, enum |-> {}, extra |-> FALSE,
   properties |-> Empty, required |-> {}, items |-> Undefined]

Strings ==
  {[Property("string") EXCEPT !.format = f, !.nullable = n] :
     f \in {Undefined, "date", "uri"}, n \in BOOLEAN}
  \cup {[Property("string") EXCEPT !.enum = e, !.nullable = n] :
          e \in {{"text"}, {"text", "word"}, {"word"}}, n \in BOOLEAN}

Numbers ==
  {[Property(t) EXCEPT !.enum = e] :
     t \in {"integer", "number"}, e \in {{}, {"one"}, {"one", "two"}}}
  \cup {[Property("number") EXCEPT !.enum = {"one", "half"}, !.nullable = TRUE]}

Functions2 ==
  {Empty} \cup {"g" :> Property(t) : t \in {"string", "integer", "number"}}
  \cup {("g" :> Property("string")) @@ ("h" :> Property("integer"))}

Objects ==
  UNION {{[Property("object") EXCEPT !.properties = ps, !.required = r, !.extra = x] :
            r \in SUBSET DOMAIN ps, x \in BOOLEAN} : ps \in Functions2}

Nested ==
  {[Property("object") EXCEPT !.properties = "g" :> o] :
     o \in {p \in Objects : p.extra = FALSE /\ Cardinality(DOMAIN p.properties) < 2}}

Arrays ==
  {[Property("array") EXCEPT !.items = p] :
     p \in {Property("string"), Property("integer"), Property("number"),
            [Property("number") EXCEPT !.nullable = TRUE]}}

\* A schema with one required field of every property, and schemas whose two
\* fields are present in every way, typed or not.
TypedSchemas(kind, properties) ==
  {[BlankSchema(kind) EXCEPT !.properties = "f" :> p] : p \in properties}

FieldSchemas(kind) ==
  UNION {{[BlankSchema(kind) EXCEPT
                  !.required = r, !.optional = o,
                  !.properties = IF t THEN [x \in r \cup o |-> Property("string")] ELSE Undefined] :
                 o \in SUBSET ({"f", "g"} \ r), t \in BOOLEAN} : r \in SUBSET {"f", "g"}}
  \cup {[BlankSchema(kind) EXCEPT !.requestHeaders = h] :
          h \in {"H" :> "always", "H" :> "never", ("H" :> "always") @@ ("I" :> "always")}}
  \cup {[BlankSchema(kind) EXCEPT !.secretMaterialPolicy = "q", !.secretFields = s] :
          s \in {{}, {"f"}}}

WithSchema(schema) == [Blank EXCEPT !.bundles["B"].schemas["S"] = schema]

ListedSchemas(schemas) == Listed({WithSchema(s) : s \in schemas})

SchemasOf(kind) ==
  ListedSchemas(TypedSchemas(kind, Strings \cup Numbers \cup {Property("boolean")}))
  \o ListedSchemas(TypedSchemas(kind, Objects))
  \o ListedSchemas(TypedSchemas(kind, Nested \cup Arrays))
  \o ListedSchemas(FieldSchemas(kind))

SchemaCatalog == SchemasOf("request") \o SchemasOf("response")

-----------------------------------------------------------------------------
(* One other surface varied *)

Idempotencies ==
  {[wording |-> "none", strength |-> 0], [wording |-> "not_required", strength |-> 0],
   [wording |-> "optional", strength |-> 1], [wording |-> "by client key", strength |-> 1],
   [wording |-> "required", strength |-> 2], [wording |-> "required per order", strength |-> 2]}

Routes ==
  {[BlankRoute EXCEPT !.anchor = a] : a \in {"a", "b"}}
  \cup {[BlankRoute EXCEPT !.successStatuses = s, !.errorCodes = e] :
          s \in {{"200"}, {"201"}, {"200", "201"}}, e \in {{}, {"E1"}, {"E1", "E2"}}}
  \cup {[BlankRoute EXCEPT !.authRequired = a, !.requestIdRequired = r, !.traceIdRequired = t] :
          a \in BOOLEAN, r \in BOOLEAN, t \in BOOLEAN}
  \cup {[BlankRoute EXCEPT !.idempotency = i, !.credentialPolicy = c] :
          i \in Idempotencies, c \in {"p", "q"}}

Items == {{}, {"x"}, {"y"}, {"x", "y"}}

Calculators ==
  {[BlankCalculator EXCEPT !.semantics = s, !.contractVersion = v] : s \in {"a", "b"}, v \in {1, 2}}
  \cup {[BlankCalculator EXCEPT !.engines = x, !.errorCodes = e] : x \in Items, e \in {{}, {"E1"}}}
  \cup {[BlankCalculator EXCEPT !.inputs["i"] = [required |-> FALSE, meaning |-> "a"]]}
  \cup {[BlankCalculator EXCEPT !.inputs = @ @@ ("j" :> [required |-> b, meaning |-> "a"])] : b \in BOOLEAN}
  \cup {[BlankCalculator EXCEPT !.outputs = @ @@ ("j" :> [required |-> b, meaning |-> "a"])] : b \in BOOLEAN}

RouteContracts ==
  {Blank, [Blank EXCEPT !.structural = "b"], [Blank EXCEPT !.routes = Empty]}
  \cup {[Blank EXCEPT !.routes["r"] = r] : r \in Routes}
  \cup {[Blank EXCEPT !.routes = @ @@ ("q" :> BlankRoute)]}
  \cup {[Blank EXCEPT !.routeContract.requestHeaders = h, !.routeContract.serviceRequestHeaders = g] :
          h \in {Undefined, "m", "n"}, g \in {Undefined, "m"}}
  \cup {[Blank EXCEPT !.routeContract.requiredPerRoute = i] : i \in Items}
  \cup {[Blank EXCEPT !.routeContract.allowed = i] : i \in Items}
  \cup {[Blank EXCEPT !.routeContract.forbiddenShapes = i] : i \in Items}
  \cup {[Blank EXCEPT !.requiredItems = i] : i \in Items}
  \cup {[Blank EXCEPT !.allowedItems = i] : i \in Items}
  \cup {[Blank EXCEPT !.forbiddenItems = i] : i \in Items}

BundleContracts ==
  {[Blank EXCEPT !.bundles["B"].anchor = "b"], [Blank EXCEPT !.bundles = Empty]}
  \cup {[Blank EXCEPT !.bundles["B"].requiredMetadata = i] : i \in Items}
  \cup {[Blank EXCEPT !.bundles["B"].forbiddenPayload = i] : i \in Items}
  \cup {[Blank EXCEPT !.bundles = @ @@ ("C" :> BlankBundle)]}
  \cup {[Blank EXCEPT !.bundles["B"].schemas = @ @@ ("T" :> BlankSchema("response"))]}

CalculatorContracts ==
  {[Blank EXCEPT !.calculators.definitions["c"] = c] : c \in Calculators}
  \cup {[Blank EXCEPT !.calculators.definitions = @ @@ ("d" :> BlankCalculator)]}
  \cup {[Blank EXCEPT !.calculators.policy = p, !.calculators.metadata = m] : p \in {"a", "b"}, m \in {1, 2}}
  \cup {[Blank EXCEPT !.calculators.cases = c] : c \in {Empty, "k" :> 2, ("k" :> 1) @@ ("l" :> 1)}}

OidcContracts ==
  {[Blank EXCEPT !.oidcClientRegistry.registryRevision = v, !.oidcClientRegistry.rules = u] :
          v \in 0 .. 3, u \in {"a", "b"}}
  \cup {[Blank EXCEPT !.oidcClientRegistry.entries["e"] = [entryRevision |-> v, client |-> u]] :
          v \in 0 .. 3, u \in {"a", "b"}}
  \cup {[Blank EXCEPT !.oidcClientRegistry.entries = @ @@ ("e2" :> [entryRevision |-> 1, client |-> "a"])]}

SurfaceCatalog ==
  Listed(RouteContracts) \o Listed(BundleContracts) \o Listed(CalculatorContracts)
  \o Listed(OidcContracts)

MCCatalogs == <<SchemaCatalog, SurfaceCatalog>>

\* The properties above by the levels below them.
Leaves ==
  Strings \cup Numbers \cup {Property("boolean"), [Property("number") EXCEPT !.nullable = TRUE]}

MCProperties ==
  [n \in 0 .. MaxDepth |->
     Leaves \cup (IF n > 0 THEN Objects \cup Arrays ELSE {}) \cup (IF n > 1 THEN Nested ELSE {})] @@ <<>>

-----------------------------------------------------------------------------
(* Message bodies *)

Value(scalar) == [scalar |-> scalar, fields |-> Empty, items |-> {}]

Scalars ==
  {Value(s) : s \in {"text", "word", "date", "uri", "one", "two", "half", "true", "null"}}

Flat(names, values) ==
  UNION {{[Value("object") EXCEPT !.fields = fs] : fs \in [d -> values]} : d \in SUBSET names}

Few == {Value(s) : s \in {"text", "one", "half", "null"}}

Values ==
  Scalars \cup Flat({"g", "h"}, Few) \cup {[Value("array") EXCEPT !.items = {s}] : s \in Few}
  \cup {[Value("object") EXCEPT !.fields = "g" :> o] : o \in Flat({"g"}, Few)}

MCPayloads ==
  {"f" :> v : v \in Values} \cup UNION {[d -> {Value("text")}] : d \in SUBSET {"f", "g", "u"}}
=============================================================================
