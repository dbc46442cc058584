-------------------------- MODULE CalculatorRules --------------------------
(***************************************************************************)
(* What validateCalculatorCatalog and validateCalculatorConformance accept *)
(* of the calculator catalog and of its fixtures.                          *)
(*                                                                         *)
(* calculators is the value the comparer looks at (CompatStrategies): the  *)
(* policy and metadata of both files, definitions by id and cases by id.   *)
(* Ids, versions and rules that only have to match a pattern, and lists    *)
(* without repetition, are the bit wellFormed.                             *)
(***************************************************************************)
EXTENDS Integers

CONSTANTS
  RequiredIds,   \* REQUIRED_CALCULATOR_IDS
  ReviewedIds,   \* REVIEWED_CALCULATOR_IDS
  Decimals       \* the canonical decimal texts: text -> [digits, places]

ASSUME DecimalsAssumption == \A t \in DOMAIN Decimals : Decimals[t].places \in Nat /\ Decimals[t].digits \in Nat

\* decimal_places left out; the code reads it as -1 as well.
NotGiven == -1

MaxInputDigits   == 1000
MaxDecimalPlaces == 100

BaseErrorCodes ==
  {"invalid_input", "domain_error", "limit_exceeded", "contract_mismatch",
   "precision_policy_required", "rounding_policy_required"}

\* The lists of the catalog, all of which are fixed.
FixedLists ==
  [allowed_lifecycle_statuses |-> {"draft", "reviewed", "active", "retired"},
   allowed_value_kinds |-> {"decimal", "integer", "date", "enum"},
   allowed_unit_dimensions |->
     {"dimensionless", "percent", "currency", "count", "duration", "data_size", "data_rate", "date"},
   allowed_unit_policies |-> {"none", "caller_supplied", "enumerated"},
   stable_error_codes |->
     BaseErrorCodes \cup {"denominator_zero", "non_positive_contribution_margin", "unsupported_unit",
                          "incompatible_units", "invalid_date_range"}]

-----------------------------------------------------------------------------
(* The catalog *)

\* Calculators that count whole days or years.
IsExact(id) == id \in {"date-difference", "age"}

ExpectedPolicy(id) ==
  CASE IsExact(id) -> "exact integer"
    [] ~ IsExact(id) /\ id \in ReviewedIds -> "decimal places of the caller"
    [] OTHER -> "explicit_before_active"

\* validateCalculatorField
FieldValid(lists, field) ==
  /\ field.valueKind \in lists.allowed_value_kinds
  /\ field.dimension \in lists.allowed_unit_dimensions
  /\ field.unitPolicy \in lists.allowed_unit_policies
  /\ field.unitPolicy = "enumerated" <=> field.unitOptions # {}
  /\ field.valueKind = "date" => field.dimension = "date"

\* validateCalculatorInput
InputValid(lists, field) ==
  /\ FieldValid(lists, field)
  /\ field.valueKind = "enum" <=> field.allowedValues # {}

\* validateCalculatorDefinition
DefinitionValid(calculators, id) ==
  LET definition == calculators.definitions[id]
      lists      == calculators.policy.lists
      codes      == BaseErrorCodes \ (IF IsExact(id)
                      THEN {"precision_policy_required", "rounding_policy_required"} ELSE {}) IN
  /\ id \in RequiredIds
  /\ definition.semantics.wellFormed
  /\ definition.semantics.lifecycle = IF id \in ReviewedIds THEN "reviewed" ELSE "draft"
  /\ definition.semantics.lifecycle \in lists.allowed_lifecycle_statuses
  /\ definition.semantics.policy = ExpectedPolicy(id)
  /\ definition.contractVersion = calculators.metadata.contractVersion
  /\ \A i \in DOMAIN definition.inputs : InputValid(lists, definition.inputs[i].meaning)
  /\ \A o \in DOMAIN definition.outputs : FieldValid(lists, definition.outputs[o].meaning)
  /\ codes \subseteq definition.errorCodes
  /\ definition.errorCodes \subseteq lists.stable_error_codes

\* validateCalculatorCatalog
CatalogValid(calculators) ==
  /\ calculators.policy.wellFormed
  /\ calculators.policy.lists = FixedLists
  /\ calculators.metadata.status = "draft"
  /\ RequiredIds \subseteq DOMAIN calculators.definitions
  /\ \A id \in DOMAIN calculators.definitions : DefinitionValid(calculators, id)

-----------------------------------------------------------------------------
(* A call and an answer of one calculator.  An input is a plain text or a  *)
(* text with a unit; an output is a text or an integer, with a unit.       *)

\* An input without units
Plain(text) == [plain |-> TRUE, text |-> text, unit |-> "none"]

\* validateConformanceKeys
Present(fields, given) ==
  /\ {f \in DOMAIN fields : fields[f].required} \subseteq given
  /\ given \subseteq DOMAIN fields

\* All outputs are integers: decimal places do not apply.
CountsWhole(definition) ==
  \A o \in DOMAIN definition.outputs : definition.outputs[o].meaning.valueKind = "integer"

PlacesFit(definition, places) ==
  IF CountsWhole(definition) THEN places = NotGiven ELSE places \in 0 .. MaxDecimalPlaces

\* calculatorConformanceDecimalValue
ShapeFits(field, value) == value.plain <=> field.unitPolicy = "none"

UnitFits(field, value) ==
  (field.unitPolicy = "enumerated" /\ ~ value.plain) => value.unit \in field.unitOptions

EnumFits(field, value) ==
  (field.valueKind = "enum" /\ value.plain) => value.text \in field.allowedValues

DecimalFits(field, value) ==
  (field.valueKind = "decimal" /\ ShapeFits(field, value)) =>
    value.text \in DOMAIN Decimals /\ Decimals[value.text].digits <= MaxInputDigits

Given(definition, call) == DOMAIN call.input \cap DOMAIN definition.inputs

\* The inputs whose unit the calculator does not know.
UnsupportedUnits(definition, call) ==
  {i \in Given(definition, call) : ~ UnitFits(definition.inputs[i].meaning, call.input[i])}

\* What a call has to be, whatever comes of it.
WellShaped(definition, call) ==
  /\ PlacesFit(definition, call.places)
  /\ Present(definition.inputs, DOMAIN call.input)
  /\ \A i \in Given(definition, call) : ShapeFits(definition.inputs[i].meaning, call.input[i])

\* A call the calculator has to compute.
Computable(definition, call) ==
  /\ WellShaped(definition, call)
  /\ UnsupportedUnits(definition, call) = {}
  /\ \A i \in Given(definition, call) :
       LET field == definition.inputs[i].meaning IN
       EnumFits(field, call.input[i]) /\ DecimalFits(field, call.input[i])

\* calculatorCallerSuppliedUnits
CallerUnits(definition, call) ==
  {call.input[i].unit : i \in {j \in Given(definition, call) :
     definition.inputs[j].meaning.unitPolicy = "caller_supplied" /\ ~ call.input[j].plain}}

OutputFits(definition, call, field, output) ==
  /\ IF field.valueKind = "integer" THEN output.integer
     ELSE ~ output.integer /\ output.text \in DOMAIN Decimals
            /\ Decimals[output.text].places = call.places
  /\ field.unitPolicy = "enumerated" => output.unit \in field.unitOptions
  /\ field.unitPolicy = "caller_supplied" => output.unit \in CallerUnits(definition, call)

AnswerFits(definition, call, answer) ==
  /\ Present(definition.outputs, DOMAIN answer)
  /\ \A o \in DOMAIN answer \cap DOMAIN definition.outputs :
       OutputFits(definition, call, definition.outputs[o].meaning, answer[o])

-----------------------------------------------------------------------------
(* The fixtures *)

Succeeds(fixture) == fixture.error = "none"

\* validateCalculatorConformanceCase of a known calculator: what is wrong with
\* the inputs has to be what the fixture expects.
FixtureValid(definition, fixture) ==
  /\ WellShaped(definition, fixture)
  /\ UnsupportedUnits(definition, fixture) # {} <=> fixture.error = "unsupported_unit"
  /\ \A i \in Given(definition, fixture) :
       LET field == definition.inputs[i].meaning value == fixture.input[i] IN
       /\ ~ EnumFits(field, value) => fixture.error = "invalid_input"
       /\ ~ DecimalFits(field, value) => fixture.error \in {"invalid_input", "limit_exceeded"}
  /\ IF Succeeds(fixture) THEN AnswerFits(definition, fixture, fixture.output)
     ELSE fixture.error \in definition.errorCodes

\* Mutant of Tried: fixtures of errors are enough.
TriedErrors(fixtures) == \E f \in fixtures : ~ Succeeds(f)

\* A reviewed calculator has fixtures of both outcomes.
Tried(fixtures) == (\E f \in fixtures : Succeeds(f)) /\ (\E f \in fixtures : ~ Succeeds(f))

\* Some fixture that succeeds gives input i this value.
Exercised(fixtures, i, value) ==
  \E f \in fixtures : Succeeds(f) /\ i \in DOMAIN f.input /\ f.input[i] = value

\* Every unit is in a successful fixture.  The values of an enumeration are only
\* looked at where the units are enumerated too.
UnitsTried(definition, fixtures) ==
  \A i \in {j \in DOMAIN definition.inputs : definition.inputs[j].meaning.unitPolicy = "enumerated"} :
    LET field == definition.inputs[i].meaning IN
    /\ \A u \in field.unitOptions :
         \E f \in fixtures : Succeeds(f) /\ i \in DOMAIN f.input /\ ~ f.input[i].plain /\ f.input[i].unit = u
    /\ \A v \in field.allowedValues : Exercised(fixtures, i, Plain(v))

\* The fixtures of one calculator.
FixturesOf(calculators, id) ==
  {calculators.cases[k] : k \in {l \in DOMAIN calculators.cases : calculators.cases[l].calculator = id}}

\* validateCalculatorConformance
ConformanceValid(calculators) ==
  /\ calculators.metadata.conformanceVersion = calculators.metadata.contractVersion
  /\ \A id \in ReviewedIds :
       /\ Tried(FixturesOf(calculators, id))
       /\ id \in DOMAIN calculators.definitions =>
            UnitsTried(calculators.definitions[id], FixturesOf(calculators, id))
  /\ \A k \in DOMAIN calculators.cases :
       LET id == calculators.cases[k].calculator IN
       /\ id \in DOMAIN calculators.definitions \cap ReviewedIds
       /\ FixtureValid(calculators.definitions[id], calculators.cases[k])

CalculatorsValid(calculators) == CatalogValid(calculators) /\ ConformanceValid(calculators)
=============================================================================
