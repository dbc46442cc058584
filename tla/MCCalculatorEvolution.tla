----------------------- MODULE MCCalculatorEvolution -----------------------
(***************************************************************************)
(* Catalogs of calculators the validators accept, for CalculatorEvolution: *)
(* in one line of versions age varies, which counts whole years, in the    *)
(* other one discount, which has decimal places.                           *)
(***************************************************************************)
EXTENDS MCContractEvolution, CalculatorEvolution

MCReviewedIds == {"age", "discount"}

\* "bad" is a text that is no canonical decimal.
MCDecimals == "1" :> [digits |-> 1, places |-> 0] @@ "1.5" :> [digits |-> 2, places |-> 1]

Field(kind, dimension) ==
  [valueKind |-> kind, dimension |-> dimension, unitPolicy |-> "none", unitOptions |-> {},
   allowedValues |-> {}]

Enumeration(values) == [Field("enum", "dimensionless") EXCEPT !.allowedValues = values]

Measure(units) ==
  [Field("decimal", "currency") EXCEPT !.unitPolicy = "enumerated", !.unitOptions = units]

One(id, required, meaning) == id :> [required |-> required, meaning |-> meaning]

WithUnit(text, unit) == [plain |-> FALSE, text |-> text, unit |-> unit]
Whole == [integer |-> TRUE, text |-> "1", unit |-> "none"]
Text(text) == [integer |-> FALSE, text |-> text, unit |-> "none"]

Defined(id, inputs, outputs) ==
  [semantics |-> [wellFormed |-> TRUE, lifecycle |-> "reviewed", policy |-> ExpectedPolicy(id)],
   contractVersion |-> 1, engines |-> {"0.x"},
   errorCodes |-> BaseErrorCodes \cup {"unsupported_unit"}, inputs |-> inputs, outputs |-> outputs]

Fixture(id, input, places, output, error) ==
  [calculator |-> id, input |-> input, places |-> places, output |-> output, error |-> error]

-----------------------------------------------------------------------------
(* age *)

Birth == One("birth", TRUE, Field("date", "date"))
Years == One("years", TRUE, Field("integer", "duration"))
Extras == {"integer", "decimal"} \X BOOLEAN

AgeDefinitions ==
  {Defined("age", i, o) :
     i \in {Birth, Birth @@ One("mode", FALSE, Enumeration({"a"}))},
     o \in {Years} \cup {Years @@ One("extra", x[2], Field(x[1], "duration")) : x \in Extras}}

AgeInputs == {"birth" :> Plain("1"), ("birth" :> Plain("1")) @@ ("mode" :> Plain("a"))}

AgeAnswers ==
  {"years" :> Whole, ("years" :> Whole) @@ ("extra" :> Whole), ("years" :> Whole) @@ ("extra" :> Text("1"))}

AgeSuccesses ==
  {"age.s" :> Fixture("age", i, p, o, "none") : i \in AgeInputs, p \in {NotGiven, 0}, o \in AgeAnswers}

AgeErrors ==
  {"age.e" :> Fixture("age", "birth" :> Plain("bad"), p, Empty, "invalid_input") : p \in {NotGiven, 0}}

Age == Defined("age", Birth, Years)

AgeFixtures ==
  ("age.s" :> Fixture("age", "birth" :> Plain("1"), NotGiven, "years" :> Whole, "none"))
  @@ ("age.e" :> Fixture("age", "birth" :> Plain("bad"), NotGiven, Empty, "invalid_input"))

-----------------------------------------------------------------------------
(* discount *)

Price  == One("price", TRUE, Field("decimal", "currency"))
Amount == One("amount", TRUE, Field("decimal", "currency"))

DiscountDefinitions ==
  {Defined("discount", Price @@ One("mode", r, m), Amount) :
     r \in BOOLEAN, m \in {Enumeration({"a"}), Enumeration({"a", "b"}), Measure({"u"}), Measure({"u", "w"})}}
  \cup {Defined("discount", Price, Amount @@ One("extra", r, Field(k, "currency"))) :
          r \in BOOLEAN, k \in {"integer", "decimal"}}
  \cup {Defined("discount", Price, Amount)}

DiscountInputs ==
  {"price" :> Plain("1")}
  \cup {("price" :> Plain("1")) @@ ("mode" :> v) : v \in {Plain("a"), Plain("b"), WithUnit("1", "u"), WithUnit("1", "w")}}

DiscountAnswers ==
  {"amount" :> Text("1.5"), ("amount" :> Text("1.5")) @@ ("extra" :> Text("1.5")),
   ("amount" :> Text("1.5")) @@ ("extra" :> Whole)}

DiscountSuccesses ==
  {"discount.s" :> Fixture("discount", i, 1, o, "none") : i \in DiscountInputs, o \in DiscountAnswers}

SecondUnits ==
  {Empty, "discount.t" :> Fixture("discount", ("price" :> Plain("1")) @@ ("mode" :> WithUnit("1", "w")), 1,
                                  "amount" :> Text("1.5"), "none")}

DiscountErrors ==
  {"discount.e" :> Fixture("discount", "price" :> Plain("bad"), 1, Empty, "invalid_input"),
   "discount.e" :> Fixture("discount", ("price" :> Plain("1")) @@ ("mode" :> WithUnit("1", "v")), 1, Empty,
                           "unsupported_unit")}

Discount == Defined("discount", Price, Amount)

DiscountFixtures ==
  ("discount.s" :> Fixture("discount", "price" :> Plain("1"), 1, "amount" :> Text("1.5"), "none"))
  @@ ("discount.e" :> Fixture("discount", "price" :> Plain("bad"), 1, Empty, "invalid_input"))

-----------------------------------------------------------------------------

CalculatorTree(age, discount, fixtures) ==
  [policy |-> [wellFormed |-> TRUE, lists |-> FixedLists],
   metadata |-> [status |-> "draft", contractVersion |-> 1, conformanceVersion |-> 1],
   definitions |-> ("age" :> age) @@ ("discount" :> discount), cases |-> fixtures]

\* The accepted ones among some trees, as whole contracts.
Accepted(trees) == Listed({[Blank EXCEPT !.calculators = t] : t \in {u \in trees : CalculatorsValid(u)}})

AgeCatalog ==
  Accepted({CalculatorTree(d, Discount, DiscountFixtures @@ s @@ e) :
              d \in AgeDefinitions, s \in AgeSuccesses \cup {Empty}, e \in AgeErrors \cup {Empty}})

DiscountCatalog ==
  Accepted({CalculatorTree(Age, d, AgeFixtures @@ s @@ t @@ e) :
              d \in DiscountDefinitions, s \in DiscountSuccesses \cup {Empty}, t \in SecondUnits,
              e \in DiscountErrors \cup {Empty}})

MCCalculatorCatalogs == <<AgeCatalog, DiscountCatalog>>

MCAllCatalogs == MCCatalogs \o MCCalculatorCatalogs

MCCalls ==
  [input : AgeInputs \cup DiscountInputs, places : {NotGiven, 0, 1, 101}]
MCAnswers == AgeAnswers \cup DiscountAnswers
MCNoPayloads == {}
=============================================================================
