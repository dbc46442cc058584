---------------------- MODULE ContractEvolutionProofs ----------------------
(***************************************************************************)
(* The promises of ContractEvolution and of CalculatorEvolution, for all   *)
(* contracts.  The inductive invariant is DirectNoHeavierThanSteps: the    *)
(* comparer reports between the version a consumer was built against and   *)
(* the one it is served nothing heavier than the steps did.  While no step *)
(* was breaking, neither is this comparison, and what it lets pass is what *)
(* the other promises need.                                                *)
(***************************************************************************)
EXTENDS CalculatorEvolution, ComparerProofs

Levels == {"patch", "feature", "breaking"}

-----------------------------------------------------------------------------
(* Types *)

LEMMA StrategyLevels ==
  /\ \A a, b : \A l, m \in Levels : SetDelta(a, b, l, m) \subseteq Levels
  /\ \A a, b : \A l \in Levels : Differs(a, b, l) \subseteq Levels
BY DEF SetDelta, Differs, Levels

LEMMA ListLevels ==
  ASSUME NEW a, NEW b
  PROVE  /\ RequiredSet(a, b) \subseteq Levels
         /\ Allowlist(a, b) \subseteq Levels
         /\ ForbiddenSet(a, b) \subseteq Levels
         /\ BreakingScalar(a, b) \subseteq Levels
         /\ RequirementBoolean(a, b) \subseteq Levels
         /\ Idempotency(a, b) \subseteq Levels
         /\ MetadataHeaders(a, b) \subseteq Levels
         /\ Revision(a, b) \subseteq Levels
         /\ RequestHeaders(a, b) \subseteq Levels
         /\ FieldChanges(a, b) \subseteq Levels
         /\ \A kind : CalculatorFields(a, b, kind) \subseteq Levels
<1>1. /\ RequiredSet(a, b) \subseteq Levels
      /\ Allowlist(a, b) \subseteq Levels
      /\ ForbiddenSet(a, b) \subseteq Levels
  BY StrategyLevels DEF RequiredSet, Allowlist, ForbiddenSet, Levels
<1>2. /\ BreakingScalar(a, b) \subseteq Levels
      /\ RequirementBoolean(a, b) \subseteq Levels
      /\ Idempotency(a, b) \subseteq Levels
      /\ MetadataHeaders(a, b) \subseteq Levels
      /\ Revision(a, b) \subseteq Levels
  BY DEF BreakingScalar, RequirementBoolean, Idempotency, MetadataHeaders, Revision, Differs, Levels
<1>3. RequestHeaders(a, b) \subseteq Levels
  BY DEF RequestHeaders, Levels
<1>4. FieldChanges(a, b) \subseteq Levels
  BY DEF FieldChanges, FieldTransition, Levels
<1>5. \A kind : CalculatorFields(a, b, kind) \subseteq Levels
  <2> SUFFICES ASSUME NEW kind PROVE CalculatorFields(a, b, kind) \subseteq Levels
    OBVIOUS
  <2>1. \A x, y : BreakingScalar(x, y) \subseteq Levels
    BY DEF BreakingScalar, Differs, Levels
  <2>2. "breaking" \in Levels /\ "feature" \in Levels
    BY DEF Levels
  <2> QED BY <2>1, <2>2 DEF CalculatorFields
<1> QED BY <1>1, <1>2, <1>3, <1>4, <1>5

LEMMA KeyedLevels ==
  ASSUME NEW a, NEW b, NEW added \in Levels, NEW entries,
         \A k \in Kept(a, b) : entries[k] \subseteq Levels
  PROVE  Keyed(a, b, added, entries) \subseteq Levels
<1>1. SetDelta(DOMAIN a, DOMAIN b, "breaking", added) \subseteq Levels
  BY StrategyLevels DEF Levels
<1> QED BY <1>1 DEF Keyed

LEMMA FieldSetLevels ==
  ASSUME NEW kind, NEW a, NEW b, NEW ra, NEW rb, NEW x
  PROVE  FieldSetChanges(kind, a, b, ra, rb, x) \subseteq Levels
<1>1. \A p : Change(p) \subseteq Levels
  BY DEF Change, Levels
<1> QED BY <1>1 DEF FieldSetChanges

LEMMA TypedLevels ==
  ASSUME NEW a, NEW b
  PROVE  TypedChanges(a, b) \subseteq Levels
<1>1. \A p : Change(p) \subseteq Levels
  BY DEF Change, Levels
<1>2. ASSUME NEW kind, NEW x, NEW y PROVE ValueChanges(kind, x, y) \subseteq Levels
  <2>1. /\ TypeChanges(kind, x, y) \subseteq Levels
        /\ FormatChanges(kind, x, y) \subseteq Levels
        /\ EnumChanges(kind, x.enum, y.enum) \subseteq Levels
    BY <1>1 DEF TypeChanges, FormatChanges, EnumChanges
  <2>2. \A p, q : FlagChanges(kind, p, q) \subseteq Levels
    BY <1>1 DEF FlagChanges
  <2>3. FieldSetChanges(kind, x.properties, y.properties, x.required, y.required, x.extra) \subseteq Levels
    BY FieldSetLevels
  <2> QED BY <2>1, <2>2, <2>3 DEF ValueChanges
<1>3. FieldSetChanges(a.kind, a.properties, b.properties, a.required, b.required, FALSE) \subseteq Levels
  BY FieldSetLevels
<1>4. "breaking" \in Levels
  BY DEF Levels
<1> DEFINE values == UNION {ValueChanges(a.kind, pair[1], pair[2]) : pair \in Compared(a.properties, b.properties)}
<1>5. values \subseteq Levels
  BY <1>2
<1> HIDE DEF values
<1>6. TypedChanges(a, b) =
        FieldSetChanges(a.kind, a.properties, b.properties, a.required, b.required, FALSE) \cup values
        \cup {l \in {"breaking"} : PairsAt(a.properties, b.properties)[MaxDepth + 1] # {}}
  BY TypedChangesIs DEF values
<1> QED BY <1>3, <1>4, <1>5, <1>6

LEMMA ContractLevels ==
  ASSUME NEW a, NEW b
  PROVE  ContractChanges(a, b) \subseteq Levels
<1> USE ListLevels
<1>1. "patch" \in Levels /\ "feature" \in Levels /\ "breaking" \in Levels
  BY DEF Levels
<1>2. ASSUME NEW x, NEW y PROVE RouteChanges(x, y) \subseteq Levels
  BY <1>1, StrategyLevels DEF RouteChanges
<1>3. RoutesChanges(a.routes, b.routes) \subseteq Levels
  BY <1>1, <1>2, KeyedLevels DEF RoutesChanges
<1>4. RouteContractChanges(a.routeContract, b.routeContract) \subseteq Levels
  BY DEF RouteContractChanges
<1>5. ASSUME NEW x, NEW y PROVE SchemaChanges(x, y) \subseteq Levels
  <2>1. SchemaProperties(x, y) \subseteq Levels
    BY <1>1, TypedLevels DEF SchemaProperties, Differs
  <2> QED BY <1>1, <2>1, StrategyLevels DEF SchemaChanges
<1>6. ASSUME NEW x, NEW y PROVE BundleChanges(x, y) \subseteq Levels
  <2> DEFINE changes == [s \in Kept(x.schemas, y.schemas) |-> SchemaChanges(x.schemas[s], y.schemas[s])]
  <2>1. Keyed(x.schemas, y.schemas, "feature", changes) \subseteq Levels
    BY <1>1, <1>5, KeyedLevels
  <2> QED BY <2>1 DEF BundleChanges
<1>7. BundlesChanges(a.bundles, b.bundles) \subseteq Levels
  BY <1>1, <1>6, KeyedLevels DEF BundlesChanges
<1>8. ASSUME NEW x, NEW y PROVE CalculatorChanges(x, y) \subseteq Levels
  BY <1>1, StrategyLevels DEF CalculatorChanges
<1>9. CalculatorsChanges(a.calculators, b.calculators) \subseteq Levels
  <2> DEFINE x == a.calculators y == b.calculators
  <2>1. Keyed(x.definitions, y.definitions, "feature",
              [c \in Kept(x.definitions, y.definitions) |-> CalculatorChanges(x.definitions[c], y.definitions[c])])
          \subseteq Levels
    BY <1>1, <1>8, KeyedLevels
  <2>2. Keyed(x.cases, y.cases, "patch",
              [c \in Kept(x.cases, y.cases) |-> BreakingScalar(x.cases[c], y.cases[c])])
          \subseteq Levels
    BY <1>1, KeyedLevels
  <2> HIDE DEF x, y
  <2>3. CalculatorsChanges(x, y) \subseteq Levels
    BY <1>1, <2>1, <2>2, StrategyLevels DEF CalculatorsChanges
  <2> QED BY <2>3 DEF x, y
<1>10. OidcRegistryChanges(a.oidcClientRegistry, b.oidcClientRegistry) \subseteq Levels
  <2> DEFINE x == a.oidcClientRegistry y == b.oidcClientRegistry
  <2>1. Keyed(x.entries, y.entries, "feature",
              [e \in Kept(x.entries, y.entries) |-> OidcEntryChanges(x.entries[e], y.entries[e])])
          \subseteq Levels
    BY <1>1, KeyedLevels DEF OidcEntryChanges
  <2> QED BY <2>1 DEF OidcRegistryChanges
<1> QED BY <1>3, <1>4, <1>7, <1>9, <1>10 DEF ContractChanges

LEMMA LevelIsLevel ==
  ASSUME NEW base, NEW head
  PROVE  LevelOf(base, head) \in ChangeLevel
BY HighestIs, ContractLevels DEF LevelOf, ContractLevel, ChangeLevel, Levels

\* The variables of ContractEvolution keep their types, for any catalogs.
THEOREM TypeCorrect == Spec => []TypeOK
<1>1. Init => TypeOK
  BY DEF Init, TypeOK, ChangeLevel
<1>2. TypeOK /\ [Next]_vars => TypeOK'
  <2> SUFFICES ASSUME TypeOK, [Next]_vars PROVE TypeOK'
    OBVIOUS
  <2>1. CASE Rebuild
    BY <2>1 DEF Rebuild, TypeOK, ChangeLevel
  <2>2. ASSUME NEW next \in Line(served), Evolve(next) PROVE TypeOK'
    <3>1. HighestLevel({worst, LevelOf(served, next)}) \in ChangeLevel
      BY HighestIs, LevelIsLevel DEF TypeOK, ChangeLevel
    <3> QED BY <2>2, <3>1 DEF Evolve, TypeOK, Line
  <2>3. CASE UNCHANGED vars
    BY <2>3 DEF vars, TypeOK
  <2> QED BY <2>1, <2>2, <2>3 DEF Next
<1> QED BY <1>1, <1>2, PTL DEF Spec

-----------------------------------------------------------------------------
(* A contract compared with itself *)

PropertiesWellFormed(properties) == \A f \in DOMAIN properties : properties[f] \in Properties[MaxDepth]

\* A property d levels down has at most MaxDepth - d levels below it.
LEMMA PairRanks ==
  ASSUME NEW a, NEW b, PropertiesWellFormed(a), PropertiesWellFormed(b)
  PROVE  \A d \in 0 .. MaxDepth : \A pair \in PairsAt(a, b)[d] :
           pair[1] \in Properties[MaxDepth - d] /\ pair[2] \in Properties[MaxDepth - d]
<1> DEFINE Ranked(d) == \A pair \in PairsAt(a, b)[d] :
                          pair[1] \in Properties[MaxDepth - d] /\ pair[2] \in Properties[MaxDepth - d]
           Reached == {d \in 0 .. MaxDepth : Ranked(d)}
<1> USE MaxDepthAssumption
<1>1. 0 \in Reached
  <2> SUFFICES ASSUME NEW pair \in PairsAt(a, b)[0]
               PROVE  pair[1] \in Properties[MaxDepth] /\ pair[2] \in Properties[MaxDepth]
    OBVIOUS
  <2>1. PICK f \in Kept(a, b) : pair = <<a[f], b[f]>>
    BY PairsAtEquation DEF PairsOf
  <2> QED BY <2>1 DEF PropertiesWellFormed, Kept
<1>2. ASSUME NEW d \in 0 .. MaxDepth - 1, d \in Reached PROVE d + 1 \in Reached
  <2> SUFFICES ASSUME NEW pair \in PairsAt(a, b)[d + 1]
               PROVE  /\ pair[1] \in Properties[MaxDepth - (d + 1)]
                      /\ pair[2] \in Properties[MaxDepth - (d + 1)]
    OBVIOUS
  <2>1. PICK above \in PairsAt(a, b)[d] : pair \in PairsBelow(above)
    BY PairsAtEquation
  <2>2. above[1] \in Properties[MaxDepth - d] /\ above[2] \in Properties[MaxDepth - d]
    BY <1>2
  <2>3. MaxDepth - d \in 0 .. MaxDepth /\ (MaxDepth - d) - 1 = MaxDepth - (d + 1)
    OBVIOUS
  <2>4. CASE above[1].type = "object" /\ above[2].type = "object"
    <3>1. PICK f \in Kept(above[1].properties, above[2].properties) :
            pair = <<above[1].properties[f], above[2].properties[f]>>
      BY <2>1, <2>4 DEF PairsBelow, PairsOf
    <3> QED BY <2>2, <2>3, <2>4, <3>1, PropertiesAssumption DEF Kept, NestsWithin
  <2>5. CASE above[1].type = "array" /\ above[2].type = "array"
    <3>1. pair = <<above[1].items, above[2].items>>
      BY <2>1, <2>5 DEF PairsBelow
    <3> QED BY <2>2, <2>3, <2>5, <3>1, PropertiesAssumption DEF NestsWithin
  <2> QED BY <2>1, <2>4, <2>5 DEF PairsBelow
<1>3. \A d \in 0 .. MaxDepth : d \in Reached
  <2> HIDE DEF Reached
  <2> QED BY <1>1, <1>2, Counting
<1> QED BY <1>3

\* compareProperty never meets its depth limit in what the export plan accepts.
LEMMA LimitNotMet ==
  ASSUME NEW a, NEW b, PropertiesWellFormed(a), PropertiesWellFormed(b)
  PROVE  PairsAt(a, b)[MaxDepth + 1] = {}
<1>1. MaxDepth \in 0 .. MaxDepth /\ MaxDepth - MaxDepth = 0
  BY MaxDepthAssumption
<1>2. PairsAt(a, b)[MaxDepth + 1] = UNION {PairsBelow(pair) : pair \in PairsAt(a, b)[MaxDepth]}
  BY <1>1, PairsAtEquation
<1>3. ASSUME NEW pair \in PairsAt(a, b)[MaxDepth] PROVE PairsBelow(pair) = {}
  <2>1. pair[1] \in Properties[0] /\ 0 \in 0 .. MaxDepth
    <3>1. pair[1] \in Properties[MaxDepth - MaxDepth]
      BY <1>1, <1>3, PairRanks
    <3> QED BY <1>1, <3>1
  <2>2. ~ (0 > 0)
    OBVIOUS
  <2>3. pair[1].type # "array" /\ (pair[1].type = "object" => DOMAIN pair[1].properties = {})
    BY <2>1, <2>2, PropertiesAssumption DEF NestsWithin
  <2> QED BY <2>3 DEF PairsBelow, PairsOf, Kept
<1> QED BY <1>2, <1>3

LEMMA SchemaWithItself ==
  ASSUME NEW a, SchemaWellFormed(a)
  PROVE  SchemaChanges(a, a) = {}
<1>1. a.properties # Undefined => PairsAt(a.properties, a.properties)[MaxDepth + 1] = {}
  BY LimitNotMet DEF SchemaWellFormed, ListsItsFields, PropertiesWellFormed
<1> QED BY <1>1, UnchangedSchema

LEMMA KeyedWithItself ==
  ASSUME NEW a, NEW added, NEW entries, \A k \in DOMAIN a : entries[k] = {}
  PROVE  Keyed(a, a, added, entries) = {}
BY DEF Keyed, Kept, SetDelta

LEMMA ContractWithItself ==
  ASSUME NEW a, WellFormed(a)
  PROVE  ContractChanges(a, a) = {}
<1> USE DEF BreakingScalar, Differs, RequiredSet, Allowlist, ForbiddenSet, SetDelta
<1>1. RouteContractChanges(a.routeContract, a.routeContract) = {}
  BY DEF RouteContractChanges, MetadataHeaders
<1>2. RoutesChanges(a.routes, a.routes) = {}
  <2>1. \A x : RouteChanges(x, x) = {}
    BY DEF RouteChanges, RequirementBoolean, Idempotency
  <2> QED BY <2>1, KeyedWithItself DEF RoutesChanges, Kept
<1>3. BundlesChanges(a.bundles, a.bundles) = {}
  <2>1. ASSUME NEW b \in DOMAIN a.bundles PROVE BundleChanges(a.bundles[b], a.bundles[b]) = {}
    <3> DEFINE x == a.bundles[b]
               changes == [s \in Kept(x.schemas, x.schemas) |-> SchemaChanges(x.schemas[s], x.schemas[s])]
    <3>1. \A s \in DOMAIN x.schemas : SchemaChanges(x.schemas[s], x.schemas[s]) = {}
      BY SchemaWithItself DEF WellFormed
    <3>2. Keyed(x.schemas, x.schemas, "feature", changes) = {}
      BY <3>1, KeyedWithItself DEF Kept
    <3> QED BY <3>2 DEF BundleChanges
  <2> QED BY <2>1, KeyedWithItself DEF BundlesChanges, Kept
<1>4. CalculatorsChanges(a.calculators, a.calculators) = {}
  <2> DEFINE x == a.calculators
             definitions == [c \in Kept(x.definitions, x.definitions) |->
                               CalculatorChanges(x.definitions[c], x.definitions[c])]
             cases == [c \in Kept(x.cases, x.cases) |-> BreakingScalar(x.cases[c], x.cases[c])]
  <2>1. \A c, kind : CalculatorFields(c, c, kind) = {}
    BY DEF CalculatorFields
  <2>2. \A c : CalculatorChanges(c, c) = {}
    BY <2>1 DEF CalculatorChanges
  <2>3. Keyed(x.definitions, x.definitions, "feature", definitions) = {}
    BY <2>2, KeyedWithItself DEF Kept
  <2>4. Keyed(x.cases, x.cases, "patch", cases) = {}
    BY KeyedWithItself DEF Kept
  <2> QED BY <2>3, <2>4 DEF CalculatorsChanges
<1>5. OidcRegistryChanges(a.oidcClientRegistry, a.oidcClientRegistry) = {}
  <2> DEFINE x == a.oidcClientRegistry
             changes == [e \in Kept(x.entries, x.entries) |-> OidcEntryChanges(x.entries[e], x.entries[e])]
  <2>1. \A e : OidcEntryChanges(e, e) = {}
    BY DEF OidcEntryChanges, Revision
  <2>2. Keyed(x.entries, x.entries, "feature", changes) = {}
    BY <2>1, KeyedWithItself DEF Kept
  <2> QED BY <2>2 DEF OidcRegistryChanges, Revision
<1> QED BY <1>1, <1>2, <1>3, <1>4, <1>5 DEF ContractChanges

-----------------------------------------------------------------------------
(* The inductive invariant *)

LEMMA LevelWithItself ==
  ASSUME NEW p \in DOMAIN Contracts
  PROVE  LevelOf(p, p) = "none"
<1>1. ContractChanges(Contracts[p], Contracts[p]) = {}
  BY ContractsAssumption, ContractWithItself
<1>2. HighestLevel({}) = "none"
  BY HighestIs
<1> QED BY <1>1, <1>2 DEF LevelOf, ContractLevel

LEMMA ContractsComparable ==
  ASSUME NEW p \in DOMAIN Contracts
  PROVE  Comparable(Contracts[p])
<1>1. WellFormed(Contracts[p])
  BY ContractsAssumption
<1> QED BY <1>1 DEF WellFormed, Comparable, Graded, Numbered

LEMMA NotBreaking ==
  ASSUME NEW a, NEW b
  PROVE  Weight(ContractLevel(a, b)) < 3 <=> "breaking" \notin ContractChanges(a, b)
BY HighestIs, ContractLevels DEF ContractLevel, Weight, Levels

\* The triangle: what a gate sees over two steps it has seen in one of them.
LEMMA LevelTriangle ==
  ASSUME NEW a \in DOMAIN Contracts, NEW b \in DOMAIN Contracts, NEW c \in DOMAIN Contracts
  PROVE  \/ Weight(LevelOf(a, c)) <= Weight(LevelOf(a, b))
         \/ Weight(LevelOf(a, c)) <= Weight(LevelOf(b, c))
<1>1. \A l : Weight(l) \in 0 .. 3
  BY DEF Weight
<1>2. CASE Weight(LevelOf(a, b)) < 3 /\ Weight(LevelOf(b, c)) < 3
  <2>1. /\ "breaking" \notin ContractChanges(Contracts[a], Contracts[b])
        /\ "breaking" \notin ContractChanges(Contracts[b], Contracts[c])
    BY <1>2, NotBreaking DEF LevelOf
  <2>2. Covered(ContractChanges(Contracts[a], Contracts[c]),
                ContractChanges(Contracts[a], Contracts[b]) \cup ContractChanges(Contracts[b], Contracts[c]))
    BY <2>1, ContractSteps, ContractsComparable
  <2> QED BY <2>2, CoveredHighest DEF LevelOf, ContractLevel
<1> QED BY <1>1, <1>2

\* ContractEvolution's DirectNoHeavierThanSteps.  compareApiContracts on the two
\* ends of any number of steps reports nothing heavier than the heaviest step:
\* a gate that looks at adjacent versions only misses nothing.
THEOREM DirectHolds == Spec => []DirectNoHeavierThanSteps
<1> DEFINE Inv == TypeOK /\ DirectNoHeavierThanSteps
<1>1. Init => Inv
  <2> SUFFICES ASSUME Init PROVE Inv
    OBVIOUS
  <2>1. LevelOf(built, served) = "none"
    BY LevelWithItself DEF Init
  <2>2. Weight("none") <= Weight("none")
    BY DEF Weight
  <2> QED BY <2>1, <2>2 DEF Init, TypeOK, ChangeLevel, DirectNoHeavierThanSteps
<1>2. Inv /\ TypeOK' /\ [Next]_vars => DirectNoHeavierThanSteps'
  <2> SUFFICES ASSUME Inv, TypeOK', [Next]_vars PROVE DirectNoHeavierThanSteps'
    OBVIOUS
  <2>1. CASE Rebuild
    <3>1. LevelOf(built', served') = "none"
      BY <2>1, LevelWithItself DEF Rebuild, TypeOK
    <3>2. Weight("none") <= Weight("none")
      BY DEF Weight
    <3>3. Weight(LevelOf(built', served')) <= Weight(worst')
      BY <2>1, <3>1, <3>2 DEF Rebuild
    <3> QED BY <3>3 DEF DirectNoHeavierThanSteps, LevelOf
  <2>2. ASSUME NEW next \in Line(served), Evolve(next) PROVE DirectNoHeavierThanSteps'
    <3>1. /\ Weight(worst) <= Weight(worst')
          /\ Weight(LevelOf(served, next)) <= Weight(worst')
      BY <2>2, HighestIs DEF Evolve
    <3>2. \/ Weight(LevelOf(built, next)) <= Weight(LevelOf(built, served))
          \/ Weight(LevelOf(built, next)) <= Weight(LevelOf(served, next))
      BY LevelTriangle DEF TypeOK, Line
    <3>3. Weight(LevelOf(built, served)) <= Weight(worst)
      BY DEF DirectNoHeavierThanSteps
    <3>4. \A l : Weight(l) \in 0 .. 3
      BY DEF Weight
    <3>5. Weight(LevelOf(built, next)) <= Weight(worst')
      BY <3>1, <3>2, <3>3, <3>4
    <3>6. Weight(LevelOf(built', served')) <= Weight(worst')
      BY <2>2, <3>5 DEF Evolve
    <3> QED BY <3>6 DEF DirectNoHeavierThanSteps, LevelOf
  <2>3. CASE UNCHANGED vars
    BY <2>3 DEF vars, DirectNoHeavierThanSteps, LevelOf
  <2> QED BY <2>1, <2>2, <2>3 DEF Next
<1>3. Spec => []TypeOK
  BY TypeCorrect
<1> QED BY <1>1, <1>2, <1>3, PTL DEF Spec

-----------------------------------------------------------------------------
(* One step that is not breaking, part by part *)

\* The parts of two contracts that the promises are about, compared on their own.
LEMMA PartsOfContract ==
  ASSUME NEW a, NEW b, NEW l, l \notin ContractChanges(a, b), l \in {"feature", "breaking"}
  PROVE  /\ l = "breaking" => DOMAIN a.routes \subseteq DOMAIN b.routes
         /\ l = "feature" => DOMAIN b.routes \subseteq DOMAIN a.routes
         /\ \A r \in Kept(a.routes, b.routes) : l \notin RouteChanges(a.routes[r], b.routes[r])
         /\ l = "breaking" => DOMAIN a.bundles \subseteq DOMAIN b.bundles
         /\ l = "feature" => DOMAIN b.bundles \subseteq DOMAIN a.bundles
         /\ \A k \in Kept(a.bundles, b.bundles) :
              LET x == a.bundles[k].schemas y == b.bundles[k].schemas IN
              /\ l = "breaking" => DOMAIN x \subseteq DOMAIN y
              /\ l = "feature" => DOMAIN y \subseteq DOMAIN x
              /\ \A s \in Kept(x, y) : l \notin SchemaChanges(x[s], y[s])
<1>1. ASSUME NEW x, NEW y, NEW entries, l \notin Keyed(x, y, "feature", entries)
      PROVE  /\ l = "breaking" => DOMAIN x \subseteq DOMAIN y
             /\ l = "feature" => DOMAIN y \subseteq DOMAIN x
             /\ \A k \in Kept(x, y) : l \notin entries[k]
  BY <1>1 DEF Keyed, SetDelta
<1>2. /\ l = "breaking" => DOMAIN a.routes \subseteq DOMAIN b.routes
      /\ l = "feature" => DOMAIN b.routes \subseteq DOMAIN a.routes
      /\ \A r \in Kept(a.routes, b.routes) : l \notin RouteChanges(a.routes[r], b.routes[r])
  <2> DEFINE entries == [r \in Kept(a.routes, b.routes) |-> RouteChanges(a.routes[r], b.routes[r])]
  <2>1. l \notin Keyed(a.routes, b.routes, "feature", entries)
    BY DEF ContractChanges, RoutesChanges
  <2>2. \A r \in Kept(a.routes, b.routes) : entries[r] = RouteChanges(a.routes[r], b.routes[r])
    OBVIOUS
  <2> HIDE DEF entries
  <2> QED BY <1>1, <2>1, <2>2
<1>3. /\ l = "breaking" => DOMAIN a.bundles \subseteq DOMAIN b.bundles
      /\ l = "feature" => DOMAIN b.bundles \subseteq DOMAIN a.bundles
      /\ \A k \in Kept(a.bundles, b.bundles) : l \notin BundleChanges(a.bundles[k], b.bundles[k])
  <2> DEFINE entries == [k \in Kept(a.bundles, b.bundles) |-> BundleChanges(a.bundles[k], b.bundles[k])]
  <2>1. l \notin Keyed(a.bundles, b.bundles, "feature", entries)
    BY DEF ContractChanges, BundlesChanges
  <2>2. \A k \in Kept(a.bundles, b.bundles) : entries[k] = BundleChanges(a.bundles[k], b.bundles[k])
    OBVIOUS
  <2> HIDE DEF entries
  <2> QED BY <1>1, <2>1, <2>2
<1>4. ASSUME NEW k \in Kept(a.bundles, b.bundles)
      PROVE  LET x == a.bundles[k].schemas y == b.bundles[k].schemas IN
             /\ l = "breaking" => DOMAIN x \subseteq DOMAIN y
             /\ l = "feature" => DOMAIN y \subseteq DOMAIN x
             /\ \A s \in Kept(x, y) : l \notin SchemaChanges(x[s], y[s])
  <2> DEFINE x == a.bundles[k].schemas
             y == b.bundles[k].schemas
             entries == [s \in Kept(x, y) |-> SchemaChanges(x[s], y[s])]
  <2>1. l \notin Keyed(x, y, "feature", entries)
    BY <1>3 DEF BundleChanges
  <2>2. \A s \in Kept(x, y) : entries[s] = SchemaChanges(x[s], y[s])
    OBVIOUS
  <2> HIDE DEF entries, x, y
  <2>3. /\ l = "breaking" => DOMAIN x \subseteq DOMAIN y
        /\ l = "feature" => DOMAIN y \subseteq DOMAIN x
        /\ \A s \in Kept(x, y) : l \notin SchemaChanges(x[s], y[s])
    BY <1>1, <2>1, <2>2
  <2> QED BY <2>3 DEF x, y
<1> QED BY <1>2, <1>3, <1>4

\* The comparison of the two ends is not heavier than the steps.
LEMMA EndsNotBreaking ==
  ASSUME TypeOK, DirectNoHeavierThanSteps, worst # "breaking"
  PROVE  "breaking" \notin ContractChanges(Contracts[built], Contracts[served])
<1>1. Weight(LevelOf(built, served)) < 3
  BY DEF TypeOK, DirectNoHeavierThanSteps, ChangeLevel, Weight
<1> QED BY <1>1, NotBreaking DEF LevelOf

\* RouteChanges without a breaking level: no header or key becomes obligatory and
\* no outcome is withdrawn.
LEMMA RouteStep ==
  ASSUME NEW old, NEW new, old.idempotency.strength \in 0 .. 2, new.idempotency.strength \in 0 .. 2,
         "breaking" \notin RouteChanges(old, new)
  PROVE  /\ old.anchor = new.anchor
         /\ \A call \in Call : Serves(old, call) => Serves(new, call)
         /\ old.successStatuses \subseteq new.successStatuses
         /\ old.errorCodes \subseteq new.errorCodes
<1>1. old.anchor = new.anchor
  BY DEF RouteChanges, BreakingScalar, Differs
<1>2. old.successStatuses \subseteq new.successStatuses /\ old.errorCodes \subseteq new.errorCodes
  BY DEF RouteChanges, Allowlist, SetDelta
<1>3. ASSUME NEW x, NEW y, "breaking" \notin RequirementBoolean(x, y) PROVE y => x
  BY <1>3 DEF RequirementBoolean, Differs
<1>4. /\ new.authRequired => old.authRequired
      /\ new.requestIdRequired => old.requestIdRequired
      /\ new.traceIdRequired => old.traceIdRequired
  BY <1>3 DEF RouteChanges
<1>5. new.idempotency.strength = 2 => old.idempotency.strength = 2
  BY DEF RouteChanges, Idempotency, Differs
<1> QED BY <1>1, <1>2, <1>4, <1>5 DEF Serves

\* ContractEvolution's CallsStillServed.  compareRoute: while no step was breaking,
\* a client's call of any route of the version it was built for is still served,
\* and the outcomes it knows are still among those announced.
THEOREM CallsHold == Spec => []CallsStillServed
<1>1. ASSUME TypeOK, DirectNoHeavierThanSteps PROVE CallsStillServed
  <2> SUFFICES ASSUME worst # "breaking", NEW r \in DOMAIN Contracts[built].routes
               PROVE  LET old == Contracts[built].routes[r] new == Contracts[served].routes[r] IN
                      /\ r \in DOMAIN Contracts[served].routes
                      /\ old.anchor = new.anchor
                      /\ \A call \in Call : Serves(old, call) => Serves(new, call)
                      /\ old.successStatuses \subseteq new.successStatuses
                      /\ old.errorCodes \subseteq new.errorCodes
    BY DEF CallsStillServed
  <2>1. "breaking" \notin ContractChanges(Contracts[built], Contracts[served])
    BY <1>1, EndsNotBreaking
  <2>2. r \in DOMAIN Contracts[served].routes
    BY <2>1, PartsOfContract
  <2>3. "breaking" \notin RouteChanges(Contracts[built].routes[r], Contracts[served].routes[r])
    BY <2>1, <2>2, PartsOfContract DEF Kept
  <2>4. /\ Contracts[built].routes[r].idempotency.strength \in 0 .. 2
        /\ Contracts[served].routes[r].idempotency.strength \in 0 .. 2
    BY <1>1, <2>2, ContractsAssumption DEF TypeOK, WellFormed
  <2> QED BY <2>2, <2>3, <2>4, RouteStep
<1>2. Spec => []TypeOK
  BY TypeCorrect
<1>3. Spec => []DirectNoHeavierThanSteps
  BY DirectHolds
<1> QED BY <1>1, <1>2, <1>3, PTL

-----------------------------------------------------------------------------
(* Values, level by level *)

LEMMA MatchesAreMatches ==
  ASSUME NEW properties, NEW body, NEW d \in 0 .. MaxDepth, NEW match \in MatchesAt(properties, body)[d]
  PROVE  match = <<match[1], match[2]>>
<1>1. CASE d = 0
  BY <1>1, MatchesAtEquation DEF MatchesOf
<1>2. CASE d # 0
  <2>1. d - 1 \in 0 .. MaxDepth - 1 /\ (d - 1) + 1 = d
    BY <1>2, MaxDepthAssumption
  <2>2. MatchesAt(properties, body)[d] = UNION {MatchesBelow(m) : m \in MatchesAt(properties, body)[d - 1]}
    BY <2>1, MatchesAtEquation
  <2>3. PICK m : match \in MatchesBelow(m)
    BY <2>2
  <2> QED BY <2>3 DEF MatchesBelow, MatchesOf
<1> QED BY <1>1, <1>2

\* A relation between properties that leads from one level of values to the next.
LeadsBelow(b, body, Related) ==
  \A d \in 0 .. MaxDepth - 1 : \A p, q, v, x, w :
    /\ <<p, q>> \in Related[d]
    /\ <<q, v>> \in MatchesAt(b, body)[d]
    /\ <<x, w>> \in MatchesBelow(<<p, v>>)
    => \E y : <<y, w>> \in MatchesBelow(<<q, v>>) /\ <<x, y>> \in Related[d + 1]

\* Such a relation relates the values of two sets of properties at every level.
LEMMA MatchesFollow ==
  ASSUME NEW a, NEW b, NEW body, NEW Related,
         \A f \in Kept(a, body) : f \in DOMAIN b /\ <<a[f], b[f]>> \in Related[0],
         LeadsBelow(b, body, Related)
  PROVE  \A d \in 0 .. MaxDepth : \A p, v : <<p, v>> \in MatchesAt(a, body)[d] =>
           \E q : <<p, q>> \in Related[d] /\ <<q, v>> \in MatchesAt(b, body)[d]
<1> DEFINE Followed(d) == \A p, v : <<p, v>> \in MatchesAt(a, body)[d] =>
                            \E q : <<p, q>> \in Related[d] /\ <<q, v>> \in MatchesAt(b, body)[d]
           Reached == {d \in 0 .. MaxDepth : Followed(d)}
<1> USE MaxDepthAssumption
<1>1. 0 \in Reached
  <2> SUFFICES Followed(0)
    <3> HIDE DEF Followed
    <3> QED OBVIOUS
  <2> SUFFICES ASSUME NEW p, NEW v, <<p, v>> \in MatchesAt(a, body)[0]
               PROVE  \E q : <<p, q>> \in Related[0] /\ <<q, v>> \in MatchesAt(b, body)[0]
    OBVIOUS
  <2>1. PICK f \in Kept(a, body) : p = a[f] /\ v = body[f]
    BY MatchesAtEquation DEF MatchesOf
  <2>2. f \in Kept(b, body) /\ <<p, b[f]>> \in Related[0]
    BY <2>1 DEF Kept
  <2>3. <<b[f], v>> \in MatchesAt(b, body)[0]
    BY <2>1, <2>2, MatchesAtEquation DEF MatchesOf
  <2> QED BY <2>2, <2>3
<1>2. ASSUME NEW d \in 0 .. MaxDepth - 1, d \in Reached PROVE d + 1 \in Reached
  <2> SUFFICES Followed(d + 1)
    <3> HIDE DEF Followed
    <3> QED OBVIOUS
  <2> SUFFICES ASSUME NEW x, NEW w, <<x, w>> \in MatchesAt(a, body)[d + 1]
               PROVE  \E y : <<x, y>> \in Related[d + 1] /\ <<y, w>> \in MatchesAt(b, body)[d + 1]
    OBVIOUS
  <2>1. PICK match \in MatchesAt(a, body)[d] : <<x, w>> \in MatchesBelow(match)
    BY MatchesAtEquation
  <2>2. d \in 0 .. MaxDepth
    OBVIOUS
  <2>3. match = <<match[1], match[2]>>
    BY <2>1, <2>2, MatchesAreMatches
  <2>4. PICK q : <<match[1], q>> \in Related[d] /\ <<q, match[2]>> \in MatchesAt(b, body)[d]
    BY <1>2, <2>3
  <2>5. <<x, w>> \in MatchesBelow(<<match[1], match[2]>>)
    BY <2>1, <2>3
  <2>6. PICK y : <<y, w>> \in MatchesBelow(<<q, match[2]>>) /\ <<x, y>> \in Related[d + 1]
    BY <2>4, <2>5 DEF LeadsBelow
  <2>7. MatchesBelow(<<q, match[2]>>) \subseteq MatchesAt(b, body)[d + 1]
    BY <2>4, MatchesAtEquation
  <2> QED BY <2>6, <2>7
<1>3. \A d \in 0 .. MaxDepth : d \in Reached
  <2> HIDE DEF Reached
  <2> QED BY <1>1, <1>2, Counting
<1> QED BY <1>3

\* Admits, one match at a time.
LEMMA AdmitsIs ==
  ASSUME NEW properties, NEW tolerant, NEW body
  PROVE  Admits(properties, tolerant, body) <=>
           \A d \in 0 .. MaxDepth : \A p, v :
             <<p, v>> \in MatchesAt(properties, body)[d] => AdmitsValue(p, tolerant, v)
<1>1. ASSUME NEW d \in 0 .. MaxDepth, NEW p, NEW v, Admits(properties, tolerant, body),
             <<p, v>> \in MatchesAt(properties, body)[d]
      PROVE  AdmitsValue(p, tolerant, v)
  <2>1. AdmitsValue(<<p, v>>[1], tolerant, <<p, v>>[2])
    BY <1>1 DEF Admits
  <2> QED BY <2>1
<1>2. ASSUME \A d \in 0 .. MaxDepth : \A p, v :
               <<p, v>> \in MatchesAt(properties, body)[d] => AdmitsValue(p, tolerant, v),
             NEW d \in 0 .. MaxDepth, NEW match \in MatchesAt(properties, body)[d]
      PROVE  AdmitsValue(match[1], tolerant, match[2])
  <2>1. match = <<match[1], match[2]>>
    BY <1>2, MatchesAreMatches
  <2> QED BY <1>2, <2>1
<1> QED BY <1>1, <1>2 DEF Admits

\* A pair of properties of a step that is not breaking.
LEMMA ComparedPair ==
  ASSUME NEW kind, NEW a, NEW b, PropertiesWellFormed(a), PropertiesWellFormed(b), StepKept(kind, a, b),
         NEW d \in 0 .. MaxDepth, NEW p, NEW q, <<p, q>> \in PairsAt(a, b)[d]
  PROVE  /\ "breaking" \notin ValueChanges(kind, p, q)
         /\ p.required \subseteq DOMAIN p.properties
         /\ q.required \subseteq DOMAIN q.properties
<1>1. <<p, q>> \in Compared(a, b)
  BY DEF Compared
<1>2. "breaking" \notin ValueChanges(kind, <<p, q>>[1], <<p, q>>[2])
  BY <1>1 DEF StepKept
<1>3. <<p, q>>[1] \in Properties[MaxDepth - d] /\ <<p, q>>[2] \in Properties[MaxDepth - d]
  BY PairRanks
<1>4. MaxDepth - d \in 0 .. MaxDepth
  BY MaxDepthAssumption
<1> QED BY <1>2, <1>3, <1>4, PropertiesAssumption DEF NestsWithin

\* comparePropertyValue for requests: the new property admits what the old did.
LEMMA RequestValue ==
  ASSUME NEW p, NEW q, NEW v, "breaking" \notin ValueChanges("request", p, q),
         q.required \subseteq DOMAIN q.properties, AdmitsValue(p, FALSE, v)
  PROVE  AdmitsValue(q, FALSE, v)
<1>1. /\ "breaking" \notin TypeChanges("request", p, q)
      /\ "breaking" \notin FormatChanges("request", p, q)
      /\ "breaking" \notin FlagChanges("request", p.nullable, q.nullable)
      /\ "breaking" \notin FlagChanges("request", p.extra, q.extra)
      /\ "breaking" \notin EnumChanges("request", p.enum, q.enum)
  BY DEF ValueChanges
<1>2. p.type = q.type \/ (p.type = "integer" /\ q.type = "number")
  BY <1>1 DEF TypeChanges, Change
<1>3. (p.nullable => q.nullable) /\ (p.extra => q.extra)
  BY <1>1 DEF FlagChanges, Change
<1>4. p.type = "object" /\ q.type = "object" =>
        FieldsAgree("request", p.properties, q.properties, p.required, q.required, p.extra)
  BY FieldSetStep DEF ValueChanges
<1>5. CASE v.scalar = "null"
  BY <1>3, <1>5 DEF AdmitsValue
<1>6. CASE v.scalar = "object"
  <2>1. p.type = "object" /\ q.type = "object"
    BY <1>2, <1>6 DEF AdmitsValue
  <2>2. q.required \subseteq p.required
    BY <1>4, <2>1 DEF FieldsAgree
  <2>3. DOMAIN p.properties \subseteq DOMAIN q.properties
    BY <1>4, <2>1 DEF FieldsAgree
  <2> QED BY <1>3, <1>6, <2>1, <2>2, <2>3 DEF AdmitsValue
<1>7. CASE v.scalar = "array"
  BY <1>2, <1>7 DEF AdmitsValue
<1>8. CASE v.scalar \notin {"null", "object", "array"}
  <2>1. v.scalar \in ScalarsOf(q.type)
    BY <1>2, <1>8 DEF AdmitsValue, ScalarsOf
  <2>2. InFormat(q, v.scalar)
    BY <1>1, <1>2, <1>8 DEF AdmitsValue, InFormat, FormatChanges, Change
  <2>3. q.enum = {} \/ v.scalar \in q.enum
    BY <1>1, <1>8 DEF AdmitsValue, EnumChanges, Change
  <2> QED BY <1>8, <2>1, <2>2, <2>3 DEF AdmitsValue
<1> QED BY <1>5, <1>6, <1>7, <1>8

\* comparePropertyValue for responses: a tolerant reader of the old property
\* understands what the new one admits.
LEMMA ResponseValue ==
  ASSUME NEW p, NEW q, NEW v, "breaking" \notin ValueChanges("response", p, q),
         p.required \subseteq DOMAIN p.properties, AdmitsValue(q, FALSE, v)
  PROVE  AdmitsValue(p, TRUE, v)
<1>1. /\ "breaking" \notin TypeChanges("response", p, q)
      /\ "breaking" \notin FormatChanges("response", p, q)
      /\ "breaking" \notin FlagChanges("response", p.nullable, q.nullable)
      /\ "breaking" \notin EnumChanges("response", p.enum, q.enum)
  BY DEF ValueChanges
<1>2. p.type = q.type \/ (p.type = "number" /\ q.type = "integer")
  BY <1>1 DEF TypeChanges, Change
<1>3. q.nullable => p.nullable
  BY <1>1 DEF FlagChanges, Change
<1>4. p.type = "object" /\ q.type = "object" =>
        FieldsAgree("response", p.properties, q.properties, p.required, q.required, p.extra)
  BY FieldSetStep DEF ValueChanges
<1>5. CASE v.scalar = "null"
  BY <1>3, <1>5 DEF AdmitsValue
<1>6. CASE v.scalar = "object"
  <2>1. p.type = "object" /\ q.type = "object"
    BY <1>2, <1>6 DEF AdmitsValue
  <2>2. p.required \subseteq q.required
    BY <1>4, <2>1 DEF FieldsAgree
  <2> QED BY <1>6, <2>1, <2>2 DEF AdmitsValue
<1>7. CASE v.scalar = "array"
  BY <1>2, <1>7 DEF AdmitsValue
<1>8. CASE v.scalar \notin {"null", "object", "array"}
  <2>1. v.scalar \in ScalarsOf(p.type)
    BY <1>2, <1>8 DEF AdmitsValue, ScalarsOf
  <2>2. InFormat(p, v.scalar)
    BY <1>1, <1>2, <1>8 DEF AdmitsValue, InFormat, FormatChanges, Change
  <2>3. p.enum = {} \/ v.scalar \in p.enum
    BY <1>1, <1>8 DEF AdmitsValue, EnumChanges, Change
  <2> QED BY <1>8, <2>1, <2>2, <2>3 DEF AdmitsValue
<1> QED BY <1>5, <1>6, <1>7, <1>8

\* Nothing reported of a pair: both properties admit the same.
LEMMA UnchangedValue ==
  ASSUME NEW kind, NEW p, NEW q, NEW v, NEW tolerant, ValueChanges(kind, p, q) = {},
         p.required \subseteq DOMAIN p.properties, q.required \subseteq DOMAIN q.properties
  PROVE  /\ AdmitsValue(p, tolerant, v) <=> AdmitsValue(q, tolerant, v)
         /\ p.type = q.type
         /\ p.type = "object" => DOMAIN p.properties = DOMAIN q.properties
<1>0. \A x : Change(x) # {}
  BY DEF Change
<1>1. /\ p.type = q.type
      /\ p.format = q.format
      /\ p.nullable = q.nullable
      /\ p.extra = q.extra
      /\ p.enum = q.enum
  BY <1>0 DEF ValueChanges, TypeChanges, FormatChanges, FlagChanges, EnumChanges
<1>2. CASE p.type = "object"
  <2>1. FieldSetChanges(kind, p.properties, q.properties, p.required, q.required, p.extra) = {}
    BY <1>1, <1>2 DEF ValueChanges
  <2>2. FieldsAgree(kind, p.properties, q.properties, p.required, q.required, p.extra)
    BY <2>1, FieldSetStep
  <2>3. ~ FieldsDiffer(p.properties, q.properties, p.required, q.required)
    BY <2>1, <2>2, FieldSetIs
  <2>4. DOMAIN p.properties = DOMAIN q.properties
    BY <2>2, <2>3 DEF FieldsAgree, FieldsDiffer
  <2>5. p.required = q.required
    BY <2>3, <2>4 DEF FieldsDiffer, Kept
  <2> QED BY <1>1, <2>4, <2>5 DEF AdmitsValue, InFormat
<1>3. CASE p.type # "object"
  BY <1>1, <1>3 DEF AdmitsValue, InFormat
<1> QED BY <1>2, <1>3

-----------------------------------------------------------------------------
(* Bodies *)

LEMMA TypedStaysTyped ==
  ASSUME NEW old, NEW new, "breaking" \notin SchemaChanges(old, new), IsTyped(old)
  PROVE  IsTyped(new) /\ "breaking" \notin TypedChanges(old, new)
BY DEF SchemaChanges, SchemaProperties, Differs, IsTyped

\* The values a request had, its successor has: a value of a new property
\* belongs to the old property compared with it.
LEMMA RequestValues ==
  ASSUME NEW a, NEW b, NEW body, PropertiesWellFormed(a), PropertiesWellFormed(b),
         StepKept("request", a, b), DOMAIN body \subseteq DOMAIN a, Admits(a, FALSE, body)
  PROVE  Admits(b, FALSE, body)
<1> DEFINE Related == [d \in 0 .. MaxDepth |-> {<<pair[2], pair[1]>> : pair \in PairsAt(a, b)[d]}]
<1> USE MaxDepthAssumption
<1>1. ASSUME NEW d \in 0 .. MaxDepth, NEW q, NEW p
      PROVE  <<q, p>> \in Related[d] <=> <<p, q>> \in PairsAt(a, b)[d]
  <2>1. ASSUME <<p, q>> \in PairsAt(a, b)[d] PROVE <<q, p>> \in Related[d]
    <3>1. <<(<<p, q>>)[2], (<<p, q>>)[1]>> \in Related[d]
      BY <2>1
    <3> QED BY <3>1
  <2>2. ASSUME <<q, p>> \in Related[d] PROVE <<p, q>> \in PairsAt(a, b)[d]
    <3>1. PICK pair \in PairsAt(a, b)[d] : <<q, p>> = <<pair[2], pair[1]>>
      BY <2>2
    <3>2. d \in 0 .. MaxDepth + 1
      OBVIOUS
    <3>3. pair = <<pair[1], pair[2]>>
      BY <3>1, <3>2, PairsArePairs
    <3> QED BY <3>1, <3>3
  <2> QED BY <2>1, <2>2
<1> HIDE DEF Related
<1>2. ASSUME NEW f \in Kept(b, body) PROVE f \in DOMAIN a /\ <<b[f], a[f]>> \in Related[0]
  <2>1. f \in Kept(a, b)
    BY DEF Kept
  <2>2. <<a[f], b[f]>> \in PairsAt(a, b)[0]
    BY <2>1, PairsAtEquation DEF PairsOf
  <2>3. 0 \in 0 .. MaxDepth
    OBVIOUS
  <2> QED BY <1>1, <2>1, <2>2, <2>3 DEF Kept
<1>3. LeadsBelow(a, body, Related)
  <2> SUFFICES ASSUME NEW d \in 0 .. MaxDepth - 1, NEW q, NEW p, NEW v, NEW x, NEW w,
                      <<q, p>> \in Related[d], <<p, v>> \in MatchesAt(a, body)[d],
                      <<x, w>> \in MatchesBelow(<<q, v>>)
               PROVE  \E y : <<y, w>> \in MatchesBelow(<<p, v>>) /\ <<x, y>> \in Related[d + 1]
    BY DEF LeadsBelow
  <2>1. d \in 0 .. MaxDepth /\ d + 1 \in 0 .. MaxDepth
    OBVIOUS
  <2>2. <<p, q>> \in PairsAt(a, b)[d]
    BY <1>1, <2>1
  <2>3. /\ "breaking" \notin ValueChanges("request", p, q)
        /\ q.required \subseteq DOMAIN q.properties
    BY <2>1, <2>2, ComparedPair
  <2>4. AdmitsValue(p, FALSE, v)
    BY <2>1, AdmitsIs
  <2>5. PairsBelow(<<p, q>>) \subseteq PairsAt(a, b)[d + 1]
    BY <2>1, <2>2, PairsAtEquation
  <2>6. ASSUME NEW y, <<y, x>> \in PairsBelow(<<p, q>>), <<y, w>> \in MatchesBelow(<<p, v>>)
        PROVE  \E z : <<z, w>> \in MatchesBelow(<<p, v>>) /\ <<x, z>> \in Related[d + 1]
    BY <1>1, <2>1, <2>5, <2>6
  <2>7. CASE v.scalar = "object" /\ q.type = "object"
    <3>1. PICK f \in Kept(q.properties, v.fields) : x = q.properties[f] /\ w = v.fields[f]
      BY <2>7 DEF MatchesBelow, MatchesOf
    <3>2. p.type = "object" /\ (p.extra \/ DOMAIN v.fields \subseteq DOMAIN p.properties)
      BY <2>4, <2>7 DEF AdmitsValue
    <3>3. FieldsAgree("request", p.properties, q.properties, p.required, q.required, p.extra)
      BY <2>3, <2>7, <3>2, FieldSetStep DEF ValueChanges
    <3>4. f \in DOMAIN p.properties
      BY <3>1, <3>2, <3>3 DEF FieldsAgree, Kept
    <3>5. <<p.properties[f], x>> \in PairsBelow(<<p, q>>)
      BY <2>7, <3>1, <3>2, <3>4 DEF PairsBelow, PairsOf, Kept
    <3>6. <<p.properties[f], w>> \in MatchesBelow(<<p, v>>)
      BY <2>7, <3>1, <3>2, <3>4 DEF MatchesBelow, MatchesOf, Kept
    <3> QED BY <2>6, <3>5, <3>6
  <2>8. CASE v.scalar = "array" /\ q.type = "array"
    <3>1. x = q.items /\ w \in v.items
      BY <2>8 DEF MatchesBelow
    <3>2. p.type = "array"
      BY <2>4, <2>8 DEF AdmitsValue
    <3>3. <<p.items, x>> \in PairsBelow(<<p, q>>) /\ <<p.items, w>> \in MatchesBelow(<<p, v>>)
      BY <2>8, <3>1, <3>2 DEF PairsBelow, MatchesBelow
    <3> QED BY <2>6, <3>3
  <2> QED BY <2>7, <2>8 DEF MatchesBelow
<1>4. \A d \in 0 .. MaxDepth : \A q, v : <<q, v>> \in MatchesAt(b, body)[d] =>
        \E p : <<q, p>> \in Related[d] /\ <<p, v>> \in MatchesAt(a, body)[d]
  BY <1>2, <1>3, MatchesFollow
<1>5. ASSUME NEW d \in 0 .. MaxDepth, NEW q, NEW v, <<q, v>> \in MatchesAt(b, body)[d]
      PROVE  AdmitsValue(q, FALSE, v)
  <2>1. PICK p : <<q, p>> \in Related[d] /\ <<p, v>> \in MatchesAt(a, body)[d]
    BY <1>4, <1>5
  <2>2. <<p, q>> \in PairsAt(a, b)[d]
    BY <1>1, <2>1
  <2>3. /\ "breaking" \notin ValueChanges("request", p, q)
        /\ q.required \subseteq DOMAIN q.properties
    BY <2>2, ComparedPair
  <2>4. AdmitsValue(p, FALSE, v)
    BY <2>1, AdmitsIs
  <2> QED BY <2>3, <2>4, RequestValue
<1> QED BY <1>5, AdmitsIs

\* The values a response may have now, a tolerant reader of its predecessor
\* understands: a value of an old property belongs to the new one.
LEMMA ResponseValues ==
  ASSUME NEW a, NEW b, NEW body, PropertiesWellFormed(a), PropertiesWellFormed(b),
         StepKept("response", a, b), Admits(b, FALSE, body)
  PROVE  Admits(a, TRUE, body)
<1> USE MaxDepthAssumption
<1> DEFINE Related == [d \in 0 .. MaxDepth |-> PairsAt(a, b)[d]]
<1>1. \A d \in 0 .. MaxDepth : Related[d] = PairsAt(a, b)[d]
  OBVIOUS
<1> HIDE DEF Related
<1>2. ASSUME NEW f \in Kept(a, body) PROVE f \in DOMAIN b /\ <<a[f], b[f]>> \in Related[0]
  <2>1. f \in Kept(a, b)
    BY DEF Kept, StepKept
  <2>2. <<a[f], b[f]>> \in PairsAt(a, b)[0]
    BY <2>1, PairsAtEquation DEF PairsOf
  <2>3. 0 \in 0 .. MaxDepth
    OBVIOUS
  <2> QED BY <1>1, <2>1, <2>2, <2>3 DEF Kept
<1>3. LeadsBelow(b, body, Related)
  <2> SUFFICES ASSUME NEW d \in 0 .. MaxDepth - 1, NEW p, NEW q, NEW v, NEW x, NEW w,
                      <<p, q>> \in Related[d], <<q, v>> \in MatchesAt(b, body)[d],
                      <<x, w>> \in MatchesBelow(<<p, v>>)
               PROVE  \E y : <<y, w>> \in MatchesBelow(<<q, v>>) /\ <<x, y>> \in Related[d + 1]
    BY DEF LeadsBelow
  <2>1. d \in 0 .. MaxDepth /\ d + 1 \in 0 .. MaxDepth
    OBVIOUS
  <2>2. <<p, q>> \in PairsAt(a, b)[d]
    BY <1>1, <2>1
  <2>3. "breaking" \notin ValueChanges("response", p, q)
    BY <2>1, <2>2, ComparedPair
  <2>4. AdmitsValue(q, FALSE, v)
    BY <2>1, AdmitsIs
  <2>5. PairsBelow(<<p, q>>) \subseteq Related[d + 1]
    BY <1>1, <2>1, <2>2, PairsAtEquation
  <2>6. CASE v.scalar = "object" /\ p.type = "object"
    <3>1. PICK f \in Kept(p.properties, v.fields) : x = p.properties[f] /\ w = v.fields[f]
      BY <2>6 DEF MatchesBelow, MatchesOf
    <3>2. q.type = "object"
      BY <2>4, <2>6 DEF AdmitsValue
    <3>3. FieldsAgree("response", p.properties, q.properties, p.required, q.required, p.extra)
      BY <2>3, <2>6, <3>2, FieldSetStep DEF ValueChanges
    <3>4. f \in DOMAIN q.properties
      BY <3>1, <3>3 DEF FieldsAgree, Kept
    <3>5. <<x, q.properties[f]>> \in PairsBelow(<<p, q>>)
      BY <2>6, <3>1, <3>2, <3>4 DEF PairsBelow, PairsOf, Kept
    <3>6. <<q.properties[f], w>> \in MatchesBelow(<<q, v>>)
      BY <2>6, <3>1, <3>2, <3>4 DEF MatchesBelow, MatchesOf, Kept
    <3> QED BY <2>5, <3>5, <3>6
  <2>7. CASE v.scalar = "array" /\ p.type = "array"
    <3>1. x = p.items /\ w \in v.items
      BY <2>7 DEF MatchesBelow
    <3>2. q.type = "array"
      BY <2>4, <2>7 DEF AdmitsValue
    <3>3. <<x, q.items>> \in PairsBelow(<<p, q>>) /\ <<q.items, w>> \in MatchesBelow(<<q, v>>)
      BY <2>7, <3>1, <3>2 DEF PairsBelow, MatchesBelow
    <3> QED BY <2>5, <3>3
  <2> QED BY <2>6, <2>7 DEF MatchesBelow
<1>4. \A d \in 0 .. MaxDepth : \A p, v : <<p, v>> \in MatchesAt(a, body)[d] =>
        \E q : <<p, q>> \in Related[d] /\ <<q, v>> \in MatchesAt(b, body)[d]
  BY <1>2, <1>3, MatchesFollow
<1>5. ASSUME NEW d \in 0 .. MaxDepth, NEW p, NEW v, <<p, v>> \in MatchesAt(a, body)[d]
      PROVE  AdmitsValue(p, TRUE, v)
  <2>1. PICK q : <<p, q>> \in PairsAt(a, b)[d] /\ <<q, v>> \in MatchesAt(b, body)[d]
    BY <1>1, <1>4, <1>5
  <2>2. /\ "breaking" \notin ValueChanges("response", p, q)
        /\ p.required \subseteq DOMAIN p.properties
    BY <2>1, ComparedPair
  <2>3. AdmitsValue(q, FALSE, v)
    BY <2>1, AdmitsIs
  <2> QED BY <2>2, <2>3, ResponseValue
<1> QED BY <1>5, AdmitsIs

\* classifySchemaFieldTransition: the fields of a schema while no step is breaking.
LEMMA FieldsStep ==
  ASSUME NEW old, NEW new, "breaking" \notin FieldChanges(old, new)
  PROVE  /\ FieldsOf(old) \subseteq FieldsOf(new)
         /\ old.kind = "request" => new.required \subseteq old.required
         /\ old.kind = "response" => old.required \subseteq new.required
<1>1. ASSUME NEW f \in FieldsOf(old) \cup FieldsOf(new), Presence(old, f) # Presence(new, f)
      PROVE  FieldTransition(old.kind, Presence(old, f), Presence(new, f)) # "breaking"
  BY <1>1 DEF FieldChanges
<1>2. ASSUME NEW f \in FieldsOf(old) PROVE f \in FieldsOf(new)
  BY <1>1 DEF FieldTransition, Presence, FieldsOf
<1>3. ASSUME old.kind = "request", NEW f \in new.required PROVE f \in old.required
  BY <1>1, <1>3 DEF FieldTransition, Presence, FieldsOf
<1>4. ASSUME old.kind = "response", NEW f \in old.required PROVE f \in new.required
  BY <1>1, <1>4 DEF FieldTransition, Presence, FieldsOf
<1> QED BY <1>2, <1>3, <1>4

LEMMA RequestStep ==
  ASSUME NEW old, NEW new, SchemaWellFormed(old), SchemaWellFormed(new), old.kind = "request",
         "breaking" \notin SchemaChanges(old, new)
  PROVE  /\ Sendable(old, FALSE, old) \subseteq Sendable(new, FALSE, old)
         /\ \A h \in DOMAIN new.requestHeaders :
              h \in DOMAIN old.requestHeaders /\ new.requestHeaders[h] = old.requestHeaders[h]
<1>1. ASSUME NEW h \in DOMAIN new.requestHeaders
      PROVE  h \in DOMAIN old.requestHeaders /\ new.requestHeaders[h] = old.requestHeaders[h]
  BY DEF SchemaChanges, RequestHeaders
<1>2. FieldsOf(old) \subseteq FieldsOf(new) /\ new.required \subseteq old.required
  BY FieldsStep DEF SchemaChanges
<1>3. ASSUME NEW body, FieldsFit(old, FALSE, body) PROVE FieldsFit(new, FALSE, body)
  BY <1>2, <1>3 DEF FieldsFit
<1>4. ASSUME NEW body, IsTyped(old), Fits(old, FALSE, body) PROVE Fits(new, FALSE, body)
  <2>1. IsTyped(new) /\ "breaking" \notin TypedChanges(old, new)
    BY <1>4, TypedStaysTyped
  <2>2. StepKept("request", old.properties, new.properties)
    BY <2>1, TypedStep
  <2>3. /\ PropertiesWellFormed(old.properties)
        /\ PropertiesWellFormed(new.properties)
        /\ DOMAIN body \subseteq DOMAIN old.properties
    BY <1>4, <2>1 DEF SchemaWellFormed, ListsItsFields, PropertiesWellFormed, IsTyped, Fits, FieldsFit
  <2>4. Admits(old.properties, FALSE, body)
    BY <1>4 DEF Fits, ValuesFit
  <2>5. Admits(new.properties, FALSE, body)
    BY <2>2, <2>3, <2>4, RequestValues
  <2> QED BY <1>3, <1>4, <2>5 DEF Fits, ValuesFit
<1> QED BY <1>1, <1>3, <1>4 DEF Sendable

LEMMA ResponseStep ==
  ASSUME NEW old, NEW new, SchemaWellFormed(old), SchemaWellFormed(new), old.kind = "response",
         "breaking" \notin SchemaChanges(old, new)
  PROVE  Sendable(new, FALSE, old) \subseteq Sendable(old, TRUE, old)
<1>1. old.required \subseteq new.required
  BY FieldsStep DEF SchemaChanges
<1>2. ASSUME NEW body, FieldsFit(new, FALSE, body) PROVE FieldsFit(old, TRUE, body)
  BY <1>1, <1>2 DEF FieldsFit
<1>3. ASSUME NEW body, IsTyped(old), Fits(new, FALSE, body) PROVE Fits(old, TRUE, body)
  <2>1. IsTyped(new) /\ "breaking" \notin TypedChanges(old, new)
    BY <1>3, TypedStaysTyped
  <2>2. StepKept("response", old.properties, new.properties)
    BY <2>1, TypedStep
  <2>3. PropertiesWellFormed(old.properties) /\ PropertiesWellFormed(new.properties)
    BY <1>3, <2>1 DEF SchemaWellFormed, ListsItsFields, PropertiesWellFormed, IsTyped
  <2>4. Admits(new.properties, FALSE, body)
    BY <1>3, <2>1 DEF Fits, ValuesFit
  <2>5. Admits(old.properties, TRUE, body)
    BY <2>2, <2>3, <2>4, ResponseValues
  <2> QED BY <1>2, <1>3, <2>5 DEF Fits, ValuesFit
<1> QED BY <1>2, <1>3 DEF Sendable

\* The schemas of two versions of which one comparison is not breaking.
LEMMA NamedSchema ==
  ASSUME NEW i \in DOMAIN Contracts, NEW name
  PROVE  name \in SchemaNames(i) <=>
           /\ name = <<name[1], name[2]>>
           /\ name[1] \in DOMAIN Contracts[i].bundles
           /\ name[2] \in DOMAIN Contracts[i].bundles[name[1]].schemas
BY DEF SchemaNames

LEMMA SchemaStep ==
  ASSUME NEW i \in DOMAIN Contracts, NEW j \in DOMAIN Contracts, NEW name \in SchemaNames(i),
         "breaking" \notin ContractChanges(Contracts[i], Contracts[j])
  PROVE  /\ name \in SchemaNames(j)
         /\ SchemaWellFormed(SchemaAt(i, name))
         /\ SchemaWellFormed(SchemaAt(j, name))
         /\ "breaking" \notin SchemaChanges(SchemaAt(i, name), SchemaAt(j, name))
         /\ "feature" \notin ContractChanges(Contracts[i], Contracts[j]) =>
              "feature" \notin SchemaChanges(SchemaAt(i, name), SchemaAt(j, name))
<1> DEFINE a == Contracts[i]
           b == Contracts[j]
           k == name[1]
           s == name[2]
<1>1. name = <<k, s>> /\ k \in DOMAIN a.bundles /\ s \in DOMAIN a.bundles[k].schemas
  BY NamedSchema
<1>2. k \in Kept(a.bundles, b.bundles)
  BY <1>1, PartsOfContract DEF Kept
<1>3. s \in Kept(a.bundles[k].schemas, b.bundles[k].schemas)
  BY <1>1, <1>2, PartsOfContract DEF Kept
<1>4. name \in SchemaNames(j)
  BY <1>1, <1>2, <1>3, NamedSchema DEF Kept
<1>5. \A l \in {"breaking", "feature"} : l \notin ContractChanges(a, b) =>
        l \notin SchemaChanges(a.bundles[k].schemas[s], b.bundles[k].schemas[s])
  BY <1>2, <1>3, PartsOfContract
<1>6. SchemaWellFormed(a.bundles[k].schemas[s]) /\ SchemaWellFormed(b.bundles[k].schemas[s])
  BY <1>2, <1>3, ContractsAssumption DEF WellFormed, Kept
<1> QED BY <1>4, <1>5, <1>6 DEF SchemaAt

\* ContractEvolution's RequestsStillAccepted.  compareSchema: while no step was
\* breaking, every request body of any shape and depth the consumer's version
\* allows is still accepted, and no header is asked for that it did not send.
THEOREM RequestsHold == Spec => []RequestsStillAccepted
<1>1. ASSUME TypeOK, DirectNoHeavierThanSteps PROVE RequestsStillAccepted
  <2> SUFFICES ASSUME worst # "breaking", NEW name \in SchemaNames(built)
               PROVE  LET old == SchemaAt(built, name) new == SchemaAt(served, name) IN
                      /\ name \in SchemaNames(served)
                      /\ old.kind = "request" =>
                           /\ Sendable(old, FALSE, old) \subseteq Sendable(new, FALSE, old)
                           /\ \A h \in DOMAIN new.requestHeaders :
                                h \in DOMAIN old.requestHeaders /\ new.requestHeaders[h] = old.requestHeaders[h]
    BY DEF RequestsStillAccepted
  <2>1. "breaking" \notin ContractChanges(Contracts[built], Contracts[served])
    BY <1>1, EndsNotBreaking
  <2>2. built \in DOMAIN Contracts /\ served \in DOMAIN Contracts
    BY <1>1 DEF TypeOK
  <2> QED BY <2>1, <2>2, SchemaStep, RequestStep
<1>2. Spec => []TypeOK
  BY TypeCorrect
<1>3. Spec => []DirectNoHeavierThanSteps
  BY DirectHolds
<1> QED BY <1>1, <1>2, <1>3, PTL

\* ContractEvolution's ResponsesStillUnderstood.  compareSchema: while no step was
\* breaking, a consumer that ignores fields it does not know understands every
\* response body of any shape and depth the service's version allows.
THEOREM ResponsesHold == Spec => []ResponsesStillUnderstood
<1>1. ASSUME TypeOK, DirectNoHeavierThanSteps PROVE ResponsesStillUnderstood
  <2> SUFFICES ASSUME worst # "breaking", NEW name \in SchemaNames(built),
                      SchemaAt(built, name).kind = "response"
               PROVE  Sendable(SchemaAt(served, name), FALSE, SchemaAt(built, name))
                        \subseteq Sendable(SchemaAt(built, name), TRUE, SchemaAt(built, name))
    BY DEF ResponsesStillUnderstood
  <2>1. "breaking" \notin ContractChanges(Contracts[built], Contracts[served])
    BY <1>1, EndsNotBreaking
  <2>2. built \in DOMAIN Contracts /\ served \in DOMAIN Contracts
    BY <1>1 DEF TypeOK
  <2> QED BY <2>1, <2>2, SchemaStep, ResponseStep
<1>2. Spec => []TypeOK
  BY TypeCorrect
<1>3. Spec => []DirectNoHeavierThanSteps
  BY DirectHolds
<1> QED BY <1>1, <1>2, <1>3, PTL

-----------------------------------------------------------------------------
(* Patches *)

LEMMA PatchedValues ==
  ASSUME NEW kind, NEW a, NEW b, PropertiesWellFormed(a), PropertiesWellFormed(b), DOMAIN a = DOMAIN b,
         \A pair \in Compared(a, b) : ValueChanges(kind, pair[1], pair[2]) = {},
         NEW body, NEW tolerant
  PROVE  Admits(a, tolerant, body) <=> Admits(b, tolerant, body)
<1> USE MaxDepthAssumption
<1> DEFINE Forth == [d \in 0 .. MaxDepth |-> PairsAt(a, b)[d]]
           Back == [d \in 0 .. MaxDepth |-> {<<pair[2], pair[1]>> : pair \in PairsAt(a, b)[d]}]
<1>1. \A d \in 0 .. MaxDepth : Forth[d] = PairsAt(a, b)[d]
  OBVIOUS
<1>2. ASSUME NEW d \in 0 .. MaxDepth, NEW q, NEW p
      PROVE  <<q, p>> \in Back[d] <=> <<p, q>> \in PairsAt(a, b)[d]
  <2>1. ASSUME <<p, q>> \in PairsAt(a, b)[d] PROVE <<q, p>> \in Back[d]
    <3>1. <<(<<p, q>>)[2], (<<p, q>>)[1]>> \in Back[d]
      BY <2>1
    <3> QED BY <3>1
  <2>2. ASSUME <<q, p>> \in Back[d] PROVE <<p, q>> \in PairsAt(a, b)[d]
    <3>1. PICK pair \in PairsAt(a, b)[d] : <<q, p>> = <<pair[2], pair[1]>>
      BY <2>2
    <3>2. d \in 0 .. MaxDepth + 1
      OBVIOUS
    <3>3. pair = <<pair[1], pair[2]>>
      BY <3>1, <3>2, PairsArePairs
    <3> QED BY <3>1, <3>3
  <2> QED BY <2>1, <2>2
<1> HIDE DEF Forth, Back
<1>3. ASSUME NEW d \in 0 .. MaxDepth, NEW p, NEW q, <<p, q>> \in PairsAt(a, b)[d]
      PROVE  /\ \A v : AdmitsValue(p, tolerant, v) <=> AdmitsValue(q, tolerant, v)
             /\ p.type = q.type
             /\ p.type = "object" => DOMAIN p.properties = DOMAIN q.properties
  <2>1. <<p, q>> \in Compared(a, b)
    BY <1>3 DEF Compared
  <2>2. ValueChanges(kind, <<p, q>>[1], <<p, q>>[2]) = {}
    BY <2>1
  <2>3. <<p, q>>[1] \in Properties[MaxDepth - d] /\ <<p, q>>[2] \in Properties[MaxDepth - d]
    BY <1>3, PairRanks
  <2>4. MaxDepth - d \in 0 .. MaxDepth
    OBVIOUS
  <2>5. p.required \subseteq DOMAIN p.properties /\ q.required \subseteq DOMAIN q.properties
    BY <2>3, <2>4, PropertiesAssumption DEF NestsWithin
  <2>6. ValueChanges(kind, p, q) = {}
    BY <2>2
  <2> QED BY <2>5, <2>6, UnchangedValue
<1>4. ASSUME NEW f \in DOMAIN a PROVE <<a[f], b[f]>> \in Forth[0] /\ <<b[f], a[f]>> \in Back[0]
  <2>1. <<a[f], b[f]>> \in PairsAt(a, b)[0] /\ 0 \in 0 .. MaxDepth
    BY PairsAtEquation DEF PairsOf, Kept
  <2> QED BY <1>1, <1>2, <2>1
<1>5. ASSUME NEW d \in 0 .. MaxDepth - 1, NEW p, NEW q, NEW v, <<p, q>> \in PairsAt(a, b)[d]
      PROVE  /\ \A x, w : <<x, w>> \in MatchesBelow(<<p, v>>) =>
                  \E y : <<y, w>> \in MatchesBelow(<<q, v>>) /\ <<x, y>> \in PairsAt(a, b)[d + 1]
             /\ \A y, w : <<y, w>> \in MatchesBelow(<<q, v>>) =>
                  \E x : <<x, w>> \in MatchesBelow(<<p, v>>) /\ <<x, y>> \in PairsAt(a, b)[d + 1]
  <2>1. d \in 0 .. MaxDepth
    OBVIOUS
  <2>2. p.type = q.type /\ (p.type = "object" => DOMAIN p.properties = DOMAIN q.properties)
    BY <1>3, <1>5, <2>1
  <2>3. PairsBelow(<<p, q>>) \subseteq PairsAt(a, b)[d + 1]
    BY <1>5, <2>1, PairsAtEquation
  <2>4. CASE v.scalar = "object" /\ p.type = "object"
    <3>1. /\ MatchesBelow(<<p, v>>) = MatchesOf(p.properties, v.fields)
          /\ MatchesBelow(<<q, v>>) = MatchesOf(q.properties, v.fields)
      BY <2>2, <2>4 DEF MatchesBelow
    <3>2. PairsBelow(<<p, q>>) = PairsOf(p.properties, q.properties)
      BY <2>2, <2>4 DEF PairsBelow
    <3>3. Kept(p.properties, v.fields) = Kept(q.properties, v.fields)
      BY <2>2, <2>4 DEF Kept
    <3>4. ASSUME NEW f \in Kept(p.properties, v.fields)
          PROVE  /\ <<p.properties[f], v.fields[f]>> \in MatchesBelow(<<p, v>>)
                 /\ <<q.properties[f], v.fields[f]>> \in MatchesBelow(<<q, v>>)
                 /\ <<p.properties[f], q.properties[f]>> \in PairsAt(a, b)[d + 1]
      <4>1. f \in Kept(p.properties, q.properties)
        BY <2>2, <2>4 DEF Kept
      <4>2. <<p.properties[f], q.properties[f]>> \in PairsBelow(<<p, q>>)
        BY <3>2, <4>1 DEF PairsOf
      <4> QED BY <2>3, <3>1, <3>3, <4>2 DEF MatchesOf
    <3>5. ASSUME NEW x, NEW w, <<x, w>> \in MatchesBelow(<<p, v>>)
          PROVE  \E y : <<y, w>> \in MatchesBelow(<<q, v>>) /\ <<x, y>> \in PairsAt(a, b)[d + 1]
      <4>1. PICK f \in Kept(p.properties, v.fields) : x = p.properties[f] /\ w = v.fields[f]
        BY <3>1, <3>5 DEF MatchesOf
      <4> QED BY <3>4, <4>1
    <3>6. ASSUME NEW y, NEW w, <<y, w>> \in MatchesBelow(<<q, v>>)
          PROVE  \E x : <<x, w>> \in MatchesBelow(<<p, v>>) /\ <<x, y>> \in PairsAt(a, b)[d + 1]
      <4>1. PICK f \in Kept(p.properties, v.fields) : y = q.properties[f] /\ w = v.fields[f]
        BY <3>1, <3>3, <3>6 DEF MatchesOf
      <4> QED BY <3>4, <4>1
    <3> QED BY <3>5, <3>6
  <2>5. CASE v.scalar = "array" /\ p.type = "array"
    <3>1. <<p.items, q.items>> \in PairsAt(a, b)[d + 1]
      BY <2>2, <2>3, <2>5 DEF PairsBelow
    <3>2. /\ MatchesBelow(<<p, v>>) = {<<p.items, item>> : item \in v.items}
          /\ MatchesBelow(<<q, v>>) = {<<q.items, item>> : item \in v.items}
      BY <2>2, <2>5 DEF MatchesBelow
    <3> QED BY <3>1, <3>2
  <2>6. CASE ~ (v.scalar = "object" /\ p.type = "object") /\ ~ (v.scalar = "array" /\ p.type = "array")
    BY <2>2, <2>6 DEF MatchesBelow
  <2> QED BY <2>4, <2>5, <2>6
<1>6. LeadsBelow(b, body, Forth) /\ LeadsBelow(a, body, Back)
  <2>1. \A d \in 0 .. MaxDepth - 1 : d \in 0 .. MaxDepth /\ d + 1 \in 0 .. MaxDepth
    OBVIOUS
  <2>2. LeadsBelow(b, body, Forth)
    <3> SUFFICES ASSUME NEW d \in 0 .. MaxDepth - 1, NEW p, NEW q, NEW v, NEW x, NEW w,
                        <<p, q>> \in Forth[d], <<x, w>> \in MatchesBelow(<<p, v>>)
                 PROVE  \E y : <<y, w>> \in MatchesBelow(<<q, v>>) /\ <<x, y>> \in Forth[d + 1]
      BY DEF LeadsBelow
    <3>1. <<p, q>> \in PairsAt(a, b)[d]
      BY <1>1, <2>1
    <3>2. PICK y : <<y, w>> \in MatchesBelow(<<q, v>>) /\ <<x, y>> \in PairsAt(a, b)[d + 1]
      BY <1>5, <3>1
    <3> QED BY <1>1, <2>1, <3>2
  <2>3. LeadsBelow(a, body, Back)
    <3> SUFFICES ASSUME NEW d \in 0 .. MaxDepth - 1, NEW q, NEW p, NEW v, NEW y, NEW w,
                        <<q, p>> \in Back[d], <<y, w>> \in MatchesBelow(<<q, v>>)
                 PROVE  \E x : <<x, w>> \in MatchesBelow(<<p, v>>) /\ <<y, x>> \in Back[d + 1]
      BY DEF LeadsBelow
    <3>1. <<p, q>> \in PairsAt(a, b)[d]
      BY <1>2, <2>1
    <3>2. PICK x : <<x, w>> \in MatchesBelow(<<p, v>>) /\ <<x, y>> \in PairsAt(a, b)[d + 1]
      BY <1>5, <3>1
    <3> QED BY <1>2, <2>1, <3>2
  <2> QED BY <2>2, <2>3
<1>7. /\ \A d \in 0 .. MaxDepth : \A p, v : <<p, v>> \in MatchesAt(a, body)[d] =>
           \E q : <<p, q>> \in Forth[d] /\ <<q, v>> \in MatchesAt(b, body)[d]
      /\ \A d \in 0 .. MaxDepth : \A q, v : <<q, v>> \in MatchesAt(b, body)[d] =>
           \E p : <<q, p>> \in Back[d] /\ <<p, v>> \in MatchesAt(a, body)[d]
  BY <1>4, <1>6, MatchesFollow DEF Kept
<1>8. ASSUME Admits(b, tolerant, body), NEW d \in 0 .. MaxDepth, NEW p, NEW v,
             <<p, v>> \in MatchesAt(a, body)[d]
      PROVE  AdmitsValue(p, tolerant, v)
  <2>1. PICK q : <<p, q>> \in PairsAt(a, b)[d] /\ <<q, v>> \in MatchesAt(b, body)[d]
    BY <1>1, <1>7, <1>8
  <2>2. AdmitsValue(q, tolerant, v)
    BY <1>8, <2>1, AdmitsIs
  <2> QED BY <1>3, <2>1, <2>2
<1>9. ASSUME Admits(a, tolerant, body), NEW d \in 0 .. MaxDepth, NEW q, NEW v,
             <<q, v>> \in MatchesAt(b, body)[d]
      PROVE  AdmitsValue(q, tolerant, v)
  <2>1. PICK p : <<p, q>> \in PairsAt(a, b)[d] /\ <<p, v>> \in MatchesAt(a, body)[d]
    BY <1>2, <1>7, <1>9
  <2>2. AdmitsValue(p, tolerant, v)
    BY <1>9, <2>1, AdmitsIs
  <2> QED BY <1>3, <2>1, <2>2
<1> QED BY <1>8, <1>9, AdmitsIs

LEMMA PatchedFields ==
  ASSUME NEW old, NEW new, FieldChanges(old, new) = {}
  PROVE  old.required = new.required /\ FieldsOf(old) = FieldsOf(new)
<1>1. \A f \in FieldsOf(old) \cup FieldsOf(new) : Presence(old, f) = Presence(new, f)
  BY DEF FieldChanges
<1>2. \A f \in old.required \cup new.required : f \in old.required /\ f \in new.required
  BY <1>1 DEF Presence, FieldsOf
<1>3. \A f \in FieldsOf(old) \cup FieldsOf(new) : f \in FieldsOf(old) /\ f \in FieldsOf(new)
  BY <1>1 DEF Presence, FieldsOf
<1> QED BY <1>2, <1>3

LEMMA PatchStep ==
  ASSUME NEW old, NEW new, SchemaWellFormed(old), SchemaWellFormed(new),
         "breaking" \notin SchemaChanges(old, new), "feature" \notin SchemaChanges(old, new),
         NEW tolerant, NEW body
  PROVE  Fits(old, tolerant, body) <=> Fits(new, tolerant, body)
<1>1. FieldChanges(old, new) = {}
  BY DEF SchemaChanges, FieldChanges, FieldTransition
<1>2. FieldsFit(old, tolerant, body) <=> FieldsFit(new, tolerant, body)
  BY <1>1, PatchedFields DEF FieldsFit
<1>3. CASE ~ IsTyped(old)
  <2>1. ~ IsTyped(new)
    BY <1>3 DEF IsTyped, SchemaChanges, SchemaProperties, Differs
  <2> QED BY <1>2, <1>3, <2>1 DEF Fits
<1>4. CASE IsTyped(old)
  <2>1. IsTyped(new) /\ "breaking" \notin TypedChanges(old, new)
    BY <1>4, TypedStaysTyped
  <2>2. "feature" \notin TypedChanges(old, new)
    BY <1>4, <2>1 DEF SchemaChanges, SchemaProperties, IsTyped
  <2>3. \A p : Change(p) \subseteq {"feature", "breaking"}
    BY DEF Change
  <2>4. ASSUME NEW x, NEW y PROVE ValueChanges(old.kind, x, y) \subseteq {"feature", "breaking"}
    <3>1. /\ TypeChanges(old.kind, x, y) \subseteq {"feature", "breaking"}
          /\ FormatChanges(old.kind, x, y) \subseteq {"feature", "breaking"}
          /\ EnumChanges(old.kind, x.enum, y.enum) \subseteq {"feature", "breaking"}
      BY <2>3 DEF TypeChanges, FormatChanges, EnumChanges
    <3>2. \A p, q : FlagChanges(old.kind, p, q) \subseteq {"feature", "breaking"}
      BY <2>3 DEF FlagChanges
    <3>3. \A r, s : FieldSetChanges(old.kind, x.properties, y.properties, r, s, x.extra)
                      \subseteq {"feature", "breaking"}
      BY <2>3 DEF FieldSetChanges
    <3> QED BY <3>1, <3>2, <3>3 DEF ValueChanges
  <2>5. ASSUME NEW pair \in Compared(old.properties, new.properties)
        PROVE  ValueChanges(old.kind, pair[1], pair[2]) = {}
    <3>1. ValueChanges(old.kind, pair[1], pair[2]) \subseteq TypedChanges(old, new)
      BY <2>5, TypedChangesIs
    <3> QED BY <2>1, <2>2, <2>4, <3>1
  <2>6. FieldsOf(old) = FieldsOf(new)
    BY <1>1, PatchedFields
  <2>7. /\ PropertiesWellFormed(old.properties)
        /\ PropertiesWellFormed(new.properties)
        /\ DOMAIN old.properties = DOMAIN new.properties
    BY <1>4, <2>1, <2>6 DEF SchemaWellFormed, ListsItsFields, PropertiesWellFormed, IsTyped
  <2>8. Admits(old.properties, tolerant, body) <=> Admits(new.properties, tolerant, body)
    BY <2>5, <2>7, PatchedValues
  <2> QED BY <1>2, <1>4, <2>1, <2>8 DEF Fits, ValuesFit
<1> QED BY <1>3, <1>4

\* ContractEvolution's PatchesChangeNoMessage.  compareApiContracts: after patches
\* only, however many, the routes have the same outcomes and the schemas the same
\* bodies of any shape and depth.
THEOREM PatchesHold == Spec => []PatchesChangeNoMessage
<1>1. ASSUME TypeOK, DirectNoHeavierThanSteps PROVE PatchesChangeNoMessage
  <2> DEFINE a == Contracts[built]
             b == Contracts[served]
  <2> SUFFICES ASSUME worst \in {"none", "patch"}
               PROVE  /\ DOMAIN a.routes = DOMAIN b.routes
                      /\ \A r \in DOMAIN a.routes : Outcomes(a.routes[r]) = Outcomes(b.routes[r])
                      /\ SchemaNames(built) = SchemaNames(served)
                      /\ \A name \in SchemaNames(built) : \A tolerant \in BOOLEAN : \A body \in Payloads :
                           Fits(SchemaAt(built, name), tolerant, body) <=> Fits(SchemaAt(served, name), tolerant, body)
    BY DEF PatchesChangeNoMessage
  <2>1. built \in DOMAIN Contracts /\ served \in DOMAIN Contracts
    BY <1>1 DEF TypeOK
  <2>2. "breaking" \notin ContractChanges(a, b) /\ "feature" \notin ContractChanges(a, b)
    <3>1. Weight(LevelOf(built, served)) <= 1
      BY <1>1 DEF DirectNoHeavierThanSteps, Weight
    <3>2. \A l \in ContractChanges(a, b) : Weight(l) <= Weight(LevelOf(built, served))
      BY HighestIs DEF LevelOf, ContractLevel
    <3>3. Weight("breaking") = 3 /\ Weight("feature") = 2
      BY DEF Weight
    <3>4. Weight(LevelOf(built, served)) \in Nat
      BY DEF Weight
    <3> QED BY <3>1, <3>2, <3>3, <3>4
  <2>3. /\ DOMAIN a.routes = DOMAIN b.routes
        /\ DOMAIN a.bundles = DOMAIN b.bundles
        /\ \A r \in Kept(a.routes, b.routes) :
             "breaking" \notin RouteChanges(a.routes[r], b.routes[r])
             /\ "feature" \notin RouteChanges(a.routes[r], b.routes[r])
        /\ \A k \in Kept(a.bundles, b.bundles) : DOMAIN a.bundles[k].schemas = DOMAIN b.bundles[k].schemas
    <3>1. \A l \in {"breaking", "feature"} :
            /\ l = "breaking" => DOMAIN a.routes \subseteq DOMAIN b.routes
            /\ l = "feature" => DOMAIN b.routes \subseteq DOMAIN a.routes
            /\ \A r \in Kept(a.routes, b.routes) : l \notin RouteChanges(a.routes[r], b.routes[r])
            /\ l = "breaking" => DOMAIN a.bundles \subseteq DOMAIN b.bundles
            /\ l = "feature" => DOMAIN b.bundles \subseteq DOMAIN a.bundles
            /\ \A k \in Kept(a.bundles, b.bundles) :
                 /\ l = "breaking" => DOMAIN a.bundles[k].schemas \subseteq DOMAIN b.bundles[k].schemas
                 /\ l = "feature" => DOMAIN b.bundles[k].schemas \subseteq DOMAIN a.bundles[k].schemas
      BY <2>2, PartsOfContract
    <3> QED BY <3>1
  <2>4. ASSUME NEW r \in DOMAIN a.routes PROVE Outcomes(a.routes[r]) = Outcomes(b.routes[r])
    <3>1. "breaking" \notin RouteChanges(a.routes[r], b.routes[r])
          /\ "feature" \notin RouteChanges(a.routes[r], b.routes[r])
      BY <2>3 DEF Kept
    <3>2. \A x, y : "breaking" \notin Allowlist(x, y) /\ "feature" \notin Allowlist(x, y) => x = y
      BY DEF Allowlist, SetDelta
    <3>3. /\ a.routes[r].successStatuses = b.routes[r].successStatuses
          /\ a.routes[r].errorCodes = b.routes[r].errorCodes
      BY <3>1, <3>2 DEF RouteChanges
    <3> QED BY <3>3 DEF Outcomes
  <2>5. SchemaNames(built) = SchemaNames(served)
    <3>1. \A name : name \in SchemaNames(built) <=> name \in SchemaNames(served)
      BY <2>1, <2>3, NamedSchema DEF Kept
    <3> QED BY <3>1 DEF SchemaNames
  <2>6. ASSUME NEW name \in SchemaNames(built), NEW tolerant \in BOOLEAN, NEW body \in Payloads
        PROVE  Fits(SchemaAt(built, name), tolerant, body) <=> Fits(SchemaAt(served, name), tolerant, body)
    BY <2>1, <2>2, SchemaStep, PatchStep
  <2> QED BY <2>3, <2>4, <2>5, <2>6
<1>2. Spec => []TypeOK
  BY TypeCorrect
<1>3. Spec => []DirectNoHeavierThanSteps
  BY DirectHolds
<1> QED BY <1>1, <1>2, <1>3, PTL

-----------------------------------------------------------------------------
(* Calculators *)

\* compareCalculators: definitions and fixtures stay, and an input or output of a
\* definition stays as it is; new inputs are optional.
LEMMA CalculatorsStep ==
  ASSUME NEW a, NEW b, "breaking" \notin ContractChanges(a, b)
  PROVE  LET old == a.calculators new == b.calculators IN
         /\ DOMAIN old.definitions \subseteq DOMAIN new.definitions
         /\ \A id \in DOMAIN old.definitions :
              LET x == old.definitions[id] y == new.definitions[id] IN
              /\ DOMAIN x.inputs \subseteq DOMAIN y.inputs
              /\ \A i \in DOMAIN x.inputs : x.inputs[i] = y.inputs[i]
              /\ \A i \in DOMAIN y.inputs \ DOMAIN x.inputs : ~ y.inputs[i].required
              /\ DOMAIN x.outputs \subseteq DOMAIN y.outputs
              /\ \A o \in DOMAIN x.outputs : x.outputs[o] = y.outputs[o]
         /\ DOMAIN old.cases \subseteq DOMAIN new.cases
         /\ \A k \in DOMAIN old.cases : old.cases[k] = new.cases[k]
<1> DEFINE old == a.calculators
           new == b.calculators
           definitions == [c \in Kept(old.definitions, new.definitions) |->
                             CalculatorChanges(old.definitions[c], new.definitions[c])]
           cases == [c \in Kept(old.cases, new.cases) |-> BreakingScalar(old.cases[c], new.cases[c])]
<1>1. /\ "breaking" \notin Keyed(old.definitions, new.definitions, "feature", definitions)
      /\ "breaking" \notin Keyed(old.cases, new.cases, "patch", cases)
  BY DEF ContractChanges, CalculatorsChanges
<1>2. ASSUME NEW x, NEW y, NEW added, NEW entries, "breaking" \notin Keyed(x, y, added, entries)
      PROVE  DOMAIN x \subseteq DOMAIN y /\ \A k \in Kept(x, y) : "breaking" \notin entries[k]
  BY <1>2 DEF Keyed, SetDelta
<1>3. /\ DOMAIN old.definitions \subseteq DOMAIN new.definitions
      /\ DOMAIN old.cases \subseteq DOMAIN new.cases
      /\ \A c \in Kept(old.definitions, new.definitions) : "breaking" \notin definitions[c]
      /\ \A c \in Kept(old.cases, new.cases) : "breaking" \notin cases[c]
  <2> HIDE DEF old, new, definitions, cases
  <2> QED BY <1>1, <1>2
<1>4. ASSUME NEW k \in DOMAIN old.cases PROVE old.cases[k] = new.cases[k]
  <2>1. k \in Kept(old.cases, new.cases)
    BY <1>3 DEF Kept
  <2>2. "breaking" \notin BreakingScalar(old.cases[k], new.cases[k])
    BY <1>3, <2>1
  <2> QED BY <2>2, ScalarStep
<1>5. ASSUME NEW x, NEW y, NEW kind, "breaking" \notin CalculatorFields(x, y, kind)
      PROVE  /\ DOMAIN x \subseteq DOMAIN y
             /\ \A k \in DOMAIN x : x[k] = y[k]
             /\ kind = "INPUT" => \A k \in DOMAIN y \ DOMAIN x : ~ y[k].required
  BY <1>5 DEF CalculatorFields, BreakingScalar, Differs
<1>6. ASSUME NEW id \in DOMAIN old.definitions
      PROVE  LET x == old.definitions[id] y == new.definitions[id] IN
             /\ "breaking" \notin CalculatorFields(x.inputs, y.inputs, "INPUT")
             /\ "breaking" \notin CalculatorFields(x.outputs, y.outputs, "OUTPUT")
  <2>1. id \in Kept(old.definitions, new.definitions)
    BY <1>3 DEF Kept
  <2>2. "breaking" \notin CalculatorChanges(old.definitions[id], new.definitions[id])
    BY <1>3, <2>1
  <2> QED BY <2>2 DEF CalculatorChanges
<1> HIDE DEF definitions, cases, old, new
<1>7. /\ DOMAIN old.definitions \subseteq DOMAIN new.definitions
      /\ \A id \in DOMAIN old.definitions :
           LET x == old.definitions[id] y == new.definitions[id] IN
           /\ DOMAIN x.inputs \subseteq DOMAIN y.inputs
           /\ \A i \in DOMAIN x.inputs : x.inputs[i] = y.inputs[i]
           /\ \A i \in DOMAIN y.inputs \ DOMAIN x.inputs : ~ y.inputs[i].required
           /\ DOMAIN x.outputs \subseteq DOMAIN y.outputs
           /\ \A o \in DOMAIN x.outputs : x.outputs[o] = y.outputs[o]
      /\ DOMAIN old.cases \subseteq DOMAIN new.cases
      /\ \A k \in DOMAIN old.cases : old.cases[k] = new.cases[k]
  BY <1>3, <1>4, <1>5, <1>6
<1> QED BY <1>7 DEF old, new

\* A fixture that succeeds under both definitions decides between them.
LEMMA FixtureDecides ==
  ASSUME NEW old, NEW new, NEW fixture,
         DOMAIN old.outputs \subseteq DOMAIN new.outputs,
         Succeeds(fixture), FixtureValid(old, fixture), FixtureValid(new, fixture)
  PROVE  /\ CountsWhole(old) <=> CountsWhole(new)
         /\ \A o \in DOMAIN new.outputs \ DOMAIN old.outputs : ~ new.outputs[o].required
<1>1. PlacesFit(old, fixture.places) /\ PlacesFit(new, fixture.places)
  BY DEF FixtureValid, WellShaped
<1>2. CountsWhole(old) <=> CountsWhole(new)
  <2>1. NotGiven \notin 0 .. MaxDecimalPlaces
    BY DEF NotGiven, MaxDecimalPlaces
  <2>2. \A definition : CountsWhole(definition) \in BOOLEAN
    BY DEF CountsWhole
  <2> QED BY <1>1, <2>1, <2>2 DEF PlacesFit
<1>3. AnswerFits(old, fixture, fixture.output) /\ AnswerFits(new, fixture, fixture.output)
  BY DEF FixtureValid
<1> QED BY <1>2, <1>3 DEF AnswerFits, Present

\* CalculatorEvolution's EnginesStillConform.  calculator-conformance.ts:87-101 and
\* compatibility-calculators.ts:64: the comparer takes a new output for a feature
\* even if engines have to give it.  The successful fixture every reviewed
\* calculator has, which cannot change, is what rules such an output out.
THEOREM EnginesHold == Spec => []EnginesStillConform
<1>1. ASSUME TypeOK, DirectNoHeavierThanSteps PROVE EnginesStillConform
  <2> SUFFICES ASSUME worst # "breaking", built \in Judged, NEW id \in ReviewedIds, NEW call \in Calls,
                      Computable(DefinitionOf(built, id), call)
               PROVE  /\ Computable(DefinitionOf(served, id), call)
                      /\ \A answer \in Answers :
                           AnswerFits(DefinitionOf(built, id), call, answer)
                           => AnswerFits(DefinitionOf(served, id), call, answer)
    BY DEF EnginesStillConform
  <2> DEFINE a == Contracts[built].calculators
             b == Contracts[served].calculators
             old == a.definitions[id]
             new == b.definitions[id]
  <2>1. "breaking" \notin ContractChanges(Contracts[built], Contracts[served])
    BY <1>1, EndsNotBreaking
  <2>2. id \in DOMAIN a.definitions
    BY DEF Judged
  <2>3. /\ DOMAIN a.definitions \subseteq DOMAIN b.definitions
        /\ DOMAIN a.cases \subseteq DOMAIN b.cases
        /\ \A k \in DOMAIN a.cases : a.cases[k] = b.cases[k]
    BY <2>1, CalculatorsStep
  <2>4. /\ DOMAIN old.inputs \subseteq DOMAIN new.inputs
        /\ \A i \in DOMAIN old.inputs : old.inputs[i] = new.inputs[i]
        /\ \A i \in DOMAIN new.inputs \ DOMAIN old.inputs : ~ new.inputs[i].required
        /\ DOMAIN old.outputs \subseteq DOMAIN new.outputs
        /\ \A o \in DOMAIN old.outputs : old.outputs[o] = new.outputs[o]
    BY <2>1, <2>2, CalculatorsStep
  <2>5. ConformanceValid(a) /\ ConformanceValid(b)
    <3>1. served \in Judged
      BY <1>1, <2>3 DEF Judged, TypeOK
    <3> QED BY <3>1, JudgedAssumption DEF CalculatorsValid
  <2>6. PICK k \in DOMAIN a.cases : a.cases[k].calculator = id /\ Succeeds(a.cases[k])
    <3>1. Tried(FixturesOf(a, id))
      BY <2>5 DEF ConformanceValid
    <3> QED BY <3>1 DEF Tried, FixturesOf
  <2>7. FixtureValid(old, a.cases[k]) /\ FixtureValid(new, a.cases[k])
    <3>1. FixtureValid(a.definitions[a.cases[k].calculator], a.cases[k])
      BY <2>5 DEF ConformanceValid
    <3>2. FixtureValid(b.definitions[b.cases[k].calculator], b.cases[k])
      BY <2>3, <2>5 DEF ConformanceValid
    <3> QED BY <2>3, <2>6, <3>1, <3>2
  <2> HIDE DEF a, b, old, new
  <2>8. /\ CountsWhole(old) <=> CountsWhole(new)
        /\ \A o \in DOMAIN new.outputs \ DOMAIN old.outputs : ~ new.outputs[o].required
    BY <2>4, <2>6, <2>7, FixtureDecides
  <2>9. Computable(old, call)
    BY DEF DefinitionOf, old, a
  <2>10. Given(old, call) = Given(new, call) /\ \A i \in Given(old, call) : old.inputs[i] = new.inputs[i]
    <3>1. DOMAIN call.input \subseteq DOMAIN old.inputs
      BY <2>9 DEF Computable, WellShaped, Present
    <3> QED BY <2>4, <3>1 DEF Given
  <2>11. WellShaped(new, call)
    <3>1. PlacesFit(new, call.places)
      <4>1. PlacesFit(old, call.places)
        BY <2>9 DEF Computable, WellShaped
      <4> QED BY <2>8, <4>1 DEF PlacesFit
    <3>2. Present(new.inputs, DOMAIN call.input)
      <4>1. Present(old.inputs, DOMAIN call.input)
        BY <2>9 DEF Computable, WellShaped
      <4> QED BY <2>4, <4>1 DEF Present
    <3> QED BY <2>9, <2>10, <3>1, <3>2 DEF Computable, WellShaped
  <2>12. Computable(new, call)
    BY <2>9, <2>10, <2>11 DEF Computable, UnsupportedUnits
  <2>13. CallerUnits(old, call) = CallerUnits(new, call)
    BY <2>10 DEF CallerUnits
  <2>14. ASSUME NEW answer, AnswerFits(old, call, answer) PROVE AnswerFits(new, call, answer)
    <3>1. Present(new.outputs, DOMAIN answer)
      BY <2>4, <2>8, <2>14 DEF AnswerFits, Present
    <3>2. DOMAIN answer \subseteq DOMAIN old.outputs
      BY <2>14 DEF AnswerFits, Present
    <3> QED BY <2>4, <2>13, <2>14, <3>1, <3>2 DEF AnswerFits, OutputFits
  <2> QED BY <2>12, <2>14 DEF DefinitionOf, new, b, old, a
<1>2. Spec => []TypeOK
  BY TypeCorrect
<1>3. Spec => []DirectNoHeavierThanSteps
  BY DirectHolds
<1> QED BY <1>1, <1>2, <1>3, PTL

-----------------------------------------------------------------------------
(* The texts of TypedSchemas and the properties of ContractEvolution *)

AcceptedTyped == {text \in Texts : Accepted(text) /\ IsTypedText(text)}

\* What the comparer sees of the accepted texts, by the levels a property may
\* have below it.
ViewsWithin ==
  [n \in 0 .. MaxDepth |->
     {View[<<n + 1, raw>>] : raw \in UNION {RawsAt(text.properties)[MaxDepth - n] : text \in AcceptedTyped}}]

LEMMA ViewsNest == NestsWithin(ViewsWithin)
<1> USE MaxDepthAssumption
<1> SUFFICES ASSUME NEW n \in 0 .. MaxDepth, NEW p \in ViewsWithin[n]
             PROVE  /\ p.required \subseteq DOMAIN p.properties
                    /\ p.type = "object" =>
                         \A f \in DOMAIN p.properties : n > 0 /\ p.properties[f] \in ViewsWithin[n - 1]
                    /\ p.type = "array" => n > 0 /\ p.items \in ViewsWithin[n - 1]
  BY DEF NestsWithin
<1> DEFINE d == MaxDepth - n
<1>1. d \in 0 .. MaxDepth
  OBVIOUS
<1>2. PICK text \in AcceptedTyped : \E raw \in RawsAt(text.properties)[d] : p = View[<<n + 1, raw>>]
  BY DEF ViewsWithin
<1> PICK raw \in RawsAt(text.properties)[d] : p = View[<<n + 1, raw>>]
  BY <1>2
<1>3. text \in Texts /\ Accepted(text) /\ IsTypedText(text)
  BY DEF AcceptedTyped
<1>4. raw \in Raws /\ Clean(raw)
  <2>1. raw \in Raws
    BY <1>1, <1>2, <1>3, ViewedIs, RawsAreRaws
  <2>2. Diagnostics(raw, d) = {}
    BY <1>1, <1>2, <1>3, AcceptedRaws
  <2> HIDE DEF d
  <2> QED BY <1>1, <2>1, <2>2, CleanRaws
<1>5. /\ p.type = raw["type"]
      /\ p.required = ReadList(raw, "required")
      /\ DOMAIN p.properties = DOMAIN Nested(raw)
      /\ \A f \in DOMAIN Nested(raw) : p.properties[f] = View[<<n, Nested(raw)[f]>>]
      /\ raw["type"] = "array" => p.items = View[<<n, raw["items"]>>]
  <2>1. n + 1 \in 1 .. MaxDepth + 1 /\ (n + 1) - 1 = n
    OBVIOUS
  <2> QED BY <1>2, <1>4, <2>1, ViewIs
<1>6. ReadList(raw, "required") \subseteq DOMAIN Nested(raw)
  BY <1>4 DEF Clean, ObjectKeys, ReadList, ValueOf
<1>7. ASSUME NEW below \in RawsBelow(raw) PROVE n > 0 /\ View[<<n, below>>] \in ViewsWithin[n - 1]
  <2>1. RawsAt(text.properties)[d + 1] = UNION {RawsBelow(r) : r \in RawsAt(text.properties)[d]}
    BY <1>1, RawsAtEquation
  <2>2. below \in RawsAt(text.properties)[d + 1]
    BY <1>2, <1>7, <2>1
  <2>3. n > 0
    <3>1. RawsAt(text.properties)[MaxDepth + 1] = {}
      BY <1>3, AcceptedRaws
    <3> QED BY <2>2, <3>1
  <2>4. n - 1 \in 0 .. MaxDepth /\ MaxDepth - (n - 1) = d + 1 /\ (n - 1) + 1 = n
    BY <2>3
  <2> HIDE DEF d
  <2>5. below \in UNION {RawsAt(t.properties)[MaxDepth - (n - 1)] : t \in AcceptedTyped}
    BY <1>2, <2>2, <2>4
  <2> QED BY <2>3, <2>4, <2>5 DEF ViewsWithin
<1>8. ASSUME p.type = "object", NEW f \in DOMAIN p.properties
      PROVE  n > 0 /\ p.properties[f] \in ViewsWithin[n - 1]
  <2>1. Nested(raw)[f] \in RawsBelow(raw)
    BY <1>4, <1>5, <1>8, BelowOfClean
  <2> QED BY <1>5, <1>7, <1>8, <2>1
<1>9. ASSUME p.type = "array" PROVE n > 0 /\ p.items \in ViewsWithin[n - 1]
  <2>1. raw["items"] \in RawsBelow(raw)
    BY <1>4, <1>5, <1>9, BelowOfClean
  <2> QED BY <1>5, <1>7, <1>9, <2>1
<1> QED BY <1>5, <1>6, <1>8, <1>9

\* What ContractEvolution assumes of its schemas, the export plan's parser has
\* seen to: of all texts it accepts (typed-schema.ts:227-492), the comparer sees
\* properties that nest within the limit, objects that require none but their
\* own properties, and a property for each listed field and no other.
THEOREM AcceptedTextsAreWellFormed ==
  /\ NestsWithin(ViewsWithin)
  /\ \A text \in Texts : Accepted(text) => ListsItsFields(Viewed(text), ViewsWithin[MaxDepth])
<1> SUFFICES ASSUME NEW text \in Texts, Accepted(text), Viewed(text).properties # Undefined
             PROVE  /\ DOMAIN Viewed(text).properties = FieldsOf(Viewed(text))
                    /\ \A f \in DOMAIN Viewed(text).properties :
                         Viewed(text).properties[f] \in ViewsWithin[MaxDepth]
  BY ViewsNest DEF ListsItsFields
<1>1. "properties" \in DOMAIN text
  BY TextsAssumption
<1>2. IsTypedText(text)
  <2>1. text.properties # Undefined
    BY <1>1, ViewedIs DEF IsTypedText
  <2>2. text.properties # Malformed
    BY <2>1 DEF Accepted, SchemaDiagnostics
  <2> QED BY <2>1, <2>2 DEF IsTypedText
<1>3. /\ Viewed(text).properties = Views(text)
      /\ FieldsOf(Viewed(text)) = FieldsOf(text)
  <2>1. Viewed(text) = [text EXCEPT !.properties = Views(text)]
    BY <1>2, ViewedIs
  <2> HIDE DEF Views
  <2> QED BY <1>1, <2>1 DEF FieldsOf
<1>4. DOMAIN text.properties = FieldsOf(text)
  <2>1. FieldListDiagnostics(text) = {}
    BY <1>2 DEF IsTypedText, Accepted, SchemaDiagnostics
  <2> QED BY <2>1 DEF FieldListDiagnostics
<1>5. ASSUME NEW f \in DOMAIN text.properties PROVE Views(text)[f] \in ViewsWithin[MaxDepth]
  <2>1. MaxDepth \in 0 .. MaxDepth /\ MaxDepth - MaxDepth = 0
    BY MaxDepthAssumption
  <2>2. text.properties[f] \in RawsAt(text.properties)[0]
    BY RawsAtEquation
  <2>3. text \in AcceptedTyped
    BY <1>2 DEF AcceptedTyped
  <2>4. text.properties[f] \in UNION {RawsAt(t.properties)[MaxDepth - MaxDepth] : t \in AcceptedTyped}
    BY <2>1, <2>2, <2>3
  <2>5. Views(text)[f] = View[<<MaxDepth + 1, text.properties[f]>>]
    BY DEF Views
  <2> QED BY <2>1, <2>4, <2>5 DEF ViewsWithin
<1>6. DOMAIN Views(text) = DOMAIN text.properties
  BY DEF Views
<1> QED BY <1>3, <1>4, <1>5, <1>6
=============================================================================
