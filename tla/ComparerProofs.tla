--------------------------- MODULE ComparerProofs ---------------------------
(***************************************************************************)
(* Facts about the comparer that hold for all contracts: the level of a    *)
(* direct comparison against the levels of two steps.                      *)
(*                                                                         *)
(* The theorems of the library on induction and recursion take operators   *)
(* as parameters, which the provers cannot instantiate.  Counting here     *)
(* takes a set instead, and each recursive function of TypedProperties has *)
(* a lemma that says it satisfies its equation.                            *)
(***************************************************************************)
EXTENDS TypedSchemas, WellFoundedInduction, TLAPS

LessPairs == {pair \in Nat \X Nat : pair[1] < pair[2]}

LEMMA LessWellFounded == IsWellFoundedOn(LessPairs, Nat)
<1>1. LessPairs = OpToRel(<, Nat)
  BY DEF LessPairs, OpToRel
<1> QED BY <1>1, NatLessThanWellFounded

LEMMA LeastNumber ==
  ASSUME NEW S \in SUBSET Nat, S # {}
  PROVE  \E least \in S : \A n \in S : least <= n
<1>1. PICK least \in S : \A n \in S : <<n, least>> \notin LessPairs
  BY WFMin, LessWellFounded
<1>2. ASSUME NEW n \in S PROVE least <= n
  <2>1. <<n, least>> \in Nat \X Nat /\ ~ (n < least)
    BY <1>1 DEF LessPairs
  <2> QED BY <2>1
<1> QED BY <1>2

\* A set of numbers with 0 and with the successor of each of its members
\* below N has all numbers up to N.
LEMMA Counting ==
  ASSUME NEW N \in Nat, NEW S, 0 \in S, \A d \in 0 .. N - 1 : d \in S => d + 1 \in S
  PROVE  \A d \in 0 .. N : d \in S
<1> DEFINE Missing == {d \in 0 .. N : d \notin S}
<1>1. SUFFICES ASSUME Missing # {} PROVE FALSE
  OBVIOUS
<1>2. PICK least \in Missing : \A d \in Missing : least <= d
  <2>1. Missing \in SUBSET Nat
    OBVIOUS
  <2> QED BY <1>1, <2>1, LeastNumber
<1>3. least # 0 /\ least - 1 \in 0 .. N - 1 /\ least - 1 \notin Missing
  BY <1>2
<1> QED BY <1>2, <1>3

-----------------------------------------------------------------------------
(* The recursive functions *)

LEMMA PairsAtEquation ==
  ASSUME NEW base, NEW head
  PROVE  /\ PairsAt(base, head)[0] = PairsOf(base, head)
         /\ \A d \in 0 .. MaxDepth :
              PairsAt(base, head)[d + 1] = UNION {PairsBelow(pair) : pair \in PairsAt(base, head)[d]}
<1> USE MaxDepthAssumption
<1> DEFINE Value(a, d) == IF d = 0 THEN PairsOf(base, head)
                          ELSE UNION {PairsBelow(pair) : pair \in a[d - 1]}
           Defines(a, n) == a = [d \in 0 .. n |-> Value(a, d)]
           Reached == {n \in 0 .. MaxDepth + 1 : \E a : Defines(a, n)}
<1>1. 0 \in Reached
  <2>1. Defines([d \in 0 .. 0 |-> PairsOf(base, head)], 0)
    OBVIOUS
  <2> HIDE DEF Defines
  <2> QED BY <2>1
<1>2. ASSUME NEW n \in 0 .. MaxDepth, n \in Reached PROVE n + 1 \in Reached
  <2>1. PICK a : Defines(a, n)
    BY <1>2
  <2> DEFINE b == [d \in 0 .. n + 1 |-> IF d = n + 1 THEN Value(a, n + 1) ELSE a[d]]
  <2>2. ASSUME NEW d \in 0 .. n + 1 PROVE b[d] = Value(b, d)
    <3>1. CASE d = 0
      BY <2>1, <3>1
    <3>2. CASE d # 0
      <4>1. b[d - 1] = a[d - 1]
        BY <3>2
      <4>2. Value(b, d) = Value(a, d)
        BY <4>1, <3>2
      <4>3. b[d] = Value(a, d)
        BY <2>1, <3>2
      <4> QED BY <4>2, <4>3
    <3> QED BY <3>1, <3>2
  <2>3. Defines(b, n + 1)
    BY <2>2
  <2> HIDE DEF Defines
  <2> QED BY <2>3
<1>3. MaxDepth + 1 \in Reached
  <2> HIDE DEF Reached
  <2> QED BY <1>1, <1>2, Counting
<1>4. Defines(PairsAt(base, head), MaxDepth + 1)
  <2>1. PairsAt(base, head) = CHOOSE a : Defines(a, MaxDepth + 1)
    BY DEF PairsAt
  <2> HIDE DEF Defines
  <2> QED BY <1>3, <2>1
<1> QED BY <1>4

LEMMA MatchesAtEquation ==
  ASSUME NEW properties, NEW fields
  PROVE  /\ MatchesAt(properties, fields)[0] = MatchesOf(properties, fields)
         /\ \A d \in 0 .. MaxDepth - 1 :
              MatchesAt(properties, fields)[d + 1] =
                UNION {MatchesBelow(match) : match \in MatchesAt(properties, fields)[d]}
<1> USE MaxDepthAssumption
<1> DEFINE Value(a, d) == IF d = 0 THEN MatchesOf(properties, fields)
                          ELSE UNION {MatchesBelow(match) : match \in a[d - 1]}
           Defines(a, n) == a = [d \in 0 .. n |-> Value(a, d)]
           Reached == {n \in 0 .. MaxDepth : \E a : Defines(a, n)}
<1>1. 0 \in Reached
  <2>1. Defines([d \in 0 .. 0 |-> MatchesOf(properties, fields)], 0)
    OBVIOUS
  <2> HIDE DEF Defines
  <2> QED BY <2>1
<1>2. ASSUME NEW n \in 0 .. MaxDepth - 1, n \in Reached PROVE n + 1 \in Reached
  <2>1. PICK a : Defines(a, n)
    BY <1>2
  <2> DEFINE b == [d \in 0 .. n + 1 |-> IF d = n + 1 THEN Value(a, n + 1) ELSE a[d]]
  <2>2. ASSUME NEW d \in 0 .. n + 1 PROVE b[d] = Value(b, d)
    <3>1. CASE d = 0
      BY <2>1, <3>1
    <3>2. CASE d # 0
      <4>1. b[d - 1] = a[d - 1]
        BY <3>2
      <4>2. Value(b, d) = Value(a, d)
        BY <4>1, <3>2
      <4>3. b[d] = Value(a, d)
        BY <2>1, <3>2
      <4> QED BY <4>2, <4>3
    <3> QED BY <3>1, <3>2
  <2>3. Defines(b, n + 1)
    BY <2>2
  <2> HIDE DEF Defines
  <2> QED BY <2>3
<1>3. MaxDepth \in Reached
  <2> HIDE DEF Reached
  <2> QED BY <1>1, <1>2, Counting
<1>4. Defines(MatchesAt(properties, fields), MaxDepth)
  <2>1. MatchesAt(properties, fields) = CHOOSE a : Defines(a, MaxDepth)
    BY DEF MatchesAt
  <2> HIDE DEF Defines
  <2> QED BY <1>3, <2>1
<1> QED BY <1>4

-----------------------------------------------------------------------------
(* Levels *)

LEMMA HighestIs ==
  ASSUME NEW levels
  PROVE  /\ HighestLevel(levels) \in levels \cup {"none"}
         /\ \A l \in levels : Weight(l) <= Weight(HighestLevel(levels))
<1>1. \A l : Weight(l) \in 0 .. 3
  BY DEF Weight
<1>2. \E l \in levels \cup {"none"} : \A m \in levels : Weight(m) <= Weight(l)
  <2>1. CASE \E l \in levels : Weight(l) = 3
    BY <1>1, <2>1
  <2>2. CASE (\E l \in levels : Weight(l) = 2) /\ ~ \E l \in levels : Weight(l) = 3
    BY <1>1, <2>2
  <2>3. CASE (\E l \in levels : Weight(l) = 1) /\ ~ \E l \in levels : Weight(l) \in 2 .. 3
    BY <1>1, <2>3
  <2>4. CASE ~ \E l \in levels : Weight(l) \in 1 .. 3
    <3>1. \A l \in levels : Weight(l) = 0
      BY <1>1, <2>4
    <3> QED BY <3>1 DEF Weight
  <2> QED BY <1>1, <2>1, <2>2, <2>3, <2>4
<1> QED BY <1>2 DEF HighestLevel

\* What a comparison reports directly, the steps have reported: nothing is
\* breaking, a feature is a feature of a step, a patch at least a patch.
Covered(direct, steps) ==
  /\ direct \subseteq {"patch", "feature"}
  /\ "feature" \in direct => "feature" \in steps
  /\ "patch" \in direct => "patch" \in steps \/ "feature" \in steps

LEMMA CoveredHighest ==
  ASSUME NEW direct, NEW first, NEW second, Covered(direct, first \cup second)
  PROVE  \/ Weight(HighestLevel(direct)) <= Weight(HighestLevel(first))
         \/ Weight(HighestLevel(direct)) <= Weight(HighestLevel(second))
<1>1. HighestLevel(direct) \in {"none", "patch", "feature"}
  BY HighestIs DEF Covered
<1>2. \A l : Weight(l) \in 0 .. 3
  BY DEF Weight
<1>3. CASE HighestLevel(direct) = "none"
  BY <1>2, <1>3 DEF Weight
<1>4. CASE HighestLevel(direct) # "none"
  <2>1. PICK l \in first \cup second : Weight(HighestLevel(direct)) <= Weight(l)
    BY <1>1, <1>4, HighestIs DEF Covered, Weight
  <2> QED BY <1>2, <2>1, HighestIs
<1> QED BY <1>3, <1>4

-----------------------------------------------------------------------------
(* Two steps with one strategy.  While neither of them is breaking, what   *)
(* the strategy reports of both at once they have reported.                *)

LEMMA SetDeltaSteps ==
  ASSUME NEW a, NEW b, NEW c, NEW removed \in {"patch", "feature", "breaking"},
         NEW added \in {"patch", "feature", "breaking"}, "breaking" \in {removed, added},
         "breaking" \notin SetDelta(a, b, removed, added),
         "breaking" \notin SetDelta(b, c, removed, added)
  PROVE  Covered(SetDelta(a, c, removed, added),
                 SetDelta(a, b, removed, added) \cup SetDelta(b, c, removed, added))
BY DEF SetDelta, Covered

LEMMA DiffersSteps ==
  ASSUME NEW a, NEW b, NEW c, NEW level \in {"patch", "feature", "breaking"},
         "breaking" \notin Differs(a, b, level), "breaking" \notin Differs(b, c, level)
  PROVE  Covered(Differs(a, c, level), Differs(a, b, level) \cup Differs(b, c, level))
BY DEF Differs, Covered

\* BreakingScalar: without a breaking change the values are the same.
LEMMA ScalarStep ==
  ASSUME NEW a, NEW b
  PROVE  "breaking" \notin BreakingScalar(a, b) <=> a = b /\ BreakingScalar(a, b) = {}
BY DEF BreakingScalar, Differs

LEMMA RequirementSteps ==
  ASSUME NEW a, NEW b, NEW c,
         "breaking" \notin RequirementBoolean(a, b), "breaking" \notin RequirementBoolean(b, c)
  PROVE  Covered(RequirementBoolean(a, c), RequirementBoolean(a, b) \cup RequirementBoolean(b, c))
BY DEF RequirementBoolean, Differs, Covered

LEMMA MetadataSteps ==
  ASSUME NEW a, NEW b, NEW c,
         "breaking" \notin MetadataHeaders(a, b), "breaking" \notin MetadataHeaders(b, c)
  PROVE  Covered(MetadataHeaders(a, c), MetadataHeaders(a, b) \cup MetadataHeaders(b, c))
BY DEF MetadataHeaders, Differs, Covered

LEMMA IdempotencySteps ==
  ASSUME NEW a, NEW b, NEW c, a.strength \in Nat, b.strength \in Nat, c.strength \in Nat,
         "breaking" \notin Idempotency(a, b), "breaking" \notin Idempotency(b, c)
  PROVE  Covered(Idempotency(a, c), Idempotency(a, b) \cup Idempotency(b, c))
BY DEF Idempotency, Differs, Covered

LEMMA RevisionSteps ==
  ASSUME NEW a \in Nat, NEW b \in Nat, NEW c \in Nat,
         "breaking" \notin Revision(a, b), "breaking" \notin Revision(b, c)
  PROVE  Covered(Revision(a, c), Revision(a, b) \cup Revision(b, c))
BY DEF Revision, Differs, Covered

LEMMA RequestHeadersSteps ==
  ASSUME NEW a, NEW b, NEW c,
         "breaking" \notin RequestHeaders(a, b), "breaking" \notin RequestHeaders(b, c)
  PROVE  Covered(RequestHeaders(a, c), RequestHeaders(a, b) \cup RequestHeaders(b, c))
BY DEF RequestHeaders, Covered

LEMMA FieldSteps ==
  ASSUME NEW a, NEW b, NEW c, a.kind = b.kind, b.kind = c.kind,
         "breaking" \notin FieldChanges(a, b), "breaking" \notin FieldChanges(b, c)
  PROVE  Covered(FieldChanges(a, c), FieldChanges(a, b) \cup FieldChanges(b, c))
<1>1. ASSUME NEW x, NEW y, NEW f, x.kind = a.kind, "breaking" \notin FieldChanges(x, y),
             Presence(x, f) # Presence(y, f)
      PROVE  /\ FieldTransition(a.kind, Presence(x, f), Presence(y, f)) \in FieldChanges(x, y)
             /\ FieldTransition(a.kind, Presence(x, f), Presence(y, f)) # "breaking"
  BY <1>1 DEF FieldChanges, Presence, FieldsOf
<1>2. \A s, f : Presence(s, f) \in {"required", "optional", "absent"}
  BY DEF Presence
<1>3. ASSUME NEW f, Presence(a, f) # Presence(c, f)
      PROVE  /\ FieldTransition(a.kind, Presence(a, f), Presence(c, f)) = "feature"
             /\ "feature" \in FieldChanges(a, b) \cup FieldChanges(b, c)
  BY <1>1, <1>2, <1>3 DEF FieldTransition
<1>4. \A l \in FieldChanges(a, c) : l = "feature" /\ "feature" \in FieldChanges(a, b) \cup FieldChanges(b, c)
  BY <1>3 DEF FieldChanges
<1> QED BY <1>4 DEF Covered

LEMMA ScalarSteps ==
  ASSUME NEW a, NEW b, NEW c,
         "breaking" \notin BreakingScalar(a, b), "breaking" \notin BreakingScalar(b, c)
  PROVE  Covered(BreakingScalar(a, c), BreakingScalar(a, b) \cup BreakingScalar(b, c))
BY DiffersSteps DEF BreakingScalar

LEMMA ListSteps ==
  ASSUME NEW a, NEW b, NEW c
  PROVE  /\ "breaking" \notin RequiredSet(a, b) \cup RequiredSet(b, c) =>
              Covered(RequiredSet(a, c), RequiredSet(a, b) \cup RequiredSet(b, c))
         /\ "breaking" \notin Allowlist(a, b) \cup Allowlist(b, c) =>
              Covered(Allowlist(a, c), Allowlist(a, b) \cup Allowlist(b, c))
         /\ "breaking" \notin ForbiddenSet(a, b) \cup ForbiddenSet(b, c) =>
              Covered(ForbiddenSet(a, c), ForbiddenSet(a, b) \cup ForbiddenSet(b, c))
BY SetDeltaSteps DEF RequiredSet, Allowlist, ForbiddenSet

\* No key is lost on the way, so a key of both ends is in the middle.
LEMMA KeyedSteps ==
  ASSUME NEW a, NEW b, NEW c, NEW added \in {"patch", "feature"},
         NEW direct, NEW first, NEW second,
         "breaking" \notin Keyed(a, b, added, first), "breaking" \notin Keyed(b, c, added, second),
         \A k \in DOMAIN a \cap DOMAIN b \cap DOMAIN c :
           "breaking" \notin first[k] /\ "breaking" \notin second[k] =>
             Covered(direct[k], first[k] \cup second[k])
  PROVE  Covered(Keyed(a, c, added, direct), Keyed(a, b, added, first) \cup Keyed(b, c, added, second))
<1> DEFINE keys(x, y) == SetDelta(DOMAIN x, DOMAIN y, "breaking", added)
<1>1. "breaking" \notin keys(a, b) /\ "breaking" \notin keys(b, c)
  BY DEF Keyed
<1>2. Covered(keys(a, c), keys(a, b) \cup keys(b, c))
  BY <1>1, SetDeltaSteps
<1>3. DOMAIN a \subseteq DOMAIN b /\ DOMAIN b \subseteq DOMAIN c
  BY <1>1 DEF SetDelta
<1>4. ASSUME NEW k \in Kept(a, c)
      PROVE  /\ Covered(direct[k], first[k] \cup second[k])
             /\ first[k] \subseteq Keyed(a, b, added, first)
             /\ second[k] \subseteq Keyed(b, c, added, second)
  <2>1. k \in Kept(a, b) /\ k \in Kept(b, c) /\ k \in DOMAIN a \cap DOMAIN b \cap DOMAIN c
    BY <1>3 DEF Kept
  <2>2. /\ first[k] \subseteq Keyed(a, b, added, first)
        /\ second[k] \subseteq Keyed(b, c, added, second)
    BY <2>1 DEF Keyed
  <2> QED BY <2>1, <2>2
<1>5. keys(a, b) \subseteq Keyed(a, b, added, first) /\ keys(b, c) \subseteq Keyed(b, c, added, second)
  BY DEF Keyed
<1>6. Keyed(a, c, added, direct) = keys(a, c) \cup UNION {direct[k] : k \in Kept(a, c)}
  BY DEF Keyed
<1> HIDE DEF keys
<1> QED BY <1>2, <1>4, <1>5, <1>6 DEF Covered

-----------------------------------------------------------------------------
(* Routes, calculators and the families compared by structure *)

LEMMA RouteSteps ==
  ASSUME NEW a, NEW b, NEW c,
         a.idempotency.strength \in Nat, b.idempotency.strength \in Nat, c.idempotency.strength \in Nat,
         "breaking" \notin RouteChanges(a, b), "breaking" \notin RouteChanges(b, c)
  PROVE  Covered(RouteChanges(a, c), RouteChanges(a, b) \cup RouteChanges(b, c))
<1>1. Covered(BreakingScalar(a.anchor, c.anchor),
              BreakingScalar(a.anchor, b.anchor) \cup BreakingScalar(b.anchor, c.anchor))
  BY ScalarSteps DEF RouteChanges
<1>2. Covered(Allowlist(a.successStatuses, c.successStatuses),
              Allowlist(a.successStatuses, b.successStatuses) \cup Allowlist(b.successStatuses, c.successStatuses))
  BY ListSteps DEF RouteChanges
<1>3. Covered(Allowlist(a.errorCodes, c.errorCodes),
              Allowlist(a.errorCodes, b.errorCodes) \cup Allowlist(b.errorCodes, c.errorCodes))
  BY ListSteps DEF RouteChanges
<1>4. Covered(RequirementBoolean(a.authRequired, c.authRequired),
              RequirementBoolean(a.authRequired, b.authRequired)
              \cup RequirementBoolean(b.authRequired, c.authRequired))
  BY RequirementSteps DEF RouteChanges
<1>5. Covered(RequirementBoolean(a.requestIdRequired, c.requestIdRequired),
              RequirementBoolean(a.requestIdRequired, b.requestIdRequired)
              \cup RequirementBoolean(b.requestIdRequired, c.requestIdRequired))
  BY RequirementSteps DEF RouteChanges
<1>6. Covered(RequirementBoolean(a.traceIdRequired, c.traceIdRequired),
              RequirementBoolean(a.traceIdRequired, b.traceIdRequired)
              \cup RequirementBoolean(b.traceIdRequired, c.traceIdRequired))
  BY RequirementSteps DEF RouteChanges
<1>7. Covered(Idempotency(a.idempotency, c.idempotency),
              Idempotency(a.idempotency, b.idempotency) \cup Idempotency(b.idempotency, c.idempotency))
  BY IdempotencySteps DEF RouteChanges
<1>8. Covered(Differs(a.credentialPolicy, c.credentialPolicy, "patch"),
              Differs(a.credentialPolicy, b.credentialPolicy, "patch")
              \cup Differs(b.credentialPolicy, c.credentialPolicy, "patch"))
  BY DiffersSteps DEF RouteChanges
<1> QED BY <1>1, <1>2, <1>3, <1>4, <1>5, <1>6, <1>7, <1>8 DEF RouteChanges, Covered

Graded(routes) == \A r \in DOMAIN routes : routes[r].idempotency.strength \in Nat

LEMMA RoutesSteps ==
  ASSUME NEW a, NEW b, NEW c, Graded(a), Graded(b), Graded(c),
         "breaking" \notin RoutesChanges(a, b), "breaking" \notin RoutesChanges(b, c)
  PROVE  Covered(RoutesChanges(a, c), RoutesChanges(a, b) \cup RoutesChanges(b, c))
<1> DEFINE entries(x, y) == [r \in Kept(x, y) |-> RouteChanges(x[r], y[r])]
<1>1. \A x, y : RoutesChanges(x, y) = Keyed(x, y, "feature", entries(x, y))
  BY DEF RoutesChanges
<1>2. ASSUME NEW r \in DOMAIN a \cap DOMAIN b \cap DOMAIN c,
             "breaking" \notin entries(a, b)[r], "breaking" \notin entries(b, c)[r]
      PROVE  Covered(entries(a, c)[r], entries(a, b)[r] \cup entries(b, c)[r])
  <2>1. /\ entries(a, b)[r] = RouteChanges(a[r], b[r])
        /\ entries(b, c)[r] = RouteChanges(b[r], c[r])
        /\ entries(a, c)[r] = RouteChanges(a[r], c[r])
    BY DEF Kept
  <2>2. /\ a[r].idempotency.strength \in Nat
        /\ b[r].idempotency.strength \in Nat
        /\ c[r].idempotency.strength \in Nat
    BY DEF Graded
  <2> HIDE DEF entries
  <2>3. "breaking" \notin RouteChanges(a[r], b[r]) /\ "breaking" \notin RouteChanges(b[r], c[r])
    BY <1>2, <2>1
  <2> QED BY <2>1, <2>2, <2>3, RouteSteps
<1>3. /\ "breaking" \notin Keyed(a, b, "feature", entries(a, b))
      /\ "breaking" \notin Keyed(b, c, "feature", entries(b, c))
  BY <1>1
<1>4. Covered(Keyed(a, c, "feature", entries(a, c)),
              Keyed(a, b, "feature", entries(a, b)) \cup Keyed(b, c, "feature", entries(b, c)))
  <2> HIDE DEF entries
  <2> QED BY <1>2, <1>3, KeyedSteps
<1> QED BY <1>1, <1>4

LEMMA RouteContractSteps ==
  ASSUME NEW a, NEW b, NEW c,
         "breaking" \notin RouteContractChanges(a, b), "breaking" \notin RouteContractChanges(b, c)
  PROVE  Covered(RouteContractChanges(a, c), RouteContractChanges(a, b) \cup RouteContractChanges(b, c))
<1>1. Covered(MetadataHeaders(a.requestHeaders, c.requestHeaders),
              MetadataHeaders(a.requestHeaders, b.requestHeaders)
              \cup MetadataHeaders(b.requestHeaders, c.requestHeaders))
  BY MetadataSteps DEF RouteContractChanges
<1>2. Covered(MetadataHeaders(a.serviceRequestHeaders, c.serviceRequestHeaders),
              MetadataHeaders(a.serviceRequestHeaders, b.serviceRequestHeaders)
              \cup MetadataHeaders(b.serviceRequestHeaders, c.serviceRequestHeaders))
  BY MetadataSteps DEF RouteContractChanges
<1>3. Covered(RequiredSet(a.requiredPerRoute, c.requiredPerRoute),
              RequiredSet(a.requiredPerRoute, b.requiredPerRoute)
              \cup RequiredSet(b.requiredPerRoute, c.requiredPerRoute))
  BY ListSteps DEF RouteContractChanges
<1>4. Covered(Allowlist(a.allowed, c.allowed), Allowlist(a.allowed, b.allowed) \cup Allowlist(b.allowed, c.allowed))
  BY ListSteps DEF RouteContractChanges
<1>5. Covered(ForbiddenSet(a.forbiddenShapes, c.forbiddenShapes),
              ForbiddenSet(a.forbiddenShapes, b.forbiddenShapes)
              \cup ForbiddenSet(b.forbiddenShapes, c.forbiddenShapes))
  BY ListSteps DEF RouteContractChanges
<1> QED BY <1>1, <1>2, <1>3, <1>4, <1>5 DEF RouteContractChanges, Covered

LEMMA CalculatorFieldSteps ==
  ASSUME NEW a, NEW b, NEW c, NEW kind,
         "breaking" \notin CalculatorFields(a, b, kind), "breaking" \notin CalculatorFields(b, c, kind)
  PROVE  Covered(CalculatorFields(a, c, kind), CalculatorFields(a, b, kind) \cup CalculatorFields(b, c, kind))
<1>1. ASSUME NEW x, NEW y, "breaking" \notin CalculatorFields(x, y, kind)
      PROVE  /\ DOMAIN x \subseteq DOMAIN y
             /\ \A k \in DOMAIN x : x[k] = y[k]
             /\ \A k \in DOMAIN y \ DOMAIN x : ~ (kind = "INPUT" /\ y[k].required)
             /\ DOMAIN y \ DOMAIN x # {} => "feature" \in CalculatorFields(x, y, kind)
  BY <1>1 DEF CalculatorFields, BreakingScalar, Differs
<1>2. DOMAIN a \subseteq DOMAIN c /\ \A k \in DOMAIN a : a[k] = c[k]
  BY <1>1
<1>3. \A k \in DOMAIN c \ DOMAIN a : ~ (kind = "INPUT" /\ c[k].required)
  BY <1>1
<1>4. CalculatorFields(a, c, kind) \subseteq {"feature"}
  BY <1>2, <1>3 DEF CalculatorFields, BreakingScalar, Differs
<1>5. "feature" \in CalculatorFields(a, c, kind) => DOMAIN c \ DOMAIN a # {}
  BY <1>2 DEF CalculatorFields, BreakingScalar, Differs
<1> QED BY <1>1, <1>4, <1>5 DEF Covered

LEMMA CalculatorSteps ==
  ASSUME NEW a, NEW b, NEW c,
         "breaking" \notin CalculatorChanges(a, b), "breaking" \notin CalculatorChanges(b, c)
  PROVE  Covered(CalculatorChanges(a, c), CalculatorChanges(a, b) \cup CalculatorChanges(b, c))
<1>1. Covered(BreakingScalar(a.semantics, c.semantics),
              BreakingScalar(a.semantics, b.semantics) \cup BreakingScalar(b.semantics, c.semantics))
  BY ScalarSteps DEF CalculatorChanges
<1>2. Covered(Differs(a.contractVersion, c.contractVersion, "patch"),
              Differs(a.contractVersion, b.contractVersion, "patch")
              \cup Differs(b.contractVersion, c.contractVersion, "patch"))
  BY DiffersSteps DEF CalculatorChanges
<1>3. Covered(Allowlist(a.engines, c.engines), Allowlist(a.engines, b.engines) \cup Allowlist(b.engines, c.engines))
  BY ListSteps DEF CalculatorChanges
<1>4. Covered(Allowlist(a.errorCodes, c.errorCodes),
              Allowlist(a.errorCodes, b.errorCodes) \cup Allowlist(b.errorCodes, c.errorCodes))
  BY ListSteps DEF CalculatorChanges
<1>5. Covered(CalculatorFields(a.inputs, c.inputs, "INPUT"),
              CalculatorFields(a.inputs, b.inputs, "INPUT") \cup CalculatorFields(b.inputs, c.inputs, "INPUT"))
  BY CalculatorFieldSteps DEF CalculatorChanges
<1>6. Covered(CalculatorFields(a.outputs, c.outputs, "OUTPUT"),
              CalculatorFields(a.outputs, b.outputs, "OUTPUT") \cup CalculatorFields(b.outputs, c.outputs, "OUTPUT"))
  BY CalculatorFieldSteps DEF CalculatorChanges
<1> QED BY <1>1, <1>2, <1>3, <1>4, <1>5, <1>6 DEF CalculatorChanges, Covered

LEMMA DefinitionsSteps ==
  ASSUME NEW a, NEW b, NEW c
  PROVE  LET changes(x, y) == Keyed(x, y, "feature", [k \in Kept(x, y) |-> CalculatorChanges(x[k], y[k])])
         IN  "breaking" \notin changes(a, b) /\ "breaking" \notin changes(b, c) =>
               Covered(changes(a, c), changes(a, b) \cup changes(b, c))
<1> DEFINE entries(x, y) == [k \in Kept(x, y) |-> CalculatorChanges(x[k], y[k])]
<1> SUFFICES ASSUME "breaking" \notin Keyed(a, b, "feature", entries(a, b)),
                    "breaking" \notin Keyed(b, c, "feature", entries(b, c))
             PROVE  Covered(Keyed(a, c, "feature", entries(a, c)),
                            Keyed(a, b, "feature", entries(a, b)) \cup Keyed(b, c, "feature", entries(b, c)))
  OBVIOUS
<1>1. ASSUME NEW k \in DOMAIN a \cap DOMAIN b \cap DOMAIN c,
             "breaking" \notin entries(a, b)[k], "breaking" \notin entries(b, c)[k]
      PROVE  Covered(entries(a, c)[k], entries(a, b)[k] \cup entries(b, c)[k])
  <2>1. /\ entries(a, b)[k] = CalculatorChanges(a[k], b[k])
        /\ entries(b, c)[k] = CalculatorChanges(b[k], c[k])
        /\ entries(a, c)[k] = CalculatorChanges(a[k], c[k])
    BY DEF Kept
  <2> HIDE DEF entries
  <2>2. "breaking" \notin CalculatorChanges(a[k], b[k]) /\ "breaking" \notin CalculatorChanges(b[k], c[k])
    BY <1>1, <2>1
  <2> QED BY <2>1, <2>2, CalculatorSteps
<1> HIDE DEF entries
<1> QED BY <1>1, KeyedSteps

LEMMA CasesSteps ==
  ASSUME NEW a, NEW b, NEW c
  PROVE  LET changes(x, y) == Keyed(x, y, "patch", [k \in Kept(x, y) |-> BreakingScalar(x[k], y[k])])
         IN  "breaking" \notin changes(a, b) /\ "breaking" \notin changes(b, c) =>
               Covered(changes(a, c), changes(a, b) \cup changes(b, c))
<1> DEFINE entries(x, y) == [k \in Kept(x, y) |-> BreakingScalar(x[k], y[k])]
<1> SUFFICES ASSUME "breaking" \notin Keyed(a, b, "patch", entries(a, b)),
                    "breaking" \notin Keyed(b, c, "patch", entries(b, c))
             PROVE  Covered(Keyed(a, c, "patch", entries(a, c)),
                            Keyed(a, b, "patch", entries(a, b)) \cup Keyed(b, c, "patch", entries(b, c)))
  OBVIOUS
<1>1. ASSUME NEW k \in DOMAIN a \cap DOMAIN b \cap DOMAIN c,
             "breaking" \notin entries(a, b)[k], "breaking" \notin entries(b, c)[k]
      PROVE  Covered(entries(a, c)[k], entries(a, b)[k] \cup entries(b, c)[k])
  <2>1. /\ entries(a, b)[k] = BreakingScalar(a[k], b[k])
        /\ entries(b, c)[k] = BreakingScalar(b[k], c[k])
        /\ entries(a, c)[k] = BreakingScalar(a[k], c[k])
    BY DEF Kept
  <2> HIDE DEF entries
  <2>2. "breaking" \notin BreakingScalar(a[k], b[k]) /\ "breaking" \notin BreakingScalar(b[k], c[k])
    BY <1>1, <2>1
  <2> QED BY <2>1, <2>2, ScalarSteps
<1> HIDE DEF entries
<1> QED BY <1>1, KeyedSteps

LEMMA CalculatorsSteps ==
  ASSUME NEW a, NEW b, NEW c,
         "breaking" \notin CalculatorsChanges(a, b), "breaking" \notin CalculatorsChanges(b, c)
  PROVE  Covered(CalculatorsChanges(a, c), CalculatorsChanges(a, b) \cup CalculatorsChanges(b, c))
<1> DEFINE definitions(x, y) ==
             Keyed(x, y, "feature", [k \in Kept(x, y) |-> CalculatorChanges(x[k], y[k])])
           cases(x, y) == Keyed(x, y, "patch", [k \in Kept(x, y) |-> BreakingScalar(x[k], y[k])])
<1>1. \A x, y : CalculatorsChanges(x, y) =
        BreakingScalar(x.policy, y.policy) \cup Differs(x.metadata, y.metadata, "patch")
        \cup definitions(x.definitions, y.definitions) \cup cases(x.cases, y.cases)
  BY DEF CalculatorsChanges
<1>2. /\ "breaking" \notin definitions(a.definitions, b.definitions)
      /\ "breaking" \notin definitions(b.definitions, c.definitions)
      /\ "breaking" \notin cases(a.cases, b.cases)
      /\ "breaking" \notin cases(b.cases, c.cases)
  <2> HIDE DEF definitions, cases
  <2> QED BY <1>1
<1>3. Covered(definitions(a.definitions, c.definitions),
              definitions(a.definitions, b.definitions) \cup definitions(b.definitions, c.definitions))
  BY <1>2, DefinitionsSteps
<1>4. Covered(cases(a.cases, c.cases), cases(a.cases, b.cases) \cup cases(b.cases, c.cases))
  BY <1>2, CasesSteps
<1> HIDE DEF definitions, cases
<1>5. Covered(BreakingScalar(a.policy, c.policy),
              BreakingScalar(a.policy, b.policy) \cup BreakingScalar(b.policy, c.policy))
  BY <1>1, ScalarSteps
<1>6. Covered(Differs(a.metadata, c.metadata, "patch"),
              Differs(a.metadata, b.metadata, "patch") \cup Differs(b.metadata, c.metadata, "patch"))
  BY <1>1, DiffersSteps
<1> QED BY <1>1, <1>3, <1>4, <1>5, <1>6 DEF Covered

\* The revisions of a registry are numbers.
Numbered(registry) ==
  /\ registry.registryRevision \in Nat
  /\ \A e \in DOMAIN registry.entries : registry.entries[e].entryRevision \in Nat

LEMMA EntrySteps ==
  ASSUME NEW a, NEW b, NEW c, a.entryRevision \in Nat, b.entryRevision \in Nat, c.entryRevision \in Nat,
         "breaking" \notin OidcEntryChanges(a, b), "breaking" \notin OidcEntryChanges(b, c)
  PROVE  Covered(OidcEntryChanges(a, c), OidcEntryChanges(a, b) \cup OidcEntryChanges(b, c))
<1>1. Covered(Revision(a.entryRevision, c.entryRevision),
              Revision(a.entryRevision, b.entryRevision) \cup Revision(b.entryRevision, c.entryRevision))
  BY RevisionSteps DEF OidcEntryChanges
<1>2. Covered(BreakingScalar(a.client, c.client), BreakingScalar(a.client, b.client) \cup BreakingScalar(b.client, c.client))
  BY ScalarSteps DEF OidcEntryChanges
<1> QED BY <1>1, <1>2 DEF OidcEntryChanges, Covered

LEMMA RegistrySteps ==
  ASSUME NEW a, NEW b, NEW c, Numbered(a), Numbered(b), Numbered(c),
         "breaking" \notin OidcRegistryChanges(a, b), "breaking" \notin OidcRegistryChanges(b, c)
  PROVE  Covered(OidcRegistryChanges(a, c), OidcRegistryChanges(a, b) \cup OidcRegistryChanges(b, c))
<1> DEFINE changes(x, y) == [e \in Kept(x.entries, y.entries) |-> OidcEntryChanges(x.entries[e], y.entries[e])]
           entries(x, y) == Keyed(x.entries, y.entries, "feature", changes(x, y))
<1>1. \A x, y : OidcRegistryChanges(x, y) =
        Revision(x.registryRevision, y.registryRevision) \cup BreakingScalar(x.rules, y.rules) \cup entries(x, y)
  BY DEF OidcRegistryChanges
<1>2. ASSUME NEW e \in DOMAIN a.entries \cap DOMAIN b.entries \cap DOMAIN c.entries,
             "breaking" \notin changes(a, b)[e], "breaking" \notin changes(b, c)[e]
      PROVE  Covered(changes(a, c)[e], changes(a, b)[e] \cup changes(b, c)[e])
  <2>1. /\ changes(a, b)[e] = OidcEntryChanges(a.entries[e], b.entries[e])
        /\ changes(b, c)[e] = OidcEntryChanges(b.entries[e], c.entries[e])
        /\ changes(a, c)[e] = OidcEntryChanges(a.entries[e], c.entries[e])
    BY DEF Kept
  <2>2. /\ a.entries[e].entryRevision \in Nat
        /\ b.entries[e].entryRevision \in Nat
        /\ c.entries[e].entryRevision \in Nat
    BY DEF Numbered
  <2> HIDE DEF changes
  <2>3. "breaking" \notin OidcEntryChanges(a.entries[e], b.entries[e])
        /\ "breaking" \notin OidcEntryChanges(b.entries[e], c.entries[e])
    BY <1>2, <2>1
  <2> QED BY <2>1, <2>2, <2>3, EntrySteps
<1>3. "breaking" \notin entries(a, b) /\ "breaking" \notin entries(b, c)
  <2> HIDE DEF entries
  <2> QED BY <1>1
<1>4. Covered(entries(a, c), entries(a, b) \cup entries(b, c))
  <2> HIDE DEF changes
  <2> QED BY <1>2, <1>3, KeyedSteps
<1> HIDE DEF entries
<1>5. Covered(Revision(a.registryRevision, c.registryRevision),
              Revision(a.registryRevision, b.registryRevision) \cup Revision(b.registryRevision, c.registryRevision))
  BY <1>1, RevisionSteps DEF Numbered
<1>6. Covered(BreakingScalar(a.rules, c.rules), BreakingScalar(a.rules, b.rules) \cup BreakingScalar(b.rules, c.rules))
  BY <1>1, ScalarSteps
<1> QED BY <1>1, <1>4, <1>5, <1>6 DEF Covered

-----------------------------------------------------------------------------
(* Typed properties: one value, the fields of one object *)

LEMMA TypeStep ==
  ASSUME NEW kind, NEW a, NEW b, "breaking" \notin TypeChanges(kind, a, b)
  PROVE  /\ a.type # b.type => {a.type, b.type} = {"integer", "number"}
         /\ a.type # b.type => "feature" \in TypeChanges(kind, a, b)
BY DEF TypeChanges, Change

LEMMA TypeSteps ==
  ASSUME NEW kind, NEW a, NEW b, NEW c,
         "breaking" \notin TypeChanges(kind, a, b), "breaking" \notin TypeChanges(kind, b, c)
  PROVE  Covered(TypeChanges(kind, a, c), TypeChanges(kind, a, b) \cup TypeChanges(kind, b, c))
BY DEF TypeChanges, Change, Covered

LEMMA FormatSteps ==
  ASSUME NEW kind, NEW a, NEW b, NEW c,
         "breaking" \notin FormatChanges(kind, a, b), "breaking" \notin FormatChanges(kind, b, c)
  PROVE  Covered(FormatChanges(kind, a, c), FormatChanges(kind, a, b) \cup FormatChanges(kind, b, c))
BY DEF FormatChanges, Change, Covered

LEMMA FlagSteps ==
  ASSUME NEW kind, NEW a, NEW b, NEW c,
         "breaking" \notin FlagChanges(kind, a, b), "breaking" \notin FlagChanges(kind, b, c)
  PROVE  Covered(FlagChanges(kind, a, c), FlagChanges(kind, a, b) \cup FlagChanges(kind, b, c))
BY DEF FlagChanges, Change, Covered

LEMMA EnumSteps ==
  ASSUME NEW kind, NEW a, NEW b, NEW c,
         "breaking" \notin EnumChanges(kind, a, b), "breaking" \notin EnumChanges(kind, b, c)
  PROVE  Covered(EnumChanges(kind, a, c), EnumChanges(kind, a, b) \cup EnumChanges(kind, b, c))
BY DEF EnumChanges, Change, Covered

\* What a comparison of two sets of fields says while it is not breaking.
FieldsAgree(kind, base, head, baseRequired, headRequired, baseExtra) ==
  /\ DOMAIN base \subseteq DOMAIN head
  /\ kind = "request" =>
       /\ \A f \in DOMAIN head \ DOMAIN base : f \notin headRequired /\ ~ baseExtra
       /\ \A f \in DOMAIN base : f \in headRequired => f \in baseRequired
  /\ kind # "request" => \A f \in DOMAIN base : f \in baseRequired => f \in headRequired

FieldsDiffer(base, head, baseRequired, headRequired) ==
  \/ DOMAIN head \ DOMAIN base # {}
  \/ \E f \in Kept(base, head) : (f \in baseRequired) # (f \in headRequired)

LEMMA FieldSetIs ==
  ASSUME NEW kind, NEW base, NEW head, NEW baseRequired, NEW headRequired, NEW baseExtra,
         FieldsAgree(kind, base, head, baseRequired, headRequired, baseExtra)
  PROVE  FieldSetChanges(kind, base, head, baseRequired, headRequired, baseExtra)
           = {l \in {"feature"} : FieldsDiffer(base, head, baseRequired, headRequired)}
<1> DEFINE lost == {l \in Change(TRUE) : DOMAIN base \ DOMAIN head # {}}
           new(f) == Change(kind = "request" /\ (f \in headRequired \/ baseExtra))
           kept(f) == Change(IF kind = "request" THEN f \in headRequired ELSE f \in baseRequired)
           turned == {g \in Kept(base, head) : (g \in baseRequired) # (g \in headRequired)}
<1>1. FieldSetChanges(kind, base, head, baseRequired, headRequired, baseExtra)
        = lost \cup (UNION {new(f) : f \in DOMAIN head \ DOMAIN base}) \cup (UNION {kept(f) : f \in turned})
  BY DEF FieldSetChanges
<1>2. lost = {}
  BY DEF FieldsAgree
<1>3. \A f \in DOMAIN head \ DOMAIN base : new(f) = {"feature"}
  BY DEF FieldsAgree, Change
<1>4. \A f \in turned : kept(f) = {"feature"}
  BY DEF FieldsAgree, Change, Kept
<1>5. FieldsDiffer(base, head, baseRequired, headRequired) <=> DOMAIN head \ DOMAIN base # {} \/ turned # {}
  BY DEF FieldsDiffer
<1> HIDE DEF lost, new, kept, turned
<1> QED BY <1>1, <1>2, <1>3, <1>4, <1>5

LEMMA FieldSetStep ==
  ASSUME NEW kind, NEW base, NEW head, NEW baseRequired, NEW headRequired, NEW baseExtra,
         "breaking" \notin FieldSetChanges(kind, base, head, baseRequired, headRequired, baseExtra)
  PROVE  FieldsAgree(kind, base, head, baseRequired, headRequired, baseExtra)
<1>1. DOMAIN base \subseteq DOMAIN head
  BY DEF FieldSetChanges, Change
<1>2. ASSUME NEW f \in DOMAIN head \ DOMAIN base PROVE ~ (kind = "request" /\ (f \in headRequired \/ baseExtra))
  BY DEF FieldSetChanges, Change
<1>3. ASSUME NEW f \in DOMAIN base, (f \in baseRequired) # (f \in headRequired)
      PROVE  ~ (IF kind = "request" THEN f \in headRequired ELSE f \in baseRequired)
  BY <1>1, <1>3 DEF FieldSetChanges, Change, Kept
<1> QED BY <1>1, <1>2, <1>3 DEF FieldsAgree

\* In a request the first schema must not close what the second step opens.
LEMMA FieldSetSteps ==
  ASSUME NEW kind, NEW a, NEW b, NEW c, NEW ra, NEW rb, NEW rc, NEW xa, NEW xb,
         kind = "request" /\ xa => xb,
         "breaking" \notin FieldSetChanges(kind, a, b, ra, rb, xa),
         "breaking" \notin FieldSetChanges(kind, b, c, rb, rc, xb)
  PROVE  Covered(FieldSetChanges(kind, a, c, ra, rc, xa),
                 FieldSetChanges(kind, a, b, ra, rb, xa) \cup FieldSetChanges(kind, b, c, rb, rc, xb))
<1>1. FieldsAgree(kind, a, b, ra, rb, xa) /\ FieldsAgree(kind, b, c, rb, rc, xb)
  BY FieldSetStep
<1>2. FieldsAgree(kind, a, c, ra, rc, xa)
  <2>1. ASSUME kind = "request", NEW f \in DOMAIN c \ DOMAIN a PROVE f \notin rc /\ ~ xa
    BY <1>1, <2>1 DEF FieldsAgree
  <2>2. ASSUME kind = "request", NEW f \in DOMAIN a, f \in rc PROVE f \in ra
    BY <1>1, <2>2 DEF FieldsAgree
  <2>3. ASSUME kind # "request", NEW f \in DOMAIN a, f \in ra PROVE f \in rc
    BY <1>1, <2>3 DEF FieldsAgree
  <2> QED BY <1>1, <2>1, <2>2, <2>3 DEF FieldsAgree
<1>3. FieldsDiffer(a, c, ra, rc) => FieldsDiffer(a, b, ra, rb) \/ FieldsDiffer(b, c, rb, rc)
  BY <1>1 DEF FieldsDiffer, FieldsAgree, Kept
<1>4. /\ FieldSetChanges(kind, a, b, ra, rb, xa) = {l \in {"feature"} : FieldsDiffer(a, b, ra, rb)}
      /\ FieldSetChanges(kind, b, c, rb, rc, xb) = {l \in {"feature"} : FieldsDiffer(b, c, rb, rc)}
      /\ FieldSetChanges(kind, a, c, ra, rc, xa) = {l \in {"feature"} : FieldsDiffer(a, c, ra, rc)}
  BY <1>1, <1>2, FieldSetIs
<1> QED BY <1>3, <1>4 DEF Covered

LEMMA ValueSteps ==
  ASSUME NEW kind, NEW a, NEW b, NEW c,
         "breaking" \notin ValueChanges(kind, a, b), "breaking" \notin ValueChanges(kind, b, c)
  PROVE  Covered(ValueChanges(kind, a, c), ValueChanges(kind, a, b) \cup ValueChanges(kind, b, c))
<1> DEFINE below(x, y) ==
             IF x.type = "object" /\ y.type = "object"
             THEN FieldSetChanges(kind, x.properties, y.properties, x.required, y.required, x.extra)
             ELSE {}
<1>1. \A x, y : ValueChanges(kind, x, y) =
        TypeChanges(kind, x, y) \cup FormatChanges(kind, x, y) \cup FlagChanges(kind, x.nullable, y.nullable)
        \cup FlagChanges(kind, x.extra, y.extra) \cup EnumChanges(kind, x.enum, y.enum) \cup below(x, y)
  BY DEF ValueChanges
<1>2. Covered(below(a, c), below(a, b) \cup below(b, c))
  <2>1. CASE a.type = "object" /\ c.type = "object"
    <3>1. b.type = "object"
      BY <2>1, TypeStep DEF ValueChanges
    <3>2. kind = "request" /\ a.extra => b.extra
      BY DEF ValueChanges, FlagChanges, Change
    <3>3. "breaking" \notin below(a, b) /\ "breaking" \notin below(b, c)
      BY <1>1
    <3> QED BY <2>1, <3>1, <3>2, <3>3, FieldSetSteps
  <2>2. CASE ~ (a.type = "object" /\ c.type = "object")
    BY <2>2 DEF Covered
  <2> QED BY <2>1, <2>2
<1> HIDE DEF below
<1>3. Covered(TypeChanges(kind, a, c), TypeChanges(kind, a, b) \cup TypeChanges(kind, b, c))
  BY <1>1, TypeSteps
<1>4. Covered(FormatChanges(kind, a, c), FormatChanges(kind, a, b) \cup FormatChanges(kind, b, c))
  BY <1>1, FormatSteps
<1>5. Covered(FlagChanges(kind, a.nullable, c.nullable),
              FlagChanges(kind, a.nullable, b.nullable) \cup FlagChanges(kind, b.nullable, c.nullable))
  BY <1>1, FlagSteps
<1>6. Covered(FlagChanges(kind, a.extra, c.extra),
              FlagChanges(kind, a.extra, b.extra) \cup FlagChanges(kind, b.extra, c.extra))
  BY <1>1, FlagSteps
<1>7. Covered(EnumChanges(kind, a.enum, c.enum), EnumChanges(kind, a.enum, b.enum) \cup EnumChanges(kind, b.enum, c.enum))
  BY <1>1, EnumSteps
<1> QED BY <1>1, <1>2, <1>3, <1>4, <1>5, <1>6, <1>7 DEF Covered

-----------------------------------------------------------------------------
(* Typed properties: whole schemas *)

\* compareTypedProperties without the fields of the schema and its depth limit.
Compared(base, head) == UNION {PairsAt(base, head)[d] : d \in 0 .. MaxDepth}

LEMMA TypedChangesIs ==
  ASSUME NEW base, NEW head
  PROVE  TypedChanges(base, head) =
           FieldSetChanges(base.kind, base.properties, head.properties, base.required, head.required, FALSE)
           \cup (UNION {ValueChanges(base.kind, pair[1], pair[2]) : pair \in Compared(base.properties, head.properties)})
           \cup {l \in {"breaking"} : PairsAt(base.properties, head.properties)[MaxDepth + 1] # {}}
BY DEF TypedChanges, Compared, Change

\* A step of two property sets that is not breaking: no property and no pair of
\* properties is breaking, and no pair is beyond the limit.
StepKept(kind, base, head) ==
  /\ DOMAIN base \subseteq DOMAIN head
  /\ \A pair \in Compared(base, head) : "breaking" \notin ValueChanges(kind, pair[1], pair[2])
  /\ PairsAt(base, head)[MaxDepth + 1] = {}

LEMMA TypedStep ==
  ASSUME NEW base, NEW head, "breaking" \notin TypedChanges(base, head)
  PROVE  /\ StepKept(base.kind, base.properties, head.properties)
         /\ FieldsAgree(base.kind, base.properties, head.properties, base.required, head.required, FALSE)
<1>1. FieldsAgree(base.kind, base.properties, head.properties, base.required, head.required, FALSE)
  BY TypedChangesIs, FieldSetStep
<1>2. DOMAIN base.properties \subseteq DOMAIN head.properties
  BY <1>1 DEF FieldsAgree
<1>3. ASSUME NEW pair \in Compared(base.properties, head.properties)
      PROVE  "breaking" \notin ValueChanges(base.kind, pair[1], pair[2])
  BY <1>3, TypedChangesIs
<1>4. PairsAt(base.properties, head.properties)[MaxDepth + 1] = {}
  BY TypedChangesIs
<1> QED BY <1>1, <1>2, <1>3, <1>4 DEF StepKept

\* What two properties with a common middle compare below, the steps compare too.
LEMMA BelowSteps ==
  ASSUME NEW kind, NEW a, NEW b, NEW c,
         "breaking" \notin ValueChanges(kind, a, b), "breaking" \notin ValueChanges(kind, b, c),
         NEW x, NEW z, <<x, z>> \in PairsBelow(<<a, c>>)
  PROVE  \E y : <<x, y>> \in PairsBelow(<<a, b>>) /\ <<y, z>> \in PairsBelow(<<b, c>>)
<1>1. CASE a.type = "object" /\ c.type = "object"
  <2>1. b.type = "object"
    BY <1>1, TypeStep DEF ValueChanges
  <2>2. DOMAIN a.properties \subseteq DOMAIN b.properties
    BY <1>1, <2>1, FieldSetStep DEF ValueChanges, FieldsAgree
  <2>3. PICK f \in Kept(a.properties, c.properties) : x = a.properties[f] /\ z = c.properties[f]
    BY <1>1 DEF PairsBelow, PairsOf
  <2>4. f \in Kept(a.properties, b.properties) /\ f \in Kept(b.properties, c.properties)
    BY <2>2 DEF Kept
  <2>5. /\ <<x, b.properties[f]>> \in PairsBelow(<<a, b>>)
        /\ <<b.properties[f], z>> \in PairsBelow(<<b, c>>)
    BY <1>1, <2>1, <2>3, <2>4 DEF PairsBelow, PairsOf
  <2> QED BY <2>5
<1>2. CASE a.type = "array" /\ c.type = "array"
  <2>1. b.type = "array"
    BY <1>2, TypeStep DEF ValueChanges
  <2>2. x = a.items /\ z = c.items
    BY <1>2 DEF PairsBelow
  <2>3. <<x, b.items>> \in PairsBelow(<<a, b>>) /\ <<b.items, z>> \in PairsBelow(<<b, c>>)
    BY <1>2, <2>1, <2>2 DEF PairsBelow
  <2> QED BY <2>3
<1> QED BY <1>1, <1>2 DEF PairsBelow

LEMMA PairsArePairs ==
  ASSUME NEW base, NEW head, NEW d \in 0 .. MaxDepth + 1, NEW pair \in PairsAt(base, head)[d]
  PROVE  pair = <<pair[1], pair[2]>>
<1>1. CASE d = 0
  BY <1>1, PairsAtEquation DEF PairsOf
<1>2. CASE d # 0
  <2>1. d - 1 \in 0 .. MaxDepth /\ (d - 1) + 1 = d
    BY <1>2, MaxDepthAssumption
  <2>2. PairsAt(base, head)[d] = UNION {PairsBelow(p) : p \in PairsAt(base, head)[d - 1]}
    BY <2>1, PairsAtEquation
  <2>3. PICK p : pair \in PairsBelow(p)
    BY <2>2
  <2> QED BY <2>3 DEF PairsBelow, PairsOf
<1> QED BY <1>1, <1>2

LEMMA PairsSteps ==
  ASSUME NEW kind, NEW a, NEW b, NEW c, StepKept(kind, a, b), StepKept(kind, b, c)
  PROVE  \A d \in 0 .. MaxDepth + 1 : \A x, z : <<x, z>> \in PairsAt(a, c)[d] =>
           \E y : <<x, y>> \in PairsAt(a, b)[d] /\ <<y, z>> \in PairsAt(b, c)[d]
<1> DEFINE Joined(d) == \A x, z : <<x, z>> \in PairsAt(a, c)[d] =>
                          \E y : <<x, y>> \in PairsAt(a, b)[d] /\ <<y, z>> \in PairsAt(b, c)[d]
           Reached == {d \in 0 .. MaxDepth + 1 : Joined(d)}
<1> USE MaxDepthAssumption
<1>1. 0 \in Reached
  <2> SUFFICES ASSUME NEW x, NEW z, <<x, z>> \in PairsAt(a, c)[0]
               PROVE  \E y : <<x, y>> \in PairsAt(a, b)[0] /\ <<y, z>> \in PairsAt(b, c)[0]
    OBVIOUS
  <2>1. PICK f \in Kept(a, c) : x = a[f] /\ z = c[f]
    BY PairsAtEquation DEF PairsOf
  <2>2. f \in Kept(a, b) /\ f \in Kept(b, c)
    BY DEF Kept, StepKept
  <2>3. <<x, b[f]>> \in PairsOf(a, b) /\ <<b[f], z>> \in PairsOf(b, c)
    BY <2>1, <2>2 DEF PairsOf
  <2>4. <<x, b[f]>> \in PairsAt(a, b)[0] /\ <<b[f], z>> \in PairsAt(b, c)[0]
    BY <2>3, PairsAtEquation
  <2> QED BY <2>4
<1>2. ASSUME NEW d \in 0 .. MaxDepth, d \in Reached PROVE d + 1 \in Reached
  <2> SUFFICES ASSUME NEW x, NEW z, <<x, z>> \in PairsAt(a, c)[d + 1]
               PROVE  \E y : <<x, y>> \in PairsAt(a, b)[d + 1] /\ <<y, z>> \in PairsAt(b, c)[d + 1]
    OBVIOUS
  <2>1. PICK pair \in PairsAt(a, c)[d] : <<x, z>> \in PairsBelow(pair)
    BY PairsAtEquation
  <2>2. pair = <<pair[1], pair[2]>>
    BY PairsArePairs
  <2>3. PICK y : <<pair[1], y>> \in PairsAt(a, b)[d] /\ <<y, pair[2]>> \in PairsAt(b, c)[d]
    BY <1>2, <2>2
  <2>4. <<pair[1], y>> \in Compared(a, b) /\ <<y, pair[2]>> \in Compared(b, c)
    BY <2>3 DEF Compared
  <2>5. "breaking" \notin ValueChanges(kind, pair[1], y) /\ "breaking" \notin ValueChanges(kind, y, pair[2])
    <3>1. ASSUME NEW l, NEW r, NEW p, NEW q, StepKept(kind, p, q), <<l, r>> \in Compared(p, q)
          PROVE  "breaking" \notin ValueChanges(kind, l, r)
      <4>1. "breaking" \notin ValueChanges(kind, <<l, r>>[1], <<l, r>>[2])
        BY <3>1 DEF StepKept
      <4> QED BY <4>1
    <3> QED BY <2>4, <3>1
  <2>6. <<x, z>> \in PairsBelow(<<pair[1], pair[2]>>)
    BY <2>1, <2>2
  <2>7. PICK w : <<x, w>> \in PairsBelow(<<pair[1], y>>) /\ <<w, z>> \in PairsBelow(<<y, pair[2]>>)
    BY <2>5, <2>6, BelowSteps
  <2>8. /\ PairsBelow(<<pair[1], y>>) \subseteq PairsAt(a, b)[d + 1]
        /\ PairsBelow(<<y, pair[2]>>) \subseteq PairsAt(b, c)[d + 1]
    BY <2>3, PairsAtEquation
  <2> QED BY <2>7, <2>8
<1>3. \A d \in 0 .. MaxDepth + 1 : d \in Reached
  <2> HIDE DEF Reached
  <2> QED BY <1>1, <1>2, Counting
<1> QED BY <1>3

\* A pair of the direct comparison has the levels of two pairs of the steps.
LEMMA TypedSteps ==
  ASSUME NEW a, NEW b, NEW c, a.kind = b.kind,
         "breaking" \notin TypedChanges(a, b), "breaking" \notin TypedChanges(b, c)
  PROVE  Covered(TypedChanges(a, c), TypedChanges(a, b) \cup TypedChanges(b, c))
<1> DEFINE kind == a.kind
           values(x, y) == UNION {ValueChanges(x.kind, pair[1], pair[2]) :
                                    pair \in Compared(x.properties, y.properties)}
           fields(x, y) == FieldSetChanges(x.kind, x.properties, y.properties, x.required, y.required, FALSE)
           deep(x, y) == {l \in {"breaking"} : PairsAt(x.properties, y.properties)[MaxDepth + 1] # {}}
<1>1. \A x, y : TypedChanges(x, y) = fields(x, y) \cup values(x, y) \cup deep(x, y)
  BY TypedChangesIs
<1>2. StepKept(kind, a.properties, b.properties) /\ StepKept(kind, b.properties, c.properties)
  BY TypedStep
<1>3. Covered(fields(a, c), fields(a, b) \cup fields(b, c))
  <2>1. "breaking" \notin fields(a, b) /\ "breaking" \notin fields(b, c)
    BY TypedChangesIs
  <2> QED BY <2>1, FieldSetSteps
<1>4. ASSUME NEW pair \in Compared(a.properties, c.properties)
      PROVE  Covered(ValueChanges(kind, pair[1], pair[2]), values(a, b) \cup values(b, c))
  <2>1. PICK d \in 0 .. MaxDepth : pair \in PairsAt(a.properties, c.properties)[d]
    BY DEF Compared
  <2>2. d \in 0 .. MaxDepth + 1
    BY MaxDepthAssumption
  <2>3. <<pair[1], pair[2]>> \in PairsAt(a.properties, c.properties)[d]
    BY <2>1, <2>2, PairsArePairs
  <2>4. PICK y : /\ <<pair[1], y>> \in PairsAt(a.properties, b.properties)[d]
                 /\ <<y, pair[2]>> \in PairsAt(b.properties, c.properties)[d]
    BY <1>2, <2>2, <2>3, PairsSteps
  <2>5. <<pair[1], y>> \in Compared(a.properties, b.properties) /\ <<y, pair[2]>> \in Compared(b.properties, c.properties)
    BY <2>4 DEF Compared
  <2>6. /\ ValueChanges(kind, <<pair[1], y>>[1], <<pair[1], y>>[2]) \subseteq values(a, b)
        /\ ValueChanges(kind, <<y, pair[2]>>[1], <<y, pair[2]>>[2]) \subseteq values(b, c)
        /\ "breaking" \notin ValueChanges(kind, <<pair[1], y>>[1], <<pair[1], y>>[2])
        /\ "breaking" \notin ValueChanges(kind, <<y, pair[2]>>[1], <<y, pair[2]>>[2])
    BY <1>2, <2>5 DEF StepKept
  <2>7. /\ ValueChanges(kind, pair[1], y) \subseteq values(a, b)
        /\ ValueChanges(kind, y, pair[2]) \subseteq values(b, c)
        /\ "breaking" \notin ValueChanges(kind, pair[1], y)
        /\ "breaking" \notin ValueChanges(kind, y, pair[2])
    BY <2>6
  <2> HIDE DEF values, kind
  <2>8. Covered(ValueChanges(kind, pair[1], pair[2]), ValueChanges(kind, pair[1], y) \cup ValueChanges(kind, y, pair[2]))
    BY <2>7, ValueSteps
  <2> QED BY <2>7, <2>8 DEF Covered
<1>5. deep(a, c) = {}
  <2> SUFFICES ASSUME PairsAt(a.properties, c.properties)[MaxDepth + 1] # {} PROVE FALSE
    OBVIOUS
  <2>1. PICK pair \in PairsAt(a.properties, c.properties)[MaxDepth + 1] : TRUE
    OBVIOUS
  <2>2. MaxDepth + 1 \in 0 .. MaxDepth + 1
    BY MaxDepthAssumption
  <2>3. <<pair[1], pair[2]>> \in PairsAt(a.properties, c.properties)[MaxDepth + 1]
    BY <2>2, PairsArePairs
  <2> HIDE DEF kind
  <2>4. \A d \in 0 .. MaxDepth + 1 : \A x, z : <<x, z>> \in PairsAt(a.properties, c.properties)[d] =>
          \E y : /\ <<x, y>> \in PairsAt(a.properties, b.properties)[d]
                 /\ <<y, z>> \in PairsAt(b.properties, c.properties)[d]
    BY <1>2, PairsSteps
  <2>5. \E y : <<pair[1], y>> \in PairsAt(a.properties, b.properties)[MaxDepth + 1]
    BY <2>2, <2>3, <2>4
  <2> QED BY <1>2, <2>5 DEF StepKept
<1>6. Covered(values(a, c), values(a, b) \cup values(b, c))
  <2>1. values(a, c) = UNION {ValueChanges(kind, pair[1], pair[2]) : pair \in Compared(a.properties, c.properties)}
    OBVIOUS
  <2> DEFINE steps == values(a, b) \cup values(b, c)
             direct(pair) == ValueChanges(kind, pair[1], pair[2])
  <2>2. \A pair \in Compared(a.properties, c.properties) : Covered(direct(pair), steps)
    BY <1>4
  <2>3. values(a, c) = UNION {direct(pair) : pair \in Compared(a.properties, c.properties)}
    BY <2>1
  <2>4. \A l \in values(a, c) : \E pair \in Compared(a.properties, c.properties) : l \in direct(pair)
    <3> HIDE DEF direct, values
    <3> QED BY <2>3
  <2> HIDE DEF direct, steps, values
  <2>5. Covered(values(a, c), steps)
    BY <2>2, <2>4 DEF Covered
  <2> QED BY <2>5 DEF steps
<1> HIDE DEF fields, values, deep
<1> QED BY <1>1, <1>3, <1>5, <1>6 DEF Covered

-----------------------------------------------------------------------------
(* Schemas, bundles and whole contracts *)

LEMMA SchemaPropertiesSteps ==
  ASSUME NEW a, NEW b, NEW c, a.kind = b.kind,
         "breaking" \notin SchemaProperties(a, b), "breaking" \notin SchemaProperties(b, c)
  PROVE  Covered(SchemaProperties(a, c), SchemaProperties(a, b) \cup SchemaProperties(b, c))
<1>1. CASE a.properties = Undefined
  BY <1>1 DEF SchemaProperties, Differs, Covered
<1>2. CASE a.properties # Undefined
  <2>1. b.properties # Undefined /\ c.properties # Undefined
    BY <1>2 DEF SchemaProperties, Differs
  <2>2. /\ SchemaProperties(a, b) = TypedChanges(a, b)
        /\ SchemaProperties(b, c) = TypedChanges(b, c)
        /\ SchemaProperties(a, c) = TypedChanges(a, c)
    BY <1>2, <2>1 DEF SchemaProperties
  <2> QED BY <2>2, TypedSteps
<1> QED BY <1>1, <1>2

LEMMA SchemaSteps ==
  ASSUME NEW a, NEW b, NEW c,
         "breaking" \notin SchemaChanges(a, b), "breaking" \notin SchemaChanges(b, c)
  PROVE  Covered(SchemaChanges(a, c), SchemaChanges(a, b) \cup SchemaChanges(b, c))
<1>1. Covered(RequestHeaders(a.requestHeaders, c.requestHeaders),
              RequestHeaders(a.requestHeaders, b.requestHeaders) \cup RequestHeaders(b.requestHeaders, c.requestHeaders))
  BY RequestHeadersSteps DEF SchemaChanges
<1>2. a.kind = b.kind /\ b.kind = c.kind
  BY ScalarStep DEF SchemaChanges
<1>3. Covered(BreakingScalar(a.kind, c.kind), BreakingScalar(a.kind, b.kind) \cup BreakingScalar(b.kind, c.kind))
  BY ScalarSteps DEF SchemaChanges
<1>4. Covered(BreakingScalar(a.anchor, c.anchor), BreakingScalar(a.anchor, b.anchor) \cup BreakingScalar(b.anchor, c.anchor))
  BY ScalarSteps DEF SchemaChanges
<1>5. Covered(Differs(a.secretMaterialPolicy, c.secretMaterialPolicy, "patch"),
              Differs(a.secretMaterialPolicy, b.secretMaterialPolicy, "patch")
              \cup Differs(b.secretMaterialPolicy, c.secretMaterialPolicy, "patch"))
  BY DiffersSteps DEF SchemaChanges
<1>6. Covered(FieldChanges(a, c), FieldChanges(a, b) \cup FieldChanges(b, c))
  BY <1>2, FieldSteps DEF SchemaChanges
<1>7. Covered(SchemaProperties(a, c), SchemaProperties(a, b) \cup SchemaProperties(b, c))
  BY <1>2, SchemaPropertiesSteps DEF SchemaChanges
<1>8. Covered(SetDelta(a.secretFields, c.secretFields, "patch", "breaking"),
              SetDelta(a.secretFields, b.secretFields, "patch", "breaking")
              \cup SetDelta(b.secretFields, c.secretFields, "patch", "breaking"))
  BY SetDeltaSteps DEF SchemaChanges
<1> QED BY <1>1, <1>3, <1>4, <1>5, <1>6, <1>7, <1>8 DEF SchemaChanges, Covered

LEMMA BundleSteps ==
  ASSUME NEW a, NEW b, NEW c,
         "breaking" \notin BundleChanges(a, b), "breaking" \notin BundleChanges(b, c)
  PROVE  Covered(BundleChanges(a, c), BundleChanges(a, b) \cup BundleChanges(b, c))
<1> DEFINE changes(x, y) == [s \in Kept(x.schemas, y.schemas) |-> SchemaChanges(x.schemas[s], y.schemas[s])]
           schemas(x, y) == Keyed(x.schemas, y.schemas, "feature", changes(x, y))
<1>1. \A x, y : BundleChanges(x, y) =
        BreakingScalar(x.anchor, y.anchor) \cup RequiredSet(x.requiredMetadata, y.requiredMetadata)
        \cup ForbiddenSet(x.forbiddenPayload, y.forbiddenPayload) \cup schemas(x, y)
  BY DEF BundleChanges
<1>2. ASSUME NEW s \in DOMAIN a.schemas \cap DOMAIN b.schemas \cap DOMAIN c.schemas,
             "breaking" \notin changes(a, b)[s], "breaking" \notin changes(b, c)[s]
      PROVE  Covered(changes(a, c)[s], changes(a, b)[s] \cup changes(b, c)[s])
  <2>1. /\ changes(a, b)[s] = SchemaChanges(a.schemas[s], b.schemas[s])
        /\ changes(b, c)[s] = SchemaChanges(b.schemas[s], c.schemas[s])
        /\ changes(a, c)[s] = SchemaChanges(a.schemas[s], c.schemas[s])
    BY DEF Kept
  <2> HIDE DEF changes
  <2>2. "breaking" \notin SchemaChanges(a.schemas[s], b.schemas[s])
        /\ "breaking" \notin SchemaChanges(b.schemas[s], c.schemas[s])
    BY <1>2, <2>1
  <2> QED BY <2>1, <2>2, SchemaSteps
<1>3. "breaking" \notin schemas(a, b) /\ "breaking" \notin schemas(b, c)
  <2> HIDE DEF schemas
  <2> QED BY <1>1
<1>4. Covered(schemas(a, c), schemas(a, b) \cup schemas(b, c))
  <2> HIDE DEF changes
  <2> QED BY <1>2, <1>3, KeyedSteps
<1> HIDE DEF schemas
<1>5. Covered(BreakingScalar(a.anchor, c.anchor), BreakingScalar(a.anchor, b.anchor) \cup BreakingScalar(b.anchor, c.anchor))
  BY <1>1, ScalarSteps
<1>6. Covered(RequiredSet(a.requiredMetadata, c.requiredMetadata),
              RequiredSet(a.requiredMetadata, b.requiredMetadata)
              \cup RequiredSet(b.requiredMetadata, c.requiredMetadata))
  BY <1>1, ListSteps
<1>7. Covered(ForbiddenSet(a.forbiddenPayload, c.forbiddenPayload),
              ForbiddenSet(a.forbiddenPayload, b.forbiddenPayload)
              \cup ForbiddenSet(b.forbiddenPayload, c.forbiddenPayload))
  BY <1>1, ListSteps
<1> QED BY <1>1, <1>4, <1>5, <1>6, <1>7 DEF Covered

LEMMA BundlesSteps ==
  ASSUME NEW a, NEW b, NEW c,
         "breaking" \notin BundlesChanges(a, b), "breaking" \notin BundlesChanges(b, c)
  PROVE  Covered(BundlesChanges(a, c), BundlesChanges(a, b) \cup BundlesChanges(b, c))
<1> DEFINE entries(x, y) == [k \in Kept(x, y) |-> BundleChanges(x[k], y[k])]
<1>1. \A x, y : BundlesChanges(x, y) = Keyed(x, y, "feature", entries(x, y))
  BY DEF BundlesChanges
<1>2. ASSUME NEW k \in DOMAIN a \cap DOMAIN b \cap DOMAIN c,
             "breaking" \notin entries(a, b)[k], "breaking" \notin entries(b, c)[k]
      PROVE  Covered(entries(a, c)[k], entries(a, b)[k] \cup entries(b, c)[k])
  <2>1. /\ entries(a, b)[k] = BundleChanges(a[k], b[k])
        /\ entries(b, c)[k] = BundleChanges(b[k], c[k])
        /\ entries(a, c)[k] = BundleChanges(a[k], c[k])
    BY DEF Kept
  <2> HIDE DEF entries
  <2>2. "breaking" \notin BundleChanges(a[k], b[k]) /\ "breaking" \notin BundleChanges(b[k], c[k])
    BY <1>2, <2>1
  <2> QED BY <2>1, <2>2, BundleSteps
<1>3. /\ "breaking" \notin Keyed(a, b, "feature", entries(a, b))
      /\ "breaking" \notin Keyed(b, c, "feature", entries(b, c))
  BY <1>1
<1>4. Covered(Keyed(a, c, "feature", entries(a, c)),
              Keyed(a, b, "feature", entries(a, b)) \cup Keyed(b, c, "feature", entries(b, c)))
  <2> HIDE DEF entries
  <2> QED BY <1>2, <1>3, KeyedSteps
<1> QED BY <1>1, <1>4

\* What the loader guarantees of the numbers the comparer orders.
Comparable(contracts) == Graded(contracts.routes) /\ Numbered(contracts.oidcClientRegistry)

\* compareApiContracts: two steps that are not breaking have reported whatever a
\* direct comparison of their ends reports.
THEOREM ContractSteps ==
  ASSUME NEW a, NEW b, NEW c, Comparable(a), Comparable(b), Comparable(c),
         "breaking" \notin ContractChanges(a, b), "breaking" \notin ContractChanges(b, c)
  PROVE  Covered(ContractChanges(a, c), ContractChanges(a, b) \cup ContractChanges(b, c))
<1>1. Covered(RouteContractChanges(a.routeContract, c.routeContract),
              RouteContractChanges(a.routeContract, b.routeContract)
              \cup RouteContractChanges(b.routeContract, c.routeContract))
  BY RouteContractSteps DEF ContractChanges
<1>2. Covered(RoutesChanges(a.routes, c.routes), RoutesChanges(a.routes, b.routes) \cup RoutesChanges(b.routes, c.routes))
  BY RoutesSteps DEF ContractChanges, Comparable
<1>3. Covered(BundlesChanges(a.bundles, c.bundles),
              BundlesChanges(a.bundles, b.bundles) \cup BundlesChanges(b.bundles, c.bundles))
  BY BundlesSteps DEF ContractChanges
<1>4. Covered(RequiredSet(a.requiredItems, c.requiredItems),
              RequiredSet(a.requiredItems, b.requiredItems) \cup RequiredSet(b.requiredItems, c.requiredItems))
  BY ListSteps DEF ContractChanges
<1>5. Covered(Allowlist(a.allowedItems, c.allowedItems),
              Allowlist(a.allowedItems, b.allowedItems) \cup Allowlist(b.allowedItems, c.allowedItems))
  BY ListSteps DEF ContractChanges
<1>6. Covered(ForbiddenSet(a.forbiddenItems, c.forbiddenItems),
              ForbiddenSet(a.forbiddenItems, b.forbiddenItems) \cup ForbiddenSet(b.forbiddenItems, c.forbiddenItems))
  BY ListSteps DEF ContractChanges
<1>7. Covered(CalculatorsChanges(a.calculators, c.calculators),
              CalculatorsChanges(a.calculators, b.calculators) \cup CalculatorsChanges(b.calculators, c.calculators))
  BY CalculatorsSteps DEF ContractChanges
<1>8. Covered(OidcRegistryChanges(a.oidcClientRegistry, c.oidcClientRegistry),
              OidcRegistryChanges(a.oidcClientRegistry, b.oidcClientRegistry)
              \cup OidcRegistryChanges(b.oidcClientRegistry, c.oidcClientRegistry))
  BY RegistrySteps DEF ContractChanges, Comparable
<1>9. Covered(BreakingScalar(a.structural, c.structural),
              BreakingScalar(a.structural, b.structural) \cup BreakingScalar(b.structural, c.structural))
  BY ScalarSteps DEF ContractChanges
<1> QED BY <1>1, <1>2, <1>3, <1>4, <1>5, <1>6, <1>7, <1>8, <1>9 DEF ContractChanges, Covered
-----------------------------------------------------------------------------
(* A schema against itself *)

LEMMA PairsWithItself ==
  ASSUME NEW a
  PROVE  \A d \in 0 .. MaxDepth + 1 : \A pair \in PairsAt(a, a)[d] : pair[1] = pair[2]
<1> DEFINE Reached == {d \in 0 .. MaxDepth + 1 : \A pair \in PairsAt(a, a)[d] : pair[1] = pair[2]}
<1> USE MaxDepthAssumption
<1>1. 0 \in Reached
  BY PairsAtEquation DEF PairsOf
<1>2. ASSUME NEW d \in 0 .. MaxDepth, d \in Reached PROVE d + 1 \in Reached
  <2> SUFFICES ASSUME NEW pair \in PairsAt(a, a)[d + 1] PROVE pair[1] = pair[2]
    OBVIOUS
  <2>1. PICK above \in PairsAt(a, a)[d] : pair \in PairsBelow(above)
    BY PairsAtEquation
  <2>2. above[1] = above[2]
    BY <1>2
  <2> QED BY <2>1, <2>2 DEF PairsBelow, PairsOf
<1>3. \A d \in 0 .. MaxDepth + 1 : d \in Reached
  <2> HIDE DEF Reached
  <2> QED BY <1>1, <1>2, Counting
<1> QED BY <1>3

LEMMA FieldSetWithItself ==
  ASSUME NEW kind, NEW a, NEW required, NEW extra
  PROVE  FieldSetChanges(kind, a, a, required, required, extra) = {}
BY FieldSetIs DEF FieldsAgree, FieldsDiffer

LEMMA UnchangedSchema ==
  ASSUME NEW a,
         a.properties # Undefined => PairsAt(a.properties, a.properties)[MaxDepth + 1] = {}
  PROVE  SchemaChanges(a, a) = {}
<1>1. CASE a.properties # Undefined
  <2>1. ASSUME NEW kind, NEW p PROVE ValueChanges(kind, p, p) = {}
    <3>1. FieldSetChanges(kind, p.properties, p.properties, p.required, p.required, p.extra) = {}
      BY FieldSetWithItself
    <3> QED BY <3>1 DEF ValueChanges, TypeChanges, FormatChanges, FlagChanges, EnumChanges
  <2>2. ASSUME NEW pair \in Compared(a.properties, a.properties) PROVE ValueChanges(a.kind, pair[1], pair[2]) = {}
    <3>1. pair[1] = pair[2]
      BY PairsWithItself, MaxDepthAssumption DEF Compared
    <3>2. ValueChanges(a.kind, pair[1], pair[1]) = {}
      BY <2>1
    <3> QED BY <3>1, <3>2
  <2>3. FieldSetChanges(a.kind, a.properties, a.properties, a.required, a.required, FALSE) = {}
    BY FieldSetWithItself
  <2>4. TypedChanges(a, a) = {}
    BY <1>1, <2>2, <2>3, TypedChangesIs
  <2>5. SchemaProperties(a, a) = {}
    BY <1>1, <2>4 DEF SchemaProperties
  <2> QED BY <2>5 DEF SchemaChanges, RequestHeaders, BreakingScalar, Differs, FieldChanges, SetDelta
<1>2. CASE a.properties = Undefined
  <2>1. SchemaProperties(a, a) = {}
    BY <1>2 DEF SchemaProperties, Differs
  <2> QED BY <2>1 DEF SchemaChanges, RequestHeaders, BreakingScalar, Differs, FieldChanges, SetDelta
<1> QED BY <1>1, <1>2

-----------------------------------------------------------------------------
(* The two readers of a text: their recursive functions *)

LEMMA RawsAtEquation ==
  ASSUME NEW properties
  PROVE  /\ RawsAt(properties)[0] = {properties[f] : f \in DOMAIN properties}
         /\ \A d \in 0 .. MaxDepth :
              RawsAt(properties)[d + 1] = UNION {RawsBelow(raw) : raw \in RawsAt(properties)[d]}
<1> USE MaxDepthAssumption
<1> DEFINE Value(a, d) == IF d = 0 THEN {properties[f] : f \in DOMAIN properties}
                          ELSE UNION {RawsBelow(raw) : raw \in a[d - 1]}
           Defines(a, n) == a = [d \in 0 .. n |-> Value(a, d)]
           Reached == {n \in 0 .. MaxDepth + 1 : \E a : Defines(a, n)}
<1>1. 0 \in Reached
  <2>1. Defines([d \in 0 .. 0 |-> {properties[f] : f \in DOMAIN properties}], 0)
    OBVIOUS
  <2> HIDE DEF Defines
  <2> QED BY <2>1
<1>2. ASSUME NEW n \in 0 .. MaxDepth, n \in Reached PROVE n + 1 \in Reached
  <2>1. PICK a : Defines(a, n)
    BY <1>2
  <2> DEFINE b == [d \in 0 .. n + 1 |-> IF d = n + 1 THEN Value(a, n + 1) ELSE a[d]]
  <2>2. ASSUME NEW d \in 0 .. n + 1 PROVE b[d] = Value(b, d)
    <3>1. CASE d = 0
      BY <2>1, <3>1
    <3>2. CASE d # 0
      <4>1. b[d - 1] = a[d - 1]
        BY <3>2
      <4>2. Value(b, d) = Value(a, d)
        BY <4>1, <3>2
      <4>3. b[d] = Value(a, d)
        BY <2>1, <3>2
      <4> QED BY <4>2, <4>3
    <3> QED BY <3>1, <3>2
  <2>3. Defines(b, n + 1)
    BY <2>2
  <2> HIDE DEF Defines
  <2> QED BY <2>3
<1>3. MaxDepth + 1 \in Reached
  <2> HIDE DEF Reached
  <2> QED BY <1>1, <1>2, Counting
<1>4. Defines(RawsAt(properties), MaxDepth + 1)
  <2>1. RawsAt(properties) = CHOOSE a : Defines(a, MaxDepth + 1)
    BY DEF RawsAt
  <2> HIDE DEF Defines
  <2> QED BY <1>3, <2>1
<1> QED BY <1>4

\* What the comparer sees of raw, a reading of what is inside it.
ViewOf(raw, levels, below) ==
  [type |-> ValueOf(raw, "type", Undefined),
   nullable |-> ValueOf(raw, "nullable", FALSE),
   format |-> ValueOf(raw, "format", Undefined),
   enum |-> ReadList(raw, "enum"),
   extra |-> ValueOf(raw, "additional_properties", FALSE),
   properties |-> [f \in DOMAIN Nested(raw) |->
                     IF levels = 0 THEN Undefined ELSE below[<<levels - 1, Nested(raw)[f]>>]],
   required |-> ReadList(raw, "required"),
   items |-> IF Has(raw, "items")
             THEN IF levels = 0 THEN Undefined ELSE below[<<levels - 1, raw["items"]>>]
             ELSE Undefined]

\* An absent list of keys is read as an empty one.
Keys(raw) == IF raw = Malformed THEN <<>> ELSE raw

LEMMA KeysInside ==
  ASSUME NEW raw \in Raws
  PROVE  /\ Has(Keys(raw), "items") => Keys(raw)["items"] \in Raws
         /\ \A f \in DOMAIN Nested(Keys(raw)) : Nested(Keys(raw))[f] \in Raws
<1>1. CASE raw = Malformed
  <2>1. Keys(raw) = <<>> /\ ~ Has(Keys(raw), "items") /\ ~ Has(Keys(raw), "properties")
    BY <1>1 DEF Keys, Has
  <2>2. Nested(Keys(raw)) = <<>>
    BY <2>1 DEF Nested, ValueOf
  <2> QED BY <2>1, <2>2
<1>2. CASE raw # Malformed
  BY <1>2, RawsAssumption DEF Keys
<1> QED BY <1>1, <1>2

LEMMA ViewEquation ==
  ASSUME NEW levels \in 0 .. MaxDepth + 1, NEW raw \in Raws
  PROVE  View[<<levels, raw>>] = ViewOf(Keys(raw), levels, View)
<1> USE MaxDepthAssumption
<1> DEFINE Value(a, at) == ViewOf(Keys(at[2]), at[1], a)
           Defines(a, n) == a = [at \in (0 .. n) \X Raws |-> Value(a, at)]
           Reached == {n \in 0 .. MaxDepth + 1 : \E a : Defines(a, n)}
<1>1. 0 \in Reached
  <2> DEFINE a == [at \in (0 .. 0) \X Raws |-> Value(<<>>, at)]
  <2>1. ASSUME NEW at \in (0 .. 0) \X Raws PROVE Value(<<>>, at) = Value(a, at)
    <3>1. at[1] = 0
      OBVIOUS
    <3> HIDE DEF a
    <3> QED BY <3>1 DEF ViewOf
  <2>2. Defines(a, 0)
    <3>1. a = [at \in (0 .. 0) \X Raws |-> Value(a, at)]
      <4> HIDE DEF Value
      <4> QED BY <2>1
    <3> QED BY <3>1
  <2> HIDE DEF Defines, a
  <2> QED BY <2>2
<1>2. ASSUME NEW n \in 0 .. MaxDepth, n \in Reached PROVE n + 1 \in Reached
  <2>1. PICK a : Defines(a, n)
    BY <1>2
  <2> DEFINE b == [at \in (0 .. n + 1) \X Raws |-> IF at[1] = n + 1 THEN Value(a, at) ELSE a[at]]
  <2>2. ASSUME NEW at \in (0 .. n + 1) \X Raws PROVE b[at] = Value(b, at)
    <3>1. b[at] = Value(a, at)
      <4> HIDE DEF Value
      <4>1. CASE at[1] = n + 1
        BY <4>1
      <4>2. CASE at[1] # n + 1
        <5>1. at \in (0 .. n) \X Raws
          BY <4>2
        <5> QED BY <2>1, <4>2, <5>1
      <4> QED BY <4>1, <4>2
    <3>2. ASSUME at[1] # 0, NEW p \in Raws PROVE b[<<at[1] - 1, p>>] = a[<<at[1] - 1, p>>]
      <4> HIDE DEF Value
      <4>1. <<at[1] - 1, p>> \in (0 .. n + 1) \X Raws /\ <<at[1] - 1, p>>[1] # n + 1
        BY <3>2
      <4> QED BY <4>1
    <3>3. Value(a, at) = Value(b, at)
      <4> HIDE DEF b
      <4>1. at[2] \in Raws
        OBVIOUS
      <4>2. /\ Has(Keys(at[2]), "items") => Keys(at[2])["items"] \in Raws
            /\ \A f \in DOMAIN Nested(Keys(at[2])) : Nested(Keys(at[2]))[f] \in Raws
        BY <4>1, KeysInside
      <4> QED BY <3>2, <4>2 DEF ViewOf
    <3> QED BY <3>1, <3>3
  <2>3. Defines(b, n + 1)
    <3> HIDE DEF Value
    <3> QED BY <2>2
  <2> HIDE DEF Defines
  <2> QED BY <2>3
<1>3. MaxDepth + 1 \in Reached
  <2> HIDE DEF Reached
  <2> QED BY <1>1, <1>2, Counting
<1>4. Defines(View, MaxDepth + 1)
  <2>1. View = CHOOSE a : Defines(a, MaxDepth + 1)
    BY DEF View, ViewOf, Keys
  <2> HIDE DEF Defines
  <2> QED BY <1>3, <2>1
<1>5. View[<<levels, raw>>] = Value(View, <<levels, raw>>)
  <2> HIDE DEF Value
  <2>1. <<levels, raw>> \in (0 .. MaxDepth + 1) \X Raws
    OBVIOUS
  <2> QED BY <1>4, <2>1
<1> QED BY <1>5

\* What the builder publishes of raw, a reading of what is inside it.
PublishedOf(raw, levels, below) ==
  IF raw = Malformed \/ ~ HasType(raw) THEN Untyped
  ELSE [type |-> raw["type"],
        nullable |-> ReadFlag(raw, "nullable"),
        format |-> ReadFormat(raw),
        enum |-> IF ReadFlag(raw, "nullable") /\ ReadList(raw, "enum") # {}
                 THEN ReadList(raw, "enum") \cup {"null"} ELSE ReadList(raw, "enum"),
        items |-> IF raw["type"] # "array" THEN Undefined
                  ELSE IF Has(raw, "items")
                  THEN IF levels = 0 THEN Untyped ELSE below[<<levels - 1, raw["items"]>>]
                  ELSE Untyped,
        properties |-> [f \in DOMAIN (IF raw["type"] = "object" THEN Nested(raw) ELSE <<>>) |->
                          IF levels = 0 THEN Untyped
                          ELSE below[<<levels - 1,
                                       (IF raw["type"] = "object" THEN Nested(raw) ELSE <<>>)[f]>>]],
        required |-> IF raw["type"] = "object" THEN ReadList(raw, "required") ELSE {},
        additionalProperties |-> raw["type"] = "object" /\ ReadFlag(raw, "additional_properties")]

LEMMA PublishedEquation ==
  ASSUME NEW levels \in 0 .. MaxDepth, NEW raw \in Raws
  PROVE  Published[<<levels, raw>>] = PublishedOf(raw, levels, Published)
<1> USE MaxDepthAssumption
<1> DEFINE Value(a, at) == PublishedOf(at[2], at[1], a)
           Defines(a, n) == a = [at \in (0 .. n) \X Raws |-> Value(a, at)]
           Reached == {n \in 0 .. MaxDepth : \E a : Defines(a, n)}
<1>1. 0 \in Reached
  <2> DEFINE a == [at \in (0 .. 0) \X Raws |-> Value(<<>>, at)]
  <2>1. ASSUME NEW at \in (0 .. 0) \X Raws PROVE Value(<<>>, at) = Value(a, at)
    <3>1. at[1] = 0
      OBVIOUS
    <3> HIDE DEF a
    <3> QED BY <3>1 DEF PublishedOf
  <2>2. Defines(a, 0)
    <3>1. a = [at \in (0 .. 0) \X Raws |-> Value(a, at)]
      <4> HIDE DEF Value
      <4> QED BY <2>1
    <3> QED BY <3>1
  <2> HIDE DEF Defines, a
  <2> QED BY <2>2
<1>2. ASSUME NEW n \in 0 .. MaxDepth - 1, n \in Reached PROVE n + 1 \in Reached
  <2>1. PICK a : Defines(a, n)
    BY <1>2
  <2> DEFINE b == [at \in (0 .. n + 1) \X Raws |-> IF at[1] = n + 1 THEN Value(a, at) ELSE a[at]]
  <2>2. ASSUME NEW at \in (0 .. n + 1) \X Raws PROVE b[at] = Value(b, at)
    <3>1. b[at] = Value(a, at)
      <4> HIDE DEF Value
      <4>1. CASE at[1] = n + 1
        BY <4>1
      <4>2. CASE at[1] # n + 1
        <5>1. at \in (0 .. n) \X Raws
          BY <4>2
        <5> QED BY <2>1, <4>2, <5>1
      <4> QED BY <4>1, <4>2
    <3>2. ASSUME at[1] # 0, NEW p \in Raws PROVE b[<<at[1] - 1, p>>] = a[<<at[1] - 1, p>>]
      <4> HIDE DEF Value
      <4>1. <<at[1] - 1, p>> \in (0 .. n + 1) \X Raws /\ <<at[1] - 1, p>>[1] # n + 1
        BY <3>2
      <4> QED BY <4>1
    <3>3. Value(a, at) = Value(b, at)
      <4> HIDE DEF b
      <4>1. CASE at[2] = Malformed
        BY <4>1 DEF PublishedOf
      <4>2. CASE at[2] # Malformed
        <5>1. at[2] \in Raws
          OBVIOUS
        <5>2. /\ Has(at[2], "items") => at[2]["items"] \in Raws
              /\ \A f \in DOMAIN Nested(at[2]) : Nested(at[2])[f] \in Raws
          BY <4>2, <5>1, RawsAssumption
        <5>3. \A f \in DOMAIN (IF at[2]["type"] = "object" THEN Nested(at[2]) ELSE <<>>) :
                (IF at[2]["type"] = "object" THEN Nested(at[2]) ELSE <<>>)[f] \in Raws
          BY <5>2
        <5> QED BY <3>2, <5>2, <5>3 DEF PublishedOf
      <4> QED BY <4>1, <4>2
    <3> QED BY <3>1, <3>3
  <2>3. Defines(b, n + 1)
    <3> HIDE DEF Value
    <3> QED BY <2>2
  <2> HIDE DEF Defines
  <2> QED BY <2>3
<1>3. MaxDepth \in Reached
  <2> HIDE DEF Reached
  <2> QED BY <1>1, <1>2, Counting
<1>4. Defines(Published, MaxDepth)
  <2>1. Published = CHOOSE a : Defines(a, MaxDepth)
    BY DEF Published, PublishedOf
  <2> HIDE DEF Defines
  <2> QED BY <1>3, <2>1
<1>5. Published[<<levels, raw>>] = Value(Published, <<levels, raw>>)
  <2> HIDE DEF Value
  <2>1. <<levels, raw>> \in (0 .. MaxDepth) \X Raws
    OBVIOUS
  <2> QED BY <1>4, <2>1
<1> QED BY <1>5

-----------------------------------------------------------------------------
(* Accepted texts *)

IsTypedText(text) == text.properties \notin {Undefined, Malformed}

LEMMA BelowAreRaws ==
  ASSUME NEW raw \in Raws
  PROVE  RawsBelow(raw) \subseteq Raws
<1>1. CASE raw = Malformed
  BY <1>1 DEF RawsBelow
<1>2. CASE raw # Malformed
  BY <1>2, RawsAssumption DEF RawsBelow, Has
<1> QED BY <1>1, <1>2

LEMMA RawsAreRaws ==
  ASSUME NEW properties, \A f \in DOMAIN properties : properties[f] \in Raws
  PROVE  \A d \in 0 .. MaxDepth + 1 : RawsAt(properties)[d] \subseteq Raws
<1> DEFINE Reached == {d \in 0 .. MaxDepth + 1 : RawsAt(properties)[d] \subseteq Raws}
<1> USE MaxDepthAssumption
<1>1. 0 \in Reached
  BY RawsAtEquation
<1>2. ASSUME NEW d \in 0 .. MaxDepth, d \in Reached PROVE d + 1 \in Reached
  <2> SUFFICES ASSUME NEW raw \in RawsAt(properties)[d + 1] PROVE raw \in Raws
    OBVIOUS
  <2>1. PICK above \in RawsAt(properties)[d] : raw \in RawsBelow(above)
    BY RawsAtEquation
  <2>2. above \in Raws
    BY <1>2
  <2> QED BY <2>1, <2>2, BelowAreRaws
<1>3. \A d \in 0 .. MaxDepth + 1 : d \in Reached
  <2> HIDE DEF Reached
  <2> QED BY <1>1, <1>2, Counting
<1> QED BY <1>3

LEMMA AcceptedRaws ==
  ASSUME NEW text, IsTypedText(text), Accepted(text)
  PROVE  /\ \A d \in 0 .. MaxDepth : \A raw \in RawsAt(text.properties)[d] : Diagnostics(raw, d) = {}
         /\ RawsAt(text.properties)[MaxDepth + 1] = {}
<1> DEFINE at == RawsAt(text.properties)
<1> USE MaxDepthAssumption
<1>1. UNION {UNION {Diagnostics(raw, depth) : raw \in at[depth]} : depth \in 0 .. MaxDepth + 1} = {}
  BY DEF IsTypedText, Accepted, SchemaDiagnostics
<1> HIDE DEF at
<1>2. ASSUME NEW d \in 0 .. MaxDepth + 1, NEW raw \in at[d] PROVE Diagnostics(raw, d) = {}
  <2>1. UNION {Diagnostics(r, d) : r \in at[d]} = {}
    BY <1>1
  <2> QED BY <2>1
<1>3. ASSUME NEW raw \in at[MaxDepth + 1] PROVE FALSE
  <2>1. Diagnostics(raw, MaxDepth + 1) = {}
    BY <1>2
  <2>2. TooDeep(MaxDepth + 1)
    BY DEF TooDeep
  <2> QED BY <2>1, <2>2 DEF Diagnostics
<1> QED BY <1>2, <1>3 DEF at

\* What no diagnostic means for the readers of one property.
Clean(raw) ==
  /\ raw # Malformed
  /\ HasType(raw)
  /\ \A key \in {"nullable", "format"} : Has(raw, key) => raw[key] # Malformed
  /\ raw["type"] = "array" <=> Has(raw, "items")
  /\ raw["type"] = "object" =>
       /\ \A key \in {"properties", "required", "additional_properties"} :
            Has(raw, key) => raw[key] # Malformed
       /\ ReadList(raw, "required") \subseteq DOMAIN Nested(raw)
  /\ raw["type"] # "object" => \A key \in ObjectKeys : ~ Has(raw, key)

LEMMA CleanRaws ==
  ASSUME NEW raw, NEW d \in 0 .. MaxDepth, Diagnostics(raw, d) = {}
  PROVE  Clean(raw)
<1>1. ~ TooDeep(d)
  BY MaxDepthAssumption DEF TooDeep
<1>2. raw # Malformed /\ HasType(raw)
  BY <1>1 DEF Diagnostics
<1>3. /\ KeyDiagnostics(raw, "format", "STRING_INVALID") = {}
      /\ KeyDiagnostics(raw, "nullable", "BOOLEAN_INVALID") = {}
      /\ ItemsDiagnostics(raw) = {}
      /\ ObjectDiagnostics(raw) = {}
  BY <1>1, <1>2 DEF Diagnostics
<1>4. \A key \in {"nullable", "format"} : Has(raw, key) => raw[key] # Malformed
  BY <1>3 DEF KeyDiagnostics
<1>5. raw["type"] = "array" <=> Has(raw, "items")
  BY <1>3 DEF ItemsDiagnostics
<1>6. ASSUME raw["type"] = "object"
      PROVE  /\ \A key \in {"properties", "required", "additional_properties"} :
                  Has(raw, key) => raw[key] # Malformed
             /\ ReadList(raw, "required") \subseteq DOMAIN Nested(raw)
  BY <1>3, <1>6 DEF ObjectDiagnostics, RequiredDiagnostics, KeyDiagnostics
<1>7. raw["type"] # "object" => \A key \in ObjectKeys : ~ Has(raw, key)
  BY <1>3 DEF ObjectDiagnostics
<1> QED BY <1>2, <1>4, <1>5, <1>6, <1>7 DEF Clean

LEMMA ViewIs ==
  ASSUME NEW raw \in Raws, Clean(raw), NEW levels \in 1 .. MaxDepth + 1
  PROVE  LET view == View[<<levels, raw>>] IN
         /\ view.type = raw["type"]
         /\ view.nullable = ValueOf(raw, "nullable", FALSE)
         /\ view.format = ValueOf(raw, "format", Undefined)
         /\ view.enum = ReadList(raw, "enum")
         /\ view.extra = ValueOf(raw, "additional_properties", FALSE)
         /\ view.required = ReadList(raw, "required")
         /\ DOMAIN view.properties = DOMAIN Nested(raw)
         /\ \A f \in DOMAIN Nested(raw) : view.properties[f] = View[<<levels - 1, Nested(raw)[f]>>]
         /\ raw["type"] = "array" => view.items = View[<<levels - 1, raw["items"]>>]
<1>1. levels \in 0 .. MaxDepth + 1 /\ levels # 0
  BY MaxDepthAssumption
<1>2. View[<<levels, raw>>] = ViewOf(Keys(raw), levels, View)
  BY <1>1, ViewEquation
<1>3. Keys(raw) = raw
  BY DEF Clean, Keys
<1>4. View[<<levels, raw>>] = ViewOf(raw, levels, View)
  BY <1>2, <1>3
<1>5. ValueOf(raw, "type", Undefined) = raw["type"]
  <2>1. Has(raw, "type")
    BY MalformedAssumption DEF Clean, HasType, ValueOf
  <2> QED BY <2>1 DEF ValueOf
<1> QED BY <1>1, <1>4, <1>5 DEF ViewOf, Clean

LEMMA BelowOfClean ==
  ASSUME NEW raw, Clean(raw)
  PROVE  /\ raw["type"] = "array" => raw["items"] \in RawsBelow(raw)
         /\ raw["type"] = "object" => \A f \in DOMAIN Nested(raw) : Nested(raw)[f] \in RawsBelow(raw)
BY DEF Clean, RawsBelow, Has

\* The properties the comparer starts from.
Views(text) == [f \in DOMAIN text.properties |-> View[<<MaxDepth + 1, text.properties[f]>>]]

LEMMA ViewedIs ==
  ASSUME NEW text \in Texts
  PROVE  /\ Viewed(text) = [text EXCEPT !.properties = IF IsTypedText(text) THEN Views(text) ELSE text.properties]
         /\ IsTypedText(text) => \A f \in DOMAIN text.properties : text.properties[f] \in Raws
<1>1. IsTypedText(text) => \A f \in DOMAIN text.properties : text.properties[f] \in Raws
  BY TextsAssumption DEF IsTypedText
<1>2. Viewed(text) = [text EXCEPT !.properties = IF IsTypedText(text) THEN Views(text) ELSE text.properties]
  BY DEF Viewed, Views, IsTypedText
<1> QED BY <1>1, <1>2

\* The comparer meets no property of an accepted text that the parser did not.
LEMMA PairsAreViews ==
  ASSUME NEW text \in Texts, IsTypedText(text), Accepted(text)
  PROVE  \A d \in 0 .. MaxDepth + 1 : \A pair \in PairsAt(Views(text), Views(text))[d] :
           \E raw \in RawsAt(text.properties)[d] : pair[1] = View[<<MaxDepth + 1 - d, raw>>]
<1> DEFINE views == Views(text)
           Reached == {d \in 0 .. MaxDepth + 1 : \A pair \in PairsAt(views, views)[d] :
                         \E raw \in RawsAt(text.properties)[d] : pair[1] = View[<<MaxDepth + 1 - d, raw>>]}
<1> USE MaxDepthAssumption
<1>1. 0 \in Reached
  <2> SUFFICES ASSUME NEW pair \in PairsAt(views, views)[0]
               PROVE  \E raw \in RawsAt(text.properties)[0] : pair[1] = View[<<MaxDepth + 1, raw>>]
    OBVIOUS
  <2>1. PICK f \in DOMAIN text.properties : pair[1] = views[f]
    <3>1. PICK f \in Kept(views, views) : pair = <<views[f], views[f]>>
      BY PairsAtEquation DEF PairsOf
    <3> QED BY <3>1 DEF Kept, Views
  <2>2. pair[1] = View[<<MaxDepth + 1, text.properties[f]>>]
    BY <2>1 DEF Views
  <2>3. RawsAt(text.properties)[0] = {text.properties[g] : g \in DOMAIN text.properties}
    BY RawsAtEquation
  <2>4. text.properties[f] \in RawsAt(text.properties)[0]
    BY <2>3
  <2> QED BY <2>2, <2>4, Zenon
<1>2. ASSUME NEW d \in 0 .. MaxDepth, d \in Reached PROVE d + 1 \in Reached
  <2>0. d + 1 \in 0 .. MaxDepth + 1
    OBVIOUS
  <2> SUFFICES ASSUME NEW pair \in PairsAt(views, views)[d + 1]
               PROVE  \E raw \in RawsAt(text.properties)[d + 1] : pair[1] = View[<<MaxDepth + 1 - (d + 1), raw>>]
    BY <2>0, Zenon
  <2>1. PICK above \in PairsAt(views, views)[d] : pair \in PairsBelow(above)
    BY PairsAtEquation
  <2>2. PICK raw \in RawsAt(text.properties)[d] : above[1] = View[<<MaxDepth + 1 - d, raw>>]
    BY <1>2
  <2>3. above[1] = above[2]
    <3>1. d \in 0 .. MaxDepth + 1
      OBVIOUS
    <3> QED BY <3>1, PairsWithItself
  <2>4. raw \in Raws /\ Clean(raw)
    <3>1. raw \in Raws
      BY ViewedIs, RawsAreRaws
    <3>2. Diagnostics(raw, d) = {}
      BY AcceptedRaws
    <3> QED BY <3>1, <3>2, CleanRaws
  <2> DEFINE levels == MaxDepth + 1 - d
             view == above[1]
  <2>5. levels \in 1 .. MaxDepth + 1 /\ levels - 1 = MaxDepth + 1 - (d + 1)
    OBVIOUS
  <2>6. /\ view.type = raw["type"]
        /\ DOMAIN view.properties = DOMAIN Nested(raw)
        /\ \A f \in DOMAIN Nested(raw) : view.properties[f] = View[<<levels - 1, Nested(raw)[f]>>]
        /\ raw["type"] = "array" => view.items = View[<<levels - 1, raw["items"]>>]
    <3> HIDE DEF levels
    <3>1. above[1] = View[<<levels, raw>>]
      BY <2>2 DEF levels
    <3> QED BY <2>4, <2>5, <3>1, ViewIs
  <2>7. RawsBelow(raw) \subseteq RawsAt(text.properties)[d + 1]
    BY RawsAtEquation
  <2> HIDE DEF levels, view
  <2>8. \E r \in RawsBelow(raw) : pair[1] = View[<<levels - 1, r>>]
    <3>1. above[1] = view /\ above[2] = view
      BY <2>3 DEF view
    <3>2. CASE raw["type"] = "object"
      <4>1. PICK f \in Kept(view.properties, view.properties) : pair = <<view.properties[f], view.properties[f]>>
        BY <2>1, <2>6, <3>1, <3>2 DEF PairsBelow, PairsOf
      <4>2. f \in DOMAIN Nested(raw)
        BY <2>6, <4>1 DEF Kept
      <4>3. pair[1] = View[<<levels - 1, Nested(raw)[f]>>]
        BY <2>6, <4>1, <4>2
      <4> QED BY <2>4, <3>2, <4>2, <4>3, BelowOfClean
    <3>3. CASE raw["type"] = "array"
      <4>1. pair = <<view.items, view.items>>
        BY <2>1, <2>6, <3>1, <3>3 DEF PairsBelow
      <4>2. pair[1] = View[<<levels - 1, raw["items"]>>]
        BY <2>6, <3>3, <4>1
      <4> QED BY <2>4, <3>3, <4>2, BelowOfClean
    <3>4. CASE raw["type"] \notin {"object", "array"}
      BY <2>1, <2>6, <3>1, <3>4 DEF PairsBelow
    <3> QED BY <3>2, <3>3, <3>4
  <2> QED BY <2>5, <2>7, <2>8
<1>3. \A d \in 0 .. MaxDepth + 1 : d \in Reached
  <2> HIDE DEF Reached
  <2> QED BY <1>1, <1>2, Counting
<1> QED BY <1>3

LEMMA AcceptedComparesEqual ==
  ASSUME NEW text \in Texts, Accepted(text)
  PROVE  SchemaChanges(Viewed(text), Viewed(text)) = {}
<1> DEFINE view == Viewed(text)
<1>1. CASE IsTypedText(text)
  <2>1. view.properties = Views(text)
    BY <1>1, TextsAssumption, ViewedIs
  <2>2. PairsAt(Views(text), Views(text))[MaxDepth + 1] = {}
    <3>1. MaxDepth + 1 \in 0 .. MaxDepth + 1
      BY MaxDepthAssumption
    <3>2. RawsAt(text.properties)[MaxDepth + 1] = {}
      BY <1>1, AcceptedRaws
    <3> QED BY <1>1, <3>1, <3>2, PairsAreViews
  <2> HIDE DEF view
  <2>3. SchemaChanges(view, view) = {}
    BY <2>1, <2>2, UnchangedSchema
  <2> QED BY <2>3 DEF view
<1>2. CASE ~ IsTypedText(text)
  <2>1. view.properties = text.properties
    BY <1>2, TextsAssumption, ViewedIs
  <2>2. text.properties = Undefined
    BY <1>2 DEF IsTypedText, Accepted, SchemaDiagnostics
  <2> HIDE DEF view
  <2>3. SchemaChanges(view, view) = {}
    BY <2>1, <2>2, UnchangedSchema
  <2> QED BY <2>3 DEF view
<1> QED BY <1>1, <1>2

-----------------------------------------------------------------------------
(* Two accepted texts the comparer reports no change of *)

LEMMA NoFieldChanges ==
  ASSUME NEW kind, NEW base, NEW head, NEW baseRequired, NEW headRequired, NEW extra,
         FieldSetChanges(kind, base, head, baseRequired, headRequired, extra) = {}
  PROVE  /\ DOMAIN base = DOMAIN head
         /\ \A f \in DOMAIN base : f \in baseRequired <=> f \in headRequired
<1>1. DOMAIN base \subseteq DOMAIN head
  BY DEF FieldSetChanges, Change
<1>2. ASSUME NEW f \in DOMAIN head \ DOMAIN base PROVE FALSE
  <2> DEFINE new(g) == Change(kind = "request" /\ (g \in headRequired \/ extra))
  <2>1. UNION {new(g) : g \in DOMAIN head \ DOMAIN base} = {}
    BY DEF FieldSetChanges
  <2>2. new(f) # {}
    BY DEF Change
  <2> HIDE DEF new
  <2> QED BY <2>1, <2>2
<1>3. ASSUME NEW f \in DOMAIN base, (f \in baseRequired) # (f \in headRequired) PROVE FALSE
  <2> DEFINE turned == {g \in Kept(base, head) : (g \in baseRequired) # (g \in headRequired)}
             kept(g) == Change(IF kind = "request" THEN g \in headRequired ELSE g \in baseRequired)
  <2>1. UNION {kept(g) : g \in turned} = {}
    BY DEF FieldSetChanges
  <2>2. kept(f) # {} /\ f \in turned
    BY <1>1, <1>3 DEF Change, Kept
  <2> HIDE DEF kept, turned
  <2> QED BY <2>1, <2>2
<1> QED BY <1>1, <1>2, <1>3

\* The parts of a property the comparer looks at are those that are published.
SameHeads(a, b) ==
  /\ a["type"] = b["type"]
  /\ ReadFlag(a, "nullable") <=> ReadFlag(b, "nullable")
  /\ ReadFormat(a) = ReadFormat(b)
  /\ ReadList(a, "enum") = ReadList(b, "enum")
  /\ a["type"] = "object" =>
       /\ DOMAIN Nested(a) = DOMAIN Nested(b)
       /\ ReadList(a, "required") = ReadList(b, "required")
       /\ ReadFlag(a, "additional_properties") <=> ReadFlag(b, "additional_properties")

LEMMA SameFlag ==
  ASSUME NEW a \in Raws, NEW b \in Raws, a # Malformed, b # Malformed,
         NEW key \in {"nullable", "additional_properties"},
         Has(a, key) => a[key] # Malformed, Has(b, key) => b[key] # Malformed,
         ValueOf(a, key, FALSE) = ValueOf(b, key, FALSE)
  PROVE  ReadFlag(a, key) <=> ReadFlag(b, key)
<1>1. ASSUME NEW raw \in Raws, raw # Malformed, Has(raw, key) => raw[key] # Malformed
      PROVE  ReadFlag(raw, key) <=> (ValueOf(raw, key, FALSE) = TRUE)
  <2>1. ValueOf(raw, key, FALSE) \in {TRUE, FALSE, Malformed}
    BY <1>1, RawsAssumption
  <2>2. CASE ~ Has(raw, key)
    BY <2>2 DEF ReadFlag, ValueOf
  <2>3. CASE Has(raw, key)
    <3>1. ValueOf(raw, key, FALSE) = raw[key]
      BY <2>3 DEF ValueOf
    <3>2. raw[key] = TRUE \/ raw[key] = FALSE
      BY <1>1, <2>1, <2>3, <3>1
    <3>3. CASE raw[key] = TRUE
      BY <1>1, <2>3, <3>1, <3>3 DEF ReadFlag
    <3>4. CASE raw[key] = FALSE
      BY <1>1, <2>3, <3>1, <3>4 DEF ReadFlag
    <3> QED BY <3>2, <3>3, <3>4
  <2> QED BY <2>2, <2>3
<1> QED BY <1>1

LEMMA UnreportedHeads ==
  ASSUME NEW a \in Raws, NEW b \in Raws, Clean(a), Clean(b), NEW kind,
         NEW levels \in 1 .. MaxDepth + 1,
         ValueChanges(kind, View[<<levels, a>>], View[<<levels, b>>]) = {}
  PROVE  SameHeads(a, b)
<1> DEFINE base == View[<<levels, a>>]
           head == View[<<levels, b>>]
<1>1. /\ base.type = a["type"]
      /\ base.nullable = ValueOf(a, "nullable", FALSE)
      /\ base.format = ValueOf(a, "format", Undefined)
      /\ base.enum = ReadList(a, "enum")
      /\ base.extra = ValueOf(a, "additional_properties", FALSE)
      /\ base.required = ReadList(a, "required")
      /\ DOMAIN base.properties = DOMAIN Nested(a)
  BY ViewIs
<1>2. /\ head.type = b["type"]
      /\ head.nullable = ValueOf(b, "nullable", FALSE)
      /\ head.format = ValueOf(b, "format", Undefined)
      /\ head.enum = ReadList(b, "enum")
      /\ head.extra = ValueOf(b, "additional_properties", FALSE)
      /\ head.required = ReadList(b, "required")
      /\ DOMAIN head.properties = DOMAIN Nested(b)
  BY ViewIs
<1>3. ValueChanges(kind, base, head) = {}
  OBVIOUS
<1> HIDE DEF base, head
<1>4. base.type = head.type
  BY <1>3 DEF ValueChanges, TypeChanges, Change
<1>5. base.format = head.format
  BY <1>3 DEF ValueChanges, FormatChanges, Change
<1>6. base.nullable = head.nullable /\ base.extra = head.extra
  BY <1>3 DEF ValueChanges, FlagChanges, Change
<1>7. base.enum = head.enum
  BY <1>3 DEF ValueChanges, EnumChanges, Change
<1>8. ReadFormat(a) = ReadFormat(b)
  <2>1. ASSUME NEW raw, Clean(raw) PROVE ReadFormat(raw) = ValueOf(raw, "format", Undefined)
    BY <2>1 DEF Clean, ReadFormat, ValueOf
  <2> QED BY <1>1, <1>2, <1>5, <2>1
<1>9. ReadFlag(a, "nullable") <=> ReadFlag(b, "nullable")
  BY <1>1, <1>2, <1>6, SameFlag DEF Clean
<1>10. ASSUME a["type"] = "object"
       PROVE  /\ DOMAIN Nested(a) = DOMAIN Nested(b)
              /\ ReadList(a, "required") = ReadList(b, "required")
              /\ ReadFlag(a, "additional_properties") <=> ReadFlag(b, "additional_properties")
  <2>1. b["type"] = "object"
    BY <1>1, <1>2, <1>4, <1>10
  <2>2. ReadFlag(a, "additional_properties") <=> ReadFlag(b, "additional_properties")
    BY <1>1, <1>2, <1>6, <1>10, <2>1, SameFlag DEF Clean
  <2>3. FieldSetChanges(kind, base.properties, head.properties, base.required, head.required, base.extra) = {}
    BY <1>1, <1>2, <1>3, <1>10, <2>1 DEF ValueChanges
  <2>4. /\ DOMAIN base.properties = DOMAIN head.properties
        /\ \A f \in DOMAIN base.properties : f \in base.required <=> f \in head.required
    BY <2>3, NoFieldChanges
  <2>5. /\ ReadList(a, "required") \subseteq DOMAIN Nested(a)
        /\ ReadList(b, "required") \subseteq DOMAIN Nested(b)
    BY <1>10, <2>1 DEF Clean
  <2> QED BY <1>1, <1>2, <2>2, <2>4, <2>5
<1> QED BY <1>1, <1>2, <1>4, <1>7, <1>8, <1>9, <1>10 DEF SameHeads

LEMMA SamePublished ==
  ASSUME NEW a \in Raws, NEW b \in Raws, Clean(a), Clean(b), SameHeads(a, b), NEW n \in 0 .. MaxDepth,
         n # 0 /\ a["type"] = "array" =>
           Published[<<n - 1, a["items"]>>] = Published[<<n - 1, b["items"]>>],
         n # 0 /\ a["type"] = "object" =>
           \A f \in DOMAIN Nested(a) : Published[<<n - 1, Nested(a)[f]>>] = Published[<<n - 1, Nested(b)[f]>>]
  PROVE  Published[<<n, a>>] = Published[<<n, b>>]
<1> DEFINE items(raw) == IF raw["type"] # "array" THEN Undefined
                         ELSE IF Has(raw, "items")
                         THEN IF n = 0 THEN Untyped ELSE Published[<<n - 1, raw["items"]>>]
                         ELSE Untyped
           nested(raw) == IF raw["type"] = "object" THEN Nested(raw) ELSE <<>>
           below(raw) == [f \in DOMAIN nested(raw) |-> IF n = 0 THEN Untyped ELSE Published[<<n - 1, nested(raw)[f]>>]]
           enum(raw) == IF ReadFlag(raw, "nullable") /\ ReadList(raw, "enum") # {}
                        THEN ReadList(raw, "enum") \cup {"null"} ELSE ReadList(raw, "enum")
           required(raw) == IF raw["type"] = "object" THEN ReadList(raw, "required") ELSE {}
           more(raw) == raw["type"] = "object" /\ ReadFlag(raw, "additional_properties")
           whole(raw) == [type |-> raw["type"], nullable |-> ReadFlag(raw, "nullable"), format |-> ReadFormat(raw),
                          enum |-> enum(raw), items |-> items(raw), properties |-> below(raw),
                          required |-> required(raw), additionalProperties |-> more(raw)]
<1>1. ASSUME NEW raw \in Raws, Clean(raw) PROVE Published[<<n, raw>>] = whole(raw)
  <2>1. Published[<<n, raw>>] = PublishedOf(raw, n, Published)
    BY PublishedEquation
  <2>2. PublishedOf(raw, n, Published) = whole(raw)
    BY <1>1 DEF PublishedOf, Clean
  <2> QED BY <2>1, <2>2
<1>2. Published[<<n, a>>] = whole(a) /\ Published[<<n, b>>] = whole(b)
  BY <1>1
<1>3. items(a) = items(b)
  BY DEF SameHeads, Clean
<1>4. below(a) = below(b)
  <2>1. CASE a["type"] = "object"
    <3>1. nested(a) = Nested(a) /\ nested(b) = Nested(b) /\ DOMAIN Nested(a) = DOMAIN Nested(b)
      BY <2>1 DEF SameHeads
    <3>2. n = 0 \/ \A f \in DOMAIN Nested(a) : Published[<<n - 1, Nested(a)[f]>>] = Published[<<n - 1, Nested(b)[f]>>]
      BY <2>1
    <3> HIDE DEF nested
    <3> QED BY <3>1, <3>2
  <2>2. CASE a["type"] # "object"
    <3>1. nested(a) = nested(b)
      BY <2>2 DEF SameHeads
    <3> HIDE DEF nested
    <3> QED BY <3>1
  <2> QED BY <2>1, <2>2
<1>5. enum(a) = enum(b)
  BY DEF SameHeads
<1>6. required(a) = required(b) /\ (more(a) <=> more(b))
  BY DEF SameHeads
<1>7. more(a) = more(b)
  <2>1. more(a) \in BOOLEAN /\ more(b) \in BOOLEAN
    OBVIOUS
  <2> QED BY <1>6, <2>1
<1>8. ReadFlag(a, "nullable") = ReadFlag(b, "nullable")
  <2>1. \A raw : ReadFlag(raw, "nullable") \in BOOLEAN
    BY DEF ReadFlag
  <2> QED BY <2>1 DEF SameHeads
<1>9. a["type"] = b["type"] /\ ReadFormat(a) = ReadFormat(b)
  BY DEF SameHeads
<1> HIDE DEF items, below, enum, required, more
<1> QED BY <1>2, <1>3, <1>4, <1>5, <1>6, <1>7, <1>8, <1>9

\* From the deepest level upwards: properties the comparer pairs and says nothing
\* of are published alike, with everything inside them.
LEMMA PairsPublishTheSame ==
  ASSUME NEW a \in Texts, NEW b \in Texts, IsTypedText(a), IsTypedText(b), Accepted(a), Accepted(b), NEW kind,
         \A pair \in Compared(Views(a), Views(b)) : ValueChanges(kind, pair[1], pair[2]) = {}
  PROVE  \A n \in 0 .. MaxDepth :
           \A x \in RawsAt(a.properties)[MaxDepth - n], y \in RawsAt(b.properties)[MaxDepth - n] :
             <<View[<<n + 1, x>>], View[<<n + 1, y>>]>> \in PairsAt(Views(a), Views(b))[MaxDepth - n]
             => Published[<<n, x>>] = Published[<<n, y>>]
<1> DEFINE Paired(n, x, y) ==
             <<View[<<n + 1, x>>], View[<<n + 1, y>>]>> \in PairsAt(Views(a), Views(b))[MaxDepth - n]
           Alike(n) == \A x \in RawsAt(a.properties)[MaxDepth - n], y \in RawsAt(b.properties)[MaxDepth - n] :
                         Paired(n, x, y) => Published[<<n, x>>] = Published[<<n, y>>]
           Reached == {n \in 0 .. MaxDepth : Alike(n)}
<1> USE MaxDepthAssumption
<1>1. ASSUME NEW n \in 0 .. MaxDepth,
             NEW x \in RawsAt(a.properties)[MaxDepth - n], NEW y \in RawsAt(b.properties)[MaxDepth - n],
             Paired(n, x, y), n # 0 => Alike(n - 1)
      PROVE  Published[<<n, x>>] = Published[<<n, y>>]
  <2> DEFINE d == MaxDepth - n
             base == View[<<n + 1, x>>]
             head == View[<<n + 1, y>>]
  <2>1. d \in 0 .. MaxDepth /\ d \in 0 .. MaxDepth + 1 /\ n + 1 \in 1 .. MaxDepth + 1 /\ (n + 1) - 1 = n
    OBVIOUS
  <2>2. x \in Raws /\ Clean(x) /\ y \in Raws /\ Clean(y)
    <3> HIDE DEF d
    <3>1. x \in RawsAt(a.properties)[d] /\ y \in RawsAt(b.properties)[d]
      BY DEF d
    <3>2. x \in Raws /\ y \in Raws
      BY <2>1, <3>1, ViewedIs, RawsAreRaws
    <3>3. Diagnostics(x, d) = {} /\ Diagnostics(y, d) = {}
      BY <2>1, <3>1, AcceptedRaws
    <3> QED BY <2>1, <3>2, <3>3, CleanRaws
  <2>3. <<base, head>> \in PairsAt(Views(a), Views(b))[d]
    BY <1>1
  <2> HIDE DEF Paired, Alike, d
  <2>4. ValueChanges(kind, base, head) = {}
    <3> HIDE DEF base, head
    <3>1. <<base, head>> \in Compared(Views(a), Views(b))
      BY <2>1, <2>3 DEF Compared
    <3>2. ValueChanges(kind, <<base, head>>[1], <<base, head>>[2]) = {}
      BY <3>1
    <3> QED BY <3>2
  <2>5. SameHeads(x, y)
    BY <2>1, <2>2, <2>4, UnreportedHeads
  <2>6. /\ base.type = x["type"]
        /\ DOMAIN base.properties = DOMAIN Nested(x)
        /\ \A f \in DOMAIN Nested(x) : base.properties[f] = View[<<n, Nested(x)[f]>>]
        /\ x["type"] = "array" => base.items = View[<<n, x["items"]>>]
    BY <2>1, <2>2, ViewIs
  <2>7. /\ head.type = y["type"]
        /\ DOMAIN head.properties = DOMAIN Nested(y)
        /\ \A f \in DOMAIN Nested(y) : head.properties[f] = View[<<n, Nested(y)[f]>>]
        /\ y["type"] = "array" => head.items = View[<<n, y["items"]>>]
    BY <2>1, <2>2, ViewIs
  <2> HIDE DEF base, head
  <2>8. ASSUME n # 0, NEW p \in RawsBelow(x), NEW q \in RawsBelow(y),
               <<View[<<n, p>>], View[<<n, q>>]>> \in PairsBelow(<<base, head>>)
        PROVE  Published[<<n - 1, p>>] = Published[<<n - 1, q>>]
    <3>1. d + 1 = MaxDepth - (n - 1) /\ n - 1 \in 0 .. MaxDepth /\ (n - 1) + 1 = n
      BY <2>8 DEF d
    <3>2. p \in RawsAt(a.properties)[d + 1] /\ q \in RawsAt(b.properties)[d + 1]
      <4>1. x \in RawsAt(a.properties)[d] /\ y \in RawsAt(b.properties)[d]
        BY DEF d
      <4> QED BY <2>1, <2>8, <4>1, RawsAtEquation
    <3>3. <<View[<<n, p>>], View[<<n, q>>]>> \in PairsAt(Views(a), Views(b))[d + 1]
      BY <2>1, <2>3, <2>8, PairsAtEquation
    <3>4. Paired(n - 1, p, q)
      BY <3>1, <3>3 DEF Paired
    <3> QED BY <1>1, <2>8, <3>1, <3>2, <3>4 DEF Alike
  <2>9. ASSUME n # 0, x["type"] = "array" PROVE Published[<<n - 1, x["items"]>>] = Published[<<n - 1, y["items"]>>]
    <3>1. y["type"] = "array"
      BY <2>5, <2>9 DEF SameHeads
    <3>2. <<base.items, head.items>> \in PairsBelow(<<base, head>>)
      BY <2>6, <2>7, <2>9, <3>1 DEF PairsBelow
    <3>3. <<View[<<n, x["items"]>>], View[<<n, y["items"]>>]>> \in PairsBelow(<<base, head>>)
      BY <2>6, <2>7, <2>9, <3>1, <3>2
    <3>4. x["items"] \in RawsBelow(x) /\ y["items"] \in RawsBelow(y)
      BY <2>2, <2>9, <3>1, BelowOfClean
    <3> QED BY <2>8, <2>9, <3>3, <3>4
  <2>10. ASSUME n # 0, x["type"] = "object", NEW f \in DOMAIN Nested(x)
         PROVE  Published[<<n - 1, Nested(x)[f]>>] = Published[<<n - 1, Nested(y)[f]>>]
    <3>1. y["type"] = "object" /\ f \in DOMAIN Nested(y)
      BY <2>5, <2>10 DEF SameHeads
    <3>2. <<base.properties[f], head.properties[f]>> \in PairsBelow(<<base, head>>)
      BY <2>6, <2>7, <2>10, <3>1 DEF PairsBelow, PairsOf, Kept
    <3>3. <<View[<<n, Nested(x)[f]>>], View[<<n, Nested(y)[f]>>]>> \in PairsBelow(<<base, head>>)
      BY <2>6, <2>7, <2>10, <3>1, <3>2
    <3>4. Nested(x)[f] \in RawsBelow(x) /\ Nested(y)[f] \in RawsBelow(y)
      BY <2>2, <2>10, <3>1, BelowOfClean
    <3> QED BY <2>8, <2>10, <3>3, <3>4
  <2> QED BY <2>2, <2>5, <2>9, <2>10, SamePublished
<1>2. 0 \in Reached
  <2> HIDE DEF Paired
  <2>1. Alike(0)
    BY <1>1
  <2> HIDE DEF Alike
  <2> QED BY <2>1
<1>3. ASSUME NEW n \in 0 .. MaxDepth - 1, n \in Reached PROVE n + 1 \in Reached
  <2>1. n + 1 \in 0 .. MaxDepth /\ (n + 1) - 1 = n
    OBVIOUS
  <2>2. Alike(n)
    BY <1>3
  <2> DEFINE m == n + 1
  <2>3. m \in 0 .. MaxDepth /\ m - 1 = n
    BY <2>1
  <2> HIDE DEF m, Paired
  <2>4. Alike(m - 1)
    BY <2>2, <2>3
  <2>5. Alike(m)
    <3>1. ASSUME NEW x \in RawsAt(a.properties)[MaxDepth - m], NEW y \in RawsAt(b.properties)[MaxDepth - m],
                 Paired(m, x, y)
          PROVE  Published[<<m, x>>] = Published[<<m, y>>]
      <4> HIDE DEF Alike
      <4> QED BY <1>1, <2>3, <2>4, <3>1
    <3> QED BY <3>1
  <2> HIDE DEF Alike
  <2>6. m \in Reached
    BY <2>3, <2>5
  <2> QED BY <2>6 DEF m
<1>4. \A n \in 0 .. MaxDepth : n \in Reached
  <2> HIDE DEF Reached
  <2> QED BY <1>2, <1>3, Counting
<1>5. ASSUME NEW n \in 0 .. MaxDepth PROVE Alike(n)
  <2> HIDE DEF Alike
  <2> QED BY <1>4
<1> QED BY <1>5

LEMMA UnreportedComponent ==
  ASSUME NEW a \in Texts, NEW b \in Texts, Accepted(a), Accepted(b),
         SchemaChanges(Viewed(a), Viewed(b)) = {}
  PROVE  Component(a) = Component(b)
<1> DEFINE base == Viewed(a)
           head == Viewed(b)
<1>1. /\ base.kind = a.kind /\ base.anchor = a.anchor /\ base.secretFields = a.secretFields
      /\ base.required = a.required /\ base.optional = a.optional
      /\ base.properties = IF IsTypedText(a) THEN Views(a) ELSE a.properties
  BY TextsAssumption, ViewedIs
<1>2. /\ head.kind = b.kind /\ head.anchor = b.anchor /\ head.secretFields = b.secretFields
      /\ head.required = b.required /\ head.optional = b.optional
      /\ head.properties = IF IsTypedText(b) THEN Views(b) ELSE b.properties
  BY TextsAssumption, ViewedIs
<1>3. SchemaChanges(base, head) = {}
  OBVIOUS
<1>4. /\ base.properties = Undefined => a.properties = Undefined
      /\ head.properties = Undefined => b.properties = Undefined
  BY UndefinedAssumption
<1> HIDE DEF base, head
<1>5. a.kind = b.kind /\ a.anchor = b.anchor
  BY <1>1, <1>2, <1>3 DEF SchemaChanges, BreakingScalar, Differs
<1>6. a.secretFields = b.secretFields
  <2>1. base.secretFields \ head.secretFields = {} /\ head.secretFields \ base.secretFields = {}
    BY <1>3 DEF SchemaChanges, SetDelta
  <2>2. \A f : f \in a.secretFields <=> f \in b.secretFields
    BY <1>1, <1>2, <2>1
  <2> QED BY <2>2
<1>7. FieldsOf(a) = FieldsOf(b) /\ a.required = b.required
  <2>1. FieldChanges(base, head) = {}
    BY <1>3 DEF SchemaChanges
  <2>2. \A f \in FieldsOf(base) \cup FieldsOf(head) : Presence(base, f) = Presence(head, f)
    BY <2>1 DEF FieldChanges
  <2>3. \A f : /\ Presence(base, f) = "required" <=> f \in base.required
               /\ Presence(head, f) = "required" <=> f \in head.required
               /\ Presence(base, f) = "absent" <=> f \notin FieldsOf(base)
               /\ Presence(head, f) = "absent" <=> f \notin FieldsOf(head)
    BY DEF Presence, FieldsOf
  <2>4. base.required \subseteq FieldsOf(base) /\ head.required \subseteq FieldsOf(head)
    BY DEF FieldsOf
  <2>5. FieldsOf(base) = FieldsOf(head) /\ base.required = head.required
    BY <2>2, <2>3, <2>4
  <2> QED BY <1>1, <1>2, <2>5 DEF FieldsOf
<1>8. /\ IsTypedText(a) <=> a.properties # Undefined
      /\ IsTypedText(b) <=> b.properties # Undefined
  BY DEF IsTypedText, Accepted, SchemaDiagnostics
<1>9. SchemaProperties(base, head) = {}
  BY <1>3 DEF SchemaChanges
<1>10. IsTypedText(a) <=> IsTypedText(b)
  BY <1>1, <1>2, <1>4, <1>8, <1>9 DEF SchemaProperties, Differs
<1> DEFINE schema(text, f) == IF text.properties # Undefined THEN Published[<<MaxDepth, text.properties[f]>>] ELSE Untyped
<1>11. ASSUME NEW f \in FieldsOf(a) PROVE schema(a, f) = schema(b, f)
  <2>1. CASE ~ IsTypedText(a)
    BY <1>8, <1>10, <2>1
  <2>2. CASE IsTypedText(a)
    <3>1. base.properties = Views(a) /\ head.properties = Views(b) /\ IsTypedText(b)
      BY <1>1, <1>2, <1>10, <2>2
    <3>2. base.properties # Undefined /\ head.properties # Undefined
      BY <1>4, <1>8, <2>2, <3>1
    <3>3. TypedChanges(base, head) = {}
      BY <1>9, <3>2 DEF SchemaProperties
    <3>4. ASSUME NEW pair \in Compared(Views(a), Views(b)) PROVE ValueChanges(base.kind, pair[1], pair[2]) = {}
      <4>1. UNION {ValueChanges(base.kind, p[1], p[2]) : p \in Compared(Views(a), Views(b))} = {}
        BY <3>1, <3>3, TypedChangesIs
      <4> QED BY <4>1
    <3>5. f \in DOMAIN a.properties /\ f \in DOMAIN b.properties
      <4>1. FieldListDiagnostics(a) = {} /\ FieldListDiagnostics(b) = {}
        BY <2>2, <3>1 DEF IsTypedText, Accepted, SchemaDiagnostics
      <4> QED BY <1>7, <4>1 DEF FieldListDiagnostics
    <3> DEFINE x == a.properties[f]
               y == b.properties[f]
    <3>6. x \in RawsAt(a.properties)[0] /\ y \in RawsAt(b.properties)[0]
      BY <3>5, RawsAtEquation
    <3>7. <<View[<<MaxDepth + 1, x>>], View[<<MaxDepth + 1, y>>]>> \in PairsAt(Views(a), Views(b))[0]
      <4>1. <<Views(a)[f], Views(b)[f]>> \in PairsOf(Views(a), Views(b))
        BY <3>5 DEF PairsOf, Kept, Views
      <4>2. Views(a)[f] = View[<<MaxDepth + 1, x>>] /\ Views(b)[f] = View[<<MaxDepth + 1, y>>]
        BY <3>5 DEF Views
      <4> QED BY <4>1, <4>2, PairsAtEquation
    <3> HIDE DEF x, y
    <3>8. MaxDepth \in 0 .. MaxDepth /\ MaxDepth - MaxDepth = 0
      BY MaxDepthAssumption
    <3>9. \A u \in RawsAt(a.properties)[MaxDepth - MaxDepth], v \in RawsAt(b.properties)[MaxDepth - MaxDepth] :
            <<View[<<MaxDepth + 1, u>>], View[<<MaxDepth + 1, v>>]>> \in PairsAt(Views(a), Views(b))[MaxDepth - MaxDepth]
            => Published[<<MaxDepth, u>>] = Published[<<MaxDepth, v>>]
      <4>1. \A pair \in Compared(Views(a), Views(b)) : ValueChanges(base.kind, pair[1], pair[2]) = {}
        BY <3>4
      <4> QED BY <2>2, <3>1, <3>8, <4>1, PairsPublishTheSame
    <3>10. Published[<<MaxDepth, x>>] = Published[<<MaxDepth, y>>]
      BY <3>6, <3>7, <3>8, <3>9
    <3> QED BY <1>8, <2>2, <3>1, <3>10 DEF x, y
  <2> QED BY <2>1, <2>2
<1> DEFINE hidden(text, f) == IF f \notin text.secretFields THEN "shown"
                              ELSE IF text.kind = "request" THEN "writeOnly" ELSE "readOnly"
           fields(text) == [f \in FieldsOf(text) |-> [schema |-> schema(text, f), hidden |-> hidden(text, f)]]
<1>12. \A text : Component(text) =
         [properties |-> fields(text), required |-> text.required, kind |-> text.kind,
          typed |-> text.properties # Undefined, anchor |-> text.anchor]
  BY DEF Component
<1>13. fields(a) = fields(b)
  <2>1. \A f \in FieldsOf(a) : hidden(a, f) = hidden(b, f)
    BY <1>5, <1>6
  <2> HIDE DEF schema, hidden
  <2> QED BY <1>7, <1>11, <2>1
<1>14. (a.properties # Undefined) = (b.properties # Undefined)
  BY <1>8, <1>10
<1> HIDE DEF fields
<1> QED BY <1>5, <1>7, <1>12, <1>13, <1>14

-----------------------------------------------------------------------------
(* The releases of one schema *)

\* Only texts the parser accepts are released, and clients come from releases.
ReleasesAccepted ==
  /\ generated \in Texts /\ Accepted(generated)
  /\ released \in Texts /\ Accepted(released)

LEMMA ReleasesStayAccepted == SchemaSpec => []ReleasesAccepted
<1>1. SchemaInit => ReleasesAccepted
  BY DEF SchemaInit, ReleasesAccepted
<1>2. ReleasesAccepted /\ [SchemaNext]_schemaVars => ReleasesAccepted'
  <2> SUFFICES ASSUME ReleasesAccepted, [SchemaNext]_schemaVars PROVE ReleasesAccepted'
    OBVIOUS
  <2>1. CASE Generate
    BY <2>1 DEF Generate, ReleasesAccepted
  <2>2. ASSUME NEW text \in Texts, Release(text) PROVE ReleasesAccepted'
    BY <2>2 DEF Release, ReleasesAccepted
  <2>3. CASE UNCHANGED schemaVars
    BY <2>3 DEF schemaVars, ReleasesAccepted
  <2> QED BY <2>1, <2>2, <2>3 DEF SchemaNext
<1> QED BY <1>1, <1>2, PTL DEF SchemaSpec

\* openapi.ts:319 against compatibility-typed-properties.ts:13: any number of
\* releases without a report leave the published component as it was, whatever
\* properties may be written and however deep they nest.
THEOREM SilentReleasesHold == SchemaSpec => []SilentReleasesPublishTheSame
<1>1. SchemaInit => SilentReleasesPublishTheSame
  BY DEF SchemaInit, SilentReleasesPublishTheSame
<1>2. ReleasesAccepted /\ SilentReleasesPublishTheSame /\ [SchemaNext]_schemaVars => SilentReleasesPublishTheSame'
  <2> SUFFICES ASSUME ReleasesAccepted, SilentReleasesPublishTheSame, [SchemaNext]_schemaVars, (reported = {})'
               PROVE  (Component(released) = Component(generated))'
    BY DEF SilentReleasesPublishTheSame
  <2>1. CASE Generate
    BY <2>1 DEF Generate
  <2>2. ASSUME NEW text \in Texts, Release(text) PROVE (Component(released) = Component(generated))'
    <3>1. reported = {} /\ Accepted(text) /\ released' = text /\ generated' = generated
      BY <2>2 DEF Release
    <3>2. SchemaChanges(Viewed(released), Viewed(text)) = {}
      BY <2>2 DEF Release
    <3>3. Component(released) = Component(text)
      BY <3>1, <3>2, UnreportedComponent DEF ReleasesAccepted
    <3>4. Component(released) = Component(generated)
      BY <3>1 DEF SilentReleasesPublishTheSame
    <3> QED BY <3>1, <3>3, <3>4
  <2>3. CASE UNCHANGED schemaVars
    BY <2>3 DEF schemaVars, SilentReleasesPublishTheSame
  <2> QED BY <2>1, <2>2, <2>3 DEF SchemaNext
<1> QED BY <1>1, <1>2, ReleasesStayAccepted, PTL DEF SchemaSpec

\* compatibility-typed-properties.ts:41 against typed-schema.ts:322: the parser
\* stops no later than the comparer, so a released schema compares with itself
\* without a change.
THEOREM ReleasedComparesEqual == SchemaSpec => []PublishedComparesEqual
<1>1. ReleasesAccepted => PublishedComparesEqual
  BY AcceptedComparesEqual DEF ReleasesAccepted, PublishedComparesEqual
<1> QED BY <1>1, ReleasesStayAccepted, PTL

-----------------------------------------------------------------------------
(* One accepted text and its two readers *)

LEMMA FlagIs ==
  ASSUME NEW raw \in Raws, raw # Malformed, NEW key \in {"nullable", "additional_properties"},
         Has(raw, key) => raw[key] # Malformed
  PROVE  /\ ValueOf(raw, key, FALSE) \in BOOLEAN
         /\ ReadFlag(raw, key) <=> ValueOf(raw, key, FALSE)
<1>1. ValueOf(raw, key, FALSE) \in {TRUE, FALSE, Malformed}
  BY RawsAssumption
<1>2. CASE ~ Has(raw, key)
  BY <1>2 DEF ReadFlag, ValueOf
<1>3. CASE Has(raw, key)
  <2>1. ValueOf(raw, key, FALSE) = raw[key]
    BY <1>3 DEF ValueOf
  <2>2. raw[key] \in BOOLEAN
    BY <1>1, <1>3, <2>1
  <2>3. ReadFlag(raw, key) <=> raw[key]
    BY <1>3 DEF ReadFlag
  <2> QED BY <2>1, <2>2, <2>3
<1> QED BY <1>2, <1>3

\* Both readers give an object the same properties, and each of them is what they
\* make of one and the same property of the text, a level further down.
Corresponds(n, raw) ==
  LET seen == View[<<n + 1, raw>>]
      made == Published[<<n, raw>>]
  IN
  /\ made.type = seen.type
  /\ made.nullable <=> seen.nullable
  /\ made.format = seen.format
  /\ made.enum = IF seen.nullable /\ seen.enum # {} THEN seen.enum \cup {"null"} ELSE seen.enum
  /\ made.required = seen.required
  /\ made.additionalProperties <=> seen.extra
  /\ DOMAIN made.properties = DOMAIN seen.properties
  /\ \A f \in DOMAIN made.properties : n > 0 /\ \E below \in RawsBelow(raw) :
       made.properties[f] = Published[<<n - 1, below>>] /\ seen.properties[f] = View[<<n, below>>]
  /\ made.type = "array" => n > 0 /\ \E below \in RawsBelow(raw) :
       made.items = Published[<<n - 1, below>>] /\ seen.items = View[<<n, below>>]

\* What the OpenAPI document says of a property (openapi.ts:356-395) is what the comparer
\* sees of it (compatibility-typed-properties.ts:41): of every accepted text, at
\* every depth.  The document adds null to the values of a nullable enumeration
\* and nothing else, so what the comparer judges is what a client is held to.
THEOREM ReadersAgree ==
  ASSUME NEW text \in Texts, IsTypedText(text), Accepted(text), NEW n \in 0 .. MaxDepth
  PROVE  \A raw \in RawsAt(text.properties)[MaxDepth - n] : Corresponds(n, raw)
<1> USE MaxDepthAssumption
<1> SUFFICES ASSUME NEW raw \in RawsAt(text.properties)[MaxDepth - n] PROVE Corresponds(n, raw)
  OBVIOUS
<1> DEFINE d == MaxDepth - n
           seen == View[<<n + 1, raw>>]
           made == Published[<<n, raw>>]
<1>1. d \in 0 .. MaxDepth /\ d \in 0 .. MaxDepth + 1 /\ n + 1 \in 1 .. MaxDepth + 1 /\ (n + 1) - 1 = n
  OBVIOUS
<1>2. raw \in RawsAt(text.properties)[d]
  OBVIOUS
<1>3. n = 0 => d + 1 = MaxDepth + 1
  OBVIOUS
<1> HIDE DEF d
<1>4. raw \in Raws /\ Clean(raw)
  <2>1. raw \in Raws
    BY <1>1, <1>2, ViewedIs, RawsAreRaws
  <2>2. Diagnostics(raw, d) = {}
    BY <1>1, <1>2, AcceptedRaws
  <2> QED BY <1>1, <2>1, <2>2, CleanRaws
<1>5. RawsBelow(raw) # {} => n > 0
  <2>1. RawsAt(text.properties)[d + 1] = UNION {RawsBelow(r) : r \in RawsAt(text.properties)[d]}
    BY <1>1, RawsAtEquation
  <2>2. RawsAt(text.properties)[MaxDepth + 1] = {}
    BY AcceptedRaws
  <2>3. n = 0 => RawsBelow(raw) = {}
    BY <1>2, <1>3, <2>1, <2>2
  <2> QED BY <2>3
<1>6. /\ seen.type = raw["type"]
      /\ seen.nullable = ValueOf(raw, "nullable", FALSE)
      /\ seen.format = ValueOf(raw, "format", Undefined)
      /\ seen.enum = ReadList(raw, "enum")
      /\ seen.extra = ValueOf(raw, "additional_properties", FALSE)
      /\ seen.required = ReadList(raw, "required")
      /\ DOMAIN seen.properties = DOMAIN Nested(raw)
      /\ \A f \in DOMAIN Nested(raw) : seen.properties[f] = View[<<n, Nested(raw)[f]>>]
      /\ raw["type"] = "array" => seen.items = View[<<n, raw["items"]>>]
  BY <1>1, <1>4, ViewIs
<1> HIDE DEF seen
<1>7. made = PublishedOf(raw, n, Published) /\ raw # Malformed /\ HasType(raw)
  BY <1>4, PublishedEquation DEF Clean
<1> HIDE DEF made
<1>8. /\ made.type = raw["type"]
      /\ made.nullable = ReadFlag(raw, "nullable")
      /\ made.format = ReadFormat(raw)
      /\ made.enum = IF ReadFlag(raw, "nullable") /\ ReadList(raw, "enum") # {}
                     THEN ReadList(raw, "enum") \cup {"null"} ELSE ReadList(raw, "enum")
      /\ made.required = IF raw["type"] = "object" THEN ReadList(raw, "required") ELSE {}
      /\ made.additionalProperties = (raw["type"] = "object" /\ ReadFlag(raw, "additional_properties"))
  BY <1>7 DEF PublishedOf
<1>9. (made.nullable <=> seen.nullable) /\ seen.nullable \in BOOLEAN
  BY <1>4, <1>6, <1>8, FlagIs DEF Clean
<1>10. made.format = seen.format
  BY <1>4, <1>6, <1>8 DEF Clean, ReadFormat, ValueOf, Has
<1>11. made.enum = IF seen.nullable /\ seen.enum # {} THEN seen.enum \cup {"null"} ELSE seen.enum
  BY <1>6, <1>8, <1>9
<1>12. CASE raw["type"] = "object"
  <2>1. made.required = seen.required
    BY <1>6, <1>8, <1>12
  <2>2. made.additionalProperties <=> seen.extra
    BY <1>4, <1>6, <1>8, <1>12, FlagIs DEF Clean
  <2>3. made.properties = [f \in DOMAIN Nested(raw) |->
                             IF n = 0 THEN Untyped ELSE Published[<<n - 1, Nested(raw)[f]>>]]
    BY <1>7, <1>12 DEF PublishedOf
  <2>4. \A f \in DOMAIN Nested(raw) : Nested(raw)[f] \in RawsBelow(raw)
    BY <1>4, <1>12, BelowOfClean
  <2>5. \A f \in DOMAIN made.properties : n > 0 /\ \E below \in RawsBelow(raw) :
          made.properties[f] = Published[<<n - 1, below>>] /\ seen.properties[f] = View[<<n, below>>]
    BY <1>5, <1>6, <2>3, <2>4
  <2>6. DOMAIN made.properties = DOMAIN seen.properties /\ made.type # "array"
    BY <1>6, <1>8, <1>12, <2>3
  <2> QED BY <1>6, <1>8, <1>9, <1>10, <1>11, <2>1, <2>2, <2>5, <2>6 DEF Corresponds, seen, made
<1>13. CASE raw["type"] # "object"
  <2>1. /\ ReadList(raw, "required") = {}
        /\ ValueOf(raw, "additional_properties", FALSE) = FALSE
        /\ Nested(raw) = <<>>
    BY <1>4, <1>13 DEF Clean, ObjectKeys, ReadList, ValueOf, Nested
  <2>2. made.properties = [f \in DOMAIN <<>> |-> IF n = 0 THEN Untyped ELSE Published[<<n - 1, <<>>[f]>>]]
    BY <1>7, <1>13 DEF PublishedOf
  <2>3. DOMAIN <<>> = {}
    OBVIOUS
  <2>4. DOMAIN made.properties = {} /\ DOMAIN seen.properties = {}
    BY <1>6, <2>1, <2>2, <2>3
  <2>5. ASSUME raw["type"] = "array"
        PROVE  n > 0 /\ \E below \in RawsBelow(raw) :
                 made.items = Published[<<n - 1, below>>] /\ seen.items = View[<<n, below>>]
    <3>1. raw["items"] \in RawsBelow(raw)
      BY <1>4, <2>5, BelowOfClean
    <3>2. n > 0
      BY <1>5, <3>1
    <3>3. made.items = Published[<<n - 1, raw["items"]>>]
      BY <1>4, <1>7, <2>5, <3>2 DEF PublishedOf, Clean
    <3> QED BY <1>6, <2>5, <3>1, <3>2, <3>3
  <2> QED BY <1>6, <1>8, <1>9, <1>10, <1>11, <1>13, <2>1, <2>4, <2>5 DEF Corresponds, seen, made
<1> QED BY <1>12, <1>13
=============================================================================
