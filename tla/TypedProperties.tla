-------------------------- MODULE TypedProperties --------------------------
(***************************************************************************)
(* Typed schema properties: how compatibility-typed-properties.ts compares *)
(* two of them, and which values a property admits.                        *)
(*                                                                         *)
(* A property is a record [type, nullable, format, enum, extra,            *)
(* properties, required, items].  What its type does not use is Undefined, *)
(* FALSE or empty; enum = {} leaves the values unrestricted, and extra is  *)
(* the source's additional_properties.  Properties are trees, as the       *)
(* parser of the export plan requires, so the comparer's check for cycles  *)
(* never fires and only its depth limit is left.                           *)
(***************************************************************************)
EXTENDS CompatStrategies

CONSTANT MaxDepth   \* levels of nesting the comparer follows; 64 in the code

ASSUME MaxDepthAssumption == MaxDepth \in Nat

\* change()
Change(breaking) == {IF breaking THEN "breaking" ELSE "feature"}

TypeChanges(kind, base, head) ==
  IF base.type = head.type THEN {}
  ELSE Change(IF kind = "request"
              THEN ~ (base.type = "integer" /\ head.type = "number")
              ELSE ~ (base.type = "number" /\ head.type = "integer"))

FormatChanges(kind, base, head) ==
  IF base.format = head.format THEN {}
  ELSE Change(\/ base.format # Undefined /\ head.format # Undefined
              \/ kind = "request" /\ head.format # Undefined
              \/ kind = "response" /\ base.format # Undefined
              \/ kind \notin {"request", "response"})

\* nullable and additional_properties
FlagChanges(kind, base, head) ==
  IF base = head THEN {} ELSE Change(IF kind = "request" THEN ~ head ELSE head)

\* Mutant of EnumChanges: requests and responses swapped.
EnumChangesSwapped(kind, left, right) ==
  LET narrowed == left = {} \/ (right # {} /\ left \ right # {})
      widened  == right = {} \/ (left # {} /\ right \ left # {})
  IN IF left = right THEN {} ELSE Change(IF kind = "request" THEN widened ELSE narrowed)

EnumChanges(kind, left, right) ==
  LET narrowed == left = {} \/ (right # {} /\ left \ right # {})
      widened  == right = {} \/ (left # {} /\ right \ left # {})
  IN IF left = right THEN {} ELSE Change(IF kind = "request" THEN narrowed ELSE widened)

\* comparePropertySet, without the comparison of the properties themselves
FieldSetChanges(kind, base, head, baseRequired, headRequired, baseExtra) ==
  {l \in Change(TRUE) : DOMAIN base \ DOMAIN head # {}}
  \cup (UNION {Change(kind = "request" /\ (f \in headRequired \/ baseExtra)) :
                 f \in DOMAIN head \ DOMAIN base})
  \cup UNION {Change(IF kind = "request" THEN f \in headRequired ELSE f \in baseRequired) :
                f \in {g \in Kept(base, head) : (g \in baseRequired) # (g \in headRequired)}}

\* comparePropertyValue, without the properties below
ValueChanges(kind, base, head) ==
  TypeChanges(kind, base, head)
  \cup FormatChanges(kind, base, head)
  \cup FlagChanges(kind, base.nullable, head.nullable)
  \cup FlagChanges(kind, base.extra, head.extra)
  \cup EnumChanges(kind, base.enum, head.enum)
  \cup (IF base.type = "object" /\ head.type = "object"
        THEN FieldSetChanges(kind, base.properties, head.properties,
                             base.required, head.required, base.extra)
        ELSE {})

\* The pairs of properties that share a name, and those one level below a pair.
PairsOf(base, head) == {<<base[f], head[f]>> : f \in Kept(base, head)}

PairsBelow(pair) ==
  LET base == pair[1] head == pair[2] IN
  IF base.type = "object" /\ head.type = "object" THEN PairsOf(base.properties, head.properties)
  ELSE IF base.type = "array" /\ head.type = "array" THEN {<<base.items, head.items>>}
  ELSE {}

\* The pairs compareProperty is called with, by depth.
PairsAt(base, head) ==
  LET at[depth \in 0 .. MaxDepth + 1] ==
        IF depth = 0 THEN PairsOf(base, head) ELSE UNION {PairsBelow(pair) : pair \in at[depth - 1]}
  IN at

\* compareTypedProperties, on two schemas with typed properties.  Below its
\* depth limit compareProperty reports a breaking change and goes no further.
TypedChanges(base, head) ==
  LET at == PairsAt(base.properties, head.properties) IN
  FieldSetChanges(base.kind, base.properties, head.properties, base.required, head.required, FALSE)
  \cup (UNION {ValueChanges(base.kind, pair[1], pair[2]) :
                 pair \in UNION {at[depth] : depth \in 0 .. MaxDepth}})
  \cup {l \in Change(TRUE) : at[MaxDepth + 1] # {}}

-----------------------------------------------------------------------------
(***************************************************************************)
(* Which values a property admits, as propertyToOpenApiSchema publishes it *)
(* to clients.  A value is [scalar, fields, items]: a scalar, or "object"  *)
(* with its fields, or "array" with the values it holds.  The scalars are  *)
(* one per class the comparer tells apart.                                 *)
(***************************************************************************)
ScalarsOf(type) ==
  IF type = "string" THEN {"text", "word", "date", "uri"}
  ELSE IF type = "integer" THEN {"one", "two"}
  ELSE IF type = "number" THEN {"one", "two", "half"}
  ELSE IF type = "boolean" THEN {"true"}
  ELSE {}

\* Strings with a format are named by it; other types' formats are widths.
InFormat(p, scalar) == p.type = "string" /\ p.format # Undefined => scalar = p.format

\* What a property asks of a value itself.  tolerant: a reader that ignores the
\* fields its schema does not declare.  The builder adds null to the enum of a
\* nullable property.
AdmitsValue(p, tolerant, value) ==
  IF value.scalar = "null" THEN p.nullable
  ELSE IF value.scalar = "object"
  THEN /\ p.type = "object"
       /\ p.required \subseteq DOMAIN value.fields
       /\ p.extra \/ tolerant \/ DOMAIN value.fields \subseteq DOMAIN p.properties
  ELSE IF value.scalar = "array" THEN p.type = "array"
  ELSE /\ value.scalar \in ScalarsOf(p.type)
       /\ InFormat(p, value.scalar)
       /\ p.enum = {} \/ value.scalar \in p.enum

\* The properties and the values they describe: of the fields of an object, one
\* level below a value, and by depth.
MatchesOf(properties, fields) == {<<properties[f], fields[f]>> : f \in Kept(properties, fields)}

MatchesBelow(match) ==
  LET p == match[1] value == match[2] IN
  IF value.scalar = "object" /\ p.type = "object" THEN MatchesOf(p.properties, value.fields)
  ELSE IF value.scalar = "array" /\ p.type = "array" THEN {<<p.items, item>> : item \in value.items}
  ELSE {}

MatchesAt(properties, fields) ==
  LET at[depth \in 0 .. MaxDepth] ==
        IF depth = 0 THEN MatchesOf(properties, fields)
        ELSE UNION {MatchesBelow(match) : match \in at[depth - 1]}
  IN at

\* The fields of an object have the values its properties ask for; a property
\* the builder publishes has nothing below depth MaxDepth.
Admits(properties, tolerant, fields) ==
  LET at == MatchesAt(properties, fields) IN
  \A match \in UNION {at[depth] : depth \in 0 .. MaxDepth} : AdmitsValue(match[1], tolerant, match[2])
=============================================================================
