---------------------------- MODULE TypedSchemas ----------------------------
(***************************************************************************)
(* The typed metadata of one schema and its two readers.                   *)
(*                                                                         *)
(* parseTypedSchemaBundle of src/api-export-plan/typed-schema.ts checks it *)
(* and the OpenAPI builder publishes what it read; the compatibility       *)
(* comparer reads the same text again, unchecked, with its own defaults.   *)
(* A version is released when the builder accepts it and the comparer has  *)
(* compared it with the version before.                                    *)
(*                                                                         *)
(* A property is written as a function from the keys it has to their       *)
(* values; Malformed is a value of another kind than the key asks for.     *)
(* The readers follow a property level by level, as TypedProperties does:  *)
(* a set of properties for the parser's checks, a function of the levels   *)
(* left and the property for what each of them reads.                      *)
(***************************************************************************)
EXTENDS ContractComparer, TLC

CONSTANTS
  Malformed,
  Raws,         \* the properties that may be written, with those inside them
  Texts         \* the schemas that may be written

Has(raw, key) == key \in DOMAIN raw
ValueOf(raw, key, default) == IF Has(raw, key) THEN raw[key] ELSE default

\* The properties of an object; a value that is no record has none.
Nested(raw) == IF ValueOf(raw, "properties", Malformed) = Malformed THEN <<>> ELSE raw["properties"]

ASSUME RawsAssumption ==
  \A raw \in Raws \ {Malformed} :
    /\ \A key \in {"nullable", "additional_properties"} : ValueOf(raw, key, FALSE) \in {TRUE, FALSE, Malformed}
    /\ Has(raw, "items") => raw["items"] \in Raws
    /\ \A f \in DOMAIN Nested(raw) : Nested(raw)[f] \in Raws

ASSUME TextsAssumption ==
  \A text \in Texts :
    /\ DOMAIN text = {"kind", "anchor", "secretMaterialPolicy", "required", "optional", "properties",
                       "secretFields", "requestHeaders"}
    /\ \/ text.properties \in {Undefined, Malformed}
       \/ \A f \in DOMAIN text.properties : text.properties[f] \in Raws

DeclaredTypes == {"string", "integer", "number", "boolean", "array", "object"}

ASSUME MalformedAssumption == Malformed \notin DeclaredTypes

PropertyKeys ==
  {"type", "format", "enum", "nullable", "items", "properties", "required", "additional_properties"}

\* The codes that depend on one key alone: readOptionalBoolean and its like.
KeyDiagnostics(raw, key, code) == {c \in {code} : Has(raw, key) /\ raw[key] = Malformed}

\* readOptionalBoolean falls back on FALSE, readOptionalString on null.
ReadFlag(raw, key) == Has(raw, key) /\ raw[key] # Malformed /\ raw[key]
ReadFormat(raw)    == IF ValueOf(raw, "format", Malformed) = Malformed THEN Undefined ELSE raw["format"]
ReadList(raw, key) == IF ValueOf(raw, key, Malformed) = Malformed THEN {} ELSE raw[key]

\* enumMatchesType
EnumMatches(value, type, nullable) ==
  IF value = "null" THEN nullable ELSE value \in ScalarsOf(type)

EnumDiagnostics(raw, nullable) ==
  IF ~ Has(raw, "enum") THEN {}
  ELSE IF raw["enum"] \in {Malformed, {}} THEN {"ENUM_INVALID"}
  ELSE IF raw["type"] \in {"array", "object"} THEN {"ENUM_TYPE_INVALID"}
  ELSE {c \in {"ENUM_VALUE_INVALID"} :
          \E value \in raw["enum"] : ~ EnumMatches(value, raw["type"], nullable)}

\* The keys that only objects may have.
ObjectKeys == {"properties", "required", "additional_properties"}

\* Mutant of RequiredDiagnostics: required may name what is not there.
RequiredUnchecked(raw, fields) == KeyDiagnostics(raw, "required", "STRING_LIST_INVALID")

RequiredDiagnostics(raw, fields) ==
  KeyDiagnostics(raw, "required", "STRING_LIST_INVALID")
  \cup {c \in {"OBJECT_REQUIRED_FIELD_MISSING"} : ~ ReadList(raw, "required") \subseteq fields}

\* Mutant of TooDeep: one level more than the comparer follows.
DeeperByOne(depth) == depth > MaxDepth + 1

\* The limit of parseProperty; 64 in the code, as in the comparer.
TooDeep(depth) == depth > MaxDepth

ItemsDiagnostics(raw) ==
  IF raw["type"] # "array" THEN {c \in {"ITEMS_FORBIDDEN"} : Has(raw, "items")}
  ELSE {c \in {"ARRAY_ITEMS_MISSING"} : ~ Has(raw, "items")}

\* parseNestedProperties and the object keys
ObjectDiagnostics(raw) ==
  IF raw["type"] # "object" THEN {c \in {"OBJECT_KEY_FORBIDDEN"} : \E k \in ObjectKeys : Has(raw, k)}
  ELSE KeyDiagnostics(raw, "properties", "OBJECT_PROPERTIES_INVALID")
       \cup RequiredDiagnostics(raw, DOMAIN Nested(raw))
       \cup KeyDiagnostics(raw, "additional_properties", "BOOLEAN_INVALID")

HasType(raw) == ValueOf(raw, "type", Malformed) \in DeclaredTypes

\* parseProperty and parsePropertyValue, of one property at its depth.  A cycle
\* of YAML aliases is a text without a bound on its depth, which the finite
\* texts here do not have.
Diagnostics(raw, depth) ==
  IF TooDeep(depth) THEN {"DEPTH_EXCEEDED"}
  ELSE IF raw = Malformed THEN {"PROPERTY_INVALID"}
  ELSE {c \in {"PROPERTY_KEY_UNKNOWN"} : ~ DOMAIN raw \subseteq PropertyKeys}
       \cup (IF ~ HasType(raw) THEN {"PROPERTY_TYPE_INVALID"}
             ELSE KeyDiagnostics(raw, "format", "STRING_INVALID")
                  \cup {c \in {"FORMAT_TYPE_INVALID"} :
                          /\ ReadFormat(raw) # Undefined
                          /\ raw["type"] \notin {"string", "integer", "number"}}
                  \cup KeyDiagnostics(raw, "nullable", "BOOLEAN_INVALID")
                  \cup EnumDiagnostics(raw, ReadFlag(raw, "nullable"))
                  \cup ItemsDiagnostics(raw)
                  \cup ObjectDiagnostics(raw))

\* The properties parsePropertyValue goes on to, and all of them by depth.
RawsBelow(raw) ==
  IF raw = Malformed \/ ~ HasType(raw) THEN {}
  ELSE IF raw["type"] = "array" THEN {raw[key] : key \in {"items"} \cap DOMAIN raw}
  ELSE IF raw["type"] = "object" THEN {Nested(raw)[f] : f \in DOMAIN Nested(raw)}
  ELSE {}

RawsAt(properties) ==
  LET at[depth \in 0 .. MaxDepth + 1] ==
        IF depth = 0 THEN {properties[f] : f \in DOMAIN properties}
        ELSE UNION {RawsBelow(raw) : raw \in at[depth - 1]}
  IN at

\* The field lists against the properties.
FieldListDiagnostics(text) ==
  {c \in {"SECRET_FIELD_UNDECLARED"} : ~ text.secretFields \subseteq FieldsOf(text)}
  \cup {c \in {"PROPERTY_MISSING"} : ~ FieldsOf(text) \subseteq DOMAIN text.properties}
  \cup {c \in {"PROPERTY_UNDECLARED"} : ~ DOMAIN text.properties \subseteq FieldsOf(text)}

\* parseSchemaDefinition
SchemaDiagnostics(text) ==
  IF text.properties = Undefined THEN {}
  ELSE IF text.properties = Malformed THEN {"PROPERTIES_INVALID"}
  ELSE LET at == RawsAt(text.properties) IN
       FieldListDiagnostics(text)
       \cup UNION {UNION {Diagnostics(raw, depth) : raw \in at[depth]} : depth \in 0 .. MaxDepth + 1}

Accepted(text) == SchemaDiagnostics(text) = {}

-----------------------------------------------------------------------------
(* What the builder publishes of an accepted schema *)

\* unknownProperty
Untyped == [type |-> "unknown"]

\* parseProperty's result through propertyToOpenApiSchema, of a property with so
\* many levels left below it; the builder adds null to the enum of a nullable
\* property.
Published[at \in (0 .. MaxDepth) \X Raws] ==
  LET levels   == at[1]
      raw      == at[2]
      nullable == ReadFlag(raw, "nullable")
      enum     == ReadList(raw, "enum")
      object   == raw["type"] = "object"
      nested   == IF object THEN Nested(raw) ELSE <<>>
      Below(p) == IF levels = 0 THEN Untyped ELSE Published[<<levels - 1, p>>]
  IN IF raw = Malformed \/ ~ HasType(raw) THEN Untyped
     ELSE [type |-> raw["type"],
           nullable |-> nullable,
           format |-> ReadFormat(raw),
           enum |-> IF nullable /\ enum # {} THEN enum \cup {"null"} ELSE enum,
           items |-> IF raw["type"] # "array" THEN Undefined
                     ELSE IF Has(raw, "items") THEN Below(raw["items"]) ELSE Untyped,
           properties |-> [f \in DOMAIN nested |-> Below(nested[f])],
           required |-> IF object THEN ReadList(raw, "required") ELSE {},
           additionalProperties |-> object /\ ReadFlag(raw, "additional_properties")]

\* buildSchemaComponent; the properties of a legacy schema are its fields.
Component(text) ==
  LET typed == text.properties # Undefined IN
  [properties |->
     [f \in FieldsOf(text) |->
        [schema |-> IF typed THEN Published[<<MaxDepth, text.properties[f]>>] ELSE Untyped,
         hidden |-> IF f \notin text.secretFields THEN "shown"
                    ELSE IF text.kind = "request" THEN "writeOnly" ELSE "readOnly"]],
   required |-> text.required, kind |-> text.kind, typed |-> typed, anchor |-> text.anchor]

-----------------------------------------------------------------------------
(* What the comparer sees of the same text *)

\* record(), list(), set() and the defaults of comparePropertyValue, of a
\* property with so many levels below it that the comparer may still come to.
View[at \in (0 .. MaxDepth + 1) \X Raws] ==
  LET levels   == at[1]
      raw      == IF at[2] = Malformed THEN <<>> ELSE at[2]
      Below(p) == IF levels = 0 THEN Undefined ELSE View[<<levels - 1, p>>]
  IN [type |-> ValueOf(raw, "type", Undefined),
      nullable |-> ValueOf(raw, "nullable", FALSE),
      format |-> ValueOf(raw, "format", Undefined),
      enum |-> ReadList(raw, "enum"),
      extra |-> ValueOf(raw, "additional_properties", FALSE),
      properties |-> [f \in DOMAIN Nested(raw) |-> Below(Nested(raw)[f])],
      required |-> ReadList(raw, "required"),
      items |-> IF Has(raw, "items") THEN Below(raw["items"]) ELSE Undefined]

\* The schema as the comparer gets it.
Viewed(text) ==
  [text EXCEPT !.properties = IF text.properties \in {Undefined, Malformed} THEN text.properties
                              ELSE [f \in DOMAIN text.properties |-> View[<<MaxDepth + 1, text.properties[f]>>]]]

\* Undefined is no record of properties.
ASSUME UndefinedAssumption ==
  \A text \in Texts : Viewed(text).properties = Undefined => text.properties = Undefined

-----------------------------------------------------------------------------

VARIABLES
  generated,  \* the version a client was generated from
  released,   \* the version released last
  reported    \* levels the comparer reported since then

schemaVars == <<generated, released, reported>>

SchemaInit ==
  /\ generated \in {text \in Texts : Accepted(text)}
  /\ released = generated
  /\ reported = {}

\* The OpenAPI build fails on a text with diagnostics; any other is compared
\* with the version before.  After a report clients are generated anew.
Release(text) ==
  /\ reported = {}
  /\ Accepted(text)
  /\ released' = text
  /\ reported' = SchemaChanges(Viewed(released), Viewed(text))
  /\ UNCHANGED generated

Generate ==
  /\ generated' = released
  /\ reported' = {}
  /\ UNCHANGED released

SchemaNext == Generate \/ \E text \in Texts : Release(text)

SchemaSpec == SchemaInit /\ [][SchemaNext]_schemaVars

-----------------------------------------------------------------------------

\* openapi.ts:319: what the comparer did not report, in any number of releases,
\* changed nothing in the published component, although the two read the text
\* in their own ways.
SilentReleasesPublishTheSame == reported = {} => Component(released) = Component(generated)

\* compatibility-typed-properties.ts:41: the comparer never runs into its depth
\* limit on a text that was published, so an unchanged schema is never breaking.
PublishedComparesEqual == SchemaChanges(Viewed(released), Viewed(released)) = {}
=============================================================================
