--------------------------- MODULE MCTypedSchemas ---------------------------
(***************************************************************************)
(* Texts of one schema: every key of a property present, absent, malformed *)
(* or out of place, and nesting up to one level past the limit.            *)
(***************************************************************************)
EXTENDS TypedSchemas

Raw(type) == "type" :> type
With(raw, key, value) == (key :> value) @@ raw

Formats  == {With(Raw(t), "format", f) : t \in {"string", "integer", "array"}, f \in {"date", Malformed}}
Flags    == {With(Raw("string"), "nullable", n) : n \in {TRUE, FALSE, Malformed}}
Enums    == {With(Raw(t), "enum", e) : t \in {"string", "number", "array"},
               e \in {{}, {"text"}, {"one", "half"}, {"text", "null"}, Malformed}}
Nullable == {With(raw, "nullable", TRUE) : raw \in Enums}

Objects ==
  {With(Raw("object"), "properties", p) : p \in {<<>>, "g" :> Raw("string"), "g" :> Malformed, Malformed}}
  \cup {With(With(Raw("object"), "properties", "g" :> Raw("string")), "required", r) :
          r \in {{}, {"g"}, {"h"}, {"g", "h"}, Malformed}}
  \cup {With(Raw("object"), "required", {"h"}), With(Raw("string"), "required", {})}
  \cup {With(Raw(t), "additional_properties", x) : t \in {"object", "string"}, x \in {TRUE, FALSE, Malformed}}
  \cup {With(Raw("string"), "properties", <<>>)}

List(raw) == With(Raw("array"), "items", raw)
Holder(raw) == With(Raw("object"), "properties", "g" :> raw)

Nestings ==
  LET one == {List(Raw("string")), Holder(Raw("string"))}
      two == {List(raw) : raw \in one} \cup {Holder(raw) : raw \in one}
      three == {List(raw) : raw \in two} \cup {Holder(raw) : raw \in two}
  IN one \cup two \cup three \cup {List(Malformed), With(List(Raw("string")), "type", "string")}

Properties ==
  {Raw("string"), Raw("number"), Raw("array"), Raw("unknown"), <<>>, Malformed,
   With(Raw("string"), "description", "d")}
  \cup Formats \cup Flags \cup Enums \cup Nullable \cup Objects \cup Nestings

Blank(kind) ==
  [kind |-> kind, anchor |-> "a", secretMaterialPolicy |-> "p", required |-> {"f"},
   optional |-> {}, properties |-> Undefined, secretFields |-> {}, requestHeaders |-> <<>>]

\* Field lists and properties that agree, or not.
Listings ==
  {[Blank("request") EXCEPT !.required = r, !.optional = {"g"} \ r, !.secretFields = s,
                            !.properties = p] :
     r \in {{"f"}, {"f", "g"}}, s \in {{}, {"f"}, {"h"}},
     p \in {Undefined, Malformed, "f" :> Raw("string"), [x \in {"f", "g"} |-> Raw("string")],
            [x \in {"f", "g", "h"} |-> Raw("string")]}}

MCTexts ==
  {[Blank(k) EXCEPT !.properties = "f" :> p] : k \in {"request", "response"}, p \in Properties}
  \cup Listings
=============================================================================
