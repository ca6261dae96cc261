------------------------------- MODULE Manifests -------------------------------
(***************************************************************************)
(* A manifest as a JSON document, and the two validators of its structure: *)
(* packages/core/src/internal/validate/manifest.ts and the JSON Schema of  *)
(* schemas/v1/qspec.json, which packages/schema gives to Ajv.              *)
(*                                                                         *)
(* A JSON value is a record whose only field is its type: a string, an     *)
(* integer, a fraction, a boolean, null, an array or an object.  A fraction *)
(* [fraction |-> i] is the number halfway between i and i + 1.             *)
(***************************************************************************)
EXTENDS Naturals, Integers, FiniteSetsExt, SequencesExt

CONSTANTS
    MetadataNames,  \* the strings that match METADATA_NAME_PATTERN
    References,     \* from the strings "$parameters.<name>" to the name
    UnsafeKeys,     \* keys that can corrupt prototypes
    Dates, Datetimes,   \* the strings that name a day, or a day and a time, of the calendar
    HasUnsafeKey(_),    \* two functions that call themselves, on ever smaller
    Accepts(_, _)       \* arguments: see UnsafeKeyIn and Keywords

Absent == [absent |-> TRUE]     \* a member that is not there

Is(type, n) == DOMAIN n = {type}
Object(members) == [object |-> members]
Array(items) == [array |-> items]
String(s) == [string |-> s]

Member(n, key) == IF Is("object", n) /\ key \in DOMAIN n.object THEN n.object[key] ELSE Absent
Keys(n) == IF Is("object", n) THEN {key \in DOMAIN n.object : n.object[key] # Absent} ELSE {}
Items(n) == IF Is("array", n) THEN n.array ELSE <<>>

NonEmptyString(n) == Is("string", n) /\ n.string # ""
Number(n) == Is("integer", n) \/ Is("fraction", n)
AbsentOr(type, n) == n = Absent \/ Is(type, n)
IsOneOf(n, strings) == Is("string", n) /\ n.string \in strings

ItemTypes == {"string", "number", "integer", "boolean", "date", "datetime"}
ParameterTypes == ItemTypes \cup {"enum", "array"}
FieldTypes == ItemTypes \cup {"object", "array"}

-----------------------------------------------------------------------------
(* parseManifest(): the text is JSON, an object, and has no unsafe key.     *)

(* What HasUnsafeKey(n) is: n has such a key, or a member or an item has.   *)
UnsafeKeyIn(has(_), n) ==
    \/ Keys(n) \cap UnsafeKeys # {}
    \/ \E key \in Keys(n) : has(n.object[key])
    \/ \E i \in DOMAIN Items(n) : has(n.array[i])

Parses(n) == Is("object", n) /\ ~HasUnsafeKey(n)

-----------------------------------------------------------------------------
(* validateManifestStructure(): whether it reports no issue.               *)

ValidMetadata(n) ==
    /\ Is("object", n)
    /\ IsOneOf(Member(n, "name"), MetadataNames)
    /\ \A key \in {"title", "description"} : AbsentOr("string", Member(n, key))
    /\ AbsentOr("array", Member(n, "tags"))
    /\ \A i \in DOMAIN Items(Member(n, "tags")) : Is("string", Member(n, "tags").array[i])

ValidBinding(n, declared) ==
    \/ IsOneOf(n, DOMAIN References) /\ References[n.string] \in declared
    \/ /\ Is("object", n) /\ Cardinality({"parameter", "literal"} \cap Keys(n)) = 1
       /\ "parameter" \in Keys(n) => IsOneOf(Member(n, "parameter"), declared)

ValidBounds(n) ==
    /\ \A key \in {"min", "max"} : Member(n, key) = Absent \/ Number(Member(n, key))
    /\ \A key \in {"minLength", "maxLength"} :
        AbsentOr("integer", Member(n, key))
        /\ (Member(n, key) # Absent => Member(n, key).integer >= 0)

Twice(n) == IF Is("integer", n) THEN 2 * n.integer ELSE 2 * n.fraction + 1

IsScalar(type, n) ==
    CASE type = "number" -> Number(n)
      [] type = "date" -> IsOneOf(n, Dates)
      [] type = "datetime" -> IsOneOf(n, Datetimes)
      [] OTHER -> Is(type, n)

MeetsRules(rules, n) ==
    LET given(key) == Member(rules, key) # Absent
        limit(key) == Member(rules, key)
        length == IF Is("string", n) THEN Len(n.string) ELSE Len(Items(n))
    IN /\ Number(n) => /\ given("min") => Twice(n) >= Twice(limit("min"))
                       /\ given("max") => Twice(n) <= Twice(limit("max"))
       /\ Is("string", n) \/ Is("array", n) =>
            /\ given("minLength") => length >= limit("minLength").integer
            /\ given("maxLength") => length <= limit("maxLength").integer

(* coerce() of a value against a sound declaration.  Of the members of      *)
(* `values` it looks for one that is ===: no two objects or arrays are.     *)
Conforms(parameter, n) ==
    LET type == Member(parameter, "type").string
        rules == Member(parameter, "validation")
    IN CASE type = "enum" ->
                ~Is("object", n) /\ ~Is("array", n) /\ n \in ToSet(Items(Member(parameter, "values")))
         [] type = "array" ->
                /\ Is("array", n) /\ MeetsRules(rules, n)
                /\ \A i \in DOMAIN Items(n) :
                    IsScalar(Member(Member(parameter, "items"), "type").string, n.array[i])
         [] OTHER -> IsScalar(type, n) /\ MeetsRules(rules, n)

(* Mutant: a default that is falsy passes for none.                        *)
DefaultFits_IfTruthy(parameter) ==
    Member(parameter, "default") \notin {Absent, [null |-> TRUE], [string |-> ""], [integer |-> 0]} =>
        Conforms(parameter, Member(parameter, "default"))

(* collectDefaultIssues() reports none.                                    *)
DefaultFits(parameter) ==
    Member(parameter, "default") # Absent => Conforms(parameter, Member(parameter, "default"))

(* The default is judged last, and only against a sound declaration.       *)
ValidParameter(n) ==
    /\ IsOneOf(Member(n, "type"), ParameterTypes)
    /\ AbsentOr("boolean", Member(n, "required")) /\ AbsentOr("string", Member(n, "description"))
    /\ AbsentOr("object", Member(n, "presentation"))
    /\ \A key \in {"control", "label", "placeholder", "help"} :
        AbsentOr("string", Member(Member(n, "presentation"), key))
    /\ IsOneOf(Member(n, "type"), {"enum"}) => Items(Member(n, "values")) # <<>>
    /\ IsOneOf(Member(n, "type"), {"array"}) => IsOneOf(Member(Member(n, "items"), "type"), ItemTypes)
    /\ AbsentOr("object", Member(n, "validation")) /\ ValidBounds(Member(n, "validation"))
    /\ DefaultFits(n)

(* Mutant: the display format of a field is not looked at.                 *)
ValidField_AnyFormat(n) ==
    /\ IsOneOf(Member(n, "type"), FieldTypes) /\ AbsentOr("boolean", Member(n, "nullable"))
    /\ \A key \in {"label", "semanticType"} : AbsentOr("string", Member(n, key))

ValidField(n) ==
    /\ IsOneOf(Member(n, "type"), FieldTypes) /\ AbsentOr("boolean", Member(n, "nullable"))
    /\ \A key \in {"label", "semanticType"} : AbsentOr("string", Member(n, key))
    /\ AbsentOr("object", Member(n, "format"))

ValidQuery(n, declared) ==
    LET bindings == Member(n, "bindings")
    IN /\ Is("object", n)
       /\ NonEmptyString(Member(n, "source")) /\ NonEmptyString(Member(n, "language"))
       /\ Member(n, "statement") # Absent
       /\ AbsentOr("object", bindings)
       /\ \A key \in Keys(bindings) : ValidBinding(Member(bindings, key), declared)

(* Mutant: an entry of `transforms` may be anything.                       *)
ValidTransforms_AnyEntry(n) == AbsentOr("array", n)

ValidTransforms(n) ==
    AbsentOr("array", n) /\ \A i \in DOMAIN Items(n) : NonEmptyString(Member(n.array[i], "type"))

ValidSpec(n) ==
    LET parameters == Member(n, "parameters")
        query == Member(n, "query")
        dataset == Member(n, "dataset")
        fields == Member(dataset, "fields")
        presentation == Member(n, "presentation")
    IN /\ Is("object", n)
       /\ query # Absent => ValidQuery(query, Keys(parameters))
       /\ AbsentOr("object", parameters)
       /\ \A key \in Keys(parameters) : ValidParameter(Member(parameters, key))
       /\ dataset # Absent => Is("object", fields)
       /\ \A key \in Keys(fields) : ValidField(Member(fields, key))
       /\ ValidTransforms(Member(n, "transforms"))
       /\ presentation # Absent => NonEmptyString(Member(presentation, "type"))

ValidateManifestStructure(n) ==
    /\ Is("object", n)
    /\ IsOneOf(Member(n, "apiVersion"), {"qspec.dev/v1"})
    /\ NonEmptyString(Member(n, "kind"))
    /\ AbsentOr("string", Member(n, "$schema"))
    /\ ValidMetadata(Member(n, "metadata"))
    /\ ValidSpec(Member(n, "spec"))

-----------------------------------------------------------------------------
(* What prepareResource() and inspect() read of a manifest without looking  *)
(* whether it is there: each would be a TypeError.                         *)
ReadsWhatIsNotThere(n) ==
    LET spec == Member(n, "spec")
        missing(m) == m = Absent \/ Is("null", m)
        entries(m) == m # Absent /\ Is("null", m)       \* Object.entries(m), when m is given
        members(m) == \E key \in Keys(m) : missing(Member(m, key))
        given(m, key) == m # Absent /\ missing(Member(m, key))
    IN \/ missing(spec) \/ missing(Member(n, "metadata"))
       \/ entries(Member(spec, "parameters")) \/ members(Member(spec, "parameters"))
       \/ Is("null", Member(spec, "query"))
       \/ entries(Member(Member(spec, "query"), "bindings"))
       \/ given(Member(spec, "dataset"), "fields")
       \/ members(Member(Member(spec, "dataset"), "fields"))
       \/ ~AbsentOr("array", Member(spec, "transforms"))
       \/ \E i \in DOMAIN Items(Member(spec, "transforms")) :
            Is("null", Member(spec, "transforms").array[i])
       \/ Is("null", Member(spec, "presentation"))

-----------------------------------------------------------------------------
(* The JSON Schema and what its keywords mean.  Of `default` it says `true`: *)
(* anything.                                                               *)

Text == [type |-> "string"]
Named == [type |-> "string", minLength |-> 1]
Typed == [type |-> "object", required |-> {"type"}, properties |-> [type |-> Named]]

ParameterSchema ==
    [type |-> "object", required |-> {"type"},
     properties |->
        [type |-> [enum |-> ParameterTypes], required |-> [type |-> "boolean"],
         description |-> Text,
         values |-> [type |-> "array", minItems |-> 1],
         items |-> [type |-> "object", required |-> {"type"},
                    properties |-> [type |-> [enum |-> ItemTypes]]],
         validation |-> [type |-> "object",
            properties |-> [min |-> [type |-> "number"], max |-> [type |-> "number"],
                            minLength |-> [type |-> "integer", minimum |-> 0],
                            maxLength |-> [type |-> "integer", minimum |-> 0]]],
         presentation |-> [type |-> "object",
            properties |-> [control |-> Text, label |-> Text, placeholder |-> Text, help |-> Text]]],
     allOf |->
        {[if |-> [required |-> {"type"}, properties |-> [type |-> [enum |-> {t.type}]]],
          then |-> [required |-> {t.needs}]] :
            t \in {[type |-> "enum", needs |-> "values"], [type |-> "array", needs |-> "items"]}}]

BindingSchema ==
    [oneOf |->
        <<[type |-> "string", pattern |-> DOMAIN References],
          [type |-> "object", required |-> {"parameter"}, properties |-> [parameter |-> Text]],
          [type |-> "object", required |-> {"literal"}]>>]

FieldSchema ==
    [type |-> "object", required |-> {"type"},
     properties |-> [type |-> [enum |-> FieldTypes], nullable |-> [type |-> "boolean"],
                     label |-> Text, semanticType |-> Text, format |-> [type |-> "object"]]]

QuerySchema ==
    [type |-> "object", required |-> {"source", "language", "statement"},
     properties |-> [source |-> Named, language |-> Named,
                     bindings |-> [type |-> "object", additionalProperties |-> BindingSchema]]]

SpecSchema ==
    [type |-> "object",
     properties |->
        [parameters |-> [type |-> "object", additionalProperties |-> ParameterSchema],
         query |-> QuerySchema,
         dataset |-> [type |-> "object", required |-> {"fields"},
            properties |-> [fields |-> [type |-> "object", additionalProperties |-> FieldSchema]]],
         transforms |-> [type |-> "array", items |-> Typed],
         presentation |-> Typed]]

MetadataSchema ==
    [type |-> "object", required |-> {"name"},
     properties |-> [name |-> [type |-> "string", pattern |-> MetadataNames], title |-> Text,
                     description |-> Text, tags |-> [type |-> "array", items |-> Text]]]

QSpecSchema ==
    LET properties(key) ==
            CASE key = "$schema" -> Text
              [] key = "apiVersion" -> [enum |-> {"qspec.dev/v1"}]
              [] key = "kind" -> Named
              [] key = "metadata" -> MetadataSchema
              [] key = "spec" -> SpecSchema
    IN [type |-> "object", required |-> {"apiVersion", "kind", "metadata", "spec"},
        properties |-> [key \in {"$schema", "apiVersion", "kind", "metadata", "spec"} |-> properties(key)]]

HasType(n, type) == IF type = "number" THEN Number(n) ELSE Is(type, n)

(* What Accepts(schema, n) is: n has all that the keywords of the schema     *)
(* ask for.  A keyword says nothing of values of another type.              *)
Keywords(accepts(_, _), schema, n) ==
    LET has(keyword) == keyword \in DOMAIN schema
        properties == IF has("properties") THEN schema.properties ELSE [key \in {} |-> Text]
    IN /\ has("type") => HasType(n, schema.type)
       /\ has("enum") => IsOneOf(n, schema.enum)
       /\ has("pattern") => (Is("string", n) => n.string \in schema.pattern)
       /\ has("minLength") => (Is("string", n) => n.string # "")
       /\ has("minimum") => (Is("integer", n) => n.integer >= 0)
       /\ has("minItems") => (Is("array", n) => n.array # <<>>)
       /\ has("required") => (Is("object", n) => schema.required \subseteq Keys(n))
       /\ \A key \in DOMAIN properties \cap Keys(n) : accepts(properties[key], n.object[key])
       /\ has("additionalProperties") =>
            \A key \in Keys(n) \ DOMAIN properties : accepts(schema.additionalProperties, n.object[key])
       /\ has("items") => \A i \in DOMAIN Items(n) : accepts(schema.items, n.array[i])
       /\ has("allOf") => \A s \in schema.allOf : accepts(s.if, n) => accepts(s.then, n)
       /\ has("oneOf") =>
            Cardinality({i \in DOMAIN schema.oneOf : accepts(schema.oneOf[i], n)}) = 1

ValidateWithJsonSchema(n) == Accepts(QSpecSchema, n)
=============================================================================
