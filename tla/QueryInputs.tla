----------------------------- MODULE QueryInputs -----------------------------
(***************************************************************************)
(* The way of a caller's parameters into a SQL query.  A manifest is       *)
(* validated (packages/core/src/internal/validate/manifest.ts, which is    *)
(* all that `qspec validate` does), prepared (prepare.ts) and executed any *)
(* number of times with parameters of the caller's choice (execute.ts):    *)
(* validateParameters and resolveBindings of core, compileSql of           *)
(* packages/sql and renderPostgres of packages/postgres.                   *)
(*                                                                         *)
(* A value is a record with a kind.  A string is its length and what it    *)
(* may be the spelling of; real says that it names a day (and a time) of   *)
(* the calendar.  A field of a declaration that may be absent is a set of  *)
(* at most one element.                                                    *)
(***************************************************************************)
EXTENDS Naturals, Sequences

CONSTANTS
    ParameterNames, BindingNames,
    Values,
    Specs,   \* what a manifest may declare, see QueryInputsAssumption
    Inputs   \* the parameters a caller may supply

Null == [kind |-> "null"]
Undefined == [kind |-> "undefined"]

Optional(x, S) == x \subseteq S /\ \A a, b \in x : a = b

IsValue(v) ==
    /\ v.kind = "number" => v.n \in Nat
    /\ v.kind = "string" => v.length \in Nat
    /\ v.kind = "array" => v.items \in Seq(Values)

IsDeclaration(d) ==
    /\ d.type \in STRING /\ d.required \in BOOLEAN
    /\ Optional(d.default, Values) /\ d.values \subseteq Values
    /\ Optional(d.items, STRING)
    /\ d.wellFormedRules \in BOOLEAN  \* an object, with numbers where numbers belong
    /\ \A rule \in {"min", "max", "minLength", "maxLength"} : Optional(d[rule], Nat)

IsBinding(b) ==
    \/ b.form = "string" /\ Optional(b.reads, ParameterNames)  \* what follows $parameters.
    \/ /\ b.form = "object" /\ Optional(b.literal, Values)
       /\ Optional(b.parameter, ParameterNames \cup {"5"})    \* "5" is not a string
    \/ b.form = "other"

(* The statement is what scanSql finds in it.                               *)
ASSUME QueryInputsAssumption ==
    /\ {Null, Undefined} \subseteq Values /\ \A v \in Values : IsValue(v)
    /\ \A s \in Specs :
        /\ DOMAIN s.parameters \subseteq ParameterNames
        /\ \A p \in DOMAIN s.parameters : IsDeclaration(s.parameters[p])
        /\ DOMAIN s.bindings \subseteq BindingNames
        /\ \A n \in DOMAIN s.bindings : IsBinding(s.bindings[n])
        /\ s.statement.parameterNames \in Seq(BindingNames) /\ s.statement.positional \in BOOLEAN
    /\ \A input \in Inputs : \A p \in DOMAIN input : input[p] \in Values

VARIABLES
    spec,        \* the manifest: parameters, bindings and the scanned statement
    phase,       \* what is done next, "rejected", or "prepared" between executions
    rejectedBy,  \* the stage that rejected the manifest
    plan,        \* the bindings of the prepared query
    supplied,    \* the parameters of the last execution
    parameters,  \* after validateParameters
    bound,       \* after resolveBindings
    values,      \* of the compiled query, one per gap
    outcome      \* of the last execution

vars == <<spec, phase, rejectedBy, plan, supplied, parameters, bound, values, outcome>>

execution == <<supplied, parameters, bound, values, outcome>>

Init ==
    /\ spec \in Specs
    /\ phase = "validate" /\ rejectedBy = ""
    /\ plan = <<>> /\ supplied = <<>> /\ parameters = <<>> /\ bound = <<>> /\ values = <<>>
    /\ outcome = "none"

-----------------------------------------------------------------------------
(* Checking a value against its declaration.                               *)

ITEM_TYPES == {"string", "number", "integer", "boolean", "date", "datetime"}
PARAMETER_TYPES == ITEM_TYPES \cup {"enum", "array"}

CheckScalar(type, value) ==
    CASE type = "string" -> value.kind = "string"
      [] type = "number" -> value.kind = "number"
      [] type = "integer" -> value.kind = "number" /\ value.integral
      [] type = "boolean" -> value.kind = "boolean"
      [] type \in {"date", "datetime"} -> value.kind = "string" /\ value.spells = type /\ value.real

Lengths(value) == CASE value.kind = "string" -> {value.length}
                    [] value.kind = "array" -> {Len(value.items)}
                    [] OTHER -> {}
Numbers(value) == IF value.kind = "number" THEN {value.n} ELSE {}

(* The rules a value that has the right type breaks.                        *)
ApplyScalarConstraints(declaration, value) ==
    {rule \in {"min"} : \E n \in Numbers(value), m \in declaration.min : n < m}
    \cup {rule \in {"max"} : \E n \in Numbers(value), m \in declaration.max : n > m}
    \cup {rule \in {"minLength"} : \E n \in Lengths(value), m \in declaration.minLength : n < m}
    \cup {rule \in {"maxLength"} : \E n \in Lengths(value), m \in declaration.maxLength : n > m}

(* What is wrong with a value.                                              *)
Coerce(declaration, value) ==
    IF declaration.type = "enum" THEN IF value \in declaration.values THEN {} ELSE {"enum"}
    ELSE IF declaration.type = "array"
    THEN IF value.kind # "array" THEN {"array"}
         ELSE IF \E t \in declaration.items, k \in DOMAIN value.items : ~CheckScalar(t, value.items[k]) THEN {"item"}
         ELSE ApplyScalarConstraints(declaration, value)
    ELSE IF ~CheckScalar(declaration.type, value) THEN {"type"}
    ELSE ApplyScalarConstraints(declaration, value)

CollectDefaultIssues(declaration) == UNION {Coerce(declaration, v) : v \in declaration.default \ {Undefined}}

-----------------------------------------------------------------------------
(* Validation of the manifest.                                             *)

Reads(parameter) == [kind |-> "parameter", parameter |-> parameter]
Literal == [kind |-> "literal"]

(* describeBinding: what a binding reads, or nothing if it is not one.      *)
DescribeBinding(b) ==
    CASE b.form = "string" -> {Reads(p) : p \in b.reads}
      [] b.form = "object" /\ b.literal = {} -> {Reads(p) : p \in b.parameter \cap ParameterNames}
      [] b.form = "object" /\ b.parameter = {} -> {Literal : v \in b.literal \ {Undefined}}
      [] OTHER -> {}

(* Whether a declaration can be used, its default apart.                    *)
SoundShape(d) ==
    /\ d.type = "enum" => d.values # {}
    /\ d.type = "array" => d.items # {} /\ d.items \subseteq ITEM_TYPES

(* Mutant: stage 1 leaves the defaults to prepare().                       *)
DeclarationIssues_NoDefaults(d) ==
    IF d.type \notin PARAMETER_TYPES THEN {"type"}
    ELSE IF ~SoundShape(d) \/ ~d.wellFormedRules THEN {"shape"} ELSE {}

DeclarationIssues(d) ==
    IF d.type \notin PARAMETER_TYPES THEN {"type"}
    ELSE IF ~SoundShape(d) \/ ~d.wellFormedRules THEN {"shape"}
    ELSE CollectDefaultIssues(d)

BindingIssue(b) ==
    LET described == DescribeBinding(b)
    IN described = {} \/ \E r \in described : r.kind = "parameter" /\ r.parameter \notin DOMAIN spec.parameters

AssertValidManifest ==
    /\ phase = "validate"
    /\ IF \/ \E p \in DOMAIN spec.parameters : DeclarationIssues(spec.parameters[p]) # {}
          \/ \E n \in DOMAIN spec.bindings : BindingIssue(spec.bindings[n])
       THEN phase' = "rejected" /\ rejectedBy' = "assertValidManifest"
       ELSE phase' = "compileParameters" /\ UNCHANGED rejectedBy
    /\ UNCHANGED <<spec, plan, execution>>

(* The static work of prepare(): the first defect throws.                   *)
CompileParameters ==
    /\ phase = "compileParameters"
    /\ IF \A p \in DOMAIN spec.parameters :
            LET d == spec.parameters[p]
            IN d.type \in PARAMETER_TYPES /\ SoundShape(d) /\ CollectDefaultIssues(d) = {}
       THEN phase' = "compileBindings" /\ UNCHANGED rejectedBy
       ELSE phase' = "rejected" /\ rejectedBy' = "compileParameters"
    /\ UNCHANGED <<spec, plan, execution>>

(* A compiled binding: what it reads, and a literal's value.                *)
Compiled(b) ==
    LET described == CHOOSE r \in DescribeBinding(b) : TRUE
    IN IF described.kind = "parameter" THEN described
       ELSE [kind |-> "literal", value |-> CHOOSE v \in b.literal : TRUE]

CompileBindings ==
    /\ phase = "compileBindings"
    /\ IF \E n \in DOMAIN spec.bindings : BindingIssue(spec.bindings[n])
       THEN phase' = "rejected" /\ rejectedBy' = "compileBindings" /\ UNCHANGED plan
       ELSE /\ plan' = [n \in DOMAIN spec.bindings |-> Compiled(spec.bindings[n])]
            /\ phase' = "validateSqlQuery" /\ UNCHANGED rejectedBy
    /\ UNCHANGED <<spec, execution>>

Referenced == {spec.statement.parameterNames[k] : k \in DOMAIN spec.statement.parameterNames}

ValidateSqlQuery ==
    /\ phase = "validateSqlQuery"
    /\ IF ~spec.statement.positional /\ Referenced = DOMAIN spec.bindings
       THEN phase' = "prepared" /\ UNCHANGED rejectedBy
       ELSE phase' = "rejected" /\ rejectedBy' = "validateSqlQuery"
    /\ UNCHANGED <<spec, plan, execution>>

-----------------------------------------------------------------------------
(* Execution.  The plan is frozen: nothing of one execution is left for    *)
(* the next.                                                               *)

Provided(p) == p \in DOMAIN supplied /\ supplied[p] \notin {Null, Undefined}

Execute ==
    /\ phase = "prepared"
    /\ supplied' \in Inputs
    /\ parameters' = <<>> /\ bound' = <<>> /\ values' = <<>> /\ outcome' = "none"
    /\ phase' = "validateParameters"
    /\ UNCHANGED <<spec, rejectedBy, plan>>

(* Stage 3: every problem is collected; null counts as absent.              *)
ValidateParameters ==
    LET declared == DOMAIN spec.parameters
        ofDefault == {p \in declared : ~Provided(p) /\ spec.parameters[p].default \ {Undefined} # {}}
        missing == {p \in declared \ ofDefault : ~Provided(p) /\ spec.parameters[p].required}
        illFitting == {p \in declared : Provided(p) /\ Coerce(spec.parameters[p], supplied[p]) # {}}
        unknown == DOMAIN supplied \ declared
    IN /\ phase = "validateParameters"
       /\ IF missing \cup illFitting \cup unknown # {}
          THEN phase' = "prepared" /\ outcome' = "ParameterValidationError" /\ UNCHANGED parameters
          ELSE /\ parameters' = [p \in ofDefault \cup {q \in declared : Provided(q)} |->
                    IF p \in ofDefault THEN CHOOSE v \in spec.parameters[p].default : TRUE ELSE supplied[p]]
               /\ phase' = "resolveBindings" /\ UNCHANGED outcome
       /\ UNCHANGED <<spec, rejectedBy, plan, supplied, bound, values>>

(* Mutant: a parameter without a value leaves its bindings without one.    *)
ResolveBindings_Undefined ==
    /\ phase = "resolveBindings"
    /\ bound' = [n \in DOMAIN plan |->
            IF plan[n].kind = "literal" THEN plan[n].value
            ELSE IF plan[n].parameter \in DOMAIN parameters THEN parameters[plan[n].parameter] ELSE Undefined]
    /\ phase' = "compileSql"
    /\ UNCHANGED <<spec, rejectedBy, plan, supplied, parameters, values, outcome>>

ResolveBindings ==
    /\ phase = "resolveBindings"
    /\ bound' = [n \in DOMAIN plan |->
            IF plan[n].kind = "literal" THEN plan[n].value
            ELSE IF plan[n].parameter \in DOMAIN parameters THEN parameters[plan[n].parameter] ELSE Null]
    /\ phase' = "compileSql"
    /\ UNCHANGED <<spec, rejectedBy, plan, supplied, parameters, values, outcome>>

(* Mutant: one value per name, as if the names were a set.                 *)
CompileSql_OncePerName ==
    LET names == spec.statement.parameterNames
        first == SelectSeq([k \in DOMAIN names |-> k], LAMBDA k : \A i \in 1 .. k - 1 : names[i] # names[k])
    IN /\ phase = "compileSql"
       /\ values' = [k \in DOMAIN first |-> bound[names[first[k]]]]
       /\ phase' = "prepared" /\ outcome' = "sent"
       /\ UNCHANGED <<spec, rejectedBy, plan, supplied, parameters, bound>>

(* compileSql and renderPostgres: the value of each gap, in order.          *)
CompileSql ==
    LET names == spec.statement.parameterNames
        hasValue(n) == n \in DOMAIN bound /\ bound[n] # Undefined
    IN /\ phase = "compileSql"
       /\ IF \A k \in DOMAIN names : hasValue(names[k])
          THEN values' = [k \in DOMAIN names |-> bound[names[k]]] /\ outcome' = "sent"
          ELSE outcome' = "QueryCompilationError" /\ UNCHANGED values
       /\ phase' = "prepared"
       /\ UNCHANGED <<spec, rejectedBy, plan, supplied, parameters, bound>>

Next ==
    \/ AssertValidManifest \/ CompileParameters \/ CompileBindings \/ ValidateSqlQuery
    \/ Execute \/ ValidateParameters \/ ResolveBindings \/ CompileSql

Spec == Init /\ [][Next]_vars

-----------------------------------------------------------------------------
(* Properties.                                                             *)

(* The stages agree: what `qspec validate` accepts, prepare() does not       *)
(* reject for its declarations or bindings (manifest.ts:110, 139-140,       *)
(* 176-180, 305-306), and what prepare() accepts compiles for whatever      *)
(* parameters pass stage 3, as no gap is without a value, be it null        *)
(* (compile.ts:72-77, bindings.ts:142-146).                                 *)
StagesAgree ==
    /\ phase = "rejected" => rejectedBy \in {"assertValidManifest", "validateSqlQuery"}
    /\ outcome # "QueryCompilationError"

(* A value that belongs to a declaration: of its type and within its rules. *)
Within(d, value) ==
    /\ \A n \in Numbers(value) : (\A m \in d.min : m <= n) /\ (\A m \in d.max : n <= m)
    /\ \A n \in Lengths(value) : (\A m \in d.minLength : m <= n) /\ (\A m \in d.maxLength : n <= m)
Belongs(d, value) ==
    \/ d.type = "enum" /\ value \in d.values
    \/ /\ d.type = "array" /\ value.kind = "array" /\ Within(d, value)
       /\ \A k \in DOMAIN value.items : \E t \in d.items : CheckScalar(t, value.items[k])
    \/ d.type \in ITEM_TYPES /\ CheckScalar(d.type, value) /\ Within(d, value)

(* The source is sent one value per gap, in the order of the gaps, and each *)
(* is what the binding of that name stands for: the constant written there, *)
(* the caller's value, the default where the caller gave none, or null; and *)
(* one that was declared is of the declared type and within the rules,      *)
(* whoever gave it (parameters.ts:274-330, compile.ts:79-97).               *)
SentAsDeclared ==
    outcome = "sent" =>
        LET names == spec.statement.parameterNames
        IN /\ DOMAIN values = DOMAIN names
           /\ \A k \in DOMAIN names :
                \/ plan[names[k]].kind = "literal" /\ values[k] \in spec.bindings[names[k]].literal
                \/ /\ plan[names[k]].kind = "parameter"
                   /\ LET p == plan[names[k]].parameter
                          d == spec.parameters[p]
                      IN \/ values[k] # Null /\ Provided(p) /\ values[k] = supplied[p] /\ Belongs(d, values[k])
                         \/ ~Provided(p) /\ values[k] \in d.default /\ Belongs(d, values[k])
                         \/ ~Provided(p) /\ d.default \subseteq {Undefined} /\ ~d.required /\ values[k] = Null
=============================================================================
