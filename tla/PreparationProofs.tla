-------------------------- MODULE PreparationProofs --------------------------
(***************************************************************************)
(* Theorems about the two models of what is decided before a query runs,   *)
(* with their proofs: QueryInputs, for any manifests, any values and any   *)
(* number of executions, and CommandLine, for any manifests, plugins and   *)
(* command lines.                                                          *)
(***************************************************************************)
EXTENDS QueryInputs, CommandLine, FiniteSetTheorems, WellFoundedInduction, TLAPS

-----------------------------------------------------------------------------
(* QueryInputs.                                                            *)

(* What stage 1 has found sound.                                           *)
Sound ==
    /\ \A p \in DOMAIN spec.parameters : DeclarationIssues(spec.parameters[p]) = {}
    /\ \A n \in DOMAIN spec.bindings : ~BindingIssue(spec.bindings[n])

Executing == {"prepared", "validateParameters", "resolveBindings", "compileSql"}

(* Nothing gets past stage 1 that the later stages would reject.            *)
Stages ==
    /\ phase \in {"validate", "rejected", "compileParameters", "compileBindings", "validateSqlQuery"}
                 \cup Executing
    /\ phase = "rejected" => rejectedBy \in {"assertValidManifest", "validateSqlQuery"}
    /\ phase \notin {"validate", "rejected"} => Sound
    /\ phase \notin Executing => outcome = "none"

(* The plan is the bindings of the manifest, and every gap has one.         *)
Planned ==
    /\ phase \in Executing \cup {"validateSqlQuery"} =>
          plan = [n \in DOMAIN spec.bindings |-> Compiled(spec.bindings[n])]
    /\ phase \in Executing => Referenced = DOMAIN spec.bindings

(* What validateParameters makes of the caller's values.                    *)
Value(p) ==
    IF Provided(p) THEN parameters[p] = supplied[p] /\ Coerce(spec.parameters[p], supplied[p]) = {}
    ELSE parameters[p] \in spec.parameters[p].default \ {Undefined}

Fitting ==
    /\ supplied \in Inputs
    /\ \A p \in DOMAIN spec.parameters :
          IF p \in DOMAIN parameters THEN Value(p)
          ELSE /\ ~Provided(p) /\ ~spec.parameters[p].required
               /\ spec.parameters[p].default \subseteq {Undefined}

Bound ==
    bound = [n \in DOMAIN plan |->
        IF plan[n].kind = "literal" THEN plan[n].value
        ELSE IF plan[n].parameter \in DOMAIN parameters THEN parameters[plan[n].parameter] ELSE Null]

IInv ==
    /\ spec \in Specs /\ Stages /\ Planned
    /\ phase = "validateParameters" => supplied \in Inputs
    /\ phase \in {"resolveBindings", "compileSql"} => Fitting
    /\ phase = "compileSql" => Bound
    /\ outcome # "QueryCompilationError"
    /\ SentAsDeclared

-----------------------------------------------------------------------------
(* Facts about the checks.                                                 *)

LEMMA NullIsNotUndefined == Null # Undefined
  BY DEF Null, Undefined

(* Coerce reports nothing of a value only if it belongs to the declaration. *)
LEMMA CoerceFacts ==
    ASSUME NEW d, IsDeclaration(d), NEW v \in Values,
           d.type \in PARAMETER_TYPES, SoundShape(d), Coerce(d, v) = {}
    PROVE  Belongs(d, v)
  <1>1. ASSUME ApplyScalarConstraints(d, v) = {} PROVE Within(d, v)
    <2>1. \A n \in Numbers(v) : n \in Nat
      BY QueryInputsAssumption DEF Numbers, IsValue
    <2>2. \A n \in Lengths(v) : n \in Nat
      <3>1. CASE v.kind = "string"
        BY <3>1, QueryInputsAssumption DEF Lengths, IsValue
      <3>2. CASE v.kind = "array"
        BY <3>2, QueryInputsAssumption DEF Lengths, IsValue
      <3>3. CASE v.kind \notin {"string", "array"}
        BY <3>3 DEF Lengths
      <3> QED
        BY <3>1, <3>2, <3>3
    <2>3. \A rule \in {"min", "max", "minLength", "maxLength"} : \A m \in d[rule] : m \in Nat
      BY DEF IsDeclaration, Optional
    <2>4. /\ \A m \in d.min : m \in Nat
          /\ \A m \in d.max : m \in Nat
          /\ \A m \in d.minLength : m \in Nat
          /\ \A m \in d.maxLength : m \in Nat
      BY <2>3
    <2>5. /\ \A n \in Numbers(v), m \in d.min : ~(n < m)
          /\ \A n \in Numbers(v), m \in d.max : ~(n > m)
          /\ \A n \in Lengths(v), m \in d.minLength : ~(n < m)
          /\ \A n \in Lengths(v), m \in d.maxLength : ~(n > m)
      BY <1>1 DEF ApplyScalarConstraints
    <2> QED
      BY <2>1, <2>2, <2>4, <2>5 DEF Within
  <1>2. CASE d.type = "enum"
    BY <1>2 DEF Coerce, Belongs
  <1>3. CASE d.type = "array"
    <2>1. /\ v.kind = "array"
          /\ \A t \in d.items, k \in DOMAIN v.items : CheckScalar(t, v.items[k])
          /\ ApplyScalarConstraints(d, v) = {}
      BY <1>3 DEF Coerce
    <2>2. PICK t \in d.items : TRUE
      BY <1>3 DEF SoundShape
    <2> QED
      BY <1>1, <1>3, <2>1, <2>2 DEF Belongs
  <1>4. CASE d.type \notin {"enum", "array"}
    <2>1. CheckScalar(d.type, v) /\ ApplyScalarConstraints(d, v) = {}
      BY <1>4 DEF Coerce
    <2>2. d.type \in ITEM_TYPES
      BY <1>4 DEF PARAMETER_TYPES
    <2> QED
      BY <1>1, <2>1, <2>2 DEF Belongs
  <1> QED
    BY <1>2, <1>3, <1>4

(* What stage 1 accepts of a declaration is what prepare() asks of it.       *)
LEMMA DeclarationFacts ==
    ASSUME NEW d
    PROVE  DeclarationIssues(d) = {} =>
              d.type \in PARAMETER_TYPES /\ SoundShape(d) /\ CollectDefaultIssues(d) = {}
  <1> SUFFICES ASSUME DeclarationIssues(d) = {}
               PROVE  d.type \in PARAMETER_TYPES /\ SoundShape(d) /\ CollectDefaultIssues(d) = {}
    OBVIOUS
  <1>1. d.type \in PARAMETER_TYPES
    BY DEF DeclarationIssues
  <1>2. SoundShape(d) /\ d.wellFormedRules
    BY <1>1 DEF DeclarationIssues
  <1> QED
    BY <1>1, <1>2 DEF DeclarationIssues

(* A sound binding reads a declared parameter or holds a literal.           *)
LEMMA BindingFacts ==
    ASSUME spec \in Specs, NEW n \in DOMAIN spec.bindings, ~BindingIssue(spec.bindings[n])
    PROVE  LET compiled == Compiled(spec.bindings[n])
           IN \/ compiled.kind = "parameter" /\ compiled.parameter \in DOMAIN spec.parameters
              \/ /\ compiled.kind = "literal" /\ compiled.value # Undefined
                 /\ compiled.value \in spec.bindings[n].literal
  <1> DEFINE b == spec.bindings[n]
             described == CHOOSE r \in DescribeBinding(b) : TRUE
  <1>1. IsBinding(b)
    BY QueryInputsAssumption
  <1>2. /\ described \in DescribeBinding(b)
        /\ described.kind = "parameter" => described.parameter \in DOMAIN spec.parameters
    BY DEF BindingIssue
  <1> HIDE DEF b, described
  <1>3. \/ described.kind = "parameter"
        \/ /\ described = Literal /\ b.form = "object" /\ b.parameter = {}
           /\ b.literal \ {Undefined} # {}
    <2>1. CASE b.form = "string"
      BY <1>2, <2>1 DEF DescribeBinding, Reads
    <2>2. CASE b.form = "object" /\ b.literal = {}
      BY <1>2, <2>2 DEF DescribeBinding, Reads
    <2>3. CASE b.form = "object" /\ b.literal # {} /\ b.parameter = {}
      BY <1>2, <2>3 DEF DescribeBinding, Reads
    <2>4. CASE b.form = "object" /\ b.literal # {} /\ b.parameter # {}
      <3>1. DescribeBinding(b) = {}
        BY <2>4 DEF DescribeBinding
      <3> QED
        BY <1>2, <3>1
    <2>5. CASE b.form \notin {"string", "object"}
      BY <1>2, <2>5 DEF DescribeBinding
    <2> QED
      BY <2>1, <2>2, <2>3, <2>4, <2>5
  <1>4. CASE described.kind = "parameter"
    BY <1>2, <1>4 DEF Compiled, b, described
  <1>5. CASE described.kind # "parameter"
    <2>1. /\ described = Literal /\ b.form = "object" /\ b.literal \ {Undefined} # {}
          /\ Optional(b.literal, Values)
      BY <1>1, <1>3, <1>5 DEF IsBinding
    <2>2. Compiled(b) = [kind |-> "literal", value |-> CHOOSE v \in b.literal : TRUE]
      BY <1>5 DEF Compiled, described
    <2>3. (CHOOSE v \in b.literal : TRUE) \in b.literal \ {Undefined}
      BY <2>1 DEF Optional
    <2> QED
      BY <2>2, <2>3 DEF b
  <1> QED
    BY <1>4, <1>5

-----------------------------------------------------------------------------
(* The inductive invariant.                                                *)

LEMMA InitIInv == Init => IInv
  <1> SUFFICES ASSUME Init PROVE IInv
    OBVIOUS
  <1> QED
    BY DEF Init, IInv, Stages, Planned, Executing, SentAsDeclared

LEMMA PrepareStep ==
    ASSUME IInv, AssertValidManifest \/ CompileParameters \/ CompileBindings \/ ValidateSqlQuery
    PROVE  IInv'
  <1>1. spec \in Specs /\ Stages /\ Planned
    BY DEF IInv
  <1>2. CASE AssertValidManifest
    <2> USE <1>2 DEF AssertValidManifest, execution
    <2>1. phase' # "rejected" => Sound'
      BY DEF Sound, BindingIssue
    <2>2. Stages'
      BY <1>1, <2>1 DEF Stages, Executing
    <2> QED
      BY <1>1, <2>2 DEF IInv, Planned, Executing, Stages, SentAsDeclared
  <1>3. CASE CompileParameters
    <2> USE <1>3 DEF CompileParameters, execution
    <2>1. Sound /\ Sound'
      BY <1>1 DEF Stages, Sound, BindingIssue
    <2>2. phase' = "compileBindings"
      BY <2>1, DeclarationFacts DEF Sound
    <2>3. Stages'
      BY <1>1, <2>1, <2>2 DEF Stages, Executing
    <2> QED
      BY <1>1, <2>2, <2>3 DEF IInv, Planned, Executing, Stages, SentAsDeclared
  <1>4. CASE CompileBindings
    <2> USE <1>4 DEF CompileBindings, execution
    <2>1. Sound /\ Sound'
      BY <1>1 DEF Stages, Sound, BindingIssue
    <2>2. phase' = "validateSqlQuery" /\ plan' = [n \in DOMAIN spec.bindings |-> Compiled(spec.bindings[n])]
      BY <2>1 DEF Sound
    <2>3. Stages'
      BY <1>1, <2>1, <2>2 DEF Stages, Executing
    <2>4. Planned'
      BY <2>2 DEF Planned, Executing
    <2> QED
      BY <1>1, <2>2, <2>3, <2>4 DEF IInv, Executing, Stages, SentAsDeclared
  <1>5. CASE ValidateSqlQuery
    <2> USE <1>5 DEF ValidateSqlQuery, execution
    <2>1. Sound /\ Sound'
      BY <1>1 DEF Stages, Sound, BindingIssue
    <2>2. Stages'
      BY <1>1, <2>1 DEF Stages, Executing
    <2>3. Planned'
      BY <1>1 DEF Planned, Executing, Referenced
    <2> QED
      BY <1>1, <2>2, <2>3 DEF IInv, Executing, Stages, SentAsDeclared
  <1> QED
    BY <1>2, <1>3, <1>4, <1>5

(* An execution leaves the manifest and the plan as they are.               *)
LEMMA PlanKept ==
    ASSUME IInv, UNCHANGED <<spec, plan, rejectedBy>>, phase \in Executing, phase' \in Executing
    PROVE  spec' \in Specs /\ Stages' /\ Planned' /\ Sound
  <1>1. Sound /\ Sound'
    BY DEF IInv, Stages, Sound, BindingIssue, Executing
  <1> QED
    BY <1>1 DEF IInv, Stages, Planned, Executing, Referenced

LEMMA ExecuteStep == ASSUME IInv, Execute PROVE IInv'
  <1> USE DEF Execute
  <1>1. phase \in Executing /\ phase' \in Executing
    BY DEF Executing
  <1>2. spec' \in Specs /\ Stages' /\ Planned'
    BY <1>1, PlanKept
  <1> QED
    BY <1>2 DEF IInv, SentAsDeclared

LEMMA ValidateParametersStep == ASSUME IInv, ValidateParameters PROVE IInv'
  <1> DEFINE declared == DOMAIN spec.parameters
             ofDefault == {p \in declared : ~Provided(p) /\ spec.parameters[p].default \ {Undefined} # {}}
             missing == {p \in declared \ ofDefault : ~Provided(p) /\ spec.parameters[p].required}
             illFitting == {p \in declared : Provided(p) /\ Coerce(spec.parameters[p], supplied[p]) # {}}
             unknown == DOMAIN supplied \ declared
             ok == missing \cup illFitting \cup unknown = {}
  <1>1. /\ phase = "validateParameters" /\ phase' \in Executing
        /\ UNCHANGED <<spec, rejectedBy, plan, supplied, bound, values>>
        /\ ~ok => phase' = "prepared" /\ outcome' = "ParameterValidationError"
        /\ ok => /\ parameters' = [p \in ofDefault \cup {q \in declared : Provided(q)} |->
                        IF p \in ofDefault THEN CHOOSE v \in spec.parameters[p].default : TRUE ELSE supplied[p]]
                 /\ phase' = "resolveBindings" /\ UNCHANGED outcome
    BY DEF ValidateParameters, Executing
  <1>2. spec' \in Specs /\ Stages' /\ Planned'
    BY <1>1, PlanKept DEF Executing
  <1>3. SentAsDeclared'
    BY <1>1 DEF IInv, SentAsDeclared, Provided
  <1>4. supplied \in Inputs
    BY <1>1 DEF IInv
  <1>5. CASE ~ok
    BY <1>1, <1>2, <1>3, <1>5 DEF IInv
  <1>6. CASE ok
    <2>1. ASSUME NEW p \in declared, p \in DOMAIN parameters' PROVE Value(p)'
      <3>1. CASE Provided(p)
        <4>1. parameters'[p] = supplied[p]
          BY <1>1, <1>6, <2>1, <3>1
        <4>2. Coerce(spec.parameters[p], supplied[p]) = {}
          BY <1>6, <3>1
        <4> QED
          BY <1>1, <3>1, <4>1, <4>2 DEF Value, Provided
      <3>2. CASE ~Provided(p)
        <4>1. p \in ofDefault /\ parameters'[p] = CHOOSE v \in spec.parameters[p].default : TRUE
          BY <1>1, <1>6, <2>1, <3>2
        <4>2. Optional(spec.parameters[p].default, Values)
          BY QueryInputsAssumption DEF IInv, IsDeclaration
        <4>3. parameters'[p] \in spec.parameters[p].default \ {Undefined}
          BY <4>1, <4>2 DEF Optional
        <4> QED
          BY <1>1, <3>2, <4>3 DEF Value, Provided
      <3> QED
        BY <3>1, <3>2
    <2>2. ASSUME NEW p \in declared, p \notin DOMAIN parameters'
          PROVE  /\ ~Provided(p) /\ ~spec.parameters[p].required
                 /\ spec.parameters[p].default \subseteq {Undefined}
      BY <1>1, <1>6, <2>2
    <2>3. Fitting'
      BY <1>1, <1>4, <2>1, <2>2 DEF Fitting, Provided
    <2> QED
      BY <1>1, <1>2, <1>3, <1>6, <2>3 DEF IInv
  <1> QED
    BY <1>5, <1>6

LEMMA ResolveBindingsStep == ASSUME IInv, ResolveBindings PROVE IInv'
  <1> USE DEF ResolveBindings
  <1>1. phase \in Executing /\ phase' \in Executing
    BY DEF Executing
  <1>2. spec' \in Specs /\ Stages' /\ Planned'
    BY <1>1, PlanKept
  <1>3. Fitting'
    BY DEF IInv, Fitting, Value, Provided
  <1>4. Bound'
    BY DEF Bound
  <1>5. SentAsDeclared'
    BY DEF IInv, SentAsDeclared, Provided
  <1> QED
    BY <1>2, <1>3, <1>4, <1>5 DEF IInv

(* The value a binding resolves to is what the manifest declares.           *)
Declared(n, value) ==
    \/ plan[n].kind = "literal" /\ value \in spec.bindings[n].literal
    \/ /\ plan[n].kind = "parameter"
       /\ LET p == plan[n].parameter
              d == spec.parameters[p]
          IN \/ value # Null /\ Provided(p) /\ value = supplied[p] /\ Belongs(d, value)
             \/ ~Provided(p) /\ value \in d.default /\ Belongs(d, value)
             \/ ~Provided(p) /\ d.default \subseteq {Undefined} /\ ~d.required /\ value = Null

LEMMA BoundFacts ==
    ASSUME IInv, phase = "compileSql", NEW n \in DOMAIN spec.bindings
    PROVE  n \in DOMAIN bound /\ bound[n] # Undefined /\ Declared(n, bound[n])
  <1>1. spec \in Specs /\ Stages /\ Planned /\ Fitting /\ Bound /\ Sound
    BY DEF IInv, Stages, Executing
  <1>2. plan = [m \in DOMAIN spec.bindings |-> Compiled(spec.bindings[m])]
    BY <1>1 DEF Planned, Executing
  <1>3. n \in DOMAIN plan /\ plan[n] = Compiled(spec.bindings[n]) /\ n \in DOMAIN bound
    BY <1>1, <1>2 DEF Bound
  <1>4. \/ plan[n].kind = "parameter" /\ plan[n].parameter \in DOMAIN spec.parameters
        \/ /\ plan[n].kind = "literal" /\ plan[n].value # Undefined
           /\ plan[n].value \in spec.bindings[n].literal
    BY <1>1, <1>3, BindingFacts DEF Sound
  <1>5. CASE plan[n].kind = "literal"
    BY <1>1, <1>3, <1>4, <1>5 DEF Bound, Declared
  <1>6. CASE plan[n].kind = "parameter" /\ plan[n].parameter \in DOMAIN spec.parameters
    <2> DEFINE p == plan[n].parameter
               d == spec.parameters[p]
    <2>1. IsDeclaration(d)
      BY <1>1, <1>6, QueryInputsAssumption
    <2>2. d.type \in PARAMETER_TYPES /\ SoundShape(d) /\ CollectDefaultIssues(d) = {}
      BY <1>1, <1>6, DeclarationFacts DEF Sound
    <2>3. bound[n] = IF p \in DOMAIN parameters THEN parameters[p] ELSE Null
      BY <1>1, <1>3, <1>6 DEF Bound
    <2>4. p \in DOMAIN spec.parameters
      BY <1>6
    <2>5. IF p \in DOMAIN parameters THEN Value(p)
          ELSE /\ ~Provided(p) /\ ~spec.parameters[p].required
               /\ spec.parameters[p].default \subseteq {Undefined}
      BY <1>1, <2>4 DEF Fitting
    <2> HIDE DEF p
    <2>6. CASE p \notin DOMAIN parameters
      BY <1>3, <1>6, <2>3, <2>5, <2>6, NullIsNotUndefined DEF Declared, p
    <2>7. CASE p \in DOMAIN parameters /\ Provided(p)
      <3>1. bound[n] = supplied[p] /\ Coerce(d, supplied[p]) = {}
        BY <2>3, <2>5, <2>7 DEF Value
      <3>2. supplied[p] \in Values /\ supplied[p] # Null /\ supplied[p] # Undefined
        BY <1>1, <2>7, QueryInputsAssumption DEF Provided, Fitting
      <3>3. Belongs(d, supplied[p])
        BY <2>1, <2>2, <3>1, <3>2, CoerceFacts
      <3> QED
        BY <1>3, <1>6, <2>7, <3>1, <3>2, <3>3 DEF Declared, p
    <2>8. CASE p \in DOMAIN parameters /\ ~Provided(p)
      <3>1. bound[n] \in d.default \ {Undefined}
        BY <2>3, <2>5, <2>8 DEF Value
      <3>2. bound[n] \in Values
        BY <2>1, <3>1 DEF IsDeclaration, Optional
      <3>3. Coerce(d, bound[n]) = {}
        BY <2>2, <3>1 DEF CollectDefaultIssues
      <3>4. Belongs(d, bound[n])
        BY <2>1, <2>2, <3>2, <3>3, CoerceFacts
      <3> QED
        BY <1>3, <1>6, <2>8, <3>1, <3>4 DEF Declared, p
    <2> QED
      BY <2>6, <2>7, <2>8
  <1> QED
    BY <1>4, <1>5, <1>6

LEMMA CompileSqlStep == ASSUME IInv, CompileSql PROVE IInv'
  <1> DEFINE names == spec.statement.parameterNames
  <1>1. phase = "compileSql" /\ UNCHANGED <<spec, rejectedBy, plan, supplied, parameters, bound>>
    BY DEF CompileSql
  <1>2. spec' \in Specs /\ Stages' /\ Planned'
    BY <1>1, PlanKept DEF CompileSql, Executing
  <1>3. \A k \in DOMAIN names : names[k] \in DOMAIN spec.bindings
    BY <1>1 DEF IInv, Planned, Referenced, Executing
  <1>4. \A k \in DOMAIN names : /\ names[k] \in DOMAIN bound /\ bound[names[k]] # Undefined
                                /\ Declared(names[k], bound[names[k]])
    BY <1>1, <1>3, BoundFacts
  <1>5. values' = [k \in DOMAIN names |-> bound[names[k]]] /\ outcome' = "sent" /\ phase' = "prepared"
    BY <1>4 DEF CompileSql
  <1>6. \A k \in DOMAIN names : Declared(names[k], values[k])'
    BY <1>1, <1>4, <1>5 DEF Declared, Provided
  <1>7. SentAsDeclared'
    BY <1>1, <1>5, <1>6 DEF SentAsDeclared, Declared
  <1> QED
    BY <1>2, <1>5, <1>7 DEF IInv

LEMMA StepIInv == IInv /\ [Next]_vars => IInv'
  <1> SUFFICES ASSUME IInv, [Next]_vars PROVE IInv'
    OBVIOUS
  <1>1. CASE UNCHANGED vars
    <2> USE <1>1 DEF vars
    <2>1. Stages' /\ Planned'
      BY DEF IInv, Stages, Sound, BindingIssue, Planned, Referenced
    <2>2. Fitting => Fitting'
      BY DEF Fitting, Value, Provided
    <2>3. Bound => Bound'
      BY DEF Bound
    <2>4. SentAsDeclared'
      BY DEF IInv, SentAsDeclared, Provided
    <2> QED
      BY <2>1, <2>2, <2>3, <2>4 DEF IInv
  <1> QED
    BY <1>1, PrepareStep, ExecuteStep, ValidateParametersStep, ResolveBindingsStep, CompileSqlStep DEF Next

LEMMA Invariance == Spec => []IInv
  BY InitIInv, StepIInv, PTL DEF Spec

-----------------------------------------------------------------------------
(* The theorems.                                                           *)

(* Nothing that stage 1 accepts is rejected for its declarations or         *)
(* bindings later, and no execution fails for want of a value               *)
(* (manifest.ts:110, 139-140, 176-180, compile.ts:72-77).                   *)
THEOREM LaterStagesAgree == Spec => []StagesAgree
  <1>1. IInv => StagesAgree
    BY DEF IInv, Stages, StagesAgree
  <1> QED
    BY <1>1, Invariance, PTL

(* Whatever is sent is what the manifest declares for its gap, and within   *)
(* the rules of its declaration (parameters.ts:274-330, compile.ts:79-97).  *)
THEOREM ValuesAreDeclared == Spec => []SentAsDeclared
  <1>1. IInv => SentAsDeclared
    BY DEF IInv
  <1> QED
    BY <1>1, Invariance, PTL

-----------------------------------------------------------------------------
LEMMA TypeFacts ==
    ASSUME NEW n
    PROVE  /\ Is("object", n) => ~Is("null", n) /\ n # Absent
           /\ Is("string", n) => ~Is("null", n) /\ n # Absent
           /\ Is("array", n) => ~Is("null", n) /\ n # Absent
           /\ n = Absent => ~Is("null", n)
BY DEF Is, Absent

(* What stage 1 accepts can be read, whatever document it is. *)
LEMMA AcceptedFacts ==
    ASSUME NEW n, ValidateManifestStructure(n)
    PROVE  ~ReadsWhatIsNotThere(n)
<1> DEFINE specification == Member(n, "spec")
           metadata == Member(n, "metadata")
           declared == Member(specification, "parameters")
           query == Member(specification, "query")
           dataset == Member(specification, "dataset")
           fields == Member(dataset, "fields")
           transforms == Member(specification, "transforms")
           presentation == Member(specification, "presentation")
<1>1. Is("object", metadata) /\ ValidSpec(specification)
  BY DEF ValidateManifestStructure, ValidMetadata
<1>2. /\ Is("object", specification) /\ AbsentOr("object", declared)
      /\ \A key \in Keys(declared) : ValidParameter(Member(declared, key))
      /\ query # Absent => ValidQuery(query, Keys(declared))
      /\ dataset # Absent => Is("object", fields)
      /\ \A key \in Keys(fields) : ValidField(Member(fields, key))
      /\ ValidTransforms(transforms)
      /\ presentation # Absent => NonEmptyString(Member(presentation, "type"))
  BY <1>1 DEF ValidSpec
<1> HIDE DEF specification, metadata, declared, query, dataset, fields, transforms, presentation
<1>3. \A m : Is("object", m) => ~Is("null", m) /\ m # Absent
  BY TypeFacts
<1>4. \A m, S, key : IsOneOf(Member(m, key), S) \/ NonEmptyString(Member(m, key)) =>
                        Is("object", m)
  BY DEF IsOneOf, NonEmptyString, Member, Is, Absent
<1>5. \A key \in Keys(declared) : Is("object", Member(declared, key))
  BY <1>2, <1>4 DEF ValidParameter
<1>6. \A key \in Keys(fields) : Is("object", Member(fields, key))
  BY <1>2, <1>4 DEF ValidField
<1>7. ~Is("null", query) /\ AbsentOr("object", Member(query, "bindings"))
  <2>1. CASE query = Absent
    BY <2>1 DEF Member, Is, Absent, AbsentOr
  <2>2. CASE query # Absent
    BY <2>2, <1>2, <1>3 DEF ValidQuery
  <2> QED
    BY <2>1, <2>2
<1>8. \A m : AbsentOr("object", m) => ~(m # Absent /\ Is("null", m))
  BY <1>3 DEF AbsentOr
<1>9. ~Is("null", presentation)
  <2>1. presentation = Absent \/ Is("object", presentation)
    BY <1>2, <1>4
  <2> QED
    BY <2>1, TypeFacts
<1>10. /\ AbsentOr("array", transforms)
       /\ \A i \in DOMAIN Items(transforms) : ~Is("null", transforms.array[i])
  BY <1>2, <1>3, <1>4 DEF ValidTransforms
<1> QED
  BY <1>1, <1>2, <1>3, <1>5, <1>6, <1>7, <1>8, <1>9, <1>10
     DEF ReadsWhatIsNotThere, specification, metadata, declared, query, dataset, fields, transforms, presentation
(* A manifest that the structural validator accepts has nothing that the    *)
(* later stages, or inspect, would trip over (manifest.ts:400-517).         *)
THEOREM AcceptedTheorem == Program => []AcceptedCanBeRead
<1>1. AcceptedCanBeRead
  BY AcceptedFacts DEF AcceptedCanBeRead
<1> QED
  BY <1>1, PTL

-----------------------------------------------------------------------------
(* The recursive functions of the runtime.                                 *)

(* A set of numbers that is not empty has a least one. *)
LEMMA Least ==
    ASSUME NEW S \in SUBSET Nat, S # {}
    PROVE  \E m \in S : \A k \in S : m <= k
<1> DEFINE R == OpToRel(<, Nat)
<1>1. IsWellFoundedOn(R, Nat)
  BY NatLessThanWellFounded
<1>2. \A x, y \in Nat : <<x, y>> \in R <=> x < y
  BY DEF OpToRel
<1> HIDE DEF R
<1>3. PICK m \in S : \A y \in S : ~ (<<y, m>> \in R)
  BY <1>1, WFMin
<1>4. \A k \in S : m \in Nat /\ k \in Nat /\ ~(k < m)
  BY <1>2, <1>3
<1> QED
  BY <1>4

(* Induction: what holds of 0, and of k + 1 when it holds of k.  S is the   *)
(* set of the numbers of which it holds.                                    *)
LEMMA Induction ==
    ASSUME NEW n \in Nat, NEW S, 0 \in S, \A k \in 0 .. n - 1 : k \in S => k + 1 \in S
    PROVE  \A k \in 0 .. n : k \in S
<1> SUFFICES ASSUME NEW j \in 0 .. n, j \notin S
             PROVE  FALSE
  OBVIOUS
<1> DEFINE T == {k \in 0 .. n : k \notin S}
<1>1. T \in SUBSET Nat /\ T # {}
  OBVIOUS
<1> HIDE DEF T
<1>2. PICK m \in T : \A k \in T : m <= k
  BY <1>1, Least
<1>3. m \in 0 .. n /\ m \notin S /\ m # 0
  BY <1>2 DEF T
<1>4. m - 1 \in 0 .. n - 1 /\ ~(m <= m - 1)
  BY <1>3
<1>5. m - 1 \in S
  BY <1>2, <1>3, <1>4 DEF T
<1>6. (m - 1) + 1 = m
  BY <1>3
<1> QED
  BY <1>3, <1>4, <1>5, <1>6


(* The recursive function of RegisterAll. *)
LEMMA RegisterAllUnfolds ==
    ASSUME NEW state, NEW registrations, Len(registrations) \in Nat
    PROVE  \E h : /\ h[0] = state
                  /\ \A i \in 1 .. Len(registrations) : h[i] = Register(h[i - 1], registrations[i])
                  /\ RegisterAll(state, registrations) = h[Len(registrations)]
<1> DEFINE n == Len(registrations)
           base == state
           Do(i, s) == Register(s, registrations[i])
           Does(h, k) == /\ h = [i \in 0 .. k |-> h[i]] /\ h[0] = base
                         /\ \A i \in 1 .. k : h[i] = Do(i, h[i - 1])
           D == {k \in 0 .. n : \E h : Does(h, k)}
           Body(g, i) == IF i = 0 THEN base ELSE Do(i, g[i - 1])
           solution == CHOOSE g : g = [i \in 0 .. n |-> Body(g, i)]
<1>1. RegisterAll(state, registrations) = solution[n]
  BY DEF RegisterAll
<1>2. n \in Nat
  OBVIOUS
<1> HIDE DEF n, base, Do
<1>3. 0 \in D
  <2> DEFINE h == [i \in 0 .. 0 |-> base]
  <2>1. Does(h, 0)
    OBVIOUS
  <2>2. 0 \in 0 .. n
    BY <1>2
  <2> HIDE DEF h, Does
  <2> QED
    BY <2>1, <2>2
<1>4. \A k \in 0 .. n - 1 : k \in D => k + 1 \in D
  <2> SUFFICES ASSUME NEW k \in 0 .. n - 1, k \in D
               PROVE  k + 1 \in D
    OBVIOUS
  <2>1. PICK h : Does(h, k)
    OBVIOUS
  <2> DEFINE g == [i \in 0 .. k + 1 |-> IF i = k + 1 THEN Do(k + 1, h[k]) ELSE h[i]]
  <2>2. \A i \in 0 .. k : g[i] = h[i]
    BY <1>2
  <2>3. g = [i \in 0 .. k + 1 |-> g[i]] /\ g[k + 1] = Do(k + 1, h[k])
    BY <1>2
  <2> HIDE DEF g
  <2>4. ASSUME NEW i \in 1 .. k + 1
        PROVE  g[i] = Do(i, g[i - 1])
    <3>1. CASE i = k + 1
      <4>1. g[k] = h[k] /\ (k + 1) - 1 = k
        BY <1>2, <2>2
      <4> QED
        BY <2>3, <3>1, <4>1
    <3>2. CASE i # k + 1
      <4>1. i \in 1 .. k /\ i \in 0 .. k /\ i - 1 \in 0 .. k
        BY <1>2, <3>2
      <4>2. g[i] = h[i] /\ g[i - 1] = h[i - 1]
        BY <2>2, <4>1
      <4> QED
        BY <2>1, <4>1, <4>2
    <3> QED
      BY <3>1, <3>2
  <2>5. g[0] = base /\ k + 1 \in 0 .. n
    BY <1>2, <2>1, <2>2
  <2>6. Does(g, k + 1)
    BY <2>3, <2>4, <2>5
  <2> HIDE DEF Does
  <2> QED
    BY <2>5, <2>6
<1>5. n \in D
  <2> HIDE DEF D
  <2>1. \A k \in 0 .. n : k \in D
    BY <1>2, <1>3, <1>4, Induction
  <2> QED
    BY <1>2, <2>1
<1>6. PICK h : Does(h, n)
  BY <1>5
<1>7. h = [i \in 0 .. n |-> Body(h, i)]
  <2>1. ASSUME NEW i \in 0 .. n
        PROVE  h[i] = Body(h, i)
    <3>1. CASE i = 0
      BY <1>6, <3>1
    <3>2. CASE i # 0
      <4>1. i \in 1 .. n
        BY <1>2, <3>2
      <4> QED
        BY <1>6, <3>2, <4>1
    <3> QED
      BY <3>1, <3>2
  <2> HIDE DEF Body
  <2> QED
    BY <1>6, <2>1
<1>8. solution = [i \in 0 .. n |-> Body(solution, i)]
  <2> HIDE DEF Body
  <2> QED
    BY <1>7
<1> HIDE DEF solution
<1>9. \A i \in 0 .. n : solution[i] = Body(solution, i)
  <2> HIDE DEF Body
  <2> QED
    BY <1>8
<1>10. solution[0] = base /\ \A i \in 1 .. n : solution[i] = Do(i, solution[i - 1])
  BY <1>2, <1>9
<1> QED
  BY <1>1, <1>10 DEF n, base, Do

(* The recursive function of Ready. *)
LEMMA ReadyUnfolds ==
    ASSUME NEW state, Len(state.queue) \in Nat
    PROVE  \E h : /\ h[0] = [state EXCEPT !.queue = <<>>]
                  /\ \A i \in 1 .. Len(state.queue) : h[i] = Setup(h[i - 1], state.queue[i])
                  /\ Ready(state) = h[Len(state.queue)]
<1> DEFINE n == Len(state.queue)
           base == [state EXCEPT !.queue = <<>>]
           Do(i, s) == Setup(s, state.queue[i])
           Does(h, k) == /\ h = [i \in 0 .. k |-> h[i]] /\ h[0] = base
                         /\ \A i \in 1 .. k : h[i] = Do(i, h[i - 1])
           D == {k \in 0 .. n : \E h : Does(h, k)}
           Body(g, i) == IF i = 0 THEN base ELSE Do(i, g[i - 1])
           solution == CHOOSE g : g = [i \in 0 .. n |-> Body(g, i)]
<1>1. Ready(state) = solution[n]
  BY DEF Ready
<1>2. n \in Nat
  OBVIOUS
<1> HIDE DEF n, base, Do
<1>3. 0 \in D
  <2> DEFINE h == [i \in 0 .. 0 |-> base]
  <2>1. Does(h, 0)
    OBVIOUS
  <2>2. 0 \in 0 .. n
    BY <1>2
  <2> HIDE DEF h, Does
  <2> QED
    BY <2>1, <2>2
<1>4. \A k \in 0 .. n - 1 : k \in D => k + 1 \in D
  <2> SUFFICES ASSUME NEW k \in 0 .. n - 1, k \in D
               PROVE  k + 1 \in D
    OBVIOUS
  <2>1. PICK h : Does(h, k)
    OBVIOUS
  <2> DEFINE g == [i \in 0 .. k + 1 |-> IF i = k + 1 THEN Do(k + 1, h[k]) ELSE h[i]]
  <2>2. \A i \in 0 .. k : g[i] = h[i]
    BY <1>2
  <2>3. g = [i \in 0 .. k + 1 |-> g[i]] /\ g[k + 1] = Do(k + 1, h[k])
    BY <1>2
  <2> HIDE DEF g
  <2>4. ASSUME NEW i \in 1 .. k + 1
        PROVE  g[i] = Do(i, g[i - 1])
    <3>1. CASE i = k + 1
      <4>1. g[k] = h[k] /\ (k + 1) - 1 = k
        BY <1>2, <2>2
      <4> QED
        BY <2>3, <3>1, <4>1
    <3>2. CASE i # k + 1
      <4>1. i \in 1 .. k /\ i \in 0 .. k /\ i - 1 \in 0 .. k
        BY <1>2, <3>2
      <4>2. g[i] = h[i] /\ g[i - 1] = h[i - 1]
        BY <2>2, <4>1
      <4> QED
        BY <2>1, <4>1, <4>2
    <3> QED
      BY <3>1, <3>2
  <2>5. g[0] = base /\ k + 1 \in 0 .. n
    BY <1>2, <2>1, <2>2
  <2>6. Does(g, k + 1)
    BY <2>3, <2>4, <2>5
  <2> HIDE DEF Does
  <2> QED
    BY <2>5, <2>6
<1>5. n \in D
  <2> HIDE DEF D
  <2>1. \A k \in 0 .. n : k \in D
    BY <1>2, <1>3, <1>4, Induction
  <2> QED
    BY <1>2, <2>1
<1>6. PICK h : Does(h, n)
  BY <1>5
<1>7. h = [i \in 0 .. n |-> Body(h, i)]
  <2>1. ASSUME NEW i \in 0 .. n
        PROVE  h[i] = Body(h, i)
    <3>1. CASE i = 0
      BY <1>6, <3>1
    <3>2. CASE i # 0
      <4>1. i \in 1 .. n
        BY <1>2, <3>2
      <4> QED
        BY <1>6, <3>2, <4>1
    <3> QED
      BY <3>1, <3>2
  <2> HIDE DEF Body
  <2> QED
    BY <1>6, <2>1
<1>8. solution = [i \in 0 .. n |-> Body(solution, i)]
  <2> HIDE DEF Body
  <2> QED
    BY <1>7
<1> HIDE DEF solution
<1>9. \A i \in 0 .. n : solution[i] = Body(solution, i)
  <2> HIDE DEF Body
  <2> QED
    BY <1>8
<1>10. solution[0] = base /\ \A i \in 1 .. n : solution[i] = Do(i, solution[i - 1])
  BY <1>2, <1>9
<1> QED
  BY <1>1, <1>10 DEF n, base, Do

-----------------------------------------------------------------------------
(* The runtime.                                                            *)

IsRuntime(s) ==
    /\ s = [registries |-> s.registries, queue |-> s.queue, failed |-> s.failed]
    /\ s.registries = [r \in Registries |-> s.registries[r]]
    /\ s.failed \in BOOLEAN

LEMMA RegisterKeeps ==
    ASSUME NEW s, IsRuntime(s), NEW r
    PROVE  IsRuntime(Register(s, r)) /\ Register(s, r).queue = s.queue
<1>1. CASE s.failed \/ Has(s.registries, r.registry, r.name)
  <2>1. Register(s, r) \in {s, [s EXCEPT !.failed = TRUE]}
    BY <1>1 DEF Register
  <2> QED
    BY <2>1 DEF IsRuntime
<1>2. CASE ~s.failed /\ ~Has(s.registries, r.registry, r.name)
  <2> DEFINE longer == [s.registries EXCEPT ![r.registry] = Extended(@, r.name, r.implementation)]
  <2>1. Register(s, r) = [s EXCEPT !.registries = longer]
    BY <1>2 DEF Register
  <2>2. longer = [x \in Registries |-> longer[x]]
    BY DEF IsRuntime
  <2> HIDE DEF longer
  <2> QED
    BY <2>1, <2>2 DEF IsRuntime
<1> QED
  BY <1>1, <1>2

LEMMA RegisterAllKeeps ==
    ASSUME NEW s, IsRuntime(s), NEW registrations, Len(registrations) \in Nat
    PROVE  IsRuntime(RegisterAll(s, registrations)) /\ RegisterAll(s, registrations).queue = s.queue
<1> DEFINE n == Len(registrations)
<1>1. PICK h : /\ h[0] = s
               /\ \A i \in 1 .. n : h[i] = Register(h[i - 1], registrations[i])
               /\ RegisterAll(s, registrations) = h[n]
  BY RegisterAllUnfolds
<1> DEFINE D == {k \in 0 .. n : IsRuntime(h[k]) /\ h[k].queue = s.queue}
<1>2. n \in Nat
  OBVIOUS
<1> HIDE DEF n
<1>3. 0 \in D
  BY <1>1, <1>2
<1>4. ASSUME NEW k \in 0 .. n - 1, k \in D PROVE k + 1 \in D
  <2>1. k + 1 \in 1 .. n /\ (k + 1) - 1 = k /\ k + 1 \in 0 .. n
    BY <1>2
  <2>2. h[k + 1] = Register(h[k], registrations[k + 1])
    BY <1>1, <2>1
  <2>3. IsRuntime(h[k]) /\ h[k].queue = s.queue
    BY <1>4
  <2>4. IsRuntime(h[k + 1]) /\ h[k + 1].queue = h[k].queue
    BY <2>2, <2>3, RegisterKeeps
  <2> QED
    BY <2>1, <2>3, <2>4
<1> HIDE DEF D
<1>5. \A k \in 0 .. n : k \in D
  BY <1>2, <1>3, <1>4, Induction
<1>6. n \in D
  BY <1>2, <1>5
<1> QED
  BY <1>1, <1>6 DEF D

LEMMA SetupKeeps ==
    ASSUME NEW s, IsRuntime(s), NEW plugin, Len(plugin.registers) \in Nat
    PROVE  IsRuntime(Setup(s, plugin)) /\ Setup(s, plugin).queue = s.queue
<1> DEFINE registrations == Registers(s, plugin)
           installed == RegisterAll(s, registrations)
<1>1. Len(registrations) \in Nat
  BY DEF Registers
<1> HIDE DEF registrations
<1>2. IsRuntime(installed) /\ installed.queue = s.queue
  BY <1>1, RegisterAllKeeps
<1>3. Setup(s, plugin) \in {s, [installed EXCEPT !.failed = installed.failed \/ plugin.throws]}
  BY DEF Setup, registrations
<1> HIDE DEF installed
<1> QED
  BY <1>2, <1>3 DEF IsRuntime

(* Whatever has the steps of the setups ends with what Ready returns. *)
LEMMA ReadyIs ==
    ASSUME NEW s, NEW n \in Nat, n = Len(s.queue), NEW g,
           g[0] = [s EXCEPT !.queue = <<>>],
           \A i \in 1 .. n : g[i] = Setup(g[i - 1], s.queue[i])
    PROVE  Ready(s) = g[n]
<1>1. PICK h : /\ h[0] = [s EXCEPT !.queue = <<>>]
               /\ \A i \in 1 .. n : h[i] = Setup(h[i - 1], s.queue[i])
               /\ Ready(s) = h[n]
  BY ReadyUnfolds
<1> DEFINE D == {k \in 0 .. n : h[k] = g[k]}
<1>2. 0 \in D
  BY <1>1
<1>3. ASSUME NEW k \in 0 .. n - 1, k \in D PROVE k + 1 \in D
  <2>1. k + 1 \in 1 .. n /\ (k + 1) - 1 = k /\ k + 1 \in 0 .. n
    OBVIOUS
  <2>2. h[k + 1] = Setup(h[k], s.queue[k + 1]) /\ g[k + 1] = Setup(g[k], s.queue[k + 1])
    BY <1>1, <2>1
  <2>3. h[k] = g[k]
    BY <1>3
  <2> QED
    BY <2>1, <2>2, <2>3
<1> HIDE DEF D
<1>4. \A k \in 0 .. n : k \in D
  BY <1>2, <1>3, Induction
<1>5. n \in D
  BY <1>4
<1> QED
  BY <1>1, <1>5 DEF D

LEMMA ReadyKeeps ==
    ASSUME NEW s, IsRuntime(s), NEW n \in Nat, n = Len(s.queue),
           \A i \in 1 .. n : Len(s.queue[i].registers) \in Nat
    PROVE  IsRuntime(Ready(s)) /\ Ready(s).queue = <<>>
<1>1. PICK h : /\ h[0] = [s EXCEPT !.queue = <<>>]
               /\ \A i \in 1 .. n : h[i] = Setup(h[i - 1], s.queue[i])
               /\ Ready(s) = h[n]
  BY ReadyUnfolds
<1> DEFINE D == {k \in 0 .. n : IsRuntime(h[k]) /\ h[k].queue = <<>>}
<1>2. 0 \in D
  BY <1>1 DEF IsRuntime
<1>3. ASSUME NEW k \in 0 .. n - 1, k \in D PROVE k + 1 \in D
  <2>1. k + 1 \in 1 .. n /\ (k + 1) - 1 = k /\ k + 1 \in 0 .. n
    OBVIOUS
  <2>2. h[k + 1] = Setup(h[k], s.queue[k + 1]) /\ Len(s.queue[k + 1].registers) \in Nat
    BY <1>1, <2>1
  <2>3. IsRuntime(h[k]) /\ h[k].queue = <<>>
    BY <1>3
  <2>4. IsRuntime(h[k + 1]) /\ h[k + 1].queue = h[k].queue
    BY <2>2, <2>3, SetupKeeps
  <2> QED
    BY <2>1, <2>3, <2>4
<1> HIDE DEF D
<1>4. \A k \in 0 .. n : k \in D
  BY <1>2, <1>3, Induction
<1>5. n \in D
  BY <1>4
<1> QED
  BY <1>1, <1>5 DEF D

(* One more plugin in the queue is one more setup. *)
LEMMA ReadyAppend ==
    ASSUME NEW s, IsRuntime(s), NEW P, s.queue \in Seq(P), NEW plugin \in P
    PROVE  Ready([s EXCEPT !.queue = Append(@, plugin)]) = Setup(Ready(s), plugin)
<1> DEFINE n == Len(s.queue)
           t == [s EXCEPT !.queue = Append(@, plugin)]
<1>1. n \in Nat
  OBVIOUS
<1>2. /\ t.queue = Append(s.queue, plugin)
      /\ [t EXCEPT !.queue = <<>>] = [s EXCEPT !.queue = <<>>]
  BY DEF IsRuntime
<1>3. /\ Len(t.queue) = n + 1 /\ t.queue[n + 1] = plugin
      /\ \A i \in 1 .. n : t.queue[i] = s.queue[i]
  BY <1>2
<1> HIDE DEF t, n
<1>4. PICK h : /\ h[0] = [t EXCEPT !.queue = <<>>]
               /\ \A i \in 1 .. n + 1 : h[i] = Setup(h[i - 1], t.queue[i])
               /\ Ready(t) = h[n + 1]
  <2>1. Len(t.queue) \in Nat
    BY <1>1, <1>3
  <2> QED
    BY <1>3, <2>1, ReadyUnfolds
<1>5. \A i \in 1 .. n : h[i] = Setup(h[i - 1], s.queue[i])
  BY <1>1, <1>3, <1>4
<1>6. Ready(s) = h[n]
  <2>1. n = Len(s.queue) /\ h[0] = [s EXCEPT !.queue = <<>>]
    BY <1>2, <1>4 DEF n
  <2> QED
    BY <1>1, <1>5, <2>1, ReadyIs
<1>7. h[n + 1] = Setup(h[n], plugin)
  <2>1. n + 1 \in 1 .. n + 1 /\ (n + 1) - 1 = n
    BY <1>1
  <2> QED
    BY <1>3, <1>4, <2>1
<1> QED
  BY <1>4, <1>6, <1>7 DEF t

(* A queue with nothing in it changes nothing. *)
LEMMA ReadyEmpty ==
    ASSUME NEW s, IsRuntime(s), s.queue = <<>>
    PROVE  Ready(s) = s
<1>1. PICK h : h[0] = [s EXCEPT !.queue = <<>>] /\ Ready(s) = h[0]
  <2>1. Len(s.queue) = 0 /\ 0 \in Nat
    OBVIOUS
  <2> QED
    BY <2>1, ReadyUnfolds
<1> QED
  BY <1>1 DEF IsRuntime

(* The setup of a stub. *)
LEMMA SetupStub ==
    ASSUME NEW s, IsRuntime(s), NEW name
    PROVE  /\ s.failed => Setup(s, Stub(name)) = s
           /\ ~s.failed =>
                /\ ~Setup(s, Stub(name)).failed
                /\ Setup(s, Stub(name)).registries =
                        IF Has(s.registries, "sources", name) THEN s.registries
                        ELSE [s.registries EXCEPT !["sources"] = Extended(@, name, AnyLanguage)]
<1> DEFINE stub == Stub(name)
           r == Registration("sources", name, AnyLanguage)
<1>1. CASE s.failed
  BY <1>1 DEF Setup
<1>2. CASE ~s.failed /\ Has(s.registries, "sources", name)
  <2>1. Registers(s, stub) = <<>>
    <3>1. stub.stub /\ 1 \in DOMAIN stub.registers /\ stub.registers[1] = r
      BY DEF Stub
    <3> QED
      BY <1>2, <3>1 DEF Registers, Registration
  <2>2. PICK h : h[0] = s /\ RegisterAll(s, <<>>) = h[0]
    <3>1. Len(<<>>) = 0 /\ Len(<<>>) \in Nat
      OBVIOUS
    <3> QED
      BY <3>1, RegisterAllUnfolds
  <2>3. ~stub.throws
    BY DEF Stub
  <2>4. Setup(s, stub) = [s EXCEPT !.failed = @ \/ stub.throws]
    BY <1>2, <2>1, <2>2 DEF Setup
  <2> QED
    BY <1>2, <2>3, <2>4 DEF IsRuntime
<1>3. CASE ~s.failed /\ ~Has(s.registries, "sources", name)
  <2>1. stub.registers = <<r>> /\ DOMAIN stub.registers = {1} /\ stub.registers[1] = r
    BY DEF Stub
  <2>2. r.registry = "sources" /\ r.name = name /\ r.implementation = AnyLanguage
    BY DEF Registration
  <2>3. Registers(s, stub) = <<r>>
    BY <1>3, <2>1, <2>2 DEF Registers
  <2>4. PICK h : h[0] = s /\ h[1] = Register(h[0], r) /\ RegisterAll(s, <<r>>) = h[1]
    <3>1. Len(<<r>>) = 1 /\ Len(<<r>>) \in Nat /\ <<r>>[1] = r
      OBVIOUS
    <3>2. 1 \in 1 .. 1 /\ 1 - 1 = 0
      OBVIOUS
    <3> HIDE DEF r
    <3> QED
      BY <3>1, <3>2, RegisterAllUnfolds
  <2>5. ~stub.throws
    BY DEF Stub
  <2> HIDE DEF r, stub
  <2>6. Setup(s, stub) = [Register(s, r) EXCEPT !.failed = @ \/ stub.throws]
    BY <1>3, <2>3, <2>4 DEF Setup
  <2>7. Register(s, r) =
            [s EXCEPT !.registries = [s.registries EXCEPT !["sources"] = Extended(@, name, AnyLanguage)]]
    BY <1>3, <2>2 DEF Register
  <2> QED
    BY <1>3, <2>5, <2>6, <2>7 DEF IsRuntime, stub
<1> QED
  BY <1>1, <1>2, <1>3

-----------------------------------------------------------------------------
(* The invariant.                                                          *)

(* The runtime with the plugins of the config, before and after ready().    *)
Queued ==
    LET plugins == Exported(invocation.config).array
    IN [NewRuntime EXCEPT !.queue = [i \in DOMAIN plugins |-> plugins[i].plugin]]
Configured == Ready(Queued)

(* R is the configured runtime with stubs for some sources.                 *)
IsConfigured(R, stubs) ==
    /\ IsRuntime(R) /\ R.queue = <<>> /\ R.failed = Configured.failed
    /\ ~R.failed =>
        /\ \A r \in Registries \ {"sources"} : R.registries[r] = Configured.registries[r]
        /\ DOMAIN R.registries["sources"] = DOMAIN Configured.registries["sources"] \cup stubs
        /\ \A name \in DOMAIN R.registries["sources"] :
            R.registries["sources"][name] =
                IF name \in DOMAIN Configured.registries["sources"]
                THEN Configured.registries["sources"][name] ELSE AnyLanguage

Shared == (runtime = Queued /\ stubbed = {}) \/ IsConfigured(runtime, stubbed)

OwnVerdicts == {Alone(invocation.paths[i]) : i \in DOMAIN invocation.paths}

ProgramInv ==
    /\ invocation \in Invocations
    /\ stage \in {"main", "config", "files", "done"}
    /\ verdicts \in Seq(OwnVerdicts) /\ Len(verdicts) <= Len(invocation.paths) /\ VerdictIsItsOwn
    /\ stage \in {"main", "config"} => verdicts = <<>> /\ runtime = NewRuntime /\ stubbed = {}
    /\ stage \in {"config", "files"} => invocation.flag = "none" /\ Runs(invocation)
    /\ stage = "config" => invocation.config # Absent
    /\ stage = "files" /\ invocation.config # Absent => ConfigIsSound(invocation.config) /\ Shared
    /\ ExitCodeIsTrue

LEMMA ConfiguredFacts ==
    ASSUME invocation \in Invocations, invocation.config # Absent, ConfigIsSound(invocation.config)
    PROVE  /\ IsRuntime(Queued) /\ \E P : Queued.queue \in Seq(P)
           /\ IsConfigured(Configured, {})
<1> DEFINE plugins == Exported(invocation.config).array
           queue == [i \in DOMAIN plugins |-> plugins[i].plugin]
           P == {plugins[i].plugin : i \in DOMAIN plugins}
<1>1. IsSequence(plugins) /\ \A k \in DOMAIN plugins : IsSequence(plugins[k].plugin.registers)
  BY CommandLineAssumption
<1>2. /\ Len(plugins) \in Nat /\ DOMAIN plugins = 1 .. Len(plugins)
      /\ \A k \in DOMAIN plugins : Len(plugins[k].plugin.registers) \in Nat
  BY <1>1 DEF IsSequence
<1> HIDE DEF plugins
<1>3. queue \in Seq(P)
  <2>1. queue \in [1 .. Len(plugins) -> P]
    BY <1>2
  <2> HIDE DEF queue, P
  <2> QED
    BY <1>2, <2>1
<1>4. Len(queue) = Len(plugins)
  BY <1>2
<1>5. Queued = [NewRuntime EXCEPT !.queue = queue]
  BY DEF Queued, plugins
<1>6. \A i \in 1 .. Len(queue) : Len(queue[i].registers) \in Nat
  BY <1>2, <1>4
<1> HIDE DEF queue, P
<1>7. IsRuntime(NewRuntime)
  <2> DEFINE registries == [r \in Registries |->
                IF r = "resources" THEN [name \in {"Dataset"} |-> Kind(FALSE, FALSE)] ELSE Empty]
  <2>1. NewRuntime = [registries |-> registries, queue |-> <<>>, failed |-> FALSE]
    BY DEF NewRuntime
  <2>2. registries = [r \in Registries |-> registries[r]]
    OBVIOUS
  <2> HIDE DEF registries
  <2> QED
    BY <2>1, <2>2 DEF IsRuntime
<1>8. IsRuntime(Queued) /\ Queued.queue = queue
  BY <1>5, <1>7 DEF IsRuntime
<1>9. IsRuntime(Configured) /\ Configured.queue = <<>>
  <2>1. Len(queue) \in Nat /\ Len(queue) = Len(Queued.queue)
    BY <1>2, <1>4, <1>8
  <2> QED
    BY <1>6, <1>8, <2>1, ReadyKeeps DEF Configured
<1> QED
  BY <1>3, <1>8, <1>9 DEF IsConfigured

(* The runtime that prepares a manifest: configured, with a stub for its    *)
(* source.                                                                 *)
SourceOf(manifest) == Member(Member(Member(manifest, "spec"), "query"), "source")
StubbedFor(manifest) ==
    IF SourceOf(manifest) = Absent THEN stubbed ELSE stubbed \cup {SourceOf(manifest).string}

LEMMA ReadyIsConfigured ==
    ASSUME invocation \in Invocations, invocation.config # Absent, ConfigIsSound(invocation.config),
           Shared, NEW manifest
    PROVE  IsConfigured(Ready(StubSource(runtime, manifest)), StubbedFor(manifest))
<1> DEFINE source == SourceOf(manifest)
           name == source.string
           base == Ready(runtime)
           ready == Ready(StubSource(runtime, manifest))
<1>1. /\ IsRuntime(runtime) /\ \E P : runtime.queue \in Seq(P)
      /\ IsConfigured(base, stubbed)
  <2>1. CASE runtime = Queued /\ stubbed = {}
    BY <2>1, ConfiguredFacts DEF Configured
  <2>2. CASE IsConfigured(runtime, stubbed)
    <3>1. IsRuntime(runtime) /\ runtime.queue = <<>>
      BY <2>2 DEF IsConfigured
    <3>2. <<>> \in Seq({})
      OBVIOUS
    <3>3. base = runtime
      BY <3>1, ReadyEmpty
    <3> QED
      BY <2>2, <3>1, <3>2, <3>3
  <2> QED
    BY <2>1, <2>2 DEF Shared
<1> HIDE DEF base
<1>2. CASE source = Absent \/ name \in stubbed
  <2>1. StubSource(runtime, manifest) = runtime
    BY <1>2 DEF StubSource, SourceOf
  <2>2. StubbedFor(manifest) = stubbed
    BY <1>2 DEF StubbedFor
  <2> QED
    BY <1>1, <2>1, <2>2 DEF base
<1>3. CASE ~(source = Absent \/ name \in stubbed)
  <2>1. StubSource(runtime, manifest) = [runtime EXCEPT !.queue = Append(@, Stub(name))]
    BY <1>3 DEF StubSource, SourceOf
  <2>2. StubbedFor(manifest) = stubbed \cup {name}
    BY <1>3 DEF StubbedFor
  <2>3. PICK P : runtime.queue \in Seq(P)
    BY <1>1
  <2> DEFINE Q == P \cup {Stub(name)}
  <2>4. runtime.queue \in Seq(Q) /\ Stub(name) \in Q
    BY <2>3
  <2> HIDE DEF Q
  <2>5. ready = Setup(base, Stub(name))
    BY <1>1, <2>1, <2>4, ReadyAppend DEF base
  <2> DEFINE stub == Stub(name)
             s == Setup(base, Stub(name))
  <2>6. IsRuntime(base) /\ base.queue = <<>> /\ base.failed = Configured.failed
    BY <1>1 DEF IsConfigured
  <2>7. IsRuntime(s) /\ s.queue = <<>>
    <3>1. Len(Stub(name).registers) \in Nat
      BY DEF Stub
    <3> QED
      BY <2>6, <3>1, SetupKeeps
  <2>8. /\ base.failed => s = base
        /\ ~base.failed =>
             /\ ~s.failed
             /\ s.registries = IF Has(base.registries, "sources", name) THEN base.registries
                               ELSE [base.registries EXCEPT !["sources"] = Extended(@, name, AnyLanguage)]
    BY <2>6, SetupStub
  <2> HIDE DEF s, stub, name, source
  <2>9. CASE base.failed
    <3>1. s = base
      BY <2>8, <2>9
    <3> QED
      BY <1>1, <2>2, <2>5, <2>9, <3>1 DEF IsConfigured, s
  <2>10. CASE ~base.failed
    <3>1. s.failed = Configured.failed
      BY <2>6, <2>7, <2>8, <2>10 DEF IsRuntime
    <3>2. /\ \A r \in Registries \ {"sources"} : base.registries[r] = Configured.registries[r]
          /\ DOMAIN base.registries["sources"] = DOMAIN Configured.registries["sources"] \cup stubbed
          /\ \A x \in DOMAIN base.registries["sources"] :
               base.registries["sources"][x] =
                   IF x \in DOMAIN Configured.registries["sources"]
                   THEN Configured.registries["sources"][x] ELSE AnyLanguage
      BY <1>1, <2>10 DEF IsConfigured
    <3>3. /\ \A r \in Registries \ {"sources"} : s.registries[r] = base.registries[r]
          /\ DOMAIN s.registries["sources"] = DOMAIN base.registries["sources"] \cup {name}
          /\ \A x \in DOMAIN s.registries["sources"] :
               s.registries["sources"][x] =
                   IF x \in DOMAIN base.registries["sources"]
                   THEN base.registries["sources"][x] ELSE AnyLanguage
      <4>1. CASE Has(base.registries, "sources", name)
        BY <2>8, <2>10, <4>1 DEF Has
      <4>2. CASE ~Has(base.registries, "sources", name)
        <5> DEFINE sources == Extended(base.registries["sources"], name, AnyLanguage)
        <5>1. base.registries = [r \in Registries |-> base.registries[r]] /\ "sources" \in Registries
          BY <2>6 DEF IsRuntime, Registries
        <5>2. s.registries = [base.registries EXCEPT !["sources"] = sources]
          BY <2>8, <2>10, <4>2
        <5>3. /\ DOMAIN sources = DOMAIN base.registries["sources"] \cup {name}
              /\ \A x \in DOMAIN sources :
                    sources[x] = IF x = name THEN AnyLanguage ELSE base.registries["sources"][x]
          BY DEF Extended
        <5>4. name \notin DOMAIN base.registries["sources"]
          BY <4>2 DEF Has
        <5> HIDE DEF sources
        <5>5. /\ s.registries["sources"] = sources
              /\ \A r \in Registries \ {"sources"} : s.registries[r] = base.registries[r]
          BY <5>1, <5>2
        <5> QED
          BY <5>3, <5>4, <5>5
      <4> QED
        BY <4>1, <4>2
    <3>4. /\ \A r \in Registries \ {"sources"} : s.registries[r] = Configured.registries[r]
          /\ DOMAIN s.registries["sources"] =
                DOMAIN Configured.registries["sources"] \cup (stubbed \cup {name})
          /\ \A x \in DOMAIN s.registries["sources"] :
               s.registries["sources"][x] =
                   IF x \in DOMAIN Configured.registries["sources"]
                   THEN Configured.registries["sources"][x] ELSE AnyLanguage
      BY <3>2, <3>3
    <3>5. IsConfigured(s, stubbed \cup {name})
      BY <2>7, <3>1, <3>4 DEF IsConfigured
    <3> QED
      BY <2>2, <2>5, <3>5 DEF s
  <2> QED
    BY <2>9, <2>10
<1> QED
  BY <1>2, <1>3

(* Of the sources, only the one the manifest names matters to its checks. *)
LEMMA SameChecks ==
    ASSUME NEW manifest, NEW R, NEW A,
           \A r \in Registries \ {"sources"} : R[r] = A[r],
           SourceOf(manifest) # Absent =>
               /\ SourceOf(manifest).string \in DOMAIN R["sources"]
               /\ SourceOf(manifest).string \in DOMAIN A["sources"]
               /\ R["sources"][SourceOf(manifest).string] = A["sources"][SourceOf(manifest).string]
    PROVE  Checks(manifest, R) = Checks(manifest, A)
<1>1. /\ R["resources"] = A["resources"] /\ R["queryLanguages"] = A["queryLanguages"]
      /\ R["transforms"] = A["transforms"] /\ R["presentations"] = A["presentations"]
  BY DEF Registries
<1> DEFINE source == SourceOf(manifest)
<1> DEFINE specification == Member(manifest, "spec")
           query == Member(specification, "query")
           presentation == Member(specification, "presentation")
           transforms == Items(Member(specification, "transforms"))
           kind(X) == IF Known(X, "resources", Member(manifest, "kind"))
                      THEN X.resources[Member(manifest, "kind").string] ELSE Kind(FALSE, FALSE)
           languages(X) == IF Known(X, "sources", Member(query, "source"))
                           THEN X.sources[Member(query, "source").string] ELSE AnyLanguage
           c1(X) == ~Known(X, "resources", Member(manifest, "kind"))
           c2(X) == query = Absent /\ kind(X).requiresQuery
           c3(X) == query # Absent /\ ~Known(X, "queryLanguages", Member(query, "language"))
           c4(X) == query # Absent /\ ~Known(X, "sources", Member(query, "source"))
           c5(X) == query # Absent /\ languages(X) # AnyLanguage /\ ~IsOneOf(Member(query, "language"), languages(X))
           c6(X) == query \in Rejected
           c7(X) == Len(transforms) > MaxTransforms
           c8(X) == \E i \in DOMAIN transforms :
                        ~Known(X, "transforms", Member(transforms[i], "type")) \/ transforms[i] \in Rejected
           c9(X) == presentation = Absent /\ kind(X).requiresPresentation
           c10(X) == presentation # Absent /\ ~Known(X, "presentations", Member(presentation, "type"))
           c11(X) == presentation \in Rejected
           c12(X) == specification \in Rejected
           listed(X) ==
               <<[fails |-> c1(X), error |-> "UnknownResourceKind"],
                 [fails |-> c2(X), error |-> "Manifest"],
                 [fails |-> c3(X), error |-> "UnknownQueryLanguage"],
                 [fails |-> c4(X), error |-> "UnknownDataSource"],
                 [fails |-> c5(X), error |-> "Manifest"],
                 [fails |-> c6(X), error |-> "Manifest"],
                 [fails |-> c7(X), error |-> "Limit"],
                 [fails |-> c8(X), error |-> "Manifest"],
                 [fails |-> c9(X), error |-> "Manifest"],
                 [fails |-> c10(X), error |-> "Manifest"],
                 [fails |-> c11(X), error |-> "Presentation"],
                 [fails |-> c12(X), error |-> "Manifest"]>>
<1>2. Checks(manifest, R) = listed(R) /\ Checks(manifest, A) = listed(A)
  BY DEF Checks
<1>3. \A x : /\ Known(R, "resources", x) = Known(A, "resources", x)
             /\ Known(R, "queryLanguages", x) = Known(A, "queryLanguages", x)
             /\ Known(R, "transforms", x) = Known(A, "transforms", x)
             /\ Known(R, "presentations", x) = Known(A, "presentations", x)
  BY <1>1 DEF Known, Has
<1>4. Known(R, "sources", source) = Known(A, "sources", source)
  BY DEF Known, Has, Is, Absent
<1>5. kind(R) = kind(A)
  BY <1>1, <1>3
<1>6. source = Member(query, "source")
  BY DEF SourceOf
<1>7. languages(R) = languages(A)
  BY <1>4, <1>6 DEF Known, Is, Absent
<1> HIDE DEF kind, languages
<1>8. /\ c1(R) = c1(A) /\ c2(R) = c2(A) /\ c3(R) = c3(A) /\ c4(R) = c4(A) /\ c5(R) = c5(A)
      /\ c6(R) = c6(A) /\ c7(R) = c7(A) /\ c8(R) = c8(A) /\ c9(R) = c9(A) /\ c10(R) = c10(A)
      /\ c11(R) = c11(A) /\ c12(R) = c12(A)
  BY <1>3, <1>4, <1>5, <1>6, <1>7
<1> HIDE DEF c1, c2, c3, c4, c5, c6, c7, c8, c9, c10, c11, c12
<1>9. listed(R) = listed(A)
  BY <1>8
<1> QED
  BY <1>2, <1>9

-----------------------------------------------------------------------------
(* The steps.                                                              *)

(* The verdict of prepare() is the one the file would get alone. *)
LEMMA PreparedVerdict ==
    ASSUME invocation \in Invocations, invocation.config # Absent, ConfigIsSound(invocation.config),
           NEW file, StructuralVerdict(file) = "valid", NEW R, NEW stubs,
           IsConfigured(R, stubs), SourceOf(file.document) # Absent => SourceOf(file.document).string \in stubs
    PROVE  Alone(file) = IF R.failed THEN "Setup"
                         ELSE IF Prepared(file.document, R.registries) THEN "valid"
                         ELSE PrepareError(file.document, R.registries)
<1> DEFINE manifest == file.document
           source == SourceOf(manifest)
           name == source.string
           C == Configured
           A == IF source = Absent \/ Has(C.registries, "sources", name) THEN C.registries
                ELSE Register(C, Registration("sources", name, AnyLanguage)).registries
<1>1. Alone(file) = IF C.failed THEN "Setup"
                    ELSE IF Prepared(manifest, A) THEN "valid" ELSE PrepareError(manifest, A)
  BY DEF Alone, Configured, Queued, SourceOf
<1>2. R.failed = C.failed /\ IsRuntime(C)
  BY ConfiguredFacts DEF IsConfigured
<1>3. CASE R.failed
  BY <1>1, <1>2, <1>3
<1>4. CASE ~R.failed
  <2>1. /\ \A r \in Registries \ {"sources"} : R.registries[r] = C.registries[r]
        /\ DOMAIN R.registries["sources"] = DOMAIN C.registries["sources"] \cup stubs
        /\ \A x \in DOMAIN R.registries["sources"] :
            R.registries["sources"][x] =
                IF x \in DOMAIN C.registries["sources"] THEN C.registries["sources"][x] ELSE AnyLanguage
    BY <1>4 DEF IsConfigured
  <2>2. /\ \A r \in Registries \ {"sources"} : A[r] = C.registries[r]
        /\ source # Absent =>
            /\ name \in DOMAIN A["sources"]
            /\ A["sources"][name] = IF name \in DOMAIN C.registries["sources"]
                                    THEN C.registries["sources"][name] ELSE AnyLanguage
    <3> HIDE DEF C, source, name
    <3>1. CASE source = Absent \/ Has(C.registries, "sources", name)
      BY <3>1 DEF Has
    <3>2. CASE ~(source = Absent \/ Has(C.registries, "sources", name))
      <4> DEFINE r == Registration("sources", name, AnyLanguage)
                 sources == Extended(C.registries["sources"], name, AnyLanguage)
      <4>1. r.registry = "sources" /\ r.name = name /\ r.implementation = AnyLanguage
        BY DEF Registration
      <4>2. A = Register(C, r).registries
        BY <3>2
      <4>3. ~C.failed /\ name \notin DOMAIN C.registries["sources"]
        BY <1>2, <1>4, <3>2 DEF Has
      <4> HIDE DEF r, A
      <4>4. Register(C, r) = [C EXCEPT !.registries = [C.registries EXCEPT !["sources"] = sources]]
        BY <3>2, <4>1, <4>3 DEF Register
      <4>5. name \in DOMAIN sources /\ sources[name] = AnyLanguage
        BY DEF Extended
      <4> HIDE DEF sources
      <4>6. A = [C.registries EXCEPT !["sources"] = sources]
        BY <1>2, <4>2, <4>4 DEF IsRuntime
      <4>7. A["sources"] = sources /\ \A x \in Registries \ {"sources"} : A[x] = C.registries[x]
        BY <1>2, <4>6 DEF IsRuntime, Registries
      <4> QED
        BY <4>3, <4>5, <4>7
    <3> QED
      BY <3>1, <3>2
  <2> HIDE DEF A, C
  <2>3. \A r \in Registries \ {"sources"} : R.registries[r] = A[r]
    BY <2>1, <2>2
  <2>4. source # Absent =>
          /\ name \in DOMAIN R.registries["sources"] /\ name \in DOMAIN A["sources"]
          /\ R.registries["sources"][name] = A["sources"][name]
    BY <2>1, <2>2
  <2>5. Checks(manifest, R.registries) = Checks(manifest, A)
    <3> HIDE DEF manifest
    <3> QED
      BY <2>3, <2>4, SameChecks
  <2>6. /\ Prepared(manifest, R.registries) <=> Prepared(manifest, A)
        /\ PrepareError(manifest, R.registries) = PrepareError(manifest, A)
    BY <2>5 DEF Prepared, PrepareError
  <2> QED
    BY <1>1, <1>2, <1>4, <2>6
<1> QED
  BY <1>3, <1>4

(* What makes the exit code 0. *)
AllIsWell ==
    \/ invocation.flag \in {"help", "version"}
    \/ /\ invocation.flag = "none" /\ Runs(invocation)
       /\ invocation.config # Absent => ConfigIsSound(invocation.config)
       /\ \A i \in DOMAIN invocation.paths : Alone(invocation.paths[i]) = "valid"

(* The properties speak of the next state in terms of this one. *)
LEMMA NextState ==
    ASSUME invocation' = invocation
    PROVE  /\ VerdictIsItsOwn' <=> \A i \in DOMAIN verdicts' : verdicts'[i] = Alone(invocation.paths[i])
           /\ OwnVerdicts' = OwnVerdicts
           /\ ExitCodeIsTrue' <=>
                (stage' = "done" => (exit' = 0 <=> AllIsWell))
<1>1. \A file : Alone(file)' = Alone(file)
  BY DEF Alone, StructuralVerdict
<1> QED
  BY <1>1 DEF VerdictIsItsOwn, OwnVerdicts, ExitCodeIsTrue, AllIsWell, Runs

(* One more verdict on the next file. *)
LEMMA AppendVerdict ==
    ASSUME ProgramInv, NEW command, Looking(command), invocation' = invocation,
           verdicts' = Append(verdicts, Alone(File))
    PROVE  /\ verdicts' \in Seq(OwnVerdicts') /\ Len(verdicts') <= Len(invocation.paths)
           /\ VerdictIsItsOwn'
<1>1. /\ verdicts \in Seq(OwnVerdicts) /\ Len(verdicts) < Len(invocation.paths)
      /\ \A i \in DOMAIN verdicts : verdicts[i] = Alone(invocation.paths[i])
  BY DEF ProgramInv, VerdictIsItsOwn, Looking
<1>2. Len(invocation.paths) \in Nat /\ DOMAIN invocation.paths = 1 .. Len(invocation.paths)
  BY CommandLineAssumption DEF ProgramInv, IsSequence
<1> DEFINE k == Len(verdicts) + 1
<1>3. k \in DOMAIN invocation.paths /\ File = invocation.paths[k]
  BY <1>1, <1>2 DEF File
<1>4. Alone(File) \in OwnVerdicts
  BY <1>3 DEF OwnVerdicts
<1> DEFINE own == OwnVerdicts
           verdict == Alone(File)
<1>5. verdict = Alone(invocation.paths[k])
  BY <1>3
<1> HIDE DEF own, verdict
<1>6. verdicts \in Seq(own) /\ verdict \in own /\ verdicts' = Append(verdicts, verdict)
  BY <1>1, <1>4 DEF own, verdict
<1>7. /\ verdicts' \in Seq(own) /\ Len(verdicts') = k /\ DOMAIN verdicts' = 1 .. k
      /\ verdicts'[k] = verdict /\ \A i \in 1 .. k - 1 : verdicts'[i] = verdicts[i]
      /\ DOMAIN verdicts = 1 .. k - 1 /\ k \in Nat
  BY <1>6
<1>8. k <= Len(invocation.paths)
  BY <1>1, <1>2, <1>7
<1>9. \A i \in DOMAIN verdicts' : verdicts'[i] = Alone(invocation.paths[i])
  <2> SUFFICES ASSUME NEW i \in 1 .. k PROVE verdicts'[i] = Alone(invocation.paths[i])
    BY <1>7
  <2>1. CASE i = k
    BY <1>5, <1>7, <2>1
  <2>2. CASE i # k
    BY <1>1, <1>7, <2>2
  <2> QED
    BY <2>1, <2>2
<1> QED
  BY <1>7, <1>8, <1>9, NextState DEF own

(* A file that is decided without prepare() has the verdict of its structure.*)
LEMMA StructuralOnly ==
    ASSUME NEW file, StructuralVerdict(file) # "valid" \/ invocation.config = Absent
    PROVE  Alone(file) = StructuralVerdict(file)
BY DEF Alone

LEMMA StartProgramInv == Start => ProgramInv
<1> SUFFICES ASSUME Start PROVE ProgramInv
  OBVIOUS
<1>1. invocation \in Invocations /\ stage = "main" /\ runtime = NewRuntime /\ stubbed = {} /\ verdicts = <<>>
  BY DEF Start
<1>2. Len(invocation.paths) \in Nat
  BY <1>1, CommandLineAssumption DEF IsSequence
<1> DEFINE own == OwnVerdicts
<1>3. <<>> \in Seq(own) /\ Len(<<>>) = 0 /\ DOMAIN <<>> = {}
  OBVIOUS
<1> QED
  BY <1>1, <1>2, <1>3 DEF ProgramInv, VerdictIsItsOwn, ExitCodeIsTrue

LEMMA MainStep == ASSUME ProgramInv, Main PROVE ProgramInv'
<1>1. /\ stage = "main" /\ UNCHANGED <<invocation, runtime, stubbed, verdicts, entries>>
      /\ invocation \in Invocations /\ verdicts = <<>> /\ runtime = NewRuntime /\ stubbed = {}
  BY DEF Main, ProgramInv
<1>2. \/ invocation.flag = "unknown" /\ Exit(2)
      \/ invocation.flag \in {"help", "version"} /\ Exit(0)
      \/ invocation.flag = "none" /\ ~Runs(invocation) /\ Exit(2)
      \/ /\ invocation.flag = "none" /\ Runs(invocation)
         /\ stage' = IF invocation.config = Absent THEN "files" ELSE "config"
  <2>1. invocation.flag \in {"none", "help", "version", "unknown"}
    BY <1>1, CommandLineAssumption
  <2> QED
    BY <2>1 DEF Main
<1>3. stage' \in {"config", "files", "done"}
  BY <1>2 DEF Exit
<1>4. ExitCodeIsTrue'
  <2>1. stage' = "done" => (exit' = 0 <=> AllIsWell)
    BY <1>2 DEF Exit, AllIsWell
  <2> QED
    BY <1>1, <2>1, NextState
<1>5. verdicts' \in Seq(OwnVerdicts') /\ Len(verdicts') <= Len(invocation'.paths) /\ VerdictIsItsOwn'
  BY <1>1, NextState DEF ProgramInv, VerdictIsItsOwn
<1>6. stage' \in {"config", "files"} => invocation.flag = "none" /\ Runs(invocation)
  BY <1>2 DEF Exit
<1>7. stage' = "config" => invocation.config # Absent
  BY <1>2 DEF Exit
<1>8. stage' = "files" => invocation.config = Absent
  BY <1>2 DEF Exit
<1>9. Runs(invocation)' <=> Runs(invocation)
  BY <1>1 DEF Runs
<1> QED
  BY <1>1, <1>3, <1>4, <1>5, <1>6, <1>7, <1>8, <1>9 DEF ProgramInv

LEMMA LoadConfigStep == ASSUME ProgramInv, LoadConfig PROVE ProgramInv'
<1>1. /\ stage = "config" /\ UNCHANGED <<invocation, stubbed, verdicts, entries>>
      /\ invocation \in Invocations /\ verdicts = <<>> /\ runtime = NewRuntime /\ stubbed = {}
      /\ invocation.flag = "none" /\ Runs(invocation) /\ invocation.config # Absent
  BY DEF LoadConfig, ProgramInv
<1>2. verdicts' \in Seq(OwnVerdicts') /\ Len(verdicts') <= Len(invocation'.paths) /\ VerdictIsItsOwn'
  BY <1>1, NextState DEF ProgramInv, VerdictIsItsOwn
<1>3. Runs(invocation)' <=> Runs(invocation)
  BY <1>1 DEF Runs
<1>4. CASE ConfigIsSound(invocation.config)
  <2>1. stage' = "files" /\ runtime' = Queued
    BY <1>1, <1>4 DEF LoadConfig, Queued
  <2>2. Queued' = Queued /\ stubbed' = {}
    BY <1>1 DEF Queued
  <2>3. Shared'
    BY <2>1, <2>2 DEF Shared
  <2>4. ExitCodeIsTrue'
    BY <2>1 DEF ExitCodeIsTrue
  <2>5. ConfigIsSound(invocation.config)'
    BY <1>1, <1>4
  <2> QED
    BY <1>1, <1>2, <1>3, <2>1, <2>3, <2>4, <2>5 DEF ProgramInv
<1>5. CASE ~ConfigIsSound(invocation.config)
  <2>1. stage' = "done" /\ exit' = 1
    BY <1>5 DEF LoadConfig, Exit
  <2>2. ExitCodeIsTrue'
    <3>1. exit' = 0 <=> AllIsWell
      BY <1>1, <1>5, <2>1 DEF AllIsWell
    <3> QED
      BY <1>1, <3>1, NextState
  <2> QED
    BY <1>1, <1>2, <2>1, <2>2 DEF ProgramInv
<1> QED
  BY <1>4, <1>5

(* What looking at a file without prepare() leaves alone. *)
LEMMA LookedAt ==
    ASSUME ProgramInv, NEW command, Looking(command), verdicts' = Append(verdicts, Alone(File)),
           UNCHANGED <<invocation, stage>>,
           invocation.config # Absent => Shared'
    PROVE  ProgramInv'
<1>1. /\ stage = "files" /\ invocation \in Invocations
      /\ invocation.flag = "none" /\ Runs(invocation)
      /\ invocation.config # Absent => ConfigIsSound(invocation.config)
  BY DEF Looking, ProgramInv
<1>2. verdicts' \in Seq(OwnVerdicts') /\ Len(verdicts') <= Len(invocation.paths) /\ VerdictIsItsOwn'
  BY AppendVerdict
<1>3. Runs(invocation)' <=> Runs(invocation)
  BY DEF Runs
<1>4. ExitCodeIsTrue'
  BY <1>1 DEF ExitCodeIsTrue
<1> QED
  BY <1>1, <1>2, <1>3, <1>4 DEF ProgramInv

LEMMA SharedStays == ASSUME UNCHANGED <<invocation, runtime, stubbed>> PROVE Shared' <=> Shared
<1>1. Queued' = Queued
  BY DEF Queued
<1>2. Configured' = Configured
  BY <1>1 DEF Configured
<1> QED
  BY <1>1, <1>2 DEF Shared, IsConfigured

LEMMA ValidateFileStep == ASSUME ProgramInv, ValidateFile PROVE ProgramInv'
<1>1. /\ Looking("validate") /\ (StructuralVerdict(File) # "valid" \/ invocation.config = Absent)
      /\ verdicts' = Append(verdicts, StructuralVerdict(File))
      /\ UNCHANGED <<invocation, stage, runtime, stubbed>>
  BY DEF ValidateFile
<1>2. verdicts' = Append(verdicts, Alone(File))
  BY <1>1, StructuralOnly
<1>3. invocation.config # Absent => Shared'
  BY <1>1, SharedStays DEF ProgramInv, Looking
<1> QED
  BY <1>1, <1>2, <1>3, LookedAt

LEMMA InspectFileStep == ASSUME ProgramInv, InspectFile PROVE ProgramInv'
<1>1. /\ Looking("inspect") /\ verdicts' = Append(verdicts, StructuralVerdict(File))
      /\ UNCHANGED <<invocation, stage, runtime, stubbed>>
  BY DEF InspectFile
<1>2. invocation.config = Absent
  BY <1>1 DEF ProgramInv, Looking, Runs
<1>3. verdicts' = Append(verdicts, Alone(File))
  BY <1>1, <1>2, StructuralOnly
<1> QED
  BY <1>1, <1>2, <1>3, LookedAt

LEMMA PrepareFileStep == ASSUME ProgramInv, PrepareFile PROVE ProgramInv'
<1> DEFINE manifest == File.document
           ready == Ready(StubSource(runtime, manifest))
           stubs == StubbedFor(manifest)
<1>1. /\ Looking("validate") /\ invocation.config # Absent /\ StructuralVerdict(File) = "valid"
      /\ UNCHANGED <<invocation, stage>>
      /\ stubbed' = stubs /\ runtime' = ready
      /\ verdicts' = Append(verdicts, IF ready.failed THEN "Setup"
                                       ELSE IF Prepared(manifest, ready.registries) THEN "valid"
                                       ELSE PrepareError(manifest, ready.registries))
  BY DEF PrepareFile, StubbedFor, SourceOf
<1>2. /\ invocation \in Invocations /\ ConfigIsSound(invocation.config) /\ Shared
  BY <1>1 DEF ProgramInv, Looking
<1>3. IsConfigured(ready, stubs)
  BY <1>1, <1>2, ReadyIsConfigured
<1>4. SourceOf(manifest) # Absent => SourceOf(manifest).string \in stubs
  BY DEF StubbedFor
<1> HIDE DEF ready, stubs
<1>5. verdicts' = Append(verdicts, Alone(File))
  BY <1>1, <1>2, <1>3, <1>4, PreparedVerdict
<1>6. Shared'
  <2>1. Configured' = Configured
    BY <1>1 DEF Configured, Queued
  <2> QED
    BY <1>1, <1>3, <2>1 DEF Shared, IsConfigured
<1> QED
  BY <1>1, <1>5, <1>6, LookedAt

LEMMA FinishStep == ASSUME ProgramInv, Finish PROVE ProgramInv'
<1>1. /\ stage = "files" /\ Len(verdicts) = Len(invocation.paths) /\ stage' = "done"
      /\ exit' = IF Failed THEN 1 ELSE 0
      /\ UNCHANGED <<invocation, runtime, stubbed, verdicts, entries>>
      /\ invocation \in Invocations /\ invocation.flag = "none" /\ Runs(invocation)
      /\ invocation.config # Absent => ConfigIsSound(invocation.config)
  BY DEF Finish, Exit, ProgramInv
<1>2. verdicts' \in Seq(OwnVerdicts') /\ Len(verdicts') <= Len(invocation'.paths) /\ VerdictIsItsOwn'
  BY <1>1, NextState DEF ProgramInv, VerdictIsItsOwn
<1>3. DOMAIN verdicts = DOMAIN invocation.paths
  BY <1>1, CommandLineAssumption DEF ProgramInv, IsSequence
<1>4. Failed <=> \E i \in DOMAIN invocation.paths : Alone(invocation.paths[i]) # "valid"
  BY <1>3 DEF Failed, ProgramInv, VerdictIsItsOwn
<1>5. ExitCodeIsTrue'
  <2>1. exit' = 0 <=> AllIsWell
    BY <1>1, <1>4 DEF AllIsWell
  <2> QED
    BY <1>1, <2>1, NextState
<1> QED
  BY <1>1, <1>2, <1>5 DEF ProgramInv

LEMMA StepProgramInv == ProgramInv /\ [Step]_programVars => ProgramInv'
<1> SUFFICES ASSUME ProgramInv, [Step]_programVars PROVE ProgramInv'
  OBVIOUS
<1>1. CASE UNCHANGED programVars
  <2>1. UNCHANGED <<invocation, stage, runtime, stubbed, verdicts, entries, exit>>
    BY <1>1 DEF programVars
  <2>2. Runs(invocation)' <=> Runs(invocation)
    BY <2>1 DEF Runs
  <2>3. verdicts' \in Seq(OwnVerdicts') /\ VerdictIsItsOwn'
    BY <2>1, NextState DEF ProgramInv, VerdictIsItsOwn
  <2>4. ExitCodeIsTrue'
    <3>1. stage = "done" => (exit = 0 <=> AllIsWell)
      BY DEF ProgramInv, ExitCodeIsTrue, AllIsWell
    <3> QED
      BY <2>1, <3>1, NextState
  <2> QED
    BY <2>1, <2>2, <2>3, <2>4, SharedStays DEF ProgramInv
<1> QED
  BY <1>1, MainStep, LoadConfigStep, ValidateFileStep, PrepareFileStep, InspectFileStep, FinishStep DEF Step

LEMMA ProgramInvariant == Program => []ProgramInv
BY StartProgramInv, StepProgramInv, PTL DEF Program

(* Every file gets the verdict it would get alone: neither the stubs nor the *)
(* plugins set up for the files before it change what is said of it         *)
(* (validate.ts:132-153).                                                  *)
THEOREM VerdictTheorem == Program => []VerdictIsItsOwn
<1>1. ProgramInv => VerdictIsItsOwn
  BY DEF ProgramInv
<1> QED
  BY <1>1, ProgramInvariant, PTL

(* The program exits with 0 when every file is valid or help was asked for,  *)
(* and only then (validate.ts:183-260, bin.ts:55-114).                      *)
THEOREM ExitCodeTheorem == Program => []ExitCodeIsTrue
<1>1. ProgramInv => ExitCodeIsTrue
  BY DEF ProgramInv
<1> QED
  BY <1>1, ProgramInvariant, PTL

-----------------------------------------------------------------------------
(* The JSON Schema.                                                        *)

(* What makes of Accepts the function Ajv computes: it calls itself on the   *)
(* members of the schema, which are smaller.                                *)
SchemaSemantics == \A schema, n : Accepts(schema, n) <=> Keywords(Accepts, schema, n)

LEMMA MemberFacts ==
    ASSUME NEW n, NEW key
    PROVE  /\ key \in Keys(n) <=> Member(n, key) # Absent
           /\ key \in Keys(n) => n.object[key] = Member(n, key)
           /\ Member(n, key) # Absent => Is("object", n)
           /\ Member(Absent, key) = Absent
BY DEF Keys, Member, Is, Absent

(* What the schemas of each shape accept. *)
LEMMA TypeMeans ==
    ASSUME SchemaSemantics, NEW type, NEW s, s = [type |-> type], NEW n
    PROVE  Accepts(s, n) <=> HasType(n, type)
<1>1. DOMAIN s = {"type"} /\ s.type = type
  OBVIOUS
<1>2. Accepts(s, n) <=> Keywords(Accepts, s, n)
  BY DEF SchemaSemantics
<1> QED
  BY <1>1, <1>2 DEF Keywords

LEMMA EnumMeans ==
    ASSUME SchemaSemantics, NEW strings, NEW s, s = [enum |-> strings], NEW n
    PROVE  Accepts(s, n) <=> IsOneOf(n, strings)
<1>1. DOMAIN s = {"enum"} /\ s.enum = strings
  OBVIOUS
<1>2. Accepts(s, n) <=> Keywords(Accepts, s, n)
  BY DEF SchemaSemantics
<1> QED
  BY <1>1, <1>2 DEF Keywords

LEMMA NamedMeans ==
    ASSUME SchemaSemantics, NEW n
    PROVE  Accepts(Named, n) <=> NonEmptyString(n)
<1>1. DOMAIN Named = {"type", "minLength"} /\ Named.type = "string"
  BY DEF Named
<1>2. Accepts(Named, n) <=> Keywords(Accepts, Named, n)
  BY DEF SchemaSemantics
<1>3. HasType(n, "string") <=> Is("string", n)
  BY DEF HasType
<1> QED
  BY <1>1, <1>2, <1>3 DEF Keywords, NonEmptyString

LEMMA PatternMeans ==
    ASSUME SchemaSemantics, NEW strings, NEW s, s = [type |-> "string", pattern |-> strings], NEW n
    PROVE  Accepts(s, n) <=> IsOneOf(n, strings)
<1>1. DOMAIN s = {"type", "pattern"} /\ s.type = "string" /\ s.pattern = strings
  OBVIOUS
<1>2. Accepts(s, n) <=> Keywords(Accepts, s, n)
  BY DEF SchemaSemantics
<1>3. HasType(n, "string") <=> Is("string", n)
  BY DEF HasType
<1> QED
  BY <1>1, <1>2, <1>3 DEF Keywords, IsOneOf

LEMMA NaturalMeans ==
    ASSUME SchemaSemantics, NEW s, s = [type |-> "integer", minimum |-> 0], NEW n
    PROVE  Accepts(s, n) <=> Is("integer", n) /\ n.integer >= 0
<1>1. DOMAIN s = {"type", "minimum"} /\ s.type = "integer"
  OBVIOUS
<1>2. Accepts(s, n) <=> Keywords(Accepts, s, n)
  BY DEF SchemaSemantics
<1>3. HasType(n, "integer") <=> Is("integer", n)
  BY DEF HasType
<1> QED
  BY <1>1, <1>2, <1>3 DEF Keywords

LEMMA ArrayMeans ==
    ASSUME SchemaSemantics, NEW items, NEW s, s = [type |-> "array", items |-> items], NEW n
    PROVE  Accepts(s, n) <=> Is("array", n) /\ \A i \in DOMAIN Items(n) : Accepts(items, n.array[i])
<1>1. DOMAIN s = {"type", "items"} /\ s.type = "array" /\ s.items = items
  OBVIOUS
<1>2. Accepts(s, n) <=> Keywords(Accepts, s, n)
  BY DEF SchemaSemantics
<1>3. HasType(n, "array") <=> Is("array", n)
  BY DEF HasType
<1> QED
  BY <1>1, <1>2, <1>3 DEF Keywords

LEMMA NonEmptyArrayMeans ==
    ASSUME SchemaSemantics, NEW s, s = [type |-> "array", minItems |-> 1], NEW n
    PROVE  Accepts(s, n) <=> Items(n) # <<>>
<1>1. DOMAIN s = {"type", "minItems"} /\ s.type = "array"
  OBVIOUS
<1>2. Accepts(s, n) <=> Keywords(Accepts, s, n)
  BY DEF SchemaSemantics
<1>3. HasType(n, "array") <=> Is("array", n)
  BY DEF HasType
<1> QED
  BY <1>1, <1>2, <1>3 DEF Keywords, Items

LEMMA MapMeans ==
    ASSUME SchemaSemantics, NEW schema, NEW s, s = [type |-> "object", additionalProperties |-> schema],
           NEW n
    PROVE  Accepts(s, n) <=>
            Is("object", n) /\ \A key \in Keys(n) : Accepts(schema, Member(n, key))
<1>1. DOMAIN s = {"type", "additionalProperties"} /\ s.type = "object" /\ s.additionalProperties = schema
  OBVIOUS
<1>2. Accepts(s, n) <=> Keywords(Accepts, s, n)
  BY DEF SchemaSemantics
<1>3. HasType(n, "object") <=> Is("object", n)
  BY DEF HasType
<1>4. DOMAIN [key \in {} |-> Text] = {}
  OBVIOUS
<1>5. Accepts(s, n) <=> Is("object", n) /\ \A key \in Keys(n) : Accepts(schema, n.object[key])
  BY <1>1, <1>2, <1>3, <1>4 DEF Keywords
<1> QED
  BY <1>5, MemberFacts

LEMMA PropertiesMean ==
    ASSUME SchemaSemantics, NEW P, NEW s, s = [type |-> "object", properties |-> P], NEW n
    PROVE  Accepts(s, n) <=>
            /\ Is("object", n)
            /\ \A key \in DOMAIN P : Member(n, key) # Absent => Accepts(P[key], Member(n, key))
<1>1. DOMAIN s = {"type", "properties"} /\ s.type = "object" /\ s.properties = P
  OBVIOUS
<1>2. Accepts(s, n) <=> Keywords(Accepts, s, n)
  BY DEF SchemaSemantics
<1>3. HasType(n, "object") <=> Is("object", n)
  BY DEF HasType
<1>4. Accepts(s, n) <=> /\ Is("object", n)
                        /\ \A key \in DOMAIN P \cap Keys(n) : Accepts(P[key], n.object[key])
  BY <1>1, <1>2, <1>3 DEF Keywords
<1> QED
  BY <1>4, MemberFacts

LEMMA ObjectMeans ==
    ASSUME SchemaSemantics, NEW R, NEW P, NEW n,
           NEW s, s = [type |-> "object", required |-> R, properties |-> P]
    PROVE  Accepts(s, n) <=>
            /\ Is("object", n) /\ \A key \in R : Member(n, key) # Absent
            /\ \A key \in DOMAIN P : Member(n, key) # Absent => Accepts(P[key], Member(n, key))
<1>1. DOMAIN s = {"type", "required", "properties"} /\ s.type = "object" /\ s.required = R /\ s.properties = P
  OBVIOUS
<1>2. Accepts(s, n) <=> Keywords(Accepts, s, n)
  BY DEF SchemaSemantics
<1>3. HasType(n, "object") <=> Is("object", n)
  BY DEF HasType
<1>4. Accepts(s, n) <=>
        /\ Is("object", n) /\ R \subseteq Keys(n)
        /\ \A key \in DOMAIN P \cap Keys(n) : Accepts(P[key], n.object[key])
  BY <1>1, <1>2, <1>3 DEF Keywords
<1> QED
  BY <1>4, MemberFacts

(* A schema without a type is about the objects among the values. *)
LEMMA RequiredMeans ==
    ASSUME SchemaSemantics, NEW R, NEW s, s = [required |-> R], NEW n, Is("object", n)
    PROVE  Accepts(s, n) <=> \A key \in R : Member(n, key) # Absent
<1>1. DOMAIN s = {"required"} /\ s.required = R
  OBVIOUS
<1>2. Accepts(s, n) <=> Keywords(Accepts, s, n)
  BY DEF SchemaSemantics
<1>3. DOMAIN [key \in {} |-> Text] = {}
  OBVIOUS
<1>4. Accepts(s, n) <=> R \subseteq Keys(n)
  BY <1>1, <1>2, <1>3 DEF Keywords
<1> QED
  BY <1>4, MemberFacts

LEMMA TypeIsMeans ==
    ASSUME SchemaSemantics, NEW strings, NEW n, Is("object", n),
           NEW s, s = [required |-> {"type"}, properties |-> [type |-> [enum |-> strings]]]
    PROVE  Accepts(s, n) <=> IsOneOf(Member(n, "type"), strings)
<1> DEFINE enum == [enum |-> strings]
           P == [type |-> enum]
<1>1. DOMAIN s = {"required", "properties"} /\ s.required = {"type"} /\ s.properties = P
  OBVIOUS
<1>2. Accepts(s, n) <=> Keywords(Accepts, s, n)
  BY DEF SchemaSemantics
<1>3. DOMAIN P = {"type"} /\ P["type"] = enum
  OBVIOUS
<1> HIDE DEF P, enum
<1>4. Accepts(s, n) <=>
        {"type"} \subseteq Keys(n) /\ \A key \in DOMAIN P \cap Keys(n) : Accepts(P[key], n.object[key])
  BY <1>1, <1>2 DEF Keywords
<1>5. Accepts(s, n) <=> Member(n, "type") # Absent /\ Accepts(enum, Member(n, "type"))
  BY <1>3, <1>4, MemberFacts
<1>6. Accepts(enum, Member(n, "type")) <=> IsOneOf(Member(n, "type"), strings)
  BY EnumMeans DEF enum
<1>7. IsOneOf(Member(n, "type"), strings) => Member(n, "type") # Absent
  BY DEF IsOneOf, Is, Absent
<1> QED
  BY <1>5, <1>6, <1>7

(* What the schemas of a manifest accept. *)
LEMMA TextMeans ==
    ASSUME SchemaSemantics, NEW n
    PROVE  Accepts(Text, n) <=> Is("string", n)
BY TypeMeans DEF Text, HasType

LEMMA TypedMeans ==
    ASSUME SchemaSemantics, NEW n
    PROVE  Accepts(Typed, n) <=> NonEmptyString(Member(n, "type"))
<1> DEFINE P == [type |-> Named]
           R == {"type"}
<1>1. Typed = [type |-> "object", required |-> R, properties |-> P]
  BY DEF Typed
<1>2. DOMAIN P = {"type"} /\ P["type"] = Named
  OBVIOUS
<1> HIDE DEF P
<1>3. Accepts(Typed, n) <=>
        /\ Is("object", n) /\ \A key \in R : Member(n, key) # Absent
        /\ \A key \in DOMAIN P : Member(n, key) # Absent => Accepts(P[key], Member(n, key))
  <2> HIDE DEF R
  <2> QED
    BY <1>1, ObjectMeans
<1>4. Accepts(Named, Member(n, "type")) <=> NonEmptyString(Member(n, "type"))
  BY NamedMeans
<1>5. NonEmptyString(Member(n, "type")) => Member(n, "type") # Absent
  BY DEF NonEmptyString, Is, Absent
<1> QED
  BY <1>2, <1>3, <1>4, <1>5, MemberFacts

LEMMA MetadataMeans ==
    ASSUME SchemaSemantics, NEW n
    PROVE  Accepts(MetadataSchema, n) <=> ValidMetadata(n)
<1> DEFINE name == [type |-> "string", pattern |-> MetadataNames]
           tags == [type |-> "array", items |-> Text]
           P == [name |-> name, title |-> Text, description |-> Text, tags |-> tags]
           R == {"name"}
<1>1. MetadataSchema = [type |-> "object", required |-> R, properties |-> P]
  BY DEF MetadataSchema
<1>2. /\ DOMAIN P = {"name", "title", "description", "tags"}
      /\ P["name"] = name /\ P["title"] = Text /\ P["description"] = Text /\ P["tags"] = tags
  OBVIOUS
<1>3. \A m : Accepts(name, m) <=> IsOneOf(m, MetadataNames)
  BY PatternMeans
<1>4. \A m : Accepts(tags, m) <=> Is("array", m) /\ \A i \in DOMAIN Items(m) : Is("string", m.array[i])
  BY ArrayMeans, TextMeans
<1> HIDE DEF P, name, tags
<1>5. Accepts(MetadataSchema, n) <=>
        /\ Is("object", n) /\ \A key \in R : Member(n, key) # Absent
        /\ \A key \in DOMAIN P : Member(n, key) # Absent => Accepts(P[key], Member(n, key))
  <2> HIDE DEF R
  <2> QED
    BY <1>1, ObjectMeans
<1>6. /\ IsOneOf(Member(n, "name"), MetadataNames) => Member(n, "name") # Absent
      /\ Items(Absent) = <<>> /\ DOMAIN <<>> = {}
  BY DEF IsOneOf, Items, Is, Absent
<1> QED
  BY <1>2, <1>3, <1>4, <1>5, <1>6, TextMeans DEF ValidMetadata, AbsentOr

LEMMA FieldMeans ==
    ASSUME SchemaSemantics, NEW n
    PROVE  Accepts(FieldSchema, n) <=> ValidField(n)
<1> DEFINE type == [enum |-> FieldTypes]
           boolean == [type |-> "boolean"]
           object == [type |-> "object"]
           P == [type |-> type, nullable |-> boolean, label |-> Text, semanticType |-> Text, format |-> object]
           R == {"type"}
<1>1. FieldSchema = [type |-> "object", required |-> R, properties |-> P]
  BY DEF FieldSchema
<1>2. /\ DOMAIN P = {"type", "nullable", "label", "semanticType", "format"}
      /\ P["type"] = type /\ P["nullable"] = boolean /\ P["label"] = Text
      /\ P["semanticType"] = Text /\ P["format"] = object
  OBVIOUS
<1>3. /\ \A m : Accepts(type, m) <=> IsOneOf(m, FieldTypes)
      /\ \A m : Accepts(boolean, m) <=> Is("boolean", m)
      /\ \A m : Accepts(object, m) <=> Is("object", m)
  BY EnumMeans, TypeMeans DEF HasType
<1> HIDE DEF P, type, boolean, object
<1>4. Accepts(FieldSchema, n) <=>
        /\ Is("object", n) /\ \A key \in R : Member(n, key) # Absent
        /\ \A key \in DOMAIN P : Member(n, key) # Absent => Accepts(P[key], Member(n, key))
  <2> HIDE DEF R
  <2> QED
    BY <1>1, ObjectMeans
<1>5. IsOneOf(Member(n, "type"), FieldTypes) => Member(n, "type") # Absent
  BY DEF IsOneOf, Is, Absent
<1> QED
  BY <1>2, <1>3, <1>4, <1>5, TextMeans, MemberFacts DEF ValidField, AbsentOr

(* Of two, or three, candidates exactly one is in a set. *)
LEMMA OneOfThree ==
    ASSUME NEW a, NEW b, NEW c, a # b, a # c, b # c, NEW S, S \subseteq {a, b, c}
    PROVE  Cardinality(S) = 1 <=>
            \/ a \in S /\ b \notin S /\ c \notin S
            \/ a \notin S /\ b \in S /\ c \notin S
            \/ a \notin S /\ b \notin S /\ c \in S
<1>1. IsFiniteSet({a, b, c})
  <2>1. IsFiniteSet({} \cup {a})
    BY FS_EmptySet, FS_AddElement
  <2>2. IsFiniteSet(({} \cup {a}) \cup {b})
    BY <2>1, FS_AddElement
  <2>3. IsFiniteSet((({} \cup {a}) \cup {b}) \cup {c})
    BY <2>2, FS_AddElement
  <2>4. (({} \cup {a}) \cup {b}) \cup {c} = {a, b, c}
    OBVIOUS
  <2> QED
    BY <2>3, <2>4
<1>2. IsFiniteSet(S)
  BY <1>1, FS_Subset
<1>3. Cardinality(S) = 1 <=> \E x : S = {x}
  BY <1>2, FS_Singleton
<1>4. (\E x : S = {x}) <=> S = {a} \/ S = {b} \/ S = {c}
  OBVIOUS
<1>5. S = {a} <=> a \in S /\ b \notin S /\ c \notin S
  OBVIOUS
<1>6. S = {b} <=> a \notin S /\ b \in S /\ c \notin S
  OBVIOUS
<1>7. S = {c} <=> a \notin S /\ b \notin S /\ c \in S
  OBVIOUS
<1> QED
  BY <1>3, <1>4, <1>5, <1>6, <1>7

LEMMA OneOfTwo ==
    ASSUME NEW a, NEW b, a # b, NEW S, S \subseteq {a, b}
    PROVE  Cardinality(S) = 1 <=> (a \in S /\ b \notin S) \/ (a \notin S /\ b \in S)
<1>1. IsFiniteSet({a, b})
  <2>1. IsFiniteSet({} \cup {a})
    BY FS_EmptySet, FS_AddElement
  <2>2. IsFiniteSet(({} \cup {a}) \cup {b})
    BY <2>1, FS_AddElement
  <2>3. ({} \cup {a}) \cup {b} = {a, b}
    OBVIOUS
  <2> QED
    BY <2>2, <2>3
<1>2. IsFiniteSet(S)
  BY <1>1, FS_Subset
<1>3. Cardinality(S) = 1 <=> \E x : S = {x}
  BY <1>2, FS_Singleton
<1>4. (\E x : S = {x}) <=> S = {a} \/ S = {b}
  OBVIOUS
<1> QED
  BY <1>3, <1>4

LEMMA BindingMeans ==
    ASSUME SchemaSemantics, NEW n
    PROVE  Accepts(BindingSchema, n) <=>
            \/ IsOneOf(n, DOMAIN References)
            \/ /\ Member(n, "literal") # Absent /\ ~Is("string", Member(n, "parameter"))
            \/ /\ Member(n, "literal") = Absent /\ Is("string", Member(n, "parameter"))
<1> DEFINE reads == [type |-> "string", pattern |-> DOMAIN References]
           P == [parameter |-> Text]
           Q == [key \in {} |-> Text]
           named == [type |-> "object", required |-> {"parameter"}, properties |-> P]
           literal == [type |-> "object", required |-> {"literal"}]
           oneOf == <<reads, named, literal>>
           S == {i \in DOMAIN oneOf : Accepts(oneOf[i], n)}
<1>1. BindingSchema = [oneOf |-> oneOf]
  BY DEF BindingSchema
<1>2. DOMAIN oneOf = {1, 2, 3} /\ oneOf[1] = reads /\ oneOf[2] = named /\ oneOf[3] = literal
  OBVIOUS
<1>3. Accepts(reads, n) <=> IsOneOf(n, DOMAIN References)
  BY PatternMeans
<1>4. Accepts(named, n) <=> Is("string", Member(n, "parameter"))
  <2> DEFINE R == {"parameter"}
  <2>1. DOMAIN P = {"parameter"} /\ P["parameter"] = Text
    OBVIOUS
  <2> HIDE DEF P, R
  <2>2. Accepts(named, n) <=>
          /\ Is("object", n) /\ \A key \in R : Member(n, key) # Absent
          /\ \A key \in DOMAIN P : Member(n, key) # Absent => Accepts(P[key], Member(n, key))
    BY ObjectMeans DEF R
  <2>3. Is("string", Member(n, "parameter")) => Member(n, "parameter") # Absent
    BY DEF Is, Absent
  <2> QED
    BY <2>1, <2>2, <2>3, TextMeans, MemberFacts DEF R
<1>5. Accepts(literal, n) <=> Member(n, "literal") # Absent
  <2>1. DOMAIN literal = {"type", "required"} /\ literal.type = "object" /\ literal.required = {"literal"}
    OBVIOUS
  <2> HIDE DEF literal
  <2>2. Accepts(literal, n) <=> Keywords(Accepts, literal, n)
    BY DEF SchemaSemantics
  <2>3. DOMAIN [key \in {} |-> Text] = {}
    OBVIOUS
  <2>4. Accepts(literal, n) <=> Is("object", n) /\ {"literal"} \subseteq Keys(n)
    BY <2>1, <2>2, <2>3 DEF Keywords, HasType
  <2> QED
    BY <2>4, MemberFacts
<1> HIDE DEF reads, named, literal
<1>6. Accepts(BindingSchema, n) <=> Cardinality(S) = 1
  <2> HIDE DEF oneOf
  <2>1. DOMAIN BindingSchema = {"oneOf"} /\ BindingSchema.oneOf = oneOf
    BY <1>1
  <2>2. Accepts(BindingSchema, n) <=> Keywords(Accepts, BindingSchema, n)
    BY DEF SchemaSemantics
  <2>3. DOMAIN [key \in {} |-> Text] = {}
    OBVIOUS
  <2> QED
    BY <2>1, <2>2, <2>3 DEF Keywords
<1>7. /\ S \subseteq {1, 2, 3} /\ (1 \in S <=> Accepts(reads, n))
      /\ (2 \in S <=> Accepts(named, n)) /\ (3 \in S <=> Accepts(literal, n))
  BY <1>2
<1> HIDE DEF S
<1>8. Cardinality(S) = 1 <=>
        \/ 1 \in S /\ 2 \notin S /\ 3 \notin S
        \/ 1 \notin S /\ 2 \in S /\ 3 \notin S
        \/ 1 \notin S /\ 2 \notin S /\ 3 \in S
  <2> DEFINE a == 1
             b == 2
             c == 3
  <2>1. a # b /\ a # c /\ b # c /\ S \subseteq {a, b, c}
    BY <1>7
  <2> HIDE DEF a, b, c
  <2>2. Cardinality(S) = 1 <=>
          \/ a \in S /\ b \notin S /\ c \notin S
          \/ a \notin S /\ b \in S /\ c \notin S
          \/ a \notin S /\ b \notin S /\ c \in S
    BY <2>1, OneOfThree
  <2> QED
    BY <2>2 DEF a, b, c
<1>9. IsOneOf(n, DOMAIN References) =>
        Member(n, "literal") = Absent /\ ~Is("string", Member(n, "parameter"))
  BY DEF IsOneOf, Member, Is, Absent
<1> QED
  BY <1>3, <1>4, <1>5, <1>6, <1>7, <1>8, <1>9

LEMMA QueryMeans ==
    ASSUME SchemaSemantics, NEW n
    PROVE  Accepts(QuerySchema, n) <=>
            /\ NonEmptyString(Member(n, "source")) /\ NonEmptyString(Member(n, "language"))
            /\ Member(n, "statement") # Absent
            /\ AbsentOr("object", Member(n, "bindings"))
            /\ \A key \in Keys(Member(n, "bindings")) :
                Accepts(BindingSchema, Member(Member(n, "bindings"), key))
<1> DEFINE bindings == [type |-> "object", additionalProperties |-> BindingSchema]
           P == [source |-> Named, language |-> Named, bindings |-> bindings]
           R == {"source", "language", "statement"}
<1>1. QuerySchema = [type |-> "object", required |-> R, properties |-> P]
  BY DEF QuerySchema
<1>2. /\ DOMAIN P = {"source", "language", "bindings"}
      /\ P["source"] = Named /\ P["language"] = Named /\ P["bindings"] = bindings
  OBVIOUS
<1>3. \A m : Accepts(bindings, m) <=>
                Is("object", m) /\ \A key \in Keys(m) : Accepts(BindingSchema, Member(m, key))
  BY MapMeans
<1> HIDE DEF P, bindings
<1>4. Accepts(QuerySchema, n) <=>
        /\ Is("object", n) /\ \A key \in R : Member(n, key) # Absent
        /\ \A key \in DOMAIN P : Member(n, key) # Absent => Accepts(P[key], Member(n, key))
  <2> HIDE DEF R
  <2> QED
    BY <1>1, ObjectMeans
<1>5. \A m : NonEmptyString(m) => m # Absent
  BY DEF NonEmptyString, Is, Absent
<1>6. Keys(Absent) = {}
  BY DEF Keys, Is, Absent
<1> QED
  BY <1>2, <1>3, <1>4, <1>5, <1>6, NamedMeans, MemberFacts DEF AbsentOr

LEMMA BoundsMean ==
    ASSUME SchemaSemantics, NEW n,
           NEW s, s = [type |-> "object",
                       properties |-> [min |-> [type |-> "number"], max |-> [type |-> "number"],
                                       minLength |-> [type |-> "integer", minimum |-> 0],
                                       maxLength |-> [type |-> "integer", minimum |-> 0]]]
    PROVE  Accepts(s, n) <=> Is("object", n) /\ ValidBounds(n)
<1> DEFINE number == [type |-> "number"]
           natural == [type |-> "integer", minimum |-> 0]
           P == [min |-> number, max |-> number, minLength |-> natural, maxLength |-> natural]
<1>1. s = [type |-> "object", properties |-> P]
  OBVIOUS
<1>2. /\ DOMAIN P = {"min", "max", "minLength", "maxLength"}
      /\ P["min"] = number /\ P["max"] = number /\ P["minLength"] = natural /\ P["maxLength"] = natural
  OBVIOUS
<1>3. /\ \A m : Accepts(number, m) <=> Number(m)
      /\ \A m : Accepts(natural, m) <=> Is("integer", m) /\ m.integer >= 0
  BY TypeMeans, NaturalMeans DEF HasType
<1> HIDE DEF P, number, natural
<1>4. Accepts(s, n) <=>
        /\ Is("object", n)
        /\ \A key \in DOMAIN P : Member(n, key) # Absent => Accepts(P[key], Member(n, key))
  BY <1>1, PropertiesMean
<1> QED
  BY <1>2, <1>3, <1>4 DEF ValidBounds, AbsentOr

LEMMA HintsMean ==
    ASSUME SchemaSemantics, NEW n,
           NEW s, s = [type |-> "object",
                       properties |-> [control |-> Text, label |-> Text, placeholder |-> Text, help |-> Text]]
    PROVE  Accepts(s, n) <=>
            /\ Is("object", n)
            /\ \A key \in {"control", "label", "placeholder", "help"} : AbsentOr("string", Member(n, key))
<1> DEFINE P == [control |-> Text, label |-> Text, placeholder |-> Text, help |-> Text]
<1>1. s = [type |-> "object", properties |-> P]
  OBVIOUS
<1>2. /\ DOMAIN P = {"control", "label", "placeholder", "help"}
      /\ P["control"] = Text /\ P["label"] = Text /\ P["placeholder"] = Text /\ P["help"] = Text
  OBVIOUS
<1> HIDE DEF P
<1>3. Accepts(s, n) <=>
        /\ Is("object", n)
        /\ \A key \in DOMAIN P : Member(n, key) # Absent => Accepts(P[key], Member(n, key))
  BY <1>1, PropertiesMean
<1> QED
  BY <1>2, <1>3, TextMeans DEF AbsentOr

LEMMA ItemsMean ==
    ASSUME SchemaSemantics, NEW n,
           NEW s, s = [type |-> "object", required |-> {"type"},
                       properties |-> [type |-> [enum |-> ItemTypes]]]
    PROVE  Accepts(s, n) <=> IsOneOf(Member(n, "type"), ItemTypes)
<1> DEFINE enum == [enum |-> ItemTypes]
           P == [type |-> enum]
           R == {"type"}
<1>1. s = [type |-> "object", required |-> R, properties |-> P]
  OBVIOUS
<1>2. DOMAIN P = {"type"} /\ P["type"] = enum
  OBVIOUS
<1>3. \A m : Accepts(enum, m) <=> IsOneOf(m, ItemTypes)
  BY EnumMeans
<1> HIDE DEF P, enum
<1>4. Accepts(s, n) <=>
        /\ Is("object", n) /\ \A key \in R : Member(n, key) # Absent
        /\ \A key \in DOMAIN P : Member(n, key) # Absent => Accepts(P[key], Member(n, key))
  <2> HIDE DEF R
  <2> QED
    BY <1>1, ObjectMeans
<1>5. IsOneOf(Member(n, "type"), ItemTypes) => Member(n, "type") # Absent
  BY DEF IsOneOf, Is, Absent
<1> QED
  BY <1>2, <1>3, <1>4, <1>5, MemberFacts

(* The two conditions of the parameter schema. *)
LEMMA ConditionMeans ==
    ASSUME SchemaSemantics, NEW n, Is("object", n), NEW type, NEW needs,
           NEW s, s = [if |-> [required |-> {"type"}, properties |-> [type |-> [enum |-> {type}]]],
                       then |-> [required |-> {needs}]]
    PROVE  (Accepts(s.if, n) => Accepts(s.then, n)) <=>
            (IsOneOf(Member(n, "type"), {type}) => Member(n, needs) # Absent)
<1> DEFINE types == {type}
           R == {needs}
<1>1. /\ s.if = [required |-> {"type"}, properties |-> [type |-> [enum |-> types]]]
      /\ s.then = [required |-> R]
  OBVIOUS
<1> HIDE DEF types, R
<1>2. Accepts(s.if, n) <=> IsOneOf(Member(n, "type"), types)
  BY <1>1, TypeIsMeans
<1>3. Accepts(s.then, n) <=> \A key \in R : Member(n, key) # Absent
  BY <1>1, RequiredMeans
<1> QED
  BY <1>2, <1>3 DEF types, R

LEMMA ParameterMeans ==
    ASSUME SchemaSemantics, NEW n
    PROVE  Accepts(ParameterSchema, n) <=>
            /\ IsOneOf(Member(n, "type"), ParameterTypes)
            /\ AbsentOr("boolean", Member(n, "required")) /\ AbsentOr("string", Member(n, "description"))
            /\ Member(n, "values") # Absent => Items(Member(n, "values")) # <<>>
            /\ Member(n, "items") # Absent => IsOneOf(Member(Member(n, "items"), "type"), ItemTypes)
            /\ AbsentOr("object", Member(n, "validation")) /\ ValidBounds(Member(n, "validation"))
            /\ AbsentOr("object", Member(n, "presentation"))
            /\ \A key \in {"control", "label", "placeholder", "help"} :
                AbsentOr("string", Member(Member(n, "presentation"), key))
            /\ IsOneOf(Member(n, "type"), {"enum"}) => Member(n, "values") # Absent
            /\ IsOneOf(Member(n, "type"), {"array"}) => Member(n, "items") # Absent
<1> DEFINE type == [enum |-> ParameterTypes]
           boolean == [type |-> "boolean"]
           values1 == [type |-> "array", minItems |-> 1]
           items == [type |-> "object", required |-> {"type"}, properties |-> [type |-> [enum |-> ItemTypes]]]
           validation == [type |-> "object",
                properties |-> [min |-> [type |-> "number"], max |-> [type |-> "number"],
                                minLength |-> [type |-> "integer", minimum |-> 0],
                                maxLength |-> [type |-> "integer", minimum |-> 0]]]
           presentation == [type |-> "object",
                properties |-> [control |-> Text, label |-> Text, placeholder |-> Text, help |-> Text]]
           P == [type |-> type, required |-> boolean, description |-> Text, values |-> values1, items |-> items,
                 validation |-> validation, presentation |-> presentation]
           R == {"type"}
           condition(t) == [if |-> [required |-> {"type"}, properties |-> [type |-> [enum |-> {t.type}]]],
                            then |-> [required |-> {t.needs}]]
           T == {[type |-> "enum", needs |-> "values"], [type |-> "array", needs |-> "items"]}
           ifEnum == [if |-> [required |-> {"type"}, properties |-> [type |-> [enum |-> {"enum"}]]],
                      then |-> [required |-> {"values"}]]
           ifArray == [if |-> [required |-> {"type"}, properties |-> [type |-> [enum |-> {"array"}]]],
                       then |-> [required |-> {"items"}]]
           all == {condition(t) : t \in T}
<1>1. ParameterSchema = [type |-> "object", required |-> R, properties |-> P, allOf |-> all]
  BY DEF ParameterSchema
<1>2. /\ DOMAIN P = {"type", "required", "description", "values", "items", "validation", "presentation"}
      /\ P["type"] = type /\ P["required"] = boolean /\ P["description"] = Text /\ P["values"] = values1
      /\ P["items"] = items /\ P["validation"] = validation /\ P["presentation"] = presentation
  OBVIOUS
<1>3. \A s : s \in all <=> s = ifEnum \/ s = ifArray
  <2>1. /\ condition([type |-> "enum", needs |-> "values"]) = ifEnum
        /\ condition([type |-> "array", needs |-> "items"]) = ifArray
    OBVIOUS
  <2> HIDE DEF condition, ifEnum, ifArray
  <2> QED
    BY <2>1
<1>4. Is("object", n) =>
        /\ (Accepts(ifEnum.if, n) => Accepts(ifEnum.then, n)) <=>
                (IsOneOf(Member(n, "type"), {"enum"}) => Member(n, "values") # Absent)
        /\ (Accepts(ifArray.if, n) => Accepts(ifArray.then, n)) <=>
                (IsOneOf(Member(n, "type"), {"array"}) => Member(n, "items") # Absent)
  <2> SUFFICES ASSUME Is("object", n)
               PROVE  /\ (Accepts(ifEnum.if, n) => Accepts(ifEnum.then, n)) <=>
                            (IsOneOf(Member(n, "type"), {"enum"}) => Member(n, "values") # Absent)
                      /\ (Accepts(ifArray.if, n) => Accepts(ifArray.then, n)) <=>
                            (IsOneOf(Member(n, "type"), {"array"}) => Member(n, "items") # Absent)
    OBVIOUS
  <2>1. (Accepts(ifEnum.if, n) => Accepts(ifEnum.then, n)) <=>
                (IsOneOf(Member(n, "type"), {"enum"}) => Member(n, "values") # Absent)
    <3> DEFINE e == ifEnum
    <3>1. e = [if |-> [required |-> {"type"}, properties |-> [type |-> [enum |-> {"enum"}]]],
               then |-> [required |-> {"values"}]]
      OBVIOUS
    <3> HIDE DEF e
    <3> QED
      BY <3>1, ConditionMeans
  <2>2. (Accepts(ifArray.if, n) => Accepts(ifArray.then, n)) <=>
                (IsOneOf(Member(n, "type"), {"array"}) => Member(n, "items") # Absent)
    <3> DEFINE e == ifArray
    <3>1. e = [if |-> [required |-> {"type"}, properties |-> [type |-> [enum |-> {"array"}]]],
               then |-> [required |-> {"items"}]]
      OBVIOUS
    <3> HIDE DEF e
    <3> QED
      BY <3>1, ConditionMeans
  <2> QED
    BY <2>1, <2>2
<1>5. /\ \A m : Accepts(type, m) <=> IsOneOf(m, ParameterTypes)
      /\ \A m : Accepts(boolean, m) <=> Is("boolean", m)
  BY EnumMeans, TypeMeans DEF HasType
<1>6. \A m : Accepts(values1, m) <=> Items(m) # <<>>
  BY NonEmptyArrayMeans
<1>7. \A m : Accepts(items, m) <=> IsOneOf(Member(m, "type"), ItemTypes)
  BY ItemsMean
<1>8. \A m : Accepts(validation, m) <=> Is("object", m) /\ ValidBounds(m)
  BY BoundsMean
<1>9. \A m : Accepts(presentation, m) <=>
        /\ Is("object", m)
        /\ \A key \in {"control", "label", "placeholder", "help"} : AbsentOr("string", Member(m, key))
  BY HintsMean
<1> HIDE DEF P, type, boolean, values1, items, validation, presentation, ifEnum, ifArray, all, T
<1>10. Accepts(ParameterSchema, n) <=>
        /\ Is("object", n) /\ \A key \in R : Member(n, key) # Absent
        /\ \A key \in DOMAIN P : Member(n, key) # Absent => Accepts(P[key], Member(n, key))
        /\ \A s \in all : Accepts(s.if, n) => Accepts(s.then, n)
  <2> DEFINE schema == ParameterSchema
  <2>1. /\ DOMAIN schema = {"type", "required", "properties", "allOf"} /\ schema.type = "object"
        /\ schema.required = R /\ schema.properties = P /\ schema.allOf = all
    BY <1>1
  <2> HIDE DEF schema
  <2>2. Accepts(schema, n) <=> Keywords(Accepts, schema, n)
    BY DEF SchemaSemantics
  <2>3. HasType(n, "object") <=> Is("object", n)
    BY DEF HasType
  <2>4. Accepts(schema, n) <=>
          /\ Is("object", n) /\ R \subseteq Keys(n)
          /\ \A key \in DOMAIN P \cap Keys(n) : Accepts(P[key], n.object[key])
          /\ \A s \in all : Accepts(s.if, n) => Accepts(s.then, n)
    <3> HIDE DEF R
    <3> QED
      BY <2>1, <2>2, <2>3 DEF Keywords
  <2> QED
    BY <2>4, MemberFacts DEF schema
<1>11. (\A s \in all : Accepts(s.if, n) => Accepts(s.then, n)) <=>
         /\ Accepts(ifEnum.if, n) => Accepts(ifEnum.then, n)
         /\ Accepts(ifArray.if, n) => Accepts(ifArray.then, n)
  BY <1>3
<1>12. Is("object", n) =>
        ((\A s \in all : Accepts(s.if, n) => Accepts(s.then, n)) <=>
            /\ IsOneOf(Member(n, "type"), {"enum"}) => Member(n, "values") # Absent
            /\ IsOneOf(Member(n, "type"), {"array"}) => Member(n, "items") # Absent)
  BY <1>4, <1>11
<1>13. (\A key \in DOMAIN P : Member(n, key) # Absent => Accepts(P[key], Member(n, key))) <=>
        /\ Member(n, "type") # Absent => IsOneOf(Member(n, "type"), ParameterTypes)
        /\ Member(n, "required") # Absent => Is("boolean", Member(n, "required"))
        /\ Member(n, "description") # Absent => Is("string", Member(n, "description"))
        /\ Member(n, "values") # Absent => Items(Member(n, "values")) # <<>>
        /\ Member(n, "items") # Absent => IsOneOf(Member(Member(n, "items"), "type"), ItemTypes)
        /\ Member(n, "validation") # Absent =>
            Is("object", Member(n, "validation")) /\ ValidBounds(Member(n, "validation"))
        /\ Member(n, "presentation") # Absent =>
            /\ Is("object", Member(n, "presentation"))
            /\ \A key \in {"control", "label", "placeholder", "help"} :
                AbsentOr("string", Member(Member(n, "presentation"), key))
  BY <1>2, <1>5, <1>6, <1>7, <1>8, <1>9, TextMeans
<1>14. IsOneOf(Member(n, "type"), ParameterTypes) => Member(n, "type") # Absent
  BY DEF IsOneOf, Is, Absent
<1>15. ValidBounds(Absent) /\ \A key : AbsentOr("string", Member(Absent, key))
  BY DEF ValidBounds, AbsentOr, Member, Is, Absent
<1> QED
  BY <1>10, <1>12, <1>13, <1>14, <1>15, MemberFacts DEF AbsentOr

LEMMA SpecMeans ==
    ASSUME SchemaSemantics, NEW n
    PROVE  Accepts(SpecSchema, n) <=>
            /\ Is("object", n)
            /\ AbsentOr("object", Member(n, "parameters"))
            /\ \A key \in Keys(Member(n, "parameters")) :
                Accepts(ParameterSchema, Member(Member(n, "parameters"), key))
            /\ Member(n, "query") # Absent => Accepts(QuerySchema, Member(n, "query"))
            /\ Member(n, "dataset") # Absent => Is("object", Member(Member(n, "dataset"), "fields"))
            /\ \A key \in Keys(Member(Member(n, "dataset"), "fields")) :
                ValidField(Member(Member(Member(n, "dataset"), "fields"), key))
            /\ ValidTransforms(Member(n, "transforms"))
            /\ Member(n, "presentation") # Absent => NonEmptyString(Member(Member(n, "presentation"), "type"))
<1> DEFINE parameters1 == [type |-> "object", additionalProperties |-> ParameterSchema]
           fields1 == [type |-> "object", additionalProperties |-> FieldSchema]
           F == [fields |-> fields1]
           G == {"fields"}
           dataset1 == [type |-> "object", required |-> G, properties |-> F]
           transforms1 == [type |-> "array", items |-> Typed]
           P == [parameters |-> parameters1, query |-> QuerySchema, dataset |-> dataset1,
                 transforms |-> transforms1, presentation |-> Typed]
<1>1. SpecSchema = [type |-> "object", properties |-> P]
  BY DEF SpecSchema
<1>2. /\ DOMAIN P = {"parameters", "query", "dataset", "transforms", "presentation"}
      /\ P["parameters"] = parameters1 /\ P["query"] = QuerySchema /\ P["dataset"] = dataset1
      /\ P["transforms"] = transforms1 /\ P["presentation"] = Typed
  OBVIOUS
<1>3. \A m : Accepts(parameters1, m) <=>
                Is("object", m) /\ \A key \in Keys(m) : Accepts(ParameterSchema, Member(m, key))
  BY MapMeans
<1>4. \A m : Accepts(fields1, m) <=>
                Is("object", m) /\ \A key \in Keys(m) : ValidField(Member(m, key))
  BY MapMeans, FieldMeans
<1>5. \A m : Accepts(transforms1, m) <=>
                Is("array", m) /\ \A i \in DOMAIN Items(m) : NonEmptyString(Member(m.array[i], "type"))
  BY ArrayMeans, TypedMeans
<1>6. DOMAIN F = {"fields"} /\ F["fields"] = fields1
  OBVIOUS
<1>7. \A m : Accepts(dataset1, m) <=>
        /\ Is("object", Member(m, "fields"))
        /\ \A key \in Keys(Member(m, "fields")) : ValidField(Member(Member(m, "fields"), key))
  <2> SUFFICES ASSUME NEW m
               PROVE  Accepts(dataset1, m) <=>
                        /\ Is("object", Member(m, "fields"))
                        /\ \A key \in Keys(Member(m, "fields")) :
                            ValidField(Member(Member(m, "fields"), key))
    OBVIOUS
  <2> HIDE DEF fields1, F, G
  <2>1. Accepts(dataset1, m) <=>
          /\ Is("object", m) /\ \A key \in G : Member(m, key) # Absent
          /\ \A key \in DOMAIN F : Member(m, key) # Absent => Accepts(F[key], Member(m, key))
    BY ObjectMeans
  <2>2. Is("object", Member(m, "fields")) => Member(m, "fields") # Absent
    BY DEF Is, Absent
  <2>3. Accepts(fields1, Member(m, "fields")) <=>
          /\ Is("object", Member(m, "fields"))
          /\ \A key \in Keys(Member(m, "fields")) : ValidField(Member(Member(m, "fields"), key))
    BY <1>4
  <2> QED
    BY <2>1, <2>2, <2>3, <1>6, MemberFacts DEF G
<1> HIDE DEF P, parameters1, fields1, dataset1, transforms1
<1>8. Accepts(SpecSchema, n) <=>
        /\ Is("object", n)
        /\ \A key \in DOMAIN P : Member(n, key) # Absent => Accepts(P[key], Member(n, key))
  BY <1>1, PropertiesMean
<1>9. Accepts(SpecSchema, n) <=>
        /\ Is("object", n)
        /\ Member(n, "parameters") # Absent => Accepts(parameters1, Member(n, "parameters"))
        /\ Member(n, "query") # Absent => Accepts(QuerySchema, Member(n, "query"))
        /\ Member(n, "dataset") # Absent => Accepts(dataset1, Member(n, "dataset"))
        /\ Member(n, "transforms") # Absent => Accepts(transforms1, Member(n, "transforms"))
        /\ Member(n, "presentation") # Absent => Accepts(Typed, Member(n, "presentation"))
  BY <1>2, <1>8
<1>10. Keys(Absent) = {} /\ DOMAIN Items(Absent) = {}
  BY DEF Keys, Items, Is, Absent
<1>11. Member(n, "dataset") = Absent => Keys(Member(Member(n, "dataset"), "fields")) = {}
  BY <1>10, MemberFacts
<1>12. Member(n, "parameters") = Absent =>
        /\ AbsentOr("object", Member(n, "parameters"))
        /\ \A key \in Keys(Member(n, "parameters")) :
            Accepts(ParameterSchema, Member(Member(n, "parameters"), key))
  BY <1>10 DEF AbsentOr
<1>13. (Member(n, "transforms") # Absent => Accepts(transforms1, Member(n, "transforms"))) <=>
        ValidTransforms(Member(n, "transforms"))
  BY <1>5, <1>10 DEF ValidTransforms, AbsentOr
<1>14. (Member(n, "presentation") # Absent => Accepts(Typed, Member(n, "presentation"))) <=>
        (Member(n, "presentation") # Absent => NonEmptyString(Member(Member(n, "presentation"), "type")))
  BY TypedMeans
<1>15. (Member(n, "dataset") # Absent => Accepts(dataset1, Member(n, "dataset"))) <=>
        /\ Member(n, "dataset") # Absent => Is("object", Member(Member(n, "dataset"), "fields"))
        /\ \A key \in Keys(Member(Member(n, "dataset"), "fields")) :
            ValidField(Member(Member(Member(n, "dataset"), "fields"), key))
  BY <1>7, <1>11
<1>16. (Member(n, "parameters") # Absent => Accepts(parameters1, Member(n, "parameters"))) <=>
        /\ AbsentOr("object", Member(n, "parameters"))
        /\ \A key \in Keys(Member(n, "parameters")) :
            Accepts(ParameterSchema, Member(Member(n, "parameters"), key))
  BY <1>3, <1>12 DEF AbsentOr
<1> QED
  BY <1>9, <1>13, <1>14, <1>15, <1>16

LEMMA QSpecMeans ==
    ASSUME SchemaSemantics, NEW n
    PROVE  ValidateWithJsonSchema(n) <=>
            /\ Is("object", n)
            /\ IsOneOf(Member(n, "apiVersion"), {"qspec.dev/v1"})
            /\ NonEmptyString(Member(n, "kind"))
            /\ AbsentOr("string", Member(n, "$schema"))
            /\ ValidMetadata(Member(n, "metadata"))
            /\ Accepts(SpecSchema, Member(n, "spec"))
<1> DEFINE properties(key) ==
                CASE key = "$schema" -> Text
                  [] key = "apiVersion" -> [enum |-> {"qspec.dev/v1"}]
                  [] key = "kind" -> Named
                  [] key = "metadata" -> MetadataSchema
                  [] key = "spec" -> SpecSchema
           P == [key \in {"$schema", "apiVersion", "kind", "metadata", "spec"} |-> properties(key)]
           R == {"apiVersion", "kind", "metadata", "spec"}
           version == {"qspec.dev/v1"}
           enum == [enum |-> version]
<1>1. QSpecSchema = [type |-> "object", required |-> R, properties |-> P]
  BY DEF QSpecSchema
<1>2. /\ DOMAIN P = {"$schema", "apiVersion", "kind", "metadata", "spec"}
      /\ P["$schema"] = Text /\ P["apiVersion"] = enum /\ P["kind"] = Named
      /\ P["metadata"] = MetadataSchema /\ P["spec"] = SpecSchema
  OBVIOUS
<1> HIDE DEF P, version
<1>3. \A m : Accepts(enum, m) <=> IsOneOf(m, version)
  BY EnumMeans
<1> HIDE DEF enum
<1>4. Accepts(QSpecSchema, n) <=>
        /\ Is("object", n) /\ \A key \in R : Member(n, key) # Absent
        /\ \A key \in DOMAIN P : Member(n, key) # Absent => Accepts(P[key], Member(n, key))
  <2> HIDE DEF R
  <2> QED
    BY <1>1, ObjectMeans
<1>5. Accepts(QSpecSchema, n) <=>
        /\ Is("object", n)
        /\ Member(n, "$schema") # Absent => Is("string", Member(n, "$schema"))
        /\ Member(n, "apiVersion") # Absent /\ IsOneOf(Member(n, "apiVersion"), version)
        /\ Member(n, "kind") # Absent /\ NonEmptyString(Member(n, "kind"))
        /\ Member(n, "metadata") # Absent /\ ValidMetadata(Member(n, "metadata"))
        /\ Member(n, "spec") # Absent /\ Accepts(SpecSchema, Member(n, "spec"))
  <2>1. Accepts(QSpecSchema, n) <=>
          /\ Is("object", n) /\ \A key \in R : Member(n, key) # Absent
          /\ Member(n, "$schema") # Absent => Accepts(Text, Member(n, "$schema"))
          /\ Member(n, "apiVersion") # Absent => Accepts(enum, Member(n, "apiVersion"))
          /\ Member(n, "kind") # Absent => Accepts(Named, Member(n, "kind"))
          /\ Member(n, "metadata") # Absent => Accepts(MetadataSchema, Member(n, "metadata"))
          /\ Member(n, "spec") # Absent => Accepts(SpecSchema, Member(n, "spec"))
    BY <1>2, <1>4
  <2> QED
    BY <2>1, <1>3, TextMeans, NamedMeans, MetadataMeans
<1>6. /\ ~Is("object", Absent) /\ ~Is("string", Absent)
      /\ \A s : ~IsOneOf(Absent, s)
  BY DEF IsOneOf, Is, Absent
<1>7. Accepts(SpecSchema, Member(n, "spec")) => Is("object", Member(n, "spec"))
  BY SpecMeans
<1> QED
  BY <1>5, <1>6, <1>7 DEF ValidateWithJsonSchema, version, AbsentOr, NonEmptyString, ValidMetadata

(* What the two validators ask of a parameter, and of a binding. *)
LEMMA SameParameter ==
    ASSUME SchemaSemantics, NEW n
    PROVE  /\ Accepts(ParameterSchema, n) => (ValidParameter(n) <=> DefaultFits(n))
           /\ /\ ValidParameter(n)
              /\ Member(n, "values") # Absent => IsOneOf(Member(n, "type"), {"enum"})
              /\ Member(n, "items") # Absent => IsOneOf(Member(n, "type"), {"array"})
              => Accepts(ParameterSchema, n)
<1>1. Items(Absent) = <<>>
  BY DEF Items, Is, Absent
<1>2. ~IsOneOf(Member(Absent, "type"), ItemTypes)
  BY DEF IsOneOf, Member, Is, Absent
<1> QED
  BY <1>1, <1>2, ParameterMeans DEF ValidParameter

LEMMA SameBinding ==
    ASSUME SchemaSemantics, NEW n, NEW declared
    PROVE  /\ ValidBinding(n, declared) => Accepts(BindingSchema, n)
           /\ /\ Accepts(BindingSchema, n)
              /\ IsOneOf(n, DOMAIN References) => References[n.string] \in declared
              /\ Member(n, "parameter") = Absent \/ IsOneOf(Member(n, "parameter"), declared)
              => ValidBinding(n, declared)
<1> DEFINE S == {"parameter", "literal"} \cap Keys(n)
           a == "parameter"
           b == "literal"
<1>1. Cardinality(S) = 1 <=>
        \/ Member(n, "parameter") # Absent /\ Member(n, "literal") = Absent
        \/ Member(n, "parameter") = Absent /\ Member(n, "literal") # Absent
  <2>1. a # b /\ S \subseteq {a, b}
    OBVIOUS
  <2>2. (a \in S <=> Member(n, "parameter") # Absent) /\ (b \in S <=> Member(n, "literal") # Absent)
    BY MemberFacts
  <2> HIDE DEF a, b, S
  <2> QED
    BY <2>1, <2>2, OneOfTwo
<1>2. \A m, s : IsOneOf(m, s) => Is("string", m)
  BY DEF IsOneOf
<1>3. ~Is("string", Absent)
  BY DEF Is, Absent
<1>4. "parameter" \in Keys(n) <=> Member(n, "parameter") # Absent
  BY MemberFacts
<1>5. ValidBinding(n, declared) <=>
        \/ IsOneOf(n, DOMAIN References) /\ References[n.string] \in declared
        \/ /\ Is("object", n) /\ Cardinality(S) = 1
           /\ Member(n, "parameter") # Absent => IsOneOf(Member(n, "parameter"), declared)
  BY <1>4 DEF ValidBinding
<1> HIDE DEF S
<1> QED
  BY <1>1, <1>2, <1>3, <1>5, BindingMeans, MemberFacts

(* The two validators agree on every document, but for what only one of     *)
(* them looks at.                                                          *)
LEMMA AgreeFacts ==
    ASSUME SchemaSemantics, NEW n
    PROVE  /\ ValidateManifestStructure(n) /\ ~UnusedDeclaration(n) => ValidateWithJsonSchema(n)
           /\ ValidateWithJsonSchema(n) /\ ~DanglingBinding(n) =>
                (ValidateManifestStructure(n) <=> ~UnfitDefault(n))
<1> DEFINE specification == Member(n, "spec")
           parameters1 == Member(specification, "parameters")
           query1 == Member(specification, "query")
           bindings1 == Member(query1, "bindings")
           declared1 == Keys(parameters1)
<1>1. /\ \A key \in Keys(parameters1) : parameters1.object[key] = Member(parameters1, key)
      /\ \A key \in Keys(bindings1) : bindings1.object[key] = Member(bindings1, key)
  BY MemberFacts
<1>2. UnusedDeclaration(n) <=>
        \E key \in Keys(parameters1) :
            \/ /\ ~IsOneOf(Member(Member(parameters1, key), "type"), {"enum"})
               /\ Member(Member(parameters1, key), "values") # Absent
            \/ /\ ~IsOneOf(Member(Member(parameters1, key), "type"), {"array"})
               /\ Member(Member(parameters1, key), "items") # Absent
  BY <1>1 DEF UnusedDeclaration
<1>3. DanglingBinding(n) <=>
        \E key \in Keys(bindings1) :
            \/ IsOneOf(Member(bindings1, key), DOMAIN References)
               /\ References[Member(bindings1, key).string] \notin declared1
            \/ ~(Member(Member(bindings1, key), "parameter") = Absent
                 \/ IsOneOf(Member(Member(bindings1, key), "parameter"), declared1))
  BY <1>1 DEF DanglingBinding
<1>4. ValidSpec(specification) <=>
        /\ Is("object", specification)
        /\ query1 # Absent => ValidQuery(query1, declared1)
        /\ AbsentOr("object", parameters1)
        /\ \A key \in Keys(parameters1) : ValidParameter(Member(parameters1, key))
        /\ Member(specification, "dataset") # Absent =>
            Is("object", Member(Member(specification, "dataset"), "fields"))
        /\ \A key \in Keys(Member(Member(specification, "dataset"), "fields")) :
            ValidField(Member(Member(Member(specification, "dataset"), "fields"), key))
        /\ ValidTransforms(Member(specification, "transforms"))
        /\ Member(specification, "presentation") # Absent =>
            NonEmptyString(Member(Member(specification, "presentation"), "type"))
  BY DEF ValidSpec
<1>5. Accepts(SpecSchema, specification) <=>
        /\ Is("object", specification)
        /\ AbsentOr("object", parameters1)
        /\ \A key \in Keys(parameters1) : Accepts(ParameterSchema, Member(parameters1, key))
        /\ query1 # Absent => Accepts(QuerySchema, query1)
        /\ Member(specification, "dataset") # Absent =>
            Is("object", Member(Member(specification, "dataset"), "fields"))
        /\ \A key \in Keys(Member(Member(specification, "dataset"), "fields")) :
            ValidField(Member(Member(Member(specification, "dataset"), "fields"), key))
        /\ ValidTransforms(Member(specification, "transforms"))
        /\ Member(specification, "presentation") # Absent =>
            NonEmptyString(Member(Member(specification, "presentation"), "type"))
  BY SpecMeans
<1>6. ValidQuery(query1, declared1) =>
        /\ \A key \in Keys(bindings1) : ValidBinding(Member(bindings1, key), declared1)
        /\ NonEmptyString(Member(query1, "source")) /\ NonEmptyString(Member(query1, "language"))
        /\ Member(query1, "statement") # Absent
        /\ AbsentOr("object", bindings1)
  BY DEF ValidQuery
<1>7. /\ Is("object", query1) /\ NonEmptyString(Member(query1, "source"))
      /\ NonEmptyString(Member(query1, "language"))
      /\ Member(query1, "statement") # Absent
      /\ AbsentOr("object", bindings1)
      /\ \A key \in Keys(bindings1) : ValidBinding(Member(bindings1, key), declared1)
      => ValidQuery(query1, declared1)
  BY DEF ValidQuery
<1>8. Accepts(QuerySchema, query1) <=>
        /\ NonEmptyString(Member(query1, "source")) /\ NonEmptyString(Member(query1, "language"))
        /\ Member(query1, "statement") # Absent
        /\ AbsentOr("object", bindings1)
        /\ \A key \in Keys(bindings1) : Accepts(BindingSchema, Member(bindings1, key))
  BY QueryMeans
<1>9. Member(query1, "statement") # Absent => Is("object", query1)
  BY MemberFacts
<1>10. /\ ValidateManifestStructure(n) => ValidSpec(specification)
       /\ ValidateWithJsonSchema(n) => Accepts(SpecSchema, specification)
       /\ ValidateManifestStructure(n) /\ Accepts(SpecSchema, specification) => ValidateWithJsonSchema(n)
       /\ ValidateWithJsonSchema(n) /\ ValidSpec(specification) => ValidateManifestStructure(n)
  BY QSpecMeans DEF ValidateManifestStructure
<1>11. UnfitDefault(n) <=> \E key \in Keys(parameters1) : ~DefaultFits(Member(parameters1, key))
  BY <1>1 DEF UnfitDefault, DefaultFits
<1> HIDE DEF specification, parameters1, query1, bindings1, declared1
<1>12. ValidSpec(specification) => \A key \in Keys(parameters1) : DefaultFits(Member(parameters1, key))
  BY <1>4 DEF ValidParameter
<1>13. ASSUME ValidSpec(specification), ~UnusedDeclaration(n)
       PROVE  Accepts(SpecSchema, specification)
  <2>1. \A key \in Keys(parameters1) : Accepts(ParameterSchema, Member(parameters1, key))
    <3> SUFFICES ASSUME NEW key \in Keys(parameters1)
                 PROVE  Accepts(ParameterSchema, Member(parameters1, key))
      OBVIOUS
    <3> DEFINE m == Member(parameters1, key)
    <3>1. /\ Member(m, "values") # Absent => IsOneOf(Member(m, "type"), {"enum"})
          /\ Member(m, "items") # Absent => IsOneOf(Member(m, "type"), {"array"})
      BY <1>2, <1>13
    <3>2. ValidParameter(m)
      BY <1>4, <1>13
    <3> HIDE DEF m
    <3>3. Accepts(ParameterSchema, m)
      BY <3>1, <3>2, SameParameter
    <3> QED
      BY <3>3 DEF m
  <2>2. query1 # Absent => Accepts(QuerySchema, query1)
    <3>1. \A key : ValidBinding(Member(bindings1, key), declared1) =>
                    Accepts(BindingSchema, Member(bindings1, key))
      BY SameBinding
    <3> QED
      BY <1>4, <1>6, <1>8, <1>13, <3>1
  <2> QED
    BY <1>4, <1>5, <1>13, <2>1, <2>2
<1>14. ASSUME Accepts(SpecSchema, specification), ~DanglingBinding(n), ~UnfitDefault(n)
       PROVE  ValidSpec(specification)
  <2>1. \A key \in Keys(parameters1) : ValidParameter(Member(parameters1, key))
    BY <1>5, <1>11, <1>14, SameParameter
  <2>2. query1 # Absent => ValidQuery(query1, declared1)
    <3> SUFFICES ASSUME query1 # Absent
                 PROVE  ValidQuery(query1, declared1)
      OBVIOUS
    <3>1. Accepts(QuerySchema, query1)
      BY <1>5, <1>14
    <3>2. \A key \in Keys(bindings1) : ValidBinding(Member(bindings1, key), declared1)
      <4> SUFFICES ASSUME NEW key \in Keys(bindings1)
                   PROVE  ValidBinding(Member(bindings1, key), declared1)
        OBVIOUS
      <4> DEFINE m == Member(bindings1, key)
      <4>1. /\ IsOneOf(m, DOMAIN References) => References[m.string] \in declared1
            /\ Member(m, "parameter") = Absent \/ IsOneOf(Member(m, "parameter"), declared1)
        BY <1>3, <1>14
      <4>2. Accepts(BindingSchema, m)
        BY <1>8, <3>1
      <4> HIDE DEF m
      <4>3. ValidBinding(m, declared1)
        BY <4>1, <4>2, SameBinding
      <4> QED
        BY <4>3 DEF m
    <3> QED
      BY <1>7, <1>8, <1>9, <3>1, <3>2
  <2> QED
    BY <1>4, <1>5, <1>14, <2>1, <2>2
<1> QED
  BY <1>10, <1>11, <1>12, <1>13, <1>14

(* ValidatorsAgree (the two validators of the structure accept the same     *)
(* manifests, but for what one of them does not look at):                   *)
(* packages/core/src/internal/validate/manifest.ts:181-517 and              *)
(* schemas/v1/qspec.json.                                                   *)
THEOREM ValidatorsTheorem ==
    ASSUME SchemaSemantics
    PROVE  Program => []ValidatorsAgree
<1>1. ValidatorsAgree
  BY AgreeFacts DEF ValidatorsAgree
<1> QED
  BY <1>1, PTL
=============================================================================
