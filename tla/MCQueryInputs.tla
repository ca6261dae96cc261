---------------------------- MODULE MCQueryInputs ----------------------------
(* Declarations with every kind of rule and of defect, bindings of every    *)
(* form, and values on both sides of every bound.                           *)
EXTENDS QueryInputs, TLC

Number(n) == [kind |-> "number", n |-> n, integral |-> TRUE]
Fraction == [kind |-> "number", n |-> 1, integral |-> FALSE]
String(length, spells, real) == [kind |-> "string", length |-> length, spells |-> spells, real |-> real]
Word == String(1, "text", FALSE)
Day == String(2, "date", TRUE)
Array(items) == [kind |-> "array", items |-> items]

MCParameterNames == {"from", "limit"}
MCBindingNames == {"x", "y"}

MCValues ==
    {Null, Undefined, Number(1), Number(3), Fraction, [kind |-> "nonfinite"], [kind |-> "boolean"],
     Word, String(0, "text", FALSE), Day, String(2, "date", FALSE), String(2, "datetime", TRUE),
     Array(<<>>), Array(<<Number(1)>>), Array(<<Word>>), Array(<<Number(1), Number(3)>>)}

Plain(type) ==
    [type |-> type, required |-> FALSE, default |-> {}, values |-> {}, items |-> {}, wellFormedRules |-> TRUE,
     min |-> {}, max |-> {}, minLength |-> {}, maxLength |-> {}]

(* One parameter of each kind.                                              *)
MCDeclarations ==
    {[Plain("integer") EXCEPT !.min = {2}, !.default = {v}] : v \in {Number(3), Number(1), Null}}
    \cup {[Plain("integer") EXCEPT !.max = {2}, !.required = r] : r \in BOOLEAN}
    \cup {[Plain("number") EXCEPT !.default = {Undefined}, !.required = TRUE], [Plain("boolean") EXCEPT !.wellFormedRules = FALSE]}
    \cup {[Plain(t) EXCEPT !.required = (t = "date")] : t \in {"boolean", "date", "datetime", "money"}}
    \cup {[Plain("string") EXCEPT !.minLength = {1}, !.maxLength = {1}, !.default = d] : d \in {{}, {Word}, {Day}}}
    \cup {[Plain("enum") EXCEPT !.values = v, !.default = {Word}] : v \in {{}, {Word}, {Number(1), Null}}}
    \cup {[Plain("array") EXCEPT !.items = t, !.minLength = {1}, !.maxLength = {1}, !.default = d] :
            t \in {{}, {"integer"}, {"array"}}, d \in {{}, {Array(<<Word>>)}, {Array(<<Number(1)>>)}}}

Object(parameter, literal) == [form |-> "object", parameter |-> parameter, literal |-> literal]
MCBindings ==
    {[form |-> "string", reads |-> r] : r \in {{}, {"from"}, {"limit"}}} \cup {[form |-> "other"]}
    \cup {Object({"limit"}, {}), Object({"5"}, {}), Object({}, {}), Object({"5"}, {Word}), Object({}, {Null}),
          Object({}, {Word}), Object({}, {Undefined})}

Statement(names, positional) == [parameterNames |-> names, positional |-> positional]
MCStatements ==
    {Statement(<<>>, FALSE), Statement(<<"x">>, FALSE), Statement(<<"x">>, TRUE),
     Statement(<<"y", "x">>, FALSE), Statement(<<"x", "y", "x">>, FALSE)}

Functions(A, B) == UNION {[S -> B] : S \in SUBSET A}

(* Two parameters, to be mixed up.                                          *)
Few == {[Plain("integer") EXCEPT !.min = {2}, !.default = {Number(3)}],
        [Plain("string") EXCEPT !.required = TRUE], Plain("enum")}

MCSpecs ==
    [parameters : [{"from"} -> MCDeclarations], bindings : {"x" :> [form |-> "string", reads |-> {"from"}]},
     statement : {Statement(<<"x">>, FALSE)}]
    \cup [parameters : Functions(MCParameterNames, Few), bindings : Functions(MCBindingNames, MCBindings),
          statement : MCStatements]

MCInputs ==
    UNION {[{p} -> MCValues] : p \in {"from", "unknown"}}
    \cup Functions(MCParameterNames, {Null, Number(1), Number(3), Word})
=============================================================================
