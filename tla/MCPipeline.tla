----------------------------- MODULE MCPipeline -----------------------------
(* Names that take part in every way a name can be taken twice: "a", "b"    *)
(* and "a_2", the name a repeated "a" gets.                                 *)
EXTENDS Pipeline, TLC

CONSTANTS wordA, wordB     \* model values, the words "a" and "b"

A == <<wordA>>
B == <<wordB>>
A2 == <<wordA, 2>>
MCWords == {wordA, wordB}
MCNames == {A, B, A2, <<wordB, 2>>, <<wordA, 3>>, <<wordA, 2, 2>>}

FieldOf(name) == [operator |-> "field", name |-> name]
Literal(cell) == [operator |-> "literal", value |-> cell]
Op(operator, arguments) == [operator |-> operator, arguments |-> arguments]

One == [type |-> "number", value |-> 1]
Two == [type |-> "number", value |-> 2]
Zero == [type |-> "number", value |-> 0]
Text == [type |-> "string", value |-> 1]
List == [type |-> "array", elements |-> {One, Null}]

(* A few for the pipelines, some of which normalizeExpression rejects ...   *)
Increment == Op("add", <<FieldOf(A), Literal(One)>>)
ByZero == Op("divide", <<FieldOf(A), Literal(Zero)>>)
Missing == Op("coalesce", <<FieldOf(B), FieldOf(A)>>)
OfB == FieldOf(B)
AtMostOne == Op("lte", <<FieldOf(A), Literal(One)>>)
NoArguments == Op("not", <<>>)
TooDeep == Op("not", <<Op("isNull", <<FieldOf(A)>>)>>)

(* ... and one of every other operator.                                     *)
Wide ==
    {Op(o, <<FieldOf(A), Literal(One)>>) :
        o \in {"eq", "ne", "gt", "gte", "lt", "subtract", "multiply", "and", "or", "power"}}
    \cup {Op("in", <<FieldOf(A), Literal(List)>>), Literal(List)}

MCExpressions ==
    {FieldOf(A), OfB, Literal(One), Literal(Zero), Increment, ByZero, Missing, AtMostOne,
     NoArguments, TooDeep, Op("isNull", <<FieldOf(A)>>)} \cup Wide

Field(name, nullable) == [name |-> name, nullable |-> nullable]
MCSchemas ==
    {Undefined, <<Field(A, FALSE)>>, <<Field(A, FALSE), Field(B, TRUE)>>, <<Field(A2, TRUE)>>}

Rename(renames) == [type |-> "rename", renames |-> renames]
Select(names) == [type |-> "select", names |-> names]
Derive(field, expression) == [type |-> "derive", field |-> field, expression |-> expression]
Filter(expression) == [type |-> "filter", expression |-> expression]
Sort(field, descending) == [type |-> "sort", field |-> field, descending |-> descending]

MCTransforms ==
    {Derive(B, Increment), Derive(A2, OfB), Derive(B, ByZero), Filter(AtMostOne), Filter(Missing),
     Filter(TooDeep), Derive(A2, NoArguments),
     Rename(A :> B), Rename(A :> B @@ B :> A), Rename(B :> A2),
     Select(<<B, A>>), Select(<<A>>), Sort(A, FALSE), Sort(A, TRUE),
     [type |-> "limit", offset |-> 1, count |-> 1], [type |-> "opaque"]}

Pipelines(transforms) ==
    {<<>>} \cup {<<t>> : t \in transforms} \cup {<<t, u>> : t, u \in transforms}

MCManifests ==
    [query : BOOLEAN, schema : MCSchemas, transforms : Pipelines(MCTransforms), chart : {A, B}]
    \cup [query : {TRUE}, schema : {Undefined, <<Field(A, FALSE)>>}, chart : {A},
          transforms : UNION {{<<Derive(B, e)>>, <<Filter(e), Derive(B, e)>>} : e \in Wide}]
    \cup [query : {TRUE}, schema : MCSchemas, transforms : {<<Sort(A, TRUE), Sort(A, TRUE), Sort(A, TRUE)>>},
          chart : {A}]

Rows(width, cells, count) == UNION {[1 .. n -> [1 .. width -> cells]] : n \in 0 .. count}

MCResults ==
    [columns : {<<A>>}, rows : Rows(1, {One, Two, Null}, 3) \cup {<<<<One>>, <<Two>>, <<One>>, <<Null>>>>}]
    \cup [columns : {<<A>>}, rows : {<<<<Two>>, <<Text>>, <<One>>>>, <<<<Text>>, <<Null>>, <<Two>>>>}]
    \cup [columns : {<<A, A, A2>>, <<A, A2, A>>}, rows : {<<>>}]
    \cup [columns : {<<A, B>>, <<B, A>>, <<A, A>>}, rows : Rows(2, {One, Null}, 2)]
=============================================================================
