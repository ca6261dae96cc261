------------------------------ MODULE MCCharts ------------------------------
(* Columns "a" (the x), "b" and "c" (values) and "g" (the group), and        *)
(* presentations that are sound or not in each of their parts.              *)
EXTENDS Charts, TLC

Number(text) == [type |-> "number", text |-> text]
String(text) == [type |-> "string", text |-> text]

MCIndices == <<"0", "1", "2">>

Leaf(path, value) == path :> value
Line == Leaf(<<"type">>, "line")

(* What `x`, `series`, `y` and `legend` may hold.                           *)
NoLeaves == [path \in {} |-> Other]
Xs == {NoLeaves, Leaf(<<"x">>, Other), Leaf(XField, ""), Leaf(XField, Other), Leaf(XField, "a"),
       Leaf(XField, "lost"), Leaf(XField, "a") @@ Leaf(<<"x", "label">>, Other)}
Ys == {NoLeaves, Leaf(<<"y">>, Other), Leaf(<<"y", "label">>, ""), Leaf(<<"y", "label">>, Boolean),
       Leaf(<<"y", "label", "a">>, "b")}
Displays == {NoLeaves, Leaf(<<"legend">>, Other), Leaf(<<"legend", "visible">>, Boolean),
             Leaf(<<"tooltip", "visible">>, "b"), Leaf(<<"drill", "field">>, "b")}
Explicit(i, field) == Leaf(SeriesField(i), field)
GroupedBy(field, groupBy) == Leaf(YField, field) @@ Leaf(GroupBy, groupBy)
Series ==
    {NoLeaves, Leaf(<<"series">>, Other), Leaf(<<"series", "0">>, Other), Explicit(1, "b"),
     Explicit(1, "b") @@ Explicit(2, "c"), Explicit(1, "b") @@ Explicit(2, "b"),
     Explicit(1, "b") @@ Leaf(<<"series", "1">>, Other),
     Explicit(1, "b") @@ Leaf(<<"series", "0", "label">>, Boolean),
     GroupedBy("b", "g"), GroupedBy("b", "lost"), GroupedBy("b", ""), GroupedBy("", "g"),
     Leaf(YField, "b"), GroupedBy("b", "g") @@ Leaf(<<"series", "label">>, "a")}
Slices ==
    {Leaf(CategoryField, c) @@ Leaf(ValueField, v) : c \in {"a", "lost", ""}, v \in {"b", Other}}
    \cup {Leaf(CategoryField, "a"), Leaf(CategoryField, "a") @@ Leaf(ValueField, "lost")}

Presentations ==
    {Line @@ x @@ series @@ y @@ display : x \in Xs, series \in Series, y \in Ys, display \in Displays}
    \cup {Leaf(<<"type">>, "pie") @@ slices @@ display : slices \in Slices, display \in Displays}
    \cup {Leaf(<<"type">>, type) @@ Leaf(XField, "a") @@ series :
            type \in {"scatter", "map", "unknown"}, series \in {Explicit(1, "c"), GroupedBy("b", "g")}}

Row(a, b, c, g) == [a |-> a, b |-> b, c |-> c, g |-> g]
Dataset(rows) == [fields |-> <<"a", "b", "c", "g">>, numeric |-> {"b"}, rows |-> rows]
Few == {Dataset(<<>>), Dataset(<<Row(Number("1"), Number("10"), Number("20"), String("s")),
                               Row(Null, Number("11"), Null, Null)>>)}

(* Every x in three rows, with values that name their row.                  *)
Rows ==
    UNION {{[i \in 1 .. n |->
                Row(xs[i], IF i = missing THEN Null ELSE Number(ToString(10 + i)),
                    Number(ToString(20 + i)), gs[i])] :
            xs \in [1 .. n -> {Null, Number("1"), String("1"), String("")}],
            gs \in [1 .. n -> {Null, Number("1"), String("1"), String("")}],
            missing \in {0, 2}} : n \in 0 .. 3}
Drawn ==
    {Leaf(<<"type">>, type) @@ Leaf(XField, "a") @@ series :
        type \in {"bar", "scatter"},
        series \in {Explicit(1, "b") @@ Explicit(2, "c"), GroupedBy("b", "g")}}
    \cup {Leaf(<<"type">>, "area") @@ Leaf(XField, "b") @@ GroupedBy("c", "a"),
          Leaf(<<"type">>, "pie") @@ Leaf(CategoryField, "a") @@ Leaf(ValueField, "b")}

MCCases ==
    [presentation : Presentations, dataset : Few,
     projected : {Undefined, {}, {"a", "b"}, {"a", "b", "c", "g"}}]
    \cup [presentation : Drawn, dataset : {Dataset(rows) : rows \in Rows},
          projected : {{"a", "b", "c", "g"}}]
=============================================================================
