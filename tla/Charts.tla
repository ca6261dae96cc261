-------------------------------- MODULE Charts --------------------------------
(***************************************************************************)
(* A chart from its declaration to what is drawn: packages/charts checks   *)
(* the presentation and resolves its series, prepare() checks the fields   *)
(* it names (packages/core/src/internal/validate/presentation.ts),         *)
(* packages/recharts draws it, and `qspec inspect` lists the fields it     *)
(* names without asking the plugin (packages/cli/src/commands/inspect.ts). *)
(*                                                                         *)
(* A presentation is the JSON object flattened: a function from the paths  *)
(* of its leaves to what they hold.  A leaf is a string, Boolean or Other: *)
(* a number, null or [].  {} has no leaves, except as the entry of an      *)
(* array, where it is Other.                                               *)
(***************************************************************************)
EXTENDS Naturals, FiniteSetsExt, SequencesExt

CONSTANTS
    Null,           \* a cell that is null or undefined
    Undefined,      \* no projection
    Boolean, Other, \* leaves that are not strings
    NonEmpty,       \* the strings of a presentation that are not ""
    Indices,        \* the keys of an array: "0", "1", ...
    Registered,     \* the presentation types of the runtime
    Cases           \* presentations, datasets and projections, see ChartsAssumption

Strings == NonEmpty \cup {""}

(* A cell that is neither null nor undefined is its typeof and its String().*)
Cells == [type : STRING, text : STRING] \cup {Null}

VARIABLES
    case,       \* the presentation, the dataset and prepare()'s projection
    phase,      \* "manifest", "prepared", "rejected", "drawn" or "failed"
    chart,      \* what is drawn, or Undefined
    error       \* why it is not: "none" or the code of the error

vars == <<case, phase, chart, error>>

TypeOK ==
    /\ case \in Cases
    /\ phase \in {"manifest", "prepared", "rejected", "drawn", "failed"}
    /\ error \in {"none", "FIELD_MISSING", "TYPE_UNSUPPORTED", "DUPLICATE_X"}
    /\ (chart # Undefined) = (phase = "drawn")

-----------------------------------------------------------------------------
(* Reading a presentation.                                                 *)

At(p, path) == IF path \in DOMAIN p THEN p[path] ELSE Undefined
Has(p, path) == \E q \in DOMAIN p : IsPrefix(path, q)
IsObject(p, path) ==
    \E q \in DOMAIN p : IsStrictPrefix(path, q) /\ q[Len(path) + 1] \notin ToSet(Indices)
Entries(p, path) ==
    {i \in DOMAIN Indices : \E q \in DOMAIN p : IsPrefix(Append(path, Indices[i]), q)}

IsNonEmptyString(p, path) == At(p, path) \in NonEmpty

(* An array has no holes, and no key of an object looks like an index.  A   *)
(* projection is what the rows have, see Pipeline!ProjectionIsDelivered.    *)
ASSUME ChartsAssumption ==
    /\ Indices \in Seq(STRING)
    /\ Undefined \notin Strings /\ Null \notin [type : STRING, text : STRING]
    /\ \A c \in Cases :
        /\ \E n \in 0 .. Len(Indices) : Entries(c.presentation, <<"series">>) = 1 .. n
        /\ IsObject(c.presentation, <<"series">>) => Entries(c.presentation, <<"series">>) = {}
        /\ c.projected = Undefined \/ c.projected \subseteq ToSet(c.dataset.fields)
        /\ c.dataset.rows \in Seq([ToSet(c.dataset.fields) -> Cells])

Cartesian == {"line", "bar", "area", "scatter"}
TypeOf(p) == p[<<"type">>]
Grouped(p) == Entries(p, <<"series">>) = {}
SeriesField(i) == <<"series", Indices[i], "field">>
XField == <<"x", "field">>
YField == <<"series", "field">>
GroupBy == <<"series", "groupBy">>
CategoryField == <<"category", "field">>
ValueField == <<"value", "field">>

-----------------------------------------------------------------------------
(* The plugin's validators and the fields they report.                     *)

Optional(p, path, leaves) == Has(p, path) => At(p, path) \in leaves
ValidLabel(p, path) == Optional(p, Append(path, "label"), Strings)

ValidDisplay(p, name) ==
    Has(p, <<name>>) => IsObject(p, <<name>>) /\ Optional(p, <<name, "visible">>, {Boolean})

ValidSeries(p) ==
    LET entries == Entries(p, <<"series">>)
    IN \/ /\ entries # {}
          /\ \A i \in entries :
                /\ IsNonEmptyString(p, SeriesField(i)) /\ ValidLabel(p, <<"series", Indices[i]>>)
                /\ \A j \in entries : p[SeriesField(i)] = At(p, SeriesField(j)) => i = j
       \/ /\ IsObject(p, <<"series">>)
          /\ IsNonEmptyString(p, YField) /\ IsNonEmptyString(p, GroupBy)
          /\ ValidLabel(p, <<"series">>)

ValidateCartesian(p) ==
    /\ IsNonEmptyString(p, XField) /\ ValidLabel(p, <<"x">>)
    /\ ValidSeries(p)
    /\ Has(p, <<"y">>) => IsObject(p, <<"y">>) /\ ValidLabel(p, <<"y">>)

ValidatePie(p) ==
    /\ IsNonEmptyString(p, CategoryField) /\ ValidLabel(p, <<"category">>)
    /\ IsNonEmptyString(p, ValueField) /\ ValidLabel(p, <<"value">>)

Validate(p) ==
    /\ IF TypeOf(p) = "pie" THEN ValidatePie(p) ELSE ValidateCartesian(p)
    /\ ValidDisplay(p, "legend") /\ ValidDisplay(p, "tooltip")

(* Mutant: the column that partitions the rows is not reported.            *)
FieldReferences_NoGroupBy(p) ==
    {p[path] : path \in {q \in {XField, YField, CategoryField, ValueField}
                              \cup {SeriesField(i) : i \in DOMAIN Indices} : IsNonEmptyString(p, q)}}

FieldReferences(p) ==
    {p[path] : path \in {q \in (IF TypeOf(p) = "pie"
                                THEN {CategoryField, ValueField}
                                ELSE {XField, YField, GroupBy}
                                     \cup {SeriesField(i) : i \in DOMAIN Indices}) :
                         IsNonEmptyString(p, q)}}

(* Stage 6 of the validation: without a projection the plugin alone decides.*)
ValidPresentation(p, projected) ==
    /\ Validate(p)
    /\ projected = Undefined \/ FieldReferences(p) \subseteq projected

Prepare ==
    /\ phase = "manifest"
    /\ LET p == case.presentation
       IN phase' = IF TypeOf(p) \in Registered /\ ValidPresentation(p, case.projected)
                   THEN "prepared" ELSE "rejected"
    /\ UNCHANGED <<case, chart, error>>

(* `qspec inspect` reads the same fields structurally: every string under   *)
(* the key field or groupBy, of any presentation, listed per top-level key. *)
CollectFieldReferences(p) ==
    {path \in DOMAIN p : path[Len(path)] \in {"field", "groupBy"} /\ p[path] \in Strings}

(* Mutant: inspect knows only the key "field".                             *)
PresentationFieldReferences_FieldOnly(p) ==
    {path \in CollectFieldReferences(p) : path[Len(path)] = "field"}

PresentationFieldReferences(p) == {path \in CollectFieldReferences(p) : path[1] # "type"}

GroupFieldReferences(p) ==
    [key \in {path[1] : path \in PresentationFieldReferences(p)} |->
        {p[path] : path \in {q \in PresentationFieldReferences(p) : q[1] = key}}]

(* The members of a set, each before those it precedes.                     *)
InOrder(S, precedes(_, _)) ==
    CHOOSE s \in [1 .. Cardinality(S) -> S] :
        \A k, l \in 1 .. Cardinality(S) : k < l => precedes(s[k], s[l])

Ascending(S) == InOrder(S, <)

-----------------------------------------------------------------------------
(* resolveSeries(): series of points, each with the index of its row.      *)

Cell(row, name) == IF name \in DOMAIN row THEN row[name] ELSE Null

(* null, undefined and "" share a group, as do 1 and "1".                   *)
GroupKey(cell) == IF cell = Null THEN "" ELSE cell.text

PointsOf(rows, indices, x, y) ==
    [k \in DOMAIN indices |->
        [x |-> Cell(rows[indices[k]], x), y |-> Cell(rows[indices[k]], y), index |-> indices[k]]]

(* Series by first appearance of the group, as a Map keeps them.           *)
GroupKeys(rows, groupBy) ==
    LET key(i) == GroupKey(Cell(rows[i], groupBy))
        first == {i \in DOMAIN rows : \A j \in 1 .. i - 1 : key(j) # key(i)}
        order == Ascending(first)
    IN [k \in DOMAIN order |-> key(order[k])]

ResolveSeries(rows, p) ==
    LET all == [i \in DOMAIN rows |-> i]
        keys == GroupKeys(rows, p[GroupBy])
        group(key) == Ascending({i \in DOMAIN rows : GroupKey(Cell(rows[i], p[GroupBy])) = key})
    IN IF Grouped(p)
       THEN [k \in DOMAIN keys |->
                [key |-> keys[k], points |-> PointsOf(rows, group(keys[k]), p[XField], p[YField])]]
       ELSE [i \in 1 .. Cardinality(Entries(p, <<"series">>)) |->
                [key |-> p[SeriesField(i)],
                 points |-> PointsOf(rows, all, p[XField], p[SeriesField(i)])]]

-----------------------------------------------------------------------------
(* The renderers.                                                          *)

(* Mutants: two cells that print alike are one x; a table in the order the  *)
(* series were walked.                                                      *)
XIdentity_String(cell) == cell.text
Precedes_BySeries(a, b) ==
    a.series < b.series \/ (a.series = b.series /\ a.minIndex < b.minIndex)

XIdentity(cell) == <<cell.type, cell.text>>
Precedes(a, b) == a.minIndex < b.minIndex

Placed(points) == {k \in DOMAIN points : points[k].x # Null}

DuplicateX(series) ==
    \E s \in DOMAIN series : \E k, l \in Placed(series[s].points) :
        k # l /\ XIdentity(series[s].points[k].x) = XIdentity(series[s].points[l].x)

(* buildWideRows(): one row per x, a slot per series, by earliest index.    *)
WideRow(series, x) ==
    LET at(s) == {k \in Placed(series[s].points) : XIdentity(series[s].points[k].x) = x}
        visited == {s \in DOMAIN series : at(s) # {}}
        first == CHOOSE s \in visited : \A t \in visited : s <= t
        point(s) == series[s].points[CHOOSE k \in at(s) : TRUE]
    IN [x |-> point(first).x, series |-> first,
        values |-> [s \in DOMAIN series |-> IF s \in visited THEN point(s).y ELSE Null],
        minIndex |-> Min({point(s).index : s \in visited})]

BuildWideRows(series) ==
    LET xs == UNION {{XIdentity(series[s].points[k].x) : k \in Placed(series[s].points)} :
                        s \in DOMAIN series}
    IN InOrder({WideRow(series, x) : x \in xs}, Precedes)

BuildPieRows(rows, p) ==
    [i \in DOMAIN rows |-> [name |-> Cell(rows[i], p[CategoryField]),
                            value |-> Cell(rows[i], p[ValueField])]]

ScatterAxisType(dataset, names) ==
    IF names # {} /\ names \subseteq dataset.numeric THEN "number" ELSE "category"

ScatterYFields(p) ==
    IF Grouped(p) THEN {p[YField]} ELSE {p[SeriesField(i)] : i \in Entries(p, <<"series">>)}

Renderers == {"line", "bar", "area", "scatter", "pie"}

Fail(code) == /\ phase' = "failed" /\ error' = code
              /\ UNCHANGED <<case, chart>>

Draw(picture) == /\ phase' = "drawn" /\ chart' = picture
                 /\ UNCHANGED <<case, error>>

(* assertFieldsPresent() of the two renderers.                             *)
RequiredFields(p) ==
    IF TypeOf(p) = "pie" THEN {p[CategoryField], p[ValueField]}
    ELSE {p[XField]} \cup (IF Grouped(p) THEN {p[YField], p[GroupBy]} ELSE ScatterYFields(p))

FieldsPresent == RequiredFields(case.presentation) \subseteq ToSet(case.dataset.fields)

(* QSpecChart looks the renderer up, which first looks for the fields.      *)
Refuse ==
    /\ phase = "prepared"
    /\ \/ TypeOf(case.presentation) \notin Renderers /\ Fail("TYPE_UNSUPPORTED")
       \/ /\ TypeOf(case.presentation) \in Renderers /\ ~FieldsPresent
          /\ Fail("FIELD_MISSING")

Drawable(types) ==
    /\ phase = "prepared" /\ FieldsPresent
    /\ TypeOf(case.presentation) \in types \cap Renderers

DrawWide ==
    LET series == ResolveSeries(case.dataset.rows, case.presentation)
    IN /\ Drawable({"line", "bar", "area"})
       /\ IF DuplicateX(series) THEN Fail("DUPLICATE_X")
          ELSE Draw([rows |-> BuildWideRows(series), keys |-> [s \in DOMAIN series |-> series[s].key]])

DrawScatter ==
    LET p == case.presentation
    IN /\ Drawable({"scatter"})
       /\ Draw([series |-> ResolveSeries(case.dataset.rows, p),
                xType |-> ScatterAxisType(case.dataset, {p[XField]}),
                yType |-> ScatterAxisType(case.dataset, ScatterYFields(p))])

DrawPie == Drawable({"pie"}) /\ Draw([slices |-> BuildPieRows(case.dataset.rows, case.presentation)])

Init ==
    /\ case \in Cases
    /\ phase = "manifest" /\ chart = Undefined /\ error = "none"

Next == Prepare \/ Refuse \/ DrawWide \/ DrawScatter \/ DrawPie

Spec == Init /\ [][Next]_vars

-----------------------------------------------------------------------------
(* A prepared chart whose fields are known draws, whatever the rows: the    *)
(* renderers ask for no field and no type that prepare() did not, and only  *)
(* two rows of one series at the same x are refused (presentation.ts:16-64, *)
(* recharts/cartesian.tsx:66-105, 180-187, qspec-chart.tsx:113-123).        *)
PreparedIsDrawable ==
    phase = "failed" /\ case.projected # Undefined /\ TypeOf(case.presentation) \in Renderers =>
        /\ error = "DUPLICATE_X"
        /\ LET p == case.presentation
               row(i) == case.dataset.rows[i]
               group(i) == IF Grouped(p) THEN GroupKey(row(i)[p[GroupBy]]) ELSE ""
           IN \E i, j \in DOMAIN case.dataset.rows :
                /\ i # j /\ group(i) = group(j)
                /\ row(i)[p[XField]] = row(j)[p[XField]] /\ row(i)[p[XField]] # Null

(* What is drawn is the dataset: each value of a row with an x is in its     *)
(* own series at its own x and nowhere else, and no other value is drawn;   *)
(* a scatter and a pie draw every row (resolve-series.ts:28-85,             *)
(* recharts/cartesian.tsx:163-191, pie.tsx:64-70).                          *)
EveryRowIsDrawnOnce ==
    LET p == case.presentation
        rows == case.dataset.rows
        value(i, s) ==      \* the value of row i in series s
            IF ~Grouped(p) THEN rows[i][p[SeriesField(s)]]
            ELSE IF GroupKey(rows[i][p[GroupBy]]) = chart.keys[s] THEN rows[i][p[YField]] ELSE Null
        placed == {i \in DOMAIN rows : rows[i][p[XField]] # Null}
    IN phase = "drawn" =>
        CASE TypeOf(p) = "pie" -> Len(chart.slices) = Len(rows)
          [] TypeOf(p) = "scatter" ->
                \A i \in DOMAIN rows : \E s \in DOMAIN chart.series :
                    \E k \in DOMAIN chart.series[s].points :
                        chart.series[s].points[k].index = i
          [] OTHER ->
                /\ \A i \in placed : Cardinality({w \in DOMAIN chart.rows :
                                        chart.rows[w].x = rows[i][p[XField]]}) = 1
                /\ \A w \in DOMAIN chart.rows : \A s \in DOMAIN chart.keys :
                    LET there == {value(i, s) : i \in {j \in placed :
                                        rows[j][p[XField]] = chart.rows[w].x}} \ {Null}
                    IN there = {chart.rows[w].values[s]} \ {Null}

(* The axis is in the order of the dataset, however the rows were           *)
(* partitioned into series (recharts/cartesian.tsx:193-195).                *)
AxisInDatasetOrder ==
    LET rows == case.dataset.rows
        first(x) == Min({i \in DOMAIN rows : rows[i][case.presentation[XField]] = x})
    IN phase = "drawn" /\ TypeOf(case.presentation) \in {"line", "bar", "area"} =>
        \A v, w \in DOMAIN chart.rows :
            v < w => first(chart.rows[v].x) < first(chart.rows[w].x)

(* `qspec inspect` lists every field that prepare() checks, although it     *)
(* knows no plugin (inspect.ts:85-114, 169-189).                            *)
InspectListsTheReferences ==
    phase # "manifest" /\ phase # "rejected" =>
        FieldReferences(case.presentation)
            \subseteq UNION {GroupFieldReferences(case.presentation)[key] :
                            key \in DOMAIN GroupFieldReferences(case.presentation)}
=============================================================================
