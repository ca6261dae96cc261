------------------------------ MODULE Pipeline ------------------------------
(***************************************************************************)
(* What happens to data: prepare() projects the declared fields through    *)
(* the transforms (packages/core/src/internal/prepare.ts), execute()       *)
(* normalises what the source returned (normalize-result.ts), validates it *)
(* against the declaration (validate/dataset.ts) and folds it through the  *)
(* transforms of packages/transforms.                                      *)
(*                                                                         *)
(* A name is a sequence: <<a>> is "a", <<a, 2>> is "a_2".  A field is its  *)
(* name and whether it may be null; its type, label and format are carried *)
(* along and never read.                                                   *)
(***************************************************************************)
EXTENDS Expressions, SequencesExt

CONSTANTS
    Words, Names,   \* names of columns and fields, and what they begin with
    Types, Values,  \* of a cell the source returns
    Undefined,      \* no declared schema, no projection
    Manifests,      \* what a manifest may declare, see TypeOK
    Results,        \* what a source may return, see TypeOK
    MaxTransforms, MaxRows  \* the runtime's limits

Cells == [type : Types, value : Values] \cup {Null}

Fields == [name : Names, nullable : BOOLEAN]

(* The declarations of the six built-in transforms, and of one that has no  *)
(* describe() and leaves its input as it is.                                *)
Transforms ==
    [type : {"rename"}, renames : UNION {[S -> Names] : S \in SUBSET Names}]
    \cup [type : {"select"}, names : Seq(Names)]
    \cup [type : {"derive"}, field : Names, expression : Expressions]
    \cup [type : {"filter"}, expression : Expressions]
    \cup [type : {"sort"}, field : Names, descending : BOOLEAN]
    \cup [type : {"limit"}, offset : Nat, count : Nat]
    \cup [type : {"opaque"}]

NamesOf(fields) == {fields[i].name : i \in DOMAIN fields}
Distinct(fields) == \A i, j \in DOMAIN fields : fields[i].name = fields[j].name => i = j

ASSUME PipelineAssumption ==
    /\ Names \subseteq Seq(Words \cup Nat)
    /\ Values \subseteq Nat /\ MaxTransforms \in Nat /\ MaxRows \in Nat
    /\ \A m \in Manifests :
        /\ m.query \in BOOLEAN /\ m.chart \in Names
        /\ m.transforms \in Seq(Transforms)
        /\ m.schema = Undefined \/ (m.schema \in Seq(Fields) /\ Distinct(m.schema))
    /\ \A raw \in Results :
        /\ raw.columns \in Seq(Names) /\ raw.rows \in Seq(Seq(Cells))
        /\ \A i \in DOMAIN raw.rows : Len(raw.rows[i]) = Len(raw.columns)

VARIABLES
    manifest,   \* the manifest
    stage,      \* "prepare", "prepared", "transform", "done", "rejected" or "failed"
    at,         \* the transform that is next
    projected,  \* prepare()'s static projection
    raw,        \* what the source returned
    dataset     \* the dataset, or the empty one before there is any

vars == <<manifest, stage, at, projected, raw, dataset>>

Empty == [fields |-> <<>>, rows |-> <<>>, truncated |-> FALSE]

TypeOK ==
    /\ manifest \in Manifests
    /\ stage \in {"prepare", "prepared", "transform", "done", "rejected", "failed"}
    /\ at \in 1 .. MaxTransforms + 1
    /\ projected = Undefined \/ projected \in Seq(Fields)
    /\ raw \in Results \cup {Undefined}
    /\ dataset.truncated \in BOOLEAN
    /\ \A i \in DOMAIN dataset.rows : \A n \in DOMAIN dataset.rows[i] :
            dataset.rows[i][n] = Null \/ dataset.rows[i][n].type \in Types

Init ==
    /\ manifest \in Manifests
    /\ stage = "prepare" /\ at = 1
    /\ projected = manifest.schema
    /\ raw = Undefined /\ dataset = Empty

-----------------------------------------------------------------------------
(* The transforms: validate, describe and execute of each.                 *)

(* The entries at the positions of a set, in order.                        *)
Kept(seq, positions) ==
    LET kept[i \in 0 .. Len(seq)] ==
            IF i = 0 THEN <<>>
            ELSE IF i \in positions THEN Append(kept[i - 1], seq[i]) ELSE kept[i - 1]
    IN kept[Len(seq)]

NewName(spec, name) == IF name \in DOMAIN spec.renames THEN spec.renames[name] ELSE name

Renamed(spec, fields) == [i \in DOMAIN fields |-> [fields[i] EXCEPT !.name = NewName(spec, @)]]

(* select finds a field by name in a Map: of two, the last.                 *)
Named(fields, name) == SelectLastInSeq(fields, LAMBDA f : f.name = name)

Selected(spec, fields) ==
    LET present == Kept(spec.names, {i \in DOMAIN spec.names : spec.names[i] \in NamesOf(fields)})
    IN [i \in DOMAIN present |-> fields[Named(fields, present[i])]]

(* Mutant: a derived field is promised not to be null.                     *)
Derived_NonNull(spec) == [name |-> spec.field, nullable |-> FALSE]

Derived(spec) == [name |-> spec.field, nullable |-> TRUE]

(* Whether validate() reports nothing; without a projection it checks the   *)
(* declaration alone.                                                       *)
Valid(spec, fields) ==
    LET known == IF fields = Undefined THEN Names ELSE NamesOf(fields)
        absent(name) == fields = Undefined \/ name \notin NamesOf(fields)
    IN CASE spec.type = "rename" ->
              /\ \A n, m \in DOMAIN spec.renames : spec.renames[n] = spec.renames[m] => n = m
              /\ DOMAIN spec.renames \subseteq known
              /\ \A n \in DOMAIN spec.renames :
                    absent(spec.renames[n]) \/ spec.renames[n] \in DOMAIN spec.renames
         [] spec.type = "select" ->
              /\ spec.names # <<>> /\ IsInjective(spec.names)
              /\ ToSet(spec.names) \subseteq known
         [] spec.type = "derive" ->
              /\ Normalizes(spec.expression)
              /\ absent(spec.field) /\ ReferencedFields(spec.expression) \subseteq known
         [] spec.type = "filter" ->
              Normalizes(spec.expression) /\ ReferencedFields(spec.expression) \subseteq known
         [] spec.type = "sort"   -> spec.field \in known
         [] OTHER                -> TRUE

Described(spec, fields) ==
    CASE spec.type = "rename" -> Renamed(spec, fields)
      [] spec.type = "select" -> Selected(spec, fields)
      [] spec.type = "derive" -> Append(fields, Derived(spec))
      [] OTHER                -> fields

Describe(spec, fields) ==
    IF fields = Undefined \/ spec.type = "opaque" THEN Undefined ELSE Described(spec, fields)

DeriveRow(spec, row) ==
    [n \in DOMAIN row \cup {spec.field} |->
        IF n = spec.field THEN EvaluateExpression(spec.expression, row) ELSE row[n]]

RenameRow(spec, row) ==
    [n \in {NewName(spec, m) : m \in DOMAIN row} |->
        row[CHOOSE m \in DOMAIN row : NewName(spec, m) = n]]

(* sort's comparator, as whether row i goes before row j.  Nulls go last in *)
(* both directions; the position decides between equal cells and between    *)
(* cells of different types.                                                *)
Key(spec, row) == IF spec.field \in DOMAIN row THEN row[spec.field] ELSE Null

Before(spec, rows, i, j) ==
    LET a == Key(spec, rows[i])
        b == Key(spec, rows[j])
    IN IF (a = Null) # (b = Null) THEN b = Null
       ELSE IF ~Comparable(a, b) \/ a = b THEN i < j
       ELSE (Difference(a, b) < 0) # spec.descending

(* Array.prototype.sort: the one order the comparator asks for; if it asks  *)
(* for none, the engine leaves the rows in an order of its own.             *)
Orders(n) == {p \in [1 .. n -> 1 .. n] : IsInjective(p)}

(* Mutant: descending is the ascending order reversed.                     *)
Sorted_Reversed(spec, rows) ==
    LET up == [spec EXCEPT !.descending = FALSE]
        asked == {p \in Orders(Len(rows)) :
                    \A i, j \in DOMAIN p : i < j => Before(up, rows, p[i], p[j])}
        ordered == {[i \in DOMAIN p |-> rows[p[i]]] : p \in asked}
    IN IF spec.descending THEN {Reverse(s) : s \in ordered} ELSE ordered

Sorted(spec, rows) ==
    LET asked == {p \in Orders(Len(rows)) :
                    \A i, j \in DOMAIN p : i < j => Before(spec, rows, p[i], p[j])}
    IN {[i \in DOMAIN p |-> rows[p[i]]] :
            p \in IF asked = {} THEN Orders(Len(rows)) ELSE asked}

(* Mutant: a target that is renamed itself counts as taken.                *)
Fails_OnSwap(spec, data) ==
    /\ spec.type = "rename"
    /\ \E n \in DOMAIN spec.renames : spec.renames[n] \in NamesOf(data.fields)

(* The rows and fields each execute() may return.                           *)
Fails(spec, data) ==
    \/ spec.type = "rename" /\ ~Distinct(Renamed(spec, data.fields))
    \/ spec.type \in {"derive", "filter"} /\ ~Normalizes(spec.expression)

(* Mutant: derive does not add its field to the dataset's.                 *)
NewFields_NotDerived(spec, fields) ==
    IF spec.type = "derive" THEN fields ELSE Described(spec, fields)

NewFields(spec, fields) == Described(spec, fields)

NewRows(spec, data) ==
    CASE spec.type = "rename" -> {[i \in DOMAIN data.rows |-> RenameRow(spec, data.rows[i])]}
      [] spec.type = "select" ->
            LET kept == NamesOf(Selected(spec, data.fields))
            IN {[i \in DOMAIN data.rows |-> [n \in kept |-> data.rows[i][n]]]}
      [] spec.type = "derive" -> {[i \in DOMAIN data.rows |-> DeriveRow(spec, data.rows[i])]}
      [] spec.type = "filter" ->
            {Kept(data.rows, {i \in DOMAIN data.rows :
                                Truthy(EvaluateExpression(spec.expression, data.rows[i]))})}
      [] spec.type = "sort"   -> Sorted(spec, data.rows)
      [] spec.type = "limit"  -> {SubSeq(data.rows, spec.offset + 1,
                                    IF spec.offset + spec.count < Len(data.rows)
                                    THEN spec.offset + spec.count ELSE Len(data.rows))}
      [] OTHER                -> {data.rows}

-----------------------------------------------------------------------------
(* Normalisation and validation of what a source returned.                 *)

(* Mutant: a suffixed name may be that of a column further on.             *)
Suffixed_TakesLater(column, used, columns) ==
    LET free == {k \in 2 .. Len(columns) + 2 : Append(column, k) \notin used}
    IN Append(column, CHOOSE k \in free : \A other \in free : k <= other)

(* A repeated column gets the first free suffix, never another column's name.*)
Suffixed(column, used, columns) ==
    LET free == {k \in 2 .. Len(columns) + 2 :
                    Append(column, k) \notin used \cup ToSet(columns)}
    IN Append(column, CHOOSE k \in free : \A other \in free : k <= other)

UniqueNames(columns) ==
    LET names[i \in 0 .. Len(columns)] ==
            IF i = 0 THEN <<>>
            ELSE LET column == columns[i]
                     used == ToSet(names[i - 1])
                 IN Append(names[i - 1],
                        IF column \in used THEN Suffixed(column, used, columns) ELSE column)
    IN names[Len(columns)]

(* A declared field is described by its declaration, another by its cells.  *)
NormalizedField(schema, name, cells) ==
    LET declared == IF schema = Undefined THEN {}
                    ELSE {schema[i] : i \in {j \in DOMAIN schema : schema[j].name = name}}
    IN IF declared # {} THEN CHOOSE f \in declared : TRUE
       ELSE [name |-> name, nullable |-> Null \in cells \/ cells = {}]

NormalizeResult(result, schema) ==
    LET names == UniqueNames(result.columns)
        rows == IF Len(result.rows) > MaxRows THEN SubSeq(result.rows, 1, MaxRows)
                                              ELSE result.rows
        index(name) == CHOOSE i \in DOMAIN names : names[i] = name
    IN [fields |-> [i \in DOMAIN names |->
                        NormalizedField(schema, names[i], {rows[r][i] : r \in DOMAIN rows})],
        rows |-> [r \in DOMAIN rows |-> [n \in ToSet(names) |-> rows[r][index(n)]]],
        truncated |-> Len(result.rows) > MaxRows]

(* Mutant: a declared field that is missing is not reported.               *)
ValidDataset_MayMiss(data, schema) ==
    schema # Undefined =>
        \A i \in DOMAIN schema : schema[i].name \in NamesOf(data.fields) =>
            schema[i].nullable \/ \A r \in DOMAIN data.rows : data.rows[r][schema[i].name] # Null

(* Every declared field is there, and not null where it may not be.         *)
ValidDataset(data, schema) ==
    schema # Undefined =>
        \A i \in DOMAIN schema :
            /\ schema[i].name \in NamesOf(data.fields)
            /\ schema[i].nullable \/ \A r \in DOMAIN data.rows : data.rows[r][schema[i].name] # Null

-----------------------------------------------------------------------------
(* prepare().                                                              *)

PrepareTransform ==
    /\ stage = "prepare" /\ at <= Len(manifest.transforms)
    /\ Len(manifest.transforms) <= MaxTransforms
    /\ LET spec == manifest.transforms[at]
       IN IF Valid(spec, projected)
          THEN /\ projected' = Describe(spec, projected)
               /\ at' = at + 1 /\ UNCHANGED stage
          ELSE stage' = "rejected" /\ UNCHANGED <<at, projected>>
    /\ UNCHANGED <<manifest, raw, dataset>>

TooManyTransforms ==
    /\ stage = "prepare" /\ Len(manifest.transforms) > MaxTransforms
    /\ stage' = "rejected"
    /\ UNCHANGED <<manifest, at, projected, raw, dataset>>

PreparePresentation ==
    /\ stage = "prepare" /\ at > Len(manifest.transforms)
    /\ LET known == projected = Undefined \/ manifest.chart \in NamesOf(projected)
       IN stage' = IF known THEN "prepared" ELSE "rejected"
    /\ at' = 1
    /\ UNCHANGED <<manifest, projected, raw, dataset>>

-----------------------------------------------------------------------------
(* execute().                                                              *)

SourceReturns(result) ==
    /\ stage = "prepared" /\ manifest.query
    /\ raw' = result
    /\ dataset' = NormalizeResult(result, manifest.schema)
    /\ stage' = IF ValidDataset(dataset', manifest.schema) THEN "transform" ELSE "failed"
    /\ UNCHANGED <<manifest, at, projected>>

NoQuery ==
    /\ stage = "prepared" /\ ~manifest.query
    /\ stage' = "transform"
    /\ UNCHANGED <<manifest, at, projected, raw, dataset>>

RunTransform ==
    /\ stage = "transform" /\ at <= Len(manifest.transforms)
    /\ LET spec == manifest.transforms[at]
       IN IF Fails(spec, dataset)
          THEN stage' = "failed" /\ UNCHANGED <<at, dataset>>
          ELSE /\ \E rows \in NewRows(spec, dataset) :
                    dataset' = [dataset EXCEPT !.fields = NewFields(spec, @), !.rows = rows]
               /\ at' = at + 1 /\ UNCHANGED stage
    /\ UNCHANGED <<manifest, projected, raw>>

Finish ==
    /\ stage = "transform" /\ at > Len(manifest.transforms)
    /\ stage' = "done"
    /\ UNCHANGED <<manifest, at, projected, raw, dataset>>

Next ==
    \/ PrepareTransform \/ TooManyTransforms \/ PreparePresentation
    \/ \E result \in Results : SourceReturns(result)
    \/ NoQuery \/ RunTransform \/ Finish

Spec == Init /\ [][Next]_vars

-----------------------------------------------------------------------------
(* Properties.                                                             *)

(* Two columns of the same name both reach the dataset, under different     *)
(* names, a column whose name is its own keeps it, and rows are only left   *)
(* out with a note (normalize-result.ts:62-81, 129).                        *)
NothingIsLostSilently ==
    stage = "transform" /\ at = 1 /\ manifest.query =>
        /\ Distinct(dataset.fields)
        /\ Len(dataset.fields) = Len(raw.columns)
        /\ \A i \in DOMAIN raw.columns :
            (\A j \in DOMAIN raw.columns : raw.columns[j] = raw.columns[i] => i = j)
                => dataset.fields[i].name = raw.columns[i]
        /\ Len(dataset.rows) = Len(raw.rows) \/ dataset.truncated

(* What prepare() projected is what execute() delivers: every projected     *)
(* field is there, whatever else the source returned and in whatever order  *)
(* (docs/transforms.md:98-100, derive.ts:61-64), and at each step every row  *)
(* has a cell for every field and no other, as the contract of a transform  *)
(* asks (rename.ts:36).                                                     *)
ProjectionIsDelivered ==
    /\ stage = "done" /\ manifest.query /\ projected # Undefined =>
          ToSet(projected) \subseteq ToSet(dataset.fields)
    /\ \A i \in DOMAIN dataset.rows : DOMAIN dataset.rows[i] = NamesOf(dataset.fields)

(* A pipeline whose fields were all known when it was prepared does not     *)
(* fail on its data: static validation caught every collision (rename.ts:30,*)
(* docs/transforms.md:186-192).                                             *)
NothingUndeclared ==
    /\ projected # Undefined /\ raw # Undefined
    /\ ToSet(UniqueNames(raw.columns)) \subseteq NamesOf(manifest.schema)

PreparedDoesNotFail ==
    raw # Undefined /\ NothingUndeclared /\ stage = "failed" =>
        ~ValidDataset(NormalizeResult(raw, manifest.schema), manifest.schema)

(* A field that is described as non-nullable holds no null, after any       *)
(* transforms, as long as no name is taken twice (derive.ts:36-41,          *)
(* validate/dataset.ts:58-81).                                              *)
NonNullableIsNotNull ==
    stage \in {"transform", "done"} /\ Distinct(dataset.fields) =>
        \A f \in ToSet(dataset.fields) :
            f.nullable \/ \A r \in DOMAIN dataset.rows : dataset.rows[r][f.name] # Null

(* No dataset has two fields of one name (derive.ts:20, rename.ts:33-37).   *)
NamesAreDistinct == Distinct(dataset.fields)

(* A row with cell a may be above one with cell b, which did or did not     *)
(* follow it before.                                                        *)
MayBeAbove(a, b, followed, descending) ==
    \/ a # Null /\ b = Null
    \/ a = b /\ followed
    \/ a # Null /\ b # Null /\ IF descending THEN Difference(a, b) > 0 ELSE Difference(a, b) < 0

(* The cells to sort by are all of one type, or null.                       *)
OneType(spec, rows) ==
    \A i, j \in DOMAIN rows :
        LET a == Key(spec, rows[i])
            b == Key(spec, rows[j])
        IN a # Null /\ b # Null => Comparable(a, b)

SortStep(spec) ==
    /\ at \in DOMAIN manifest.transforms /\ spec = manifest.transforms[at]
    /\ stage = "transform" /\ spec.type = "sort" /\ at' # at

(* A sort loses and doubles no row.  If the cells it goes by are of one type*)
(* or null, they are in order, ascending or descending, the nulls last in   *)
(* both, and rows that are equal by it are as they were; on other data      *)
(* nothing is claimed of the order (sort.ts:30-50,                          *)
(* docs/transforms.md:125-130).                                             *)
SortOrders ==
    [][ \A spec \in ToSet(manifest.transforms) : SortStep(spec) =>
            \E p \in Orders(Len(dataset.rows)) :
                LET key(i) == Key(spec, dataset.rows[p[i]]) IN
                /\ Len(dataset'.rows) = Len(p)
                /\ \A i \in DOMAIN p : dataset'.rows[i] = dataset.rows[p[i]]
                /\ OneType(spec, dataset.rows) =>
                      \A i, j \in DOMAIN p :
                          i < j => MayBeAbove(key(i), key(j), p[i] < p[j], spec.descending) ]_vars
=============================================================================
