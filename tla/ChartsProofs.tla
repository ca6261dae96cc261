----------------------------- MODULE ChartsProofs -----------------------------
(***************************************************************************)
(* Theorems about Charts, for any presentations with any number of series, *)
(* any registered types and datasets of any size, with their proofs.       *)
(***************************************************************************)
EXTENDS Charts, FiniteSetTheorems, WellFoundedInduction, TLAPS

-----------------------------------------------------------------------------
(* Numbers and sequences in order.                                         *)

(* A set of numbers that is not empty has a least one. *)
LEMMA Least ==
    ASSUME NEW S \in SUBSET Nat, S # {}
    PROVE  \E m \in S : \A k \in S : m <= k
<1> DEFINE R == OpToRel(<, Nat)
<1>1. IsWellFoundedOn(R, Nat)
  BY NatLessThanWellFounded
<1>2. \A x, y \in Nat : <<x, y>> \in R <=> x < y
  BY DEF OpToRel
<1> HIDE DEF R
<1>3. PICK m \in S : \A y \in S : ~ (<<y, m>> \in R)
  BY <1>1, WFMin
<1>4. \A k \in S : m \in Nat /\ k \in Nat /\ ~(k < m)
  BY <1>2, <1>3
<1> QED
  BY <1>4

(* Induction: what holds of 0, and of k + 1 when it holds of k.  S is the   *)
(* set of the numbers of which it holds.                                    *)
LEMMA Induction ==
    ASSUME NEW n \in Nat, NEW S, 0 \in S, \A k \in 0 .. n - 1 : k \in S => k + 1 \in S
    PROVE  \A k \in 0 .. n : k \in S
<1> SUFFICES ASSUME NEW j \in 0 .. n, j \notin S
             PROVE  FALSE
  OBVIOUS
<1> DEFINE T == {k \in 0 .. n : k \notin S}
<1>1. T \in SUBSET Nat /\ T # {}
  OBVIOUS
<1> HIDE DEF T
<1>2. PICK m \in T : \A k \in T : m <= k
  BY <1>1, Least
<1>3. m \in 0 .. n /\ m \notin S /\ m # 0
  BY <1>2 DEF T
<1>4. m - 1 \in 0 .. n - 1 /\ ~(m <= m - 1)
  BY <1>3
<1>5. m - 1 \in S
  BY <1>2, <1>3, <1>4 DEF T
<1>6. (m - 1) + 1 = m
  BY <1>3
<1> QED
  BY <1>3, <1>4, <1>5, <1>6

(* Of things with different ranks, one has the highest. *)
LEMMA Highest ==
    ASSUME NEW n \in Nat, NEW T, T # {}, NEW rank, \A a \in T : rank[a] \in 0 .. n
    PROVE  \E m \in T : \A a \in T : rank[a] <= rank[m]
<1> DEFINE Q == {n - rank[a] : a \in T}
<1>1. Q \in SUBSET Nat /\ Q # {}
  OBVIOUS
<1> HIDE DEF Q
<1>2. PICK q \in Q : \A k \in Q : q <= k
  BY <1>1, Least
<1>3. PICK m \in T : q = n - rank[m]
  BY DEF Q
<1>4. ASSUME NEW a \in T
      PROVE  rank[a] <= rank[m]
  <2>1. n - rank[m] <= n - rank[a]
    BY <1>2, <1>3 DEF Q
  <2>2. rank[a] \in 0 .. n /\ rank[m] \in 0 .. n
    OBVIOUS
  <2> QED
    BY <2>1, <2>2
<1> QED
  BY <1>4

(* A set whose members differ in rank can be put in the order of the ranks. *)
LEMMA Orderable ==
    ASSUME NEW n \in Nat, NEW S, NEW rank,
           \A a \in S : rank[a] \in 0 .. n,
           \A a, b \in S : rank[a] = rank[b] => a = b
    PROVE  /\ IsFiniteSet(S) /\ Cardinality(S) \in Nat
           /\ \E s \in [1 .. Cardinality(S) -> S] :
                \A k, l \in 1 .. Cardinality(S) : k < l => rank[s[k]] < rank[s[l]]
<1> DEFINE f == [a \in S |-> rank[a]]
           Ordered(s, k) == \A i, j \in 1 .. k : i < j => rank[s[i]] < rank[s[j]]
<1>1. f \in Injection(S, 0 .. n)
  <2>1. f \in [S -> 0 .. n]
    OBVIOUS
  <2>2. \A a, b \in S : f[a] = f[b] => a = b
    OBVIOUS
  <2> HIDE DEF f
  <2> QED
    BY <2>1, <2>2 DEF Injection, IsInjective
<1>2. IsFiniteSet(0 .. n)
  BY FS_Interval
<1> HIDE DEF f
<1>3. IsFiniteSet(S)
  BY <1>1, <1>2, FS_Injection
<1>4. Cardinality(S) \in Nat
  BY <1>3, FS_CardinalityType
<1> DEFINE N == Cardinality(S)
           G == {k \in 0 .. N : \A T \in SUBSET S :
                    Cardinality(T) = k => \E s \in [1 .. k -> T] : Ordered(s, k)}
<1>5. 0 \in G
  <2>1. SUFFICES ASSUME NEW T \in SUBSET S
                 PROVE  \E s \in [1 .. 0 -> T] : Ordered(s, 0)
    BY <1>4
  <2> DEFINE s == [i \in 1 .. 0 |-> i]
  <2>2. s \in [1 .. 0 -> T]
    OBVIOUS
  <2>3. Ordered(s, 0)
    OBVIOUS
  <2> HIDE DEF s, Ordered
  <2> QED
    BY <2>2, <2>3
<1>6. ASSUME NEW k \in 0 .. N - 1, k \in G
      PROVE  k + 1 \in G
  <2>1. k \in Nat /\ k + 1 \in 0 .. N
    BY <1>4
  <2>2. SUFFICES ASSUME NEW T \in SUBSET S, Cardinality(T) = k + 1
                 PROVE  \E s \in [1 .. k + 1 -> T] : Ordered(s, k + 1)
    BY <2>1
  <2>3. IsFiniteSet(T)
    BY <1>3, FS_Subset
  <2>4. T # {}
    BY <2>1, <2>2, FS_EmptySet
  <2>5. \A a \in T : rank[a] \in 0 .. n
    OBVIOUS
  <2>6. PICK m \in T : \A a \in T : rank[a] <= rank[m]
    BY <2>4, <2>5, Highest
  <2>7. Cardinality(T \ {m}) = k
    <3>1. Cardinality(T \ {m}) = Cardinality(T) - 1
      BY <2>3, FS_RemoveElement
    <3> QED
      BY <2>1, <2>2, <3>1
  <2>8. PICK s \in [1 .. k -> T \ {m}] : Ordered(s, k)
    BY <1>6, <2>7
  <2> DEFINE t == [i \in 1 .. k + 1 |-> IF i = k + 1 THEN m ELSE s[i]]
  <2>9. \A i \in 1 .. k + 1 : i # k + 1 => i \in 1 .. k
    BY <2>1
  <2>10. t \in [1 .. k + 1 -> T]
    BY <2>9
  <2>11. \A a \in T \ {m} : rank[a] < rank[m]
    BY <2>5, <2>6
  <2>12. Ordered(t, k + 1)
    <3>1. SUFFICES ASSUME NEW i \in 1 .. k + 1, NEW j \in 1 .. k + 1, i < j
                   PROVE  rank[t[i]] < rank[t[j]]
      OBVIOUS
    <3>2. i \in 1 .. k /\ t[i] = s[i] /\ s[i] \in T \ {m}
      BY <2>1, <3>1
    <3>3. CASE j = k + 1
      BY <2>11, <3>2, <3>3
    <3>4. CASE j # k + 1
      <4>1. j \in 1 .. k /\ t[j] = s[j]
        BY <2>9, <3>4
      <4> QED
        BY <2>8, <3>1, <3>2, <4>1
    <3> QED
      BY <3>3, <3>4
  <2> QED
    BY <2>10, <2>12
<1>7. N \in 0 .. N
  BY <1>4
<1> HIDE DEF G
<1>8. \A k \in 0 .. N : k \in G
  BY <1>4, <1>5, <1>6, Induction
<1>9. \E s \in [1 .. N -> S] : Ordered(s, N)
  BY <1>7, <1>8 DEF G
<1> QED
  BY <1>3, <1>4, <1>9

(* A sequence as long as a set, of different members, has them all. *)
LEMMA HasAll ==
    ASSUME NEW S, IsFiniteSet(S), NEW s \in [1 .. Cardinality(S) -> S],
           \A k, l \in 1 .. Cardinality(S) : s[k] = s[l] => k = l
    PROVE  \A a \in S : \E k \in 1 .. Cardinality(S) : s[k] = a
<1> SUFFICES ASSUME NEW a \in S, \A k \in 1 .. Cardinality(S) : s[k] # a
             PROVE  FALSE
  OBVIOUS
<1> DEFINE n == Cardinality(S)
<1>1. n \in Nat
  BY FS_CardinalityType
<1>2. IsFiniteSet(S \ {a}) /\ Cardinality(S \ {a}) = n - 1
  BY FS_RemoveElement
<1>3. IsFiniteSet(1 .. n) /\ Cardinality(1 .. n) = n
  BY <1>1, FS_Interval
<1>4. s \in [1 .. n -> S \ {a}]
  OBVIOUS
<1>5. n - 1 < n
  BY <1>1
<1> HIDE DEF n
<1> DEFINE D == 1 .. n
           T == S \ {a}
<1>6. IsFiniteSet(D) /\ IsFiniteSet(T) /\ Cardinality(T) < Cardinality(D) /\ s \in [D -> T]
  BY <1>2, <1>3, <1>4, <1>5
<1> HIDE DEF D, T
<1>7. \E k, l \in D : k # l /\ s[k] = s[l]
  BY <1>6, FS_PigeonHole
<1> QED
  BY <1>7 DEF n, D

(* InOrder does what it says, of positions ... *)
LEMMA AscendingIs ==
    ASSUME NEW n \in Nat, NEW S \in SUBSET (1 .. n), NEW s, s = Ascending(S)
    PROVE  /\ Cardinality(S) \in Nat /\ s \in [1 .. Cardinality(S) -> S]
           /\ \A k, l \in DOMAIN s : k < l => s[k] < s[l]
           /\ \A k, l \in DOMAIN s : s[k] = s[l] => k = l
           /\ \A a \in S : \E k \in DOMAIN s : s[k] = a
<1> DEFINE rank == [a \in S |-> a]
<1>1. \A a \in S : rank[a] = a
  OBVIOUS
<1>2. \A a \in S : rank[a] \in 0 .. n
  <2>1. \A a \in S : a \in 0 .. n
    OBVIOUS
  <2> HIDE DEF rank
  <2> QED
    BY <1>1, <2>1
<1>3. \A a, b \in S : rank[a] = rank[b] => a = b
  BY <1>1
<1> HIDE DEF rank
<1>4. /\ IsFiniteSet(S) /\ Cardinality(S) \in Nat
      /\ \E t \in [1 .. Cardinality(S) -> S] :
            \A k, l \in 1 .. Cardinality(S) : k < l => rank[t[k]] < rank[t[l]]
  BY <1>2, <1>3, Orderable
<1>5. \E t \in [1 .. Cardinality(S) -> S] :
         \A k, l \in 1 .. Cardinality(S) : k < l => t[k] < t[l]
  BY <1>1, <1>4
<1>6. /\ s \in [1 .. Cardinality(S) -> S]
      /\ \A k, l \in 1 .. Cardinality(S) : k < l => s[k] < s[l]
  <2>1. s = CHOOSE t \in [1 .. Cardinality(S) -> S] :
                \A k, l \in 1 .. Cardinality(S) : k < l => t[k] < t[l]
    BY DEF InOrder, Ascending
  <2> QED
    BY <1>5, <2>1
<1>7. \A k, l \in 1 .. Cardinality(S) : s[k] = s[l] => k = l
  <2> HIDE DEF rank
  <2>0. \A a \in S : a \in Nat
    OBVIOUS
  <2>1. ASSUME NEW k \in 1 .. Cardinality(S), NEW l \in 1 .. Cardinality(S), k < l
        PROVE  s[k] # s[l]
    <3>1. s[k] < s[l] /\ s[k] \in S /\ s[l] \in S
      BY <1>6, <2>1
    <3>2. s[k] \in Nat /\ s[l] \in Nat
      BY <2>0, <3>1
    <3> QED
      BY <3>1, <3>2
  <2>2. \A k, l \in 1 .. Cardinality(S) : k = l \/ k < l \/ l < k
    BY <1>4
  <2> QED
    BY <2>1, <2>2
<1>8. \A a \in S : \E k \in 1 .. Cardinality(S) : s[k] = a
  BY <1>4, <1>6, <1>7, HasAll
<1> QED
  BY <1>4, <1>6, <1>7, <1>8

-----------------------------------------------------------------------------
(* Presentations.                                                          *)

LEMMA NonEmptyIsThere ==
    ASSUME NEW p, NEW path, IsNonEmptyString(p, path)
    PROVE  path \in DOMAIN p /\ p[path] \in NonEmpty
BY ChartsAssumption DEF IsNonEmptyString, At, Strings

(* What the plugin's validator has found out about the series.             *)
LEMMA CartesianIs ==
    ASSUME NEW c \in Cases, NEW p, p = c.presentation, ValidateCartesian(p)
    PROVE  /\ IsNonEmptyString(p, XField)
           /\ Grouped(p) => IsNonEmptyString(p, YField) /\ IsNonEmptyString(p, GroupBy)
           /\ ~Grouped(p) => \E n \in 1 .. Len(Indices) :
                /\ Entries(p, <<"series">>) = 1 .. n /\ Cardinality(Entries(p, <<"series">>)) = n
                /\ \A i \in 1 .. n : IsNonEmptyString(p, SeriesField(i))
<1>1. IsNonEmptyString(p, XField) /\ ValidSeries(p)
  BY DEF ValidateCartesian
<1> DEFINE E == Entries(p, <<"series">>)
           object == IsObject(p, <<"series">>)
<1>2. PICK n \in 0 .. Len(Indices) : E = 1 .. n
  BY ChartsAssumption
<1>3. object => E = {}
  BY ChartsAssumption
<1>4. Grouped(p) <=> E = {}
  BY DEF Grouped
<1>5. \/ E # {} /\ \A i \in E : IsNonEmptyString(p, SeriesField(i))
      \/ object /\ IsNonEmptyString(p, YField) /\ IsNonEmptyString(p, GroupBy)
  BY <1>1 DEF ValidSeries
<1>6. Cardinality(1 .. n) = n
  <2>1. n \in 0 .. Len(Indices) /\ 1 \in Int /\ n \in Int
    BY <1>2
  <2>2. Cardinality(1 .. n) = IF 1 > n THEN 0 ELSE n - 1 + 1
    BY <2>1, FS_Interval
  <2> QED
    BY <2>1, <2>2
<1> HIDE DEF E, object
<1>7. E # {} => n \in 1 .. Len(Indices)
  BY <1>2
<1> QED
  BY <1>1, <1>2, <1>3, <1>4, <1>5, <1>6, <1>7 DEF E

(* The fields a renderer asks for are those the plugin reports.             *)
LEMMA RequiredAreReferenced ==
    ASSUME NEW c \in Cases, NEW p, p = c.presentation, Validate(p)
    PROVE  RequiredFields(p) \subseteq FieldReferences(p)
<1>1. CASE TypeOf(p) = "pie"
  <2>1. IsNonEmptyString(p, CategoryField) /\ IsNonEmptyString(p, ValueField)
    BY <1>1 DEF Validate, ValidatePie
  <2>2. RequiredFields(p) = {p[CategoryField], p[ValueField]}
    BY <1>1 DEF RequiredFields
  <2> QED
    BY <1>1, <2>1, <2>2 DEF FieldReferences
<1>2. CASE TypeOf(p) # "pie"
  <2>1. ValidateCartesian(p)
    BY <1>2 DEF Validate
  <2>2. FieldReferences(p) = {p[path] : path \in {q \in {XField, YField, GroupBy}
                                                     \cup {SeriesField(i) : i \in DOMAIN Indices} :
                                                IsNonEmptyString(p, q)}}
    BY <1>2 DEF FieldReferences
  <2>3. p[XField] \in FieldReferences(p)
    BY <2>1, <2>2, CartesianIs
  <2>4. CASE Grouped(p)
    <3>1. RequiredFields(p) = {p[XField], p[YField], p[GroupBy]}
      BY <1>2, <2>4 DEF RequiredFields
    <3>2. p[YField] \in FieldReferences(p) /\ p[GroupBy] \in FieldReferences(p)
      BY <2>1, <2>2, <2>4, CartesianIs
    <3> QED
      BY <2>3, <3>1, <3>2
  <2>5. CASE ~Grouped(p)
    <3>1. PICK n \in 1 .. Len(Indices) :
              /\ Entries(p, <<"series">>) = 1 .. n
              /\ \A i \in 1 .. n : IsNonEmptyString(p, SeriesField(i))
      BY <2>1, <2>5, CartesianIs
    <3>2. RequiredFields(p) = {p[XField]} \cup {p[SeriesField(i)] : i \in 1 .. n}
      BY <1>2, <2>5, <3>1 DEF RequiredFields, ScatterYFields
    <3>3. 1 .. n \subseteq DOMAIN Indices
      BY ChartsAssumption
    <3>4. ASSUME NEW i \in 1 .. n
          PROVE  p[SeriesField(i)] \in FieldReferences(p)
      BY <2>2, <3>1, <3>3
    <3> QED
      BY <2>3, <3>2, <3>4
  <2> QED
    BY <2>4, <2>5
<1> QED
  BY <1>1, <1>2

-----------------------------------------------------------------------------
(* Series.                                                                 *)

(* The keys of the groups: each row has one, and no two are the same.       *)
LEMMA GroupKeysAre ==
    ASSUME NEW rows, NEW n \in Nat, DOMAIN rows = 1 .. n, NEW g,
           NEW keys, keys = GroupKeys(rows, g)
    PROVE  /\ \E m \in Nat : DOMAIN keys = 1 .. m
           /\ \A k, l \in DOMAIN keys : keys[k] = keys[l] => k = l
           /\ \A i \in 1 .. n : \E k \in DOMAIN keys : keys[k] = GroupKey(Cell(rows[i], g))
<1> DEFINE K == [i \in 1 .. n |-> GroupKey(Cell(rows[i], g))]
           first == {i \in 1 .. n : \A j \in 1 .. i - 1 : K[j] # K[i]}
           order == Ascending(first)
<1>1. \A i \in 1 .. n : K[i] = GroupKey(Cell(rows[i], g)) /\ \A j \in 1 .. i - 1 : j \in 1 .. n
  OBVIOUS
<1>2. first = {i \in DOMAIN rows : \A j \in 1 .. i - 1 :
                GroupKey(Cell(rows[j], g)) # GroupKey(Cell(rows[i], g))}
  BY <1>1
<1>3. first \in SUBSET (1 .. n)
  OBVIOUS
<1>4. /\ Cardinality(first) \in Nat /\ order \in [1 .. Cardinality(first) -> first]
      /\ \A k, l \in DOMAIN order : k < l => order[k] < order[l]
      /\ \A k, l \in DOMAIN order : order[k] = order[l] => k = l
      /\ \A a \in first : \E k \in DOMAIN order : order[k] = a
  <2> HIDE DEF first
  <2> QED
    BY <1>3, AscendingIs
<1>5. keys = [k \in DOMAIN order |-> GroupKey(Cell(rows[order[k]], g))]
  <2> HIDE DEF K
  <2> QED
    BY <1>2 DEF GroupKeys
<1>6. \A a, b \in first : K[a] = K[b] => a = b
  <2>1. SUFFICES ASSUME NEW a \in first, NEW b \in first, a < b
                 PROVE  K[a] # K[b]
    <3>1. \A a, b \in first : a = b \/ a < b \/ b < a
      OBVIOUS
    <3> HIDE DEF first, K
    <3> QED
      BY <3>1
  <2>2. a \in 1 .. b - 1
    BY <2>1
  <2> QED
    BY <2>2
<1>7. \A i \in 1 .. n : \E a \in first : K[a] = K[i]
  <2>1. SUFFICES ASSUME NEW i \in 1 .. n
                 PROVE  \E a \in first : K[a] = K[i]
    OBVIOUS
  <2> DEFINE T == {j \in 1 .. n : K[j] = K[i]}
  <2>2. T \in SUBSET Nat /\ T # {}
    OBVIOUS
  <2> HIDE DEF T
  <2>3. PICK a \in T : \A k \in T : a <= k
    BY <2>2, Least
  <2>4. a \in 1 .. n /\ K[a] = K[i]
    BY DEF T
  <2>5. \A j \in 1 .. a - 1 : j \in 1 .. n /\ ~(a <= j)
    BY <2>4
  <2>6. \A j \in 1 .. a - 1 : K[j] # K[a]
    BY <2>3, <2>4, <2>5 DEF T
  <2> QED
    BY <2>4, <2>6
<1> HIDE DEF K, first, order
<1>8. \A k \in DOMAIN order : order[k] \in first /\ order[k] \in 1 .. n
  BY <1>3, <1>4
<1>9. DOMAIN keys = DOMAIN order /\ \A k \in DOMAIN order : keys[k] = K[order[k]]
  BY <1>1, <1>5, <1>8
<1>10. ASSUME NEW k \in DOMAIN keys, NEW l \in DOMAIN keys, keys[k] = keys[l]
       PROVE  k = l
  <2>1. k \in DOMAIN order /\ l \in DOMAIN order /\ K[order[k]] = K[order[l]]
    BY <1>9, <1>10
  <2>2. order[k] = order[l]
    BY <1>6, <1>8, <2>1
  <2> QED
    BY <1>4, <2>1, <2>2
<1>11. \A i \in 1 .. n : \E k \in DOMAIN keys : keys[k] = K[i]
  BY <1>4, <1>7, <1>9
<1> QED
  BY <1>1, <1>4, <1>9, <1>10, <1>11

(* The field a series plots, and the rows that belong to it.                *)
Plotted(p, s) == IF Grouped(p) THEN p[YField] ELSE p[SeriesField(s)]
Belonging(rows, p, key) ==
    IF Grouped(p) THEN {i \in DOMAIN rows : GroupKey(rows[i][p[GroupBy]]) = key} ELSE DOMAIN rows

(* There is a point for each of these rows, with its cells.                *)
PointsOfRows(points, belonging, rows, x, y) ==
    /\ \A k \in DOMAIN points :
        /\ points[k].index \in belonging
        /\ points[k].x = rows[points[k].index][x]
        /\ points[k].y = rows[points[k].index][y]
    /\ \A k, l \in DOMAIN points : points[k].index = points[l].index => k = l
    /\ \A i \in belonging : \E k \in DOMAIN points : points[k].index = i

Plots(rows, p, series, s) ==
    PointsOfRows(series[s].points, Belonging(rows, p, series[s].key), rows, p[XField], Plotted(p, s))

(* Every row belongs to a series, and with groups to one only.              *)
Partition(rows, p, series) ==
    /\ \E m \in Nat : DOMAIN series = 1 .. m
    /\ \A s \in DOMAIN series : Plots(rows, p, series, s)
    /\ Grouped(p) => \A s, t \in DOMAIN series : series[s].key = series[t].key => s = t
    /\ \A i \in DOMAIN rows : \E s \in DOMAIN series : i \in Belonging(rows, p, series[s].key)

LEMMA PointsAre ==
    ASSUME NEW rows, NEW indices, NEW x, NEW y, NEW points, points = PointsOf(rows, indices, x, y),
           \A k \in DOMAIN indices : x \in DOMAIN rows[indices[k]] /\ y \in DOMAIN rows[indices[k]]
    PROVE  /\ DOMAIN points = DOMAIN indices
           /\ \A k \in DOMAIN indices :
                /\ points[k].index = indices[k]
                /\ points[k].x = rows[indices[k]][x]
                /\ points[k].y = rows[indices[k]][y]
BY DEF PointsOf, Cell

(* What the fields of a chart are for the rows of its dataset.              *)
LEMMA SeriesAre ==
    ASSUME NEW c \in Cases, NEW p, p = c.presentation, ValidateCartesian(p), TypeOf(p) # "pie",
           RequiredFields(p) \subseteq ToSet(c.dataset.fields),
           NEW rows, rows = c.dataset.rows, NEW series, series = ResolveSeries(rows, p)
    PROVE  Partition(rows, p, series)
<1> DEFINE F == ToSet(c.dataset.fields)
           n == Len(rows)
<1>1. n \in Nat /\ DOMAIN rows = 1 .. n /\ \A i \in 1 .. n : rows[i] \in [F -> Cells]
  <2>1. rows \in Seq([F -> Cells])
    BY ChartsAssumption
  <2> HIDE DEF F
  <2> QED
    BY <2>1
<1> HIDE DEF n, F
<1>2. p[XField] \in RequiredFields(p)
  BY DEF RequiredFields
<1>3. p[XField] \in F
  BY <1>2 DEF F
<1>4. CASE Grouped(p)
  <2> DEFINE g == p[GroupBy]
             y == p[YField]
             keys == GroupKeys(rows, g)
             own(key) == {i \in DOMAIN rows : GroupKey(Cell(rows[i], g)) = key}
  <2>1. RequiredFields(p) = {p[XField], y, g}
    BY <1>4 DEF RequiredFields
  <2>2. y \in F /\ g \in F
    BY <2>1 DEF F
  <2>3. series = [k \in DOMAIN keys |->
                    [key |-> keys[k],
                     points |-> PointsOf(rows, Ascending(own(keys[k])), p[XField], y)]]
    BY <1>4 DEF ResolveSeries
  <2>4. \A i \in DOMAIN rows : Cell(rows[i], g) = rows[i][g]
    BY <1>1, <2>2 DEF Cell
  <2> HIDE DEF g, y, keys
  <2>5. /\ \E m \in Nat : DOMAIN keys = 1 .. m
        /\ \A k, l \in DOMAIN keys : keys[k] = keys[l] => k = l
        /\ \A i \in 1 .. n : \E k \in DOMAIN keys : keys[k] = GroupKey(Cell(rows[i], g))
    <3>1. n \in Nat /\ DOMAIN rows = 1 .. n /\ keys = GroupKeys(rows, g)
      BY <1>1 DEF keys
    <3> QED
      BY <3>1, GroupKeysAre
  <2>6. \A s \in DOMAIN keys : series[s].key = keys[s]
    BY <2>3
  <2>7. \A key : Belonging(rows, p, key) = own(key)
    BY <1>4, <2>4 DEF Belonging, g
  <2>8. ASSUME NEW s \in DOMAIN keys
        PROVE  Plots(rows, p, series, s)
    <3> DEFINE S == own(keys[s])
               idx == Ascending(S)
               points == series[s].points
    <3>1. S \in SUBSET (1 .. n)
      BY <1>1
    <3>2. points = PointsOf(rows, idx, p[XField], y) /\ series[s].key = keys[s]
      BY <2>3
    <3>3. Belonging(rows, p, series[s].key) = S
      BY <2>7, <3>2
    <3> HIDE DEF S, points, own
    <3>4. /\ idx \in [1 .. Cardinality(S) -> S]
          /\ \A k, l \in DOMAIN idx : idx[k] = idx[l] => k = l
          /\ \A a \in S : \E k \in DOMAIN idx : idx[k] = a
      BY <1>1, <3>1, AscendingIs
    <3> HIDE DEF idx
    <3>5. \A k \in DOMAIN idx : idx[k] \in S /\ rows[idx[k]] \in [F -> Cells]
      BY <1>1, <3>1, <3>4
    <3>6. \A k \in DOMAIN idx : p[XField] \in DOMAIN rows[idx[k]] /\ y \in DOMAIN rows[idx[k]]
      BY <1>3, <2>2, <3>5
    <3>7. /\ DOMAIN points = DOMAIN idx
          /\ \A k \in DOMAIN idx : /\ points[k].index = idx[k]
                                   /\ points[k].x = rows[idx[k]][p[XField]]
                                   /\ points[k].y = rows[idx[k]][y]
      BY <3>2, <3>6, PointsAre
    <3>8. Plotted(p, s) = y
      BY <1>4 DEF Plotted, y
    <3>9. \A k, l \in DOMAIN points : points[k].index = points[l].index => k = l
      BY <3>4, <3>7
    <3>10. \A i \in S : \E k \in DOMAIN points : points[k].index = i
      BY <3>4, <3>7
    <3>11. \A k \in DOMAIN points :
              /\ points[k].index \in S
              /\ points[k].x = rows[points[k].index][p[XField]]
              /\ points[k].y = rows[points[k].index][y]
      BY <3>5, <3>7
    <3>12. PointsOfRows(points, S, rows, p[XField], y)
      BY <3>9, <3>10, <3>11 DEF PointsOfRows
    <3> QED
      BY <3>3, <3>8, <3>12 DEF Plots, points
  <2>9. DOMAIN series = DOMAIN keys
    BY <2>3
  <2>10. \A i \in DOMAIN rows : \E s \in DOMAIN series : i \in own(series[s].key)
    BY <1>1, <2>5, <2>6, <2>9
  <2> HIDE DEF own
  <2> QED
    BY <2>5, <2>6, <2>7, <2>8, <2>9, <2>10 DEF Partition
<1>5. CASE ~Grouped(p)
  <2>1. PICK m \in 1 .. Len(Indices) :
              /\ Entries(p, <<"series">>) = 1 .. m /\ Cardinality(Entries(p, <<"series">>)) = m
    BY <1>5, CartesianIs
  <2> DEFINE all == [i \in DOMAIN rows |-> i]
  <2>2. series = [i \in 1 .. m |->
                    [key |-> p[SeriesField(i)],
                     points |-> PointsOf(rows, all, p[XField], p[SeriesField(i)])]]
    BY <1>5, <2>1 DEF ResolveSeries
  <2>3. RequiredFields(p) = {p[XField]} \cup {p[SeriesField(i)] : i \in 1 .. m}
    BY <1>5, <2>1 DEF RequiredFields, ScatterYFields
  <2>4. \A s \in 1 .. m : p[SeriesField(s)] \in F
    BY <2>3 DEF F
  <2>5. \A key : Belonging(rows, p, key) = DOMAIN rows
    BY <1>5 DEF Belonging
  <2>6. ASSUME NEW s \in 1 .. m
        PROVE  Plots(rows, p, series, s)
    <3> DEFINE points == series[s].points
               y == p[SeriesField(s)]
    <3>1. points = PointsOf(rows, all, p[XField], y)
      BY <2>2
    <3>2. DOMAIN all = DOMAIN rows /\ \A k \in DOMAIN rows : all[k] = k
      OBVIOUS
    <3>3. y \in F
      BY <2>4
    <3> HIDE DEF points, y, all
    <3>4. \A k \in DOMAIN all : p[XField] \in DOMAIN rows[all[k]] /\ y \in DOMAIN rows[all[k]]
      BY <1>1, <1>3, <3>2, <3>3
    <3>5. /\ DOMAIN points = DOMAIN all
          /\ \A k \in DOMAIN all : /\ points[k].index = all[k]
                                   /\ points[k].x = rows[all[k]][p[XField]]
                                   /\ points[k].y = rows[all[k]][y]
      BY <3>1, <3>4, PointsAre
    <3>6. Plotted(p, s) = y
      BY <1>5 DEF Plotted, y
    <3>7. PointsOfRows(points, DOMAIN rows, rows, p[XField], y)
      BY <3>2, <3>5 DEF PointsOfRows
    <3> QED
      BY <2>5, <3>6, <3>7 DEF Plots, points
  <2>7. DOMAIN series = 1 .. m /\ m \in Nat /\ 1 \in DOMAIN series
    BY <2>2
  <2> QED
    BY <1>5, <2>5, <2>6, <2>7 DEF Partition
<1> QED
  BY <1>4, <1>5

-----------------------------------------------------------------------------
(* Wide rows.                                                              *)

(* Cells that are told apart by nothing else than typeof and String().     *)
LEMMA IdentityIs ==
    ASSUME NEW a \in Cells, NEW b \in Cells, a # Null, b # Null, XIdentity(a) = XIdentity(b)
    PROVE  a = b
<1>1. a \in [type : STRING, text : STRING] /\ b \in [type : STRING, text : STRING]
  BY DEF Cells
<1>2. a.type = b.type /\ a.text = b.text
  BY DEF XIdentity
<1> QED
  BY <1>1, <1>2

(* The rows that have an x, and those at an x.                             *)
RowsPlaced(rows, p) == {i \in DOMAIN rows : rows[i][p[XField]] # Null}
RowsAt(rows, p, x) == {i \in RowsPlaced(rows, p) : XIdentity(rows[i][p[XField]]) = x}

(* At an x, a series has a point for each of its rows there.                *)
LEMMA PointsAt ==
    ASSUME NEW rows, NEW p, NEW series, NEW s, Plots(rows, p, series, s), NEW x,
           NEW at, at = {k \in Placed(series[s].points) : XIdentity(series[s].points[k].x) = x},
           NEW R, R = RowsAt(rows, p, x) \cap Belonging(rows, p, series[s].key)
    PROVE  /\ \A k \in at : series[s].points[k].index \in R
           /\ \A i \in R : \E k \in at : series[s].points[k].index = i
<1> DEFINE points == series[s].points
           B == Belonging(rows, p, series[s].key)
<1>1. PointsOfRows(points, B, rows, p[XField], Plotted(p, s))
  BY DEF Plots
<1>2. B \subseteq DOMAIN rows
  BY DEF Belonging
<1>3. at = {k \in DOMAIN points : points[k].x # Null /\ XIdentity(points[k].x) = x}
  BY DEF Placed
<1>4. R = {i \in B : rows[i][p[XField]] # Null /\ XIdentity(rows[i][p[XField]]) = x}
  BY <1>2 DEF RowsAt, RowsPlaced
<1> HIDE DEF points, B
<1>5. \A k \in at : points[k].index \in R
  BY <1>1, <1>3, <1>4 DEF PointsOfRows
<1>6. \A i \in R : \E k \in at : points[k].index = i
  BY <1>1, <1>3, <1>4 DEF PointsOfRows
<1> QED
  BY <1>5, <1>6 DEF points

(* The wide row of an x holds what its rows hold, each in its own series.  *)
LEMMA WideRowIs ==
    ASSUME NEW rows, NEW n \in Nat, DOMAIN rows = 1 .. n, NEW p,
           NEW series, Partition(rows, p, series), ~DuplicateX(series),
           NEW x, NEW R, R = RowsAt(rows, p, x), R # {}, NEW w, w = WideRow(series, x)
    PROVE  /\ w.minIndex \in R /\ \A i \in R : w.minIndex <= i
           /\ \E i \in R : w.x = rows[i][p[XField]]
           /\ DOMAIN w.values = DOMAIN series
           /\ \A s \in DOMAIN series :
                /\ \A i \in R \cap Belonging(rows, p, series[s].key) :
                      w.values[s] = rows[i][Plotted(p, s)]
                /\ R \cap Belonging(rows, p, series[s].key) = {} => w.values[s] = Null
<1> DEFINE at(s) == {k \in Placed(series[s].points) : XIdentity(series[s].points[k].x) = x}
           visited == {s \in DOMAIN series : at(s) # {}}
           first == CHOOSE s \in visited : \A t \in visited : s <= t
           point(s) == series[s].points[CHOOSE k \in at(s) : TRUE]
           B(s) == Belonging(rows, p, series[s].key)
           least == {point(s).index : s \in visited}
<1>1. w = [x |-> point(first).x, series |-> first,
           values |-> [s \in DOMAIN series |-> IF s \in visited THEN point(s).y ELSE Null],
           minIndex |-> Min(least)]
  BY DEF WideRow
<1>2. \A s \in DOMAIN series : Plots(rows, p, series, s)
  BY DEF Partition
<1>3. ASSUME NEW s \in DOMAIN series
      PROVE  /\ \A k \in at(s) : series[s].points[k].index \in R \cap B(s)
             /\ \A i \in R \cap B(s) : \E k \in at(s) : series[s].points[k].index = i
  <2> DEFINE a == at(s)
             Q == R \cap B(s)
  <2>1. /\ Plots(rows, p, series, s)
        /\ a = {k \in Placed(series[s].points) : XIdentity(series[s].points[k].x) = x}
        /\ Q = RowsAt(rows, p, x) \cap Belonging(rows, p, series[s].key)
    BY <1>2
  <2> HIDE DEF a, Q
  <2>2. /\ \A k \in a : series[s].points[k].index \in Q
        /\ \A i \in Q : \E k \in a : series[s].points[k].index = i
    BY <2>1, PointsAt
  <2> QED
    BY <2>2 DEF a, Q
<1>4. \A s \in DOMAIN series : \A k, l \in at(s) : k = l
  BY DEF DuplicateX
<1>5. \A s \in DOMAIN series : \A k \in at(s) : k \in DOMAIN series[s].points
  BY DEF Placed
<1> HIDE DEF at
<1>6. \A s \in visited : s \in DOMAIN series /\ (CHOOSE k \in at(s) : TRUE) \in at(s)
  OBVIOUS
<1>7. ASSUME NEW s \in visited
      PROVE  /\ point(s).index \in R \cap B(s)
             /\ \A i \in R \cap B(s) : i = point(s).index
             /\ point(s).x = rows[point(s).index][p[XField]]
             /\ point(s).y = rows[point(s).index][Plotted(p, s)]
  <2> DEFINE k == CHOOSE k \in at(s) : TRUE
             Q == R \cap B(s)
  <2>1. s \in DOMAIN series /\ k \in at(s)
    BY <1>6
  <2> HIDE DEF k
  <2>2. k \in DOMAIN series[s].points /\ point(s) = series[s].points[k]
    BY <1>5, <2>1 DEF k
  <2>3. PointsOfRows(series[s].points, B(s), rows, p[XField], Plotted(p, s))
    BY <1>2, <2>1 DEF Plots
  <2> HIDE DEF point, B, Q
  <2>4. point(s).index \in Q /\ \A i \in Q : i = point(s).index
    BY <1>3, <1>4, <2>1, <2>2 DEF Q
  <2>5. /\ point(s).x = rows[point(s).index][p[XField]]
        /\ point(s).y = rows[point(s).index][Plotted(p, s)]
    BY <2>2, <2>3 DEF PointsOfRows
  <2> QED
    BY <2>4, <2>5 DEF Q
<1>8. \A s \in DOMAIN series : R \cap B(s) # {} => s \in visited
  BY <1>3
<1>9. R \subseteq DOMAIN rows /\ R \in SUBSET Nat
  BY DEF RowsAt, RowsPlaced
<1>10. \A i \in R : \E s \in DOMAIN series : i \in B(s)
  BY <1>9 DEF Partition
<1> HIDE DEF point, B
<1>11. visited \in SUBSET Nat /\ visited # {}
  <2>1. visited \in SUBSET Nat
    BY DEF Partition
  <2> HIDE DEF visited
  <2> QED
    BY <1>8, <1>10, <2>1
<1> HIDE DEF visited
<1>12. first \in visited
  BY <1>11, Least
<1>13. least = R
  BY <1>7, <1>8, <1>10
<1>14. Min(least) \in R /\ \A i \in R : Min(least) <= i
  <2>1. Min(R) = CHOOSE i \in R : \A j \in R : i <= j
    BY DEF Min
  <2>2. \E i \in R : \A j \in R : i <= j
    BY <1>9, Least
  <2> HIDE DEF least
  <2> QED
    BY <1>13, <2>1, <2>2
<1> HIDE DEF least, first
<1>15. /\ w.minIndex = Min(least) /\ w.x = point(first).x
       /\ w.values = [s \in DOMAIN series |-> IF s \in visited THEN point(s).y ELSE Null]
  BY <1>1
<1>16. \E i \in R : w.x = rows[i][p[XField]]
  BY <1>7, <1>12, <1>15
<1>17. ASSUME NEW s \in DOMAIN series
       PROVE  /\ \A i \in R \cap B(s) : w.values[s] = rows[i][Plotted(p, s)]
              /\ R \cap B(s) = {} => w.values[s] = Null
  <2>1. CASE s \in visited
    BY <1>7, <1>15, <2>1
  <2>2. CASE s \notin visited
    BY <1>8, <1>15, <2>2
  <2> QED
    BY <2>1, <2>2
<1> QED
  BY <1>14, <1>15, <1>16, <1>17 DEF B

(* A wide row is that of an x: its rows are those with this x, the first of *)
(* them is its minIndex, and its values are theirs.                         *)
WideRowHolds(w, rows, p, series) ==
    LET there == {i \in DOMAIN rows : rows[i][p[XField]] = w.x}
    IN /\ w.x # Null
       /\ w.minIndex \in there /\ \A i \in there : w.minIndex <= i
       /\ \A s \in DOMAIN series :
            /\ \A i \in there \cap Belonging(rows, p, series[s].key) :
                  w.values[s] = rows[i][Plotted(p, s)]
            /\ there \cap Belonging(rows, p, series[s].key) = {} => w.values[s] = Null

LEMMA WideRowsAre ==
    ASSUME NEW rows, NEW n \in Nat, DOMAIN rows = 1 .. n, NEW p,
           \A i \in 1 .. n : rows[i][p[XField]] \in Cells,
           NEW series, Partition(rows, p, series), ~DuplicateX(series),
           NEW wide, wide = BuildWideRows(series)
    PROVE  /\ \A v \in DOMAIN wide : WideRowHolds(wide[v], rows, p, series)
           /\ \A v, w \in DOMAIN wide : v < w => wide[v].minIndex < wide[w].minIndex
           /\ \A v, w \in DOMAIN wide : wide[v].x = wide[w].x => v = w
           /\ \A i \in RowsPlaced(rows, p) : \E v \in DOMAIN wide : wide[v].x = rows[i][p[XField]]
<1> DEFINE X == p[XField]
           xs == UNION {{XIdentity(series[s].points[k].x) : k \in Placed(series[s].points)} :
                            s \in DOMAIN series}
           S == {WideRow(series, x) : x \in xs}
           ids == {XIdentity(rows[i][X]) : i \in RowsPlaced(rows, p)}
<1>1. \A i \in RowsPlaced(rows, p) : i \in 1 .. n /\ rows[i][X] # Null
  BY DEF RowsPlaced
<1>2. \A x : \A i \in RowsAt(rows, p, x) : i \in RowsPlaced(rows, p) /\ XIdentity(rows[i][X]) = x
  BY DEF RowsAt
<1>3. xs = ids
  <2>1. ASSUME NEW s \in DOMAIN series, NEW k \in Placed(series[s].points)
        PROVE  XIdentity(series[s].points[k].x) \in ids
    <3> DEFINE points == series[s].points
               B == Belonging(rows, p, series[s].key)
    <3>1. PointsOfRows(points, B, rows, X, Plotted(p, s))
      BY DEF Partition, Plots
    <3>2. B \subseteq DOMAIN rows
      BY DEF Belonging
    <3>3. k \in DOMAIN points /\ points[k].x # Null
      BY DEF Placed
    <3> HIDE DEF points, B, X
    <3>4. points[k].index \in DOMAIN rows /\ points[k].x = rows[points[k].index][X]
      BY <3>1, <3>2, <3>3 DEF PointsOfRows
    <3>5. points[k].index \in RowsPlaced(rows, p)
      BY <3>3, <3>4 DEF RowsPlaced, X
    <3> QED
      BY <3>4, <3>5 DEF points
  <2>2. ASSUME NEW i \in RowsPlaced(rows, p)
        PROVE  XIdentity(rows[i][X]) \in xs
    <3>1. PICK s \in DOMAIN series : i \in Belonging(rows, p, series[s].key)
      BY DEF Partition, RowsPlaced
    <3> DEFINE points == series[s].points
               B == Belonging(rows, p, series[s].key)
    <3>2. PointsOfRows(points, B, rows, X, Plotted(p, s))
      BY DEF Partition, Plots
    <3> HIDE DEF points, X, B
    <3>3. PICK k \in DOMAIN points : points[k].index = i /\ points[k].x = rows[i][X]
      BY <3>1, <3>2 DEF PointsOfRows, B
    <3>4. points[k].x # Null
      BY <1>1, <3>3
    <3>5. k \in Placed(points)
      BY <3>3, <3>4 DEF Placed
    <3> QED
      BY <3>3, <3>5 DEF points
  <2> HIDE DEF ids, X
  <2>3. xs \subseteq ids
    BY <2>1
  <2>4. ids \subseteq xs
    <3> HIDE DEF xs
    <3> QED
      BY <2>2 DEF ids
  <2> QED
    BY <2>3, <2>4
<1> HIDE DEF xs
<1>4. ASSUME NEW x \in xs
      PROVE  /\ RowsAt(rows, p, x) # {}
             /\ WideRow(series, x).minIndex \in RowsAt(rows, p, x)
             /\ WideRowHolds(WideRow(series, x), rows, p, series)
             /\ \E i \in RowsAt(rows, p, x) : WideRow(series, x).x = rows[i][X]
  <2> DEFINE R == RowsAt(rows, p, x)
             w == WideRow(series, x)
             there == {i \in DOMAIN rows : rows[i][X] = w.x}
  <2>1. PICK j \in RowsPlaced(rows, p) : x = XIdentity(rows[j][X])
    BY <1>3
  <2>2. R # {}
    BY <2>1 DEF RowsAt
  <2>3. R = RowsAt(rows, p, x) /\ w = WideRow(series, x)
    OBVIOUS
  <2> HIDE DEF R, w
  <2>4. /\ w.minIndex \in R /\ \A i \in R : w.minIndex <= i
        /\ \E i \in R : w.x = rows[i][p[XField]]
        /\ \A s \in DOMAIN series :
             /\ \A i \in R \cap Belonging(rows, p, series[s].key) :
                   w.values[s] = rows[i][Plotted(p, s)]
             /\ R \cap Belonging(rows, p, series[s].key) = {} => w.values[s] = Null
    BY <2>2, <2>3, WideRowIs
  <2>5. PICK i0 \in R : w.x = rows[i0][X]
    BY <2>4
  <2>6. i0 \in 1 .. n /\ w.x # Null /\ w.x \in Cells /\ XIdentity(w.x) = x
    BY <1>1, <1>2, <2>3, <2>5
  <2>7. \A i \in R : rows[i][X] = w.x
    BY <1>1, <1>2, <2>3, <2>6, IdentityIs
  <2>8. there = R
    <3>1. R \subseteq there
      BY <1>1, <1>2, <2>3, <2>7
    <3>2. there \subseteq R
      BY <2>3, <2>6 DEF RowsAt, RowsPlaced
    <3> QED
      BY <3>1, <3>2
  <2>9. WideRowHolds(w, rows, p, series)
    <3>1. there = {i \in DOMAIN rows : rows[i][p[XField]] = w.x}
      OBVIOUS
    <3> HIDE DEF there
    <3> QED
      BY <2>4, <2>6, <2>8, <3>1 DEF WideRowHolds
  <2> QED
    BY <2>2, <2>3, <2>4, <2>5, <2>9
<1>5. \A a \in S : \E x \in xs : a = WideRow(series, x)
  OBVIOUS
<1> DEFINE rank == [a \in S |-> a.minIndex]
<1>6. \A a \in S : rank[a] = a.minIndex
  OBVIOUS
<1> HIDE DEF rank, S
<1>7. \A a \in S : rank[a] \in 0 .. n
  <2>1. \A a \in S : a.minIndex \in 1 .. n
    BY <1>1, <1>2, <1>4, <1>5
  <2>2. \A i \in 1 .. n : i \in 0 .. n
    OBVIOUS
  <2> QED
    BY <1>6, <2>1, <2>2
<1>8. \A a, b \in S : rank[a] = rank[b] => a = b
  <2>1. SUFFICES ASSUME NEW a \in S, NEW b \in S, rank[a] = rank[b]
                 PROVE  a = b
    OBVIOUS
  <2>2. PICK x \in xs : a = WideRow(series, x)
    BY <1>5
  <2>3. PICK y \in xs : b = WideRow(series, y)
    BY <1>5
  <2>4. a.minIndex \in RowsAt(rows, p, x) /\ a.minIndex \in RowsAt(rows, p, y)
    <3>1. a.minIndex = b.minIndex
      BY <1>6, <2>1
    <3>2. a.minIndex \in RowsAt(rows, p, x)
      BY <1>4, <2>2
    <3>3. b.minIndex \in RowsAt(rows, p, y)
      BY <1>4, <2>3
    <3> QED
      BY <3>1, <3>2, <3>3
  <2>5. x = y
    BY <1>2, <2>4
  <2> QED
    BY <2>2, <2>3, <2>5
<1>9. /\ IsFiniteSet(S) /\ Cardinality(S) \in Nat
      /\ \E s \in [1 .. Cardinality(S) -> S] :
            \A k, l \in 1 .. Cardinality(S) : k < l => rank[s[k]] < rank[s[l]]
  BY <1>7, <1>8, Orderable
<1>10. \E s \in [1 .. Cardinality(S) -> S] :
          \A k, l \in 1 .. Cardinality(S) : k < l => s[k].minIndex < s[l].minIndex
  BY <1>6, <1>9
<1>11. wide = CHOOSE s \in [1 .. Cardinality(S) -> S] :
            \A k, l \in 1 .. Cardinality(S) : k < l => s[k].minIndex < s[l].minIndex
  BY DEF BuildWideRows, InOrder, Precedes, S, xs
<1>12. /\ wide \in [1 .. Cardinality(S) -> S]
       /\ \A v, w \in 1 .. Cardinality(S) : v < w => wide[v].minIndex < wide[w].minIndex
  BY <1>10, <1>11
<1>13. \A a \in S : WideRowHolds(a, rows, p, series)
  BY <1>4, <1>5
<1>14. \A v \in DOMAIN wide : wide[v] \in S /\ wide[v].minIndex \in 0 .. n
  BY <1>6, <1>7, <1>12
<1>15. \A v, w \in DOMAIN wide : v < w => wide[v].minIndex # wide[w].minIndex
  BY <1>12, <1>14
<1>16. \A v, w \in DOMAIN wide : v = w \/ v < w \/ w < v
  BY <1>9, <1>12
<1>17. \A v, w \in DOMAIN wide : wide[v].minIndex = wide[w].minIndex => v = w
  BY <1>15, <1>16
<1>18. \A a, b \in S : a.x = b.x => a = b
  <2>1. SUFFICES ASSUME NEW a \in S, NEW b \in S, a.x = b.x
                 PROVE  a = b
    OBVIOUS
  <2>2. PICK x \in xs : a = WideRow(series, x)
    BY <1>5
  <2>3. PICK y \in xs : b = WideRow(series, y)
    BY <1>5
  <2>4. XIdentity(a.x) = x
    BY <1>2, <1>4, <2>2
  <2>5. XIdentity(b.x) = y
    BY <1>2, <1>4, <2>3
  <2> QED
    BY <2>1, <2>2, <2>3, <2>4, <2>5
<1>19. \A v, w \in DOMAIN wide : wide[v].x = wide[w].x => v = w
  BY <1>14, <1>17, <1>18
<1>20. ASSUME NEW i \in RowsPlaced(rows, p)
       PROVE  \E v \in DOMAIN wide : wide[v].x = rows[i][X]
  <2> DEFINE x == XIdentity(rows[i][X])
             a == WideRow(series, x)
  <2>1. x \in xs
    BY <1>3
  <2>2. a \in S
    BY <2>1 DEF S
  <2>3. \A k, l \in 1 .. Cardinality(S) : wide[k] = wide[l] => k = l
    BY <1>12, <1>17
  <2> HIDE DEF a, x
  <2>4. PICK v \in 1 .. Cardinality(S) : wide[v] = a
    BY <1>9, <1>12, <2>2, <2>3, HasAll
  <2>5. PICK j \in RowsAt(rows, p, x) : a.x = rows[j][X]
    BY <1>4, <2>1 DEF a
  <2>6. /\ rows[i][X] \in Cells /\ rows[i][X] # Null
        /\ rows[j][X] \in Cells /\ rows[j][X] # Null
        /\ XIdentity(rows[j][X]) = XIdentity(rows[i][X])
    BY <1>1, <1>2, <2>5 DEF x
  <2>7. rows[j][X] = rows[i][X]
    BY <2>6, IdentityIs
  <2> QED
    BY <1>12, <2>4, <2>5, <2>7
<1> QED
  BY <1>12, <1>13, <1>14, <1>19, <1>20

-----------------------------------------------------------------------------
(* The inductive invariant: what comes after prepare() is of a presentation *)
(* it accepted, what is drawn is the picture of the dataset, and an error   *)
(* has the cause its code tells.                                            *)

WideSeries == ResolveSeries(case.dataset.rows, case.presentation)
IsWide(p) == TypeOf(p) \in {"line", "bar", "area"}

Accepted ==
    phase \in {"prepared", "drawn", "failed"} =>
        ValidPresentation(case.presentation, case.projected)

IsThePicture ==
    LET p == case.presentation
        rows == case.dataset.rows
    IN phase = "drawn" =>
        /\ FieldsPresent
        /\ \/ /\ IsWide(p) /\ ~DuplicateX(WideSeries)
              /\ chart.rows = BuildWideRows(WideSeries)
              /\ chart.keys = [s \in DOMAIN WideSeries |-> WideSeries[s].key]
           \/ TypeOf(p) = "scatter" /\ chart.series = WideSeries
           \/ TypeOf(p) = "pie" /\ chart.slices = BuildPieRows(rows, p)

HasItsCause ==
    LET p == case.presentation
    IN phase = "failed" =>
        \/ error = "TYPE_UNSUPPORTED" /\ TypeOf(p) \notin Renderers
        \/ error = "FIELD_MISSING" /\ ~FieldsPresent
        \/ error = "DUPLICATE_X" /\ FieldsPresent /\ IsWide(p) /\ DuplicateX(WideSeries)

IInv == /\ case \in Cases
        /\ phase \in {"manifest", "prepared", "rejected", "drawn", "failed"}
        /\ Accepted /\ IsThePicture /\ HasItsCause

LEMMA PrepareIsSafe ==
    ASSUME IInv, Prepare
    PROVE  IInv'
<1>1. /\ case' = case /\ phase' \in {"prepared", "rejected"}
      /\ phase' = "prepared" => ValidPresentation(case.presentation, case.projected)
  BY DEF Prepare
<1> QED
  BY <1>1 DEF IInv, Accepted, IsThePicture, HasItsCause

LEMMA RefuseIsSafe ==
    ASSUME IInv, Refuse
    PROVE  IInv'
<1>1. /\ case' = case /\ phase = "prepared" /\ phase' = "failed"
      /\ \/ error' = "TYPE_UNSUPPORTED" /\ TypeOf(case.presentation) \notin Renderers
         \/ error' = "FIELD_MISSING" /\ ~FieldsPresent
  BY DEF Refuse, Fail
<1>2. FieldsPresent' = FieldsPresent
  BY <1>1 DEF FieldsPresent
<1> QED
  BY <1>1, <1>2 DEF IInv, Accepted, IsThePicture, HasItsCause

LEMMA DrawWideIsSafe ==
    ASSUME IInv, DrawWide
    PROVE  IInv'
<1>1. /\ case' = case /\ phase = "prepared" /\ FieldsPresent /\ IsWide(case.presentation)
      /\ \/ DuplicateX(WideSeries) /\ phase' = "failed" /\ error' = "DUPLICATE_X"
         \/ /\ ~DuplicateX(WideSeries) /\ phase' = "drawn"
            /\ chart' = [rows |-> BuildWideRows(WideSeries),
                         keys |-> [s \in DOMAIN WideSeries |-> WideSeries[s].key]]
  BY DEF DrawWide, Drawable, Fail, Draw, WideSeries, IsWide
<1>2. FieldsPresent' /\ WideSeries' = WideSeries
  BY <1>1 DEF FieldsPresent, WideSeries
<1>3. CASE DuplicateX(WideSeries)
  BY <1>1, <1>2, <1>3 DEF IInv, Accepted, IsThePicture, HasItsCause
<1>4. CASE ~DuplicateX(WideSeries)
  <2>1. /\ chart'.rows = BuildWideRows(WideSeries)
        /\ chart'.keys = [s \in DOMAIN WideSeries |-> WideSeries[s].key]
    BY <1>1, <1>4
  <2> QED
    BY <1>1, <1>2, <1>4, <2>1 DEF IInv, Accepted, IsThePicture, HasItsCause
<1> QED
  BY <1>3, <1>4

LEMMA DrawOtherIsSafe ==
    ASSUME IInv, DrawScatter \/ DrawPie
    PROVE  IInv'
<1>1. /\ case' = case /\ phase = "prepared" /\ FieldsPresent /\ phase' = "drawn"
      /\ \/ TypeOf(case.presentation) = "scatter" /\ chart'.series = WideSeries
         \/ /\ TypeOf(case.presentation) = "pie"
            /\ chart'.slices = BuildPieRows(case.dataset.rows, case.presentation)
  BY DEF DrawScatter, DrawPie, Drawable, Draw, WideSeries
<1>2. FieldsPresent' /\ WideSeries' = WideSeries
  BY <1>1 DEF FieldsPresent, WideSeries
<1> QED
  BY <1>1, <1>2 DEF IInv, Accepted, IsThePicture, HasItsCause

(* The invariant holds of every presentation and dataset. *)
THEOREM Invariance == Spec => []IInv
<1>1. Init => IInv
  BY DEF Init, IInv, Accepted, IsThePicture, HasItsCause
<1>2. IInv /\ [Next]_vars => IInv'
  <2>1. SUFFICES ASSUME IInv, [Next]_vars
                 PROVE  IInv'
    OBVIOUS
  <2>2. CASE UNCHANGED vars
    BY <2>1, <2>2 DEF vars, IInv, Accepted, IsThePicture, HasItsCause, FieldsPresent, WideSeries
  <2> QED
    BY <2>1, <2>2, PrepareIsSafe, RefuseIsSafe, DrawWideIsSafe, DrawOtherIsSafe DEF Next
<1> QED
  BY <1>1, <1>2, PTL DEF Spec

(* What the series of a chart are when they are drawn or refused.           *)
LEMMA SeriesHold ==
    ASSUME IInv, phase \in {"drawn", "failed"}, FieldsPresent,
           IsWide(case.presentation) \/ TypeOf(case.presentation) = "scatter"
    PROVE  /\ Len(case.dataset.rows) \in Nat
           /\ DOMAIN case.dataset.rows = 1 .. Len(case.dataset.rows)
           /\ \A i \in DOMAIN case.dataset.rows :
                case.dataset.rows[i][case.presentation[XField]] \in Cells
           /\ Partition(case.dataset.rows, case.presentation, WideSeries)
<1> DEFINE p == case.presentation
           rows == case.dataset.rows
           F == ToSet(case.dataset.fields)
           series == WideSeries
<1>1. case \in Cases /\ Validate(p) /\ TypeOf(p) # "pie"
  BY DEF IInv, Accepted, ValidPresentation, IsWide
<1>2. ValidateCartesian(p)
  BY <1>1 DEF Validate
<1>3. RequiredFields(p) \subseteq F
  BY DEF FieldsPresent
<1>4. Len(rows) \in Nat /\ DOMAIN rows = 1 .. Len(rows) /\ \A i \in DOMAIN rows : rows[i] \in [F -> Cells]
  <2>1. rows \in Seq([F -> Cells])
    BY <1>1, ChartsAssumption
  <2> HIDE DEF F, rows
  <2> QED
    BY <2>1
<1>5. p[XField] \in F
  BY <1>1, <1>3 DEF RequiredFields
<1>6. Partition(rows, p, series)
  <2>1. series = ResolveSeries(rows, p)
    BY DEF WideSeries
  <2> HIDE DEF series
  <2> QED
    BY <1>1, <1>2, <1>3, <2>1, SeriesAre
<1> HIDE DEF F
<1> QED
  BY <1>4, <1>5, <1>6

-----------------------------------------------------------------------------
(* The properties.                                                         *)

LEMMA DuplicatesAreRows ==
    ASSUME NEW rows, NEW p, NEW series, Partition(rows, p, series), DuplicateX(series),
           \A i \in DOMAIN rows : rows[i][p[XField]] \in Cells
    PROVE  \E i, j \in DOMAIN rows :
              /\ i # j
              /\ Grouped(p) => GroupKey(rows[i][p[GroupBy]]) = GroupKey(rows[j][p[GroupBy]])
              /\ rows[i][p[XField]] = rows[j][p[XField]] /\ rows[i][p[XField]] # Null
<1>1. PICK s \in DOMAIN series : \E k, l \in Placed(series[s].points) :
          k # l /\ XIdentity(series[s].points[k].x) = XIdentity(series[s].points[l].x)
  BY DEF DuplicateX
<1> DEFINE points == series[s].points
           B == Belonging(rows, p, series[s].key)
           X == p[XField]
<1>2. PICK k \in Placed(points), l \in Placed(points) :
          k # l /\ XIdentity(points[k].x) = XIdentity(points[l].x)
  BY <1>1
<1>3. PointsOfRows(points, B, rows, X, Plotted(p, s))
  BY DEF Partition, Plots
<1>4. B \subseteq DOMAIN rows
  BY DEF Belonging
<1>5. /\ k \in DOMAIN points /\ points[k].x # Null
      /\ l \in DOMAIN points /\ points[l].x # Null
  BY <1>2 DEF Placed
<1>6. \A i, j \in B : Grouped(p) => GroupKey(rows[i][p[GroupBy]]) = GroupKey(rows[j][p[GroupBy]])
  BY DEF Belonging
<1> DEFINE i == points[k].index
           j == points[l].index
<1> HIDE DEF points, B
<1>7. /\ i \in B /\ j \in B /\ i # j
      /\ points[k].x = rows[i][X] /\ points[l].x = rows[j][X]
  BY <1>2, <1>3, <1>5 DEF PointsOfRows
<1>8. rows[i][X] = rows[j][X]
  BY <1>2, <1>4, <1>5, <1>7, IdentityIs
<1> QED
  BY <1>4, <1>5, <1>6, <1>7, <1>8

LEMMA Drawability == IInv => PreparedIsDrawable
<1> DEFINE p == case.presentation
           rows == case.dataset.rows
           group(i) == IF Grouped(p) THEN GroupKey(rows[i][p[GroupBy]]) ELSE ""
<1>1. SUFFICES ASSUME IInv, phase = "failed", case.projected # Undefined, TypeOf(p) \in Renderers
               PROVE  /\ error = "DUPLICATE_X"
                      /\ \E i, j \in DOMAIN rows :
                            /\ i # j /\ group(i) = group(j)
                            /\ rows[i][p[XField]] = rows[j][p[XField]] /\ rows[i][p[XField]] # Null
  BY DEF PreparedIsDrawable
<1>2. FieldsPresent
  <2>1. case \in Cases /\ Validate(p) /\ FieldReferences(p) \subseteq case.projected
    BY <1>1 DEF IInv, Accepted, ValidPresentation
  <2>2. case.projected \subseteq ToSet(case.dataset.fields)
    BY <1>1, <2>1, ChartsAssumption
  <2>3. RequiredFields(p) \subseteq FieldReferences(p)
    BY <2>1, RequiredAreReferenced
  <2> QED
    BY <2>1, <2>2, <2>3 DEF FieldsPresent
<1>3. error = "DUPLICATE_X" /\ IsWide(p) /\ DuplicateX(WideSeries)
  BY <1>1, <1>2 DEF IInv, HasItsCause
<1>4. /\ \A i \in DOMAIN rows : rows[i][p[XField]] \in Cells
      /\ Partition(rows, p, WideSeries)
  BY <1>1, <1>2, <1>3, SeriesHold
<1>5. PICK i \in DOMAIN rows, j \in DOMAIN rows :
          /\ i # j
          /\ Grouped(p) => GroupKey(rows[i][p[GroupBy]]) = GroupKey(rows[j][p[GroupBy]])
          /\ rows[i][p[XField]] = rows[j][p[XField]] /\ rows[i][p[XField]] # Null
  <2> DEFINE series == WideSeries
  <2> HIDE DEF series, p, rows
  <2>1. Partition(rows, p, series) /\ DuplicateX(series)
    BY <1>3, <1>4 DEF series
  <2> QED
    BY <1>4, <2>1, DuplicatesAreRows
<1>6. group(i) = group(j)
  BY <1>5
<1> QED
  BY <1>3, <1>5, <1>6

(* A prepared chart whose fields are known draws, whatever the rows: the     *)
(* renderers ask for no field and no type that prepare() did not, and only   *)
(* two rows of one series at the same x are refused (presentation.ts:16-64,  *)
(* recharts/cartesian.tsx:66-105, 180-187, qspec-chart.tsx:113-123).         *)
THEOREM PreparedDraws == Spec => []PreparedIsDrawable
BY Invariance, Drawability, PTL

(* `qspec inspect`, which knows no plugin, lists every field that prepare()  *)
(* checks, of every presentation (inspect.ts:85-114, 169-189).               *)
THEOREM InspectionIsComplete == Spec => []InspectListsTheReferences
<1>1. ASSUME NEW p, NEW path \in {XField, YField, GroupBy, CategoryField, ValueField}
                                \cup {SeriesField(i) : i \in DOMAIN Indices},
             IsNonEmptyString(p, path)
      PROVE  p[path] \in UNION {GroupFieldReferences(p)[key] : key \in DOMAIN GroupFieldReferences(p)}
  <2>1. path[Len(path)] \in {"field", "groupBy"} /\ path[1] # "type"
    BY DEF XField, YField, GroupBy, CategoryField, ValueField, SeriesField
  <2>2. path \in DOMAIN p /\ p[path] \in Strings
    BY <1>1, NonEmptyIsThere DEF Strings
  <2>3. path \in PresentationFieldReferences(p)
    BY <2>1, <2>2 DEF PresentationFieldReferences, CollectFieldReferences
  <2> DEFINE all == PresentationFieldReferences(p)
             groups == GroupFieldReferences(p)
             key == path[1]
  <2>4. groups = [k \in {q[1] : q \in all} |-> {p[q] : q \in {r \in all : r[1] = k}}]
    BY DEF GroupFieldReferences
  <2> HIDE DEF all, groups
  <2>5. key \in DOMAIN groups
    BY <2>3, <2>4 DEF all
  <2>6. groups[key] = {p[q] : q \in {r \in all : r[1] = key}}
    BY <2>4, <2>5
  <2>7. p[path] \in groups[key]
    BY <2>3, <2>6 DEF all
  <2> QED
    BY <2>5, <2>7 DEF groups
<1>2. ASSUME NEW p
      PROVE  FieldReferences(p)
                \subseteq UNION {GroupFieldReferences(p)[key] : key \in DOMAIN GroupFieldReferences(p)}
  BY <1>1 DEF FieldReferences
<1>3. InspectListsTheReferences
  BY <1>2 DEF InspectListsTheReferences
<1> QED
  BY <1>3, PTL

(* Of the wide pictures, the first row of an x is its minIndex.             *)
LEMMA FirstIs ==
    ASSUME NEW rows, NEW n \in Nat, DOMAIN rows = 1 .. n, NEW p, NEW series,
           NEW w, WideRowHolds(w, rows, p, series)
    PROVE  Min({i \in DOMAIN rows : rows[i][p[XField]] = w.x}) = w.minIndex
<1> DEFINE there == {i \in DOMAIN rows : rows[i][p[XField]] = w.x}
<1>1. w.minIndex \in there /\ \A i \in there : w.minIndex <= i
  BY DEF WideRowHolds
<1>2. \A i \in there : i \in Nat
  OBVIOUS
<1> HIDE DEF there
<1>3. Min(there) = CHOOSE i \in there : \A j \in there : i <= j
  BY DEF Min
<1>4. Min(there) \in there /\ \A i \in there : Min(there) <= i
  BY <1>1, <1>3
<1>5. Min(there) <= w.minIndex /\ w.minIndex <= Min(there)
  BY <1>1, <1>4
<1>6. Min(there) = w.minIndex
  BY <1>1, <1>2, <1>4, <1>5
<1> QED
  BY <1>6 DEF there

LEMMA Order == IInv => AxisInDatasetOrder
<1> DEFINE p == case.presentation
           rows == case.dataset.rows
           series == WideSeries
           first(x) == Min({i \in DOMAIN rows : rows[i][p[XField]] = x})
<1>1. SUFFICES ASSUME IInv, phase = "drawn", IsWide(p),
                      NEW v \in DOMAIN chart.rows, NEW w \in DOMAIN chart.rows, v < w
               PROVE  first(chart.rows[v].x) < first(chart.rows[w].x)
  BY DEF AxisInDatasetOrder, IsWide
<1>2. FieldsPresent /\ ~DuplicateX(series) /\ chart.rows = BuildWideRows(series)
  BY <1>1 DEF IInv, IsThePicture, IsWide
<1>3. /\ Len(rows) \in Nat /\ DOMAIN rows = 1 .. Len(rows)
      /\ \A i \in DOMAIN rows : rows[i][p[XField]] \in Cells
      /\ Partition(rows, p, series)
  BY <1>1, <1>2, SeriesHold
<1> DEFINE wide == chart.rows
           n == Len(rows)
<1> HIDE DEF p, rows, series, wide, n
<1>4. /\ \A u \in DOMAIN wide : WideRowHolds(wide[u], rows, p, series)
      /\ \A t, u \in DOMAIN wide : t < u => wide[t].minIndex < wide[u].minIndex
  <2>1. /\ n \in Nat /\ DOMAIN rows = 1 .. n
        /\ \A i \in 1 .. n : rows[i][p[XField]] \in Cells
        /\ wide = BuildWideRows(series)
    BY <1>2, <1>3 DEF n, wide
  <2> QED
    BY <1>2, <1>3, <2>1, WideRowsAre
<1>5. ASSUME NEW u \in DOMAIN wide
      PROVE  first(wide[u].x) = wide[u].minIndex
  <2>1. n \in Nat /\ DOMAIN rows = 1 .. n /\ WideRowHolds(wide[u], rows, p, series)
    BY <1>3, <1>4 DEF n
  <2> QED
    BY <2>1, FirstIs
<1>6. first(wide[v].x) < first(wide[w].x)
  <2>1. v \in DOMAIN wide /\ w \in DOMAIN wide
    BY DEF wide
  <2> HIDE DEF first
  <2> QED
    BY <1>1, <1>4, <1>5, <2>1
<1> QED
  BY <1>6 DEF wide, rows, p

(* The x axis is in the order of the dataset, by the first row of each x,     *)
(* however the rows were partitioned into series (cartesian.tsx:193-195).    *)
THEOREM AxisKeepsTheOrder == Spec => []AxisInDatasetOrder
BY Invariance, Order, PTL

(* The value of an x in a series is that of its rows in the series, if any. *)
LEMMA CellsAre ==
    ASSUME NEW rows, NEW p, NEW series, NEW w, WideRowHolds(w, rows, p, series),
           NEW s \in DOMAIN series,
           NEW own, own = Belonging(rows, p, series[s].key),
           NEW at, at = {j \in RowsPlaced(rows, p) : rows[j][p[XField]] = w.x}
    PROVE  /\ \A i \in at \cap own : rows[i][Plotted(p, s)] = w.values[s]
           /\ at \cap own = {} => w.values[s] = Null
<1> DEFINE there == {i \in DOMAIN rows : rows[i][p[XField]] = w.x}
<1>1. /\ w.x # Null
      /\ \A i \in there \cap own : w.values[s] = rows[i][Plotted(p, s)]
      /\ there \cap own = {} => w.values[s] = Null
  BY DEF WideRowHolds
<1>2. at = there
  BY <1>1 DEF RowsPlaced
<1> QED
  BY <1>1, <1>2

LEMMA WideHasAll ==
    ASSUME IInv, phase = "drawn", IsWide(case.presentation)
    PROVE  EveryRowIsDrawnOnce
<1> DEFINE p == case.presentation
           rows == case.dataset.rows
           series == WideSeries
           keys == chart.keys
           wide == chart.rows
           placed == {i \in DOMAIN rows : rows[i][p[XField]] # Null}
           value(i, s) ==
              IF ~Grouped(p) THEN rows[i][p[SeriesField(s)]]
              ELSE IF GroupKey(rows[i][p[GroupBy]]) = keys[s] THEN rows[i][p[YField]] ELSE Null
           n == Len(rows)
<1>1. /\ FieldsPresent /\ ~DuplicateX(series) /\ wide = BuildWideRows(series)
      /\ keys = [s \in DOMAIN series |-> series[s].key]
  BY DEF IInv, IsThePicture, IsWide
<1>2. /\ Len(rows) \in Nat /\ DOMAIN rows = 1 .. Len(rows)
      /\ \A i \in DOMAIN rows : rows[i][p[XField]] \in Cells
      /\ Partition(rows, p, series)
  BY <1>1, SeriesHold
<1>3. SUFFICES /\ \A i \in placed : Cardinality({w \in DOMAIN wide : wide[w].x = rows[i][p[XField]]}) = 1
               /\ \A w \in DOMAIN wide : \A s \in DOMAIN keys :
                    {value(i, s) : i \in {j \in placed : rows[j][p[XField]] = wide[w].x}} \ {Null}
                        = {wide[w].values[s]} \ {Null}
  BY DEF EveryRowIsDrawnOnce, IsWide
<1>4. placed = RowsPlaced(rows, p)
  BY DEF RowsPlaced
<1> HIDE DEF p, rows, series, wide, n, placed
<1>5. /\ \A u \in DOMAIN wide : WideRowHolds(wide[u], rows, p, series)
      /\ \A t, u \in DOMAIN wide : wide[t].x = wide[u].x => t = u
      /\ \A i \in placed : \E u \in DOMAIN wide : wide[u].x = rows[i][p[XField]]
  <2>1. /\ n \in Nat /\ DOMAIN rows = 1 .. n
        /\ \A i \in 1 .. n : rows[i][p[XField]] \in Cells
        /\ wide = BuildWideRows(series)
    BY <1>1, <1>2 DEF n
  <2> QED
    BY <1>1, <1>2, <1>4, <2>1, WideRowsAre
<1>6. ASSUME NEW i \in placed
      PROVE  Cardinality({w \in DOMAIN wide : wide[w].x = rows[i][p[XField]]}) = 1
  <2> DEFINE W == {w \in DOMAIN wide : wide[w].x = rows[i][p[XField]]}
  <2>1. PICK u \in DOMAIN wide : wide[u].x = rows[i][p[XField]]
    BY <1>5
  <2>2. W = {u}
    BY <1>5, <2>1
  <2> QED
    BY <2>2, FS_Singleton
<1>7. ASSUME NEW w \in DOMAIN wide, NEW s \in DOMAIN keys
      PROVE  {value(i, s) : i \in {j \in placed : rows[j][p[XField]] = wide[w].x}} \ {Null}
                = {wide[w].values[s]} \ {Null}
  <2> DEFINE own == Belonging(rows, p, series[s].key)
             there == {j \in placed : rows[j][p[XField]] = wide[w].x}
             u == wide[w]
  <2>1. s \in DOMAIN series /\ keys[s] = series[s].key
    BY <1>1
  <2>2. \A i \in DOMAIN rows : value(i, s) = IF i \in own THEN rows[i][Plotted(p, s)] ELSE Null
    BY <2>1 DEF Belonging, Plotted
  <2>3. \A i \in there : i \in DOMAIN rows
    BY DEF placed
  <2>4. /\ WideRowHolds(u, rows, p, series) /\ own = Belonging(rows, p, series[s].key)
        /\ there = {j \in RowsPlaced(rows, p) : rows[j][p[XField]] = u.x}
    BY <1>4, <1>5
  <2> HIDE DEF value, keys, own, there, u
  <2>5. /\ \A i \in there \cap own : rows[i][Plotted(p, s)] = u.values[s]
        /\ there \cap own = {} => u.values[s] = Null
    BY <2>1, <2>4, CellsAre
  <2>6. \A i \in there : value(i, s) = IF i \in own THEN u.values[s] ELSE Null
    BY <2>2, <2>3, <2>5
  <2>7. {value(i, s) : i \in there} \ {Null} = {u.values[s]} \ {Null}
    <3>1. CASE there \cap own = {}
      BY <2>5, <2>6, <3>1
    <3>2. CASE there \cap own # {}
      BY <2>6, <3>2
    <3> QED
      BY <3>1, <3>2
  <2> QED
    BY <2>7 DEF u, there
<1> QED
  BY <1>6, <1>7 DEF keys

LEMMA AllAreDrawn == IInv => EveryRowIsDrawnOnce
<1> DEFINE p == case.presentation
           rows == case.dataset.rows
<1>1. SUFFICES ASSUME IInv, phase = "drawn"
               PROVE  EveryRowIsDrawnOnce
  BY DEF EveryRowIsDrawnOnce
<1>2. CASE IsWide(p)
  BY <1>1, <1>2, WideHasAll
<1>3. CASE TypeOf(p) = "scatter"
  <2> DEFINE series == WideSeries
  <2>1. FieldsPresent /\ chart.series = series
    BY <1>1, <1>3 DEF IInv, IsThePicture, IsWide
  <2>2. Partition(rows, p, series)
    BY <1>1, <1>3, <2>1, SeriesHold
  <2> HIDE DEF series
  <2>3. ASSUME NEW i \in DOMAIN rows
        PROVE  \E s \in DOMAIN series : \E k \in DOMAIN series[s].points :
                  series[s].points[k].index = i
    <3>1. PICK s \in DOMAIN series : i \in Belonging(rows, p, series[s].key)
      BY <2>2 DEF Partition
    <3>2. PointsOfRows(series[s].points, Belonging(rows, p, series[s].key), rows,
                       p[XField], Plotted(p, s))
      BY <2>2 DEF Partition, Plots
    <3>3. \E k \in DOMAIN series[s].points : series[s].points[k].index = i
      BY <3>1, <3>2 DEF PointsOfRows
    <3> QED
      BY <3>3
  <2> QED
    BY <1>3, <2>1, <2>3 DEF EveryRowIsDrawnOnce
<1>4. CASE TypeOf(p) = "pie"
  <2>1. chart.slices = BuildPieRows(rows, p) /\ case \in Cases
    BY <1>1, <1>4 DEF IInv, IsThePicture, IsWide
  <2>2. rows \in Seq([ToSet(case.dataset.fields) -> Cells])
    BY <2>1, ChartsAssumption
  <2>3. Len(BuildPieRows(rows, p)) = Len(rows)
    <3> DEFINE slices == BuildPieRows(rows, p)
               T == {slices[i] : i \in DOMAIN rows}
               n == Len(rows)
    <3> HIDE DEF rows, p
    <3>1. slices = [i \in DOMAIN rows |-> slices[i]] /\ DOMAIN slices = DOMAIN rows
      BY DEF BuildPieRows
    <3>2. n \in Nat /\ DOMAIN rows = 1 .. n
      BY <2>2 DEF rows
    <3> HIDE DEF slices, n
    <3>3. slices \in [1 .. n -> T]
      BY <3>1, <3>2
    <3> HIDE DEF T
    <3>4. slices \in Seq(T) /\ Len(slices) = n
      BY <3>2, <3>3
    <3> QED
      BY <3>4 DEF slices, n
  <2> QED
    BY <1>4, <2>1, <2>3 DEF EveryRowIsDrawnOnce
<1> QED
  BY <1>1, <1>2, <1>3, <1>4 DEF IInv, IsThePicture

(* What is drawn is the dataset: each value of a row with an x is in its own  *)
(* series at its own x and nowhere else, and no other value is drawn; a      *)
(* scatter and a pie draw every row (resolve-series.ts:28-85,                *)
(* recharts/cartesian.tsx:163-191, pie.tsx:64-70).                           *)
THEOREM ThePictureIsTheDataset == Spec => []EveryRowIsDrawnOnce
BY Invariance, AllAreDrawn, PTL
=============================================================================
