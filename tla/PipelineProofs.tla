---------------------------- MODULE PipelineProofs ----------------------------
(***************************************************************************)
(* Proofs about Pipeline: what a column is called, that a projection is    *)
(* delivered, that a prepared pipeline does not fail on declared data, and *)
(* that nulls are only where a field says so.                              *)
(*                                                                         *)
(* The helpers are recursive functions.  What they compute is proved by    *)
(* induction over the set of the positions at which it holds (Induction),  *)
(* and that they exist at all by Iterate.                                  *)
(***************************************************************************)
EXTENDS Pipeline, FiniteSetTheorems, WellFoundedInduction, TLAPS

-----------------------------------------------------------------------------
(* Numbers and recursive functions.                                        *)

(* A set of numbers that is not empty has a least one. *)
LEMMA Least ==
    ASSUME NEW S \in SUBSET Nat, S # {}
    PROVE  \E m \in S : \A k \in S : m <= k
<1> DEFINE R == OpToRel(<, Nat)
<1>1. IsWellFoundedOn(R, Nat)
  BY NatLessThanWellFounded
<1>2. \A x, y \in Nat : <<x, y>> \in R <=> x < y
  BY DEF OpToRel
<1> HIDE DEF R
<1>3. PICK m \in S : \A y \in S : ~ (<<y, m>> \in R)
  BY <1>1, WFMin
<1>4. \A k \in S : m \in Nat /\ k \in Nat /\ ~(k < m)
  BY <1>2, <1>3
<1> QED
  BY <1>4

(* Induction: what holds of 0, and of k + 1 when it holds of k.  S is the   *)
(* set of the numbers of which it holds.                                    *)
LEMMA Induction ==
    ASSUME NEW n \in Nat, NEW S, 0 \in S, \A k \in 0 .. n - 1 : k \in S => k + 1 \in S
    PROVE  \A k \in 0 .. n : k \in S
<1> SUFFICES ASSUME NEW j \in 0 .. n, j \notin S
             PROVE  FALSE
  OBVIOUS
<1> DEFINE T == {k \in 0 .. n : k \notin S}
<1>1. T \in SUBSET Nat /\ T # {}
  OBVIOUS
<1> HIDE DEF T
<1>2. PICK m \in T : \A k \in T : m <= k
  BY <1>1, Least
<1>3. m \in 0 .. n /\ m \notin S /\ m # 0
  BY <1>2 DEF T
<1>4. m - 1 \in 0 .. n - 1 /\ ~(m <= m - 1)
  BY <1>3
<1>5. m - 1 \in S
  BY <1>2, <1>3, <1>4 DEF T
<1>6. (m - 1) + 1 = m
  BY <1>3
<1> QED
  BY <1>3, <1>4, <1>5, <1>6

(* A set of positions that is not empty has a last one. *)
LEMMA Greatest ==
    ASSUME NEW n \in Nat, NEW S \in SUBSET (1 .. n), S # {}
    PROVE  Max(S) \in S /\ \A k \in S : k <= Max(S)
<1> DEFINE T == {n - k : k \in S}
<1>1. T \in SUBSET Nat /\ T # {}
  OBVIOUS
<1> HIDE DEF T
<1>2. PICK m \in T : \A k \in T : m <= k
  BY <1>1, Least
<1>3. PICK j \in S : m = n - j
  BY DEF T
<1>4. ASSUME NEW k \in S
      PROVE  j >= k
  <2>1. m <= n - k
    BY <1>2 DEF T
  <2> QED
    BY <1>3, <2>1
<1>5. \E x \in S : \A y \in S : x >= y
  BY <1>4
<1>6. Max(S) \in S /\ \A y \in S : Max(S) >= y
  BY <1>5 DEF Max
<1> QED
  BY <1>6

(* h starts with base and applies F once for each position: what a          *)
(* recursive definition of the helpers asks of its function.                *)
Iterates(h, n, base, F) ==
    /\ h = [i \in 0 .. n |-> h[i]]
    /\ h[0] = base
    /\ \A i \in 1 .. n : h[i] = F[<<i, h[i - 1]>>]

(* There is such a function: the recursive definitions have a solution. *)
LEMMA Iterate ==
    ASSUME NEW n \in Nat, NEW base, NEW F
    PROVE  \E h : Iterates(h, n, base, F)
<1> DEFINE S == {k \in 0 .. n : \E h : Iterates(h, k, base, F)}
<1>1. 0 \in S
  <2> DEFINE h == [i \in 0 .. 0 |-> base]
  <2>1. Iterates(h, 0, base, F)
    BY DEF Iterates
  <2> QED
    BY <2>1
<1>2. \A k \in 0 .. n - 1 : k \in S => k + 1 \in S
  <2> SUFFICES ASSUME NEW k \in 0 .. n - 1, k \in S
               PROVE  k + 1 \in S
    OBVIOUS
  <2>1. PICK h : Iterates(h, k, base, F)
    OBVIOUS
  <2> DEFINE g == [i \in 0 .. k + 1 |-> IF i = k + 1 THEN F[<<i, h[k]>>] ELSE h[i]]
  <2>2. \A i \in 0 .. k : g[i] = h[i]
    OBVIOUS
  <2>3. g = [i \in 0 .. k + 1 |-> g[i]] /\ g[k + 1] = F[<<k + 1, h[k]>>]
    OBVIOUS
  <2> HIDE DEF g
  <2>4. ASSUME NEW i \in 1 .. k + 1
        PROVE  g[i] = F[<<i, g[i - 1]>>]
    <3>1. CASE i = k + 1
      <4>1. g[k] = h[k] /\ (k + 1) - 1 = k
        BY <2>2
      <4> QED
        BY <2>3, <3>1, <4>1
    <3>2. CASE i # k + 1
      <4>1. i \in 1 .. k /\ g[i] = h[i] /\ g[i - 1] = h[i - 1]
        BY <2>2, <3>2
      <4> QED
        BY <2>1, <4>1 DEF Iterates
    <3> QED
      BY <3>1, <3>2
  <2>5. g[0] = base
    BY <2>1, <2>2 DEF Iterates
  <2>6. Iterates(g, k + 1, base, F)
    BY <2>3, <2>4, <2>5 DEF Iterates
  <2> QED
    BY <2>6
<1> HIDE DEF S
<1>3. n \in S
  BY <1>1, <1>2, Induction
<1> QED
  BY <1>3 DEF S

-----------------------------------------------------------------------------
(* Kept and Named.                                                         *)

LEMMA KeptExists ==
    ASSUME NEW V, NEW seq \in Seq(V), NEW positions
    PROVE  \E h : /\ \A i \in 1 .. Len(seq) :
                        h[i] = IF i \in positions THEN Append(h[i - 1], seq[i]) ELSE h[i - 1]
                  /\ h[0] = <<>> /\ Kept(seq, positions) = h[Len(seq)]
<1> DEFINE n == Len(seq)
           F == [p \in (1 .. n) \X Seq(V) |->
                    IF p[1] \in positions THEN Append(p[2], seq[p[1]]) ELSE p[2]]
<1>1. n \in Nat /\ \A i \in 1 .. n : seq[i] \in V
  OBVIOUS
<1>2. \A i \in 1 .. n, v \in Seq(V) :
        F[<<i, v>>] = IF i \in positions THEN Append(v, seq[i]) ELSE v
  OBVIOUS
<1> HIDE DEF F, n
<1>3. PICK h : Iterates(h, n, <<>>, F)
  <2>1. n \in Nat
    BY <1>1
  <2> QED
    BY <2>1, Iterate
<1>4. h[0] = <<>> /\ h = [i \in 0 .. n |-> h[i]] /\ \A i \in 1 .. n : h[i] = F[<<i, h[i - 1]>>]
  BY <1>3 DEF Iterates
<1> DEFINE S == {k \in 0 .. n : h[k] \in Seq(V)}
<1>5. \A k \in 0 .. n : h[k] \in Seq(V)
  <2>1. 0 \in S
    BY <1>1, <1>4
  <2>2. \A k \in 0 .. n - 1 : k \in S => k + 1 \in S
    <3> SUFFICES ASSUME NEW k \in 0 .. n - 1, h[k] \in Seq(V)
                 PROVE  h[k + 1] \in Seq(V)
      BY <1>1
    <3>1. k + 1 \in 1 .. n /\ (k + 1) - 1 = k
      BY <1>1
    <3>2. h[k + 1] = F[<<k + 1, h[k]>>]
      BY <1>4, <3>1
    <3>3. F[<<k + 1, h[k]>>] \in {Append(h[k], seq[k + 1]), h[k]}
      BY <1>2, <3>1
    <3>4. Append(h[k], seq[k + 1]) \in Seq(V)
      BY <1>1, <3>1
    <3> QED
      BY <3>2, <3>3, <3>4
  <2>3. n \in Nat
    BY <1>1
  <2> HIDE DEF S
  <2>4. \A k \in 0 .. n : k \in S
    BY <2>1, <2>2, <2>3, Induction
  <2> QED
    BY <2>4 DEF S
<1>6. ASSUME NEW i \in 1 .. n
      PROVE  h[i] = IF i \in positions THEN Append(h[i - 1], seq[i]) ELSE h[i - 1]
  <2>1. h[i - 1] \in Seq(V)
    BY <1>1, <1>5
  <2>2. h[i] = F[<<i, h[i - 1]>>]
    BY <1>4
  <2> QED
    BY <1>2, <2>1, <2>2
<1> DEFINE Body(g, i) == IF i = 0 THEN <<>>
                         ELSE IF i \in positions THEN Append(g[i - 1], seq[i]) ELSE g[i - 1]
           Solves(g) == g = [i \in 0 .. n |-> Body(g, i)]
           kept == CHOOSE g : Solves(g)
<1>7. ASSUME NEW i \in 0 .. n
      PROVE  h[i] = Body(h, i)
  <2>1. CASE i = 0
    BY <1>4, <2>1
  <2>2. CASE i # 0
    <3>1. i \in 1 .. n
      BY <1>1, <2>2
    <3> QED
      BY <1>6, <2>2, <3>1
  <2> QED
    BY <2>1, <2>2
<1>8. Solves(h)
  <2> HIDE DEF Body
  <2> QED
    BY <1>4, <1>7
<1>9. Kept(seq, positions) = kept[n]
  BY DEF Kept, n
<1>10. \A i \in 0 .. n : kept[i] = Body(kept, i)
  <2> HIDE DEF Body
  <2>1. Solves(kept)
    BY <1>8
  <2> HIDE DEF kept
  <2> QED
    BY <2>1
<1> HIDE DEF kept
<1>11. kept[0] = <<>> /\ \A i \in 1 .. n :
         kept[i] = IF i \in positions THEN Append(kept[i - 1], seq[i]) ELSE kept[i - 1]
  BY <1>1, <1>10
<1> QED
  BY <1>9, <1>11 DEF n

(* The kept entries are those at the positions. *)
LEMMA KeptEntries ==
    ASSUME NEW V, NEW seq \in Seq(V), NEW positions \in SUBSET DOMAIN seq
    PROVE  /\ Kept(seq, positions) \in Seq(V)
           /\ ToSet(Kept(seq, positions)) = {seq[i] : i \in positions}
           /\ positions = DOMAIN seq => Kept(seq, positions) = seq
<1> DEFINE n == Len(seq)
<1>1. PICK h : /\ \A i \in 1 .. n :
                    h[i] = IF i \in positions THEN Append(h[i - 1], seq[i]) ELSE h[i - 1]
               /\ h[0] = <<>> /\ Kept(seq, positions) = h[n]
  BY KeptExists
<1>2. n \in Nat /\ DOMAIN seq = 1 .. n /\ n = Len(seq) /\ \A i \in 1 .. n : seq[i] \in V
  OBVIOUS
<1> HIDE DEF n
<1>3. h[0] = <<>> /\ \A i \in 1 .. n :
        h[i] = IF i \in positions THEN Append(h[i - 1], seq[i]) ELSE h[i - 1]
  BY <1>1
<1> DEFINE Has(s, x) == \E j \in DOMAIN s : s[j] = x
           S == {k \in 0 .. n :
                  /\ h[k] \in Seq(V)
                  /\ \A x : Has(h[k], x) <=> \E i \in positions : i <= k /\ seq[i] = x
                  /\ positions = DOMAIN seq =>
                        Len(h[k]) = k /\ \A j \in 1 .. k : h[k][j] = seq[j]}
<1>4. 0 \in S
  <2>1. h[0] = <<>> /\ 0 \in 0 .. n
    BY <1>2, <1>3
  <2>2. <<>> \in Seq(V) /\ Len(<<>>) = 0 /\ \A x : ~Has(<<>>, x)
    OBVIOUS
  <2>3. ~\E i \in positions : i <= 0
    BY <1>2
  <2>4. h[0] \in Seq(V) /\ \A x : Has(h[0], x) <=> \E i \in positions : i <= 0 /\ seq[i] = x
    BY <2>1, <2>2, <2>3
  <2>5. Len(h[0]) = 0 /\ \A j \in 1 .. 0 : h[0][j] = seq[j]
    BY <2>1, <2>2
  <2> QED
    BY <2>1, <2>4, <2>5
<1>5. \A k \in 0 .. n - 1 : k \in S => k + 1 \in S
  <2> SUFFICES ASSUME NEW k \in 0 .. n - 1, k \in S
               PROVE  k + 1 \in S
    OBVIOUS
  <2>1. k + 1 \in 0 .. n /\ k + 1 \in 1 .. n /\ k + 1 # 0 /\ (k + 1) - 1 = k
    BY <1>2
  <2>2. h[k + 1] = IF k + 1 \in positions THEN Append(h[k], seq[k + 1]) ELSE h[k]
    BY <1>3, <2>1
  <2>3. h[k] \in Seq(V) /\ seq[k + 1] \in V
    BY <1>2, <2>1
  <2>4. h[k + 1] \in Seq(V)
    BY <2>2, <2>3
  <2>5. ASSUME NEW x
        PROVE  Has(h[k + 1], x) <=> \E i \in positions : i <= k + 1 /\ seq[i] = x
    <3>1. Has(h[k], x) <=> \E i \in positions : i <= k /\ seq[i] = x
      OBVIOUS
    <3>2. \A i \in positions : i <= k + 1 <=> i <= k \/ i = k + 1
      BY <1>2
    <3>3. CASE k + 1 \notin positions
      BY <2>2, <3>1, <3>2, <3>3
    <3>4. CASE k + 1 \in positions
      <4>1. h[k + 1] = Append(h[k], seq[k + 1])
        BY <2>2, <3>4
      <4>2. Has(h[k + 1], x) <=> Has(h[k], x) \/ seq[k + 1] = x
        BY <2>3, <4>1
      <4> QED
        BY <3>1, <3>2, <3>4, <4>2
    <3> QED
      BY <3>3, <3>4
  <2>6. ASSUME positions = DOMAIN seq
        PROVE  Len(h[k + 1]) = k + 1 /\ \A j \in 1 .. k + 1 : h[k + 1][j] = seq[j]
    <3>1. h[k + 1] = Append(h[k], seq[k + 1])
      BY <1>2, <2>1, <2>2, <2>6
    <3>2. Len(h[k]) = k /\ \A j \in 1 .. k : h[k][j] = seq[j]
      BY <2>6
    <3> QED
      BY <2>3, <3>1, <3>2
  <2> QED
    BY <2>1, <2>4, <2>5, <2>6
<1>6. n \in S
  <2> HIDE DEF S
  <2>1. \A k \in 0 .. n : k \in S
    BY <1>2, <1>4, <1>5, Induction
  <2> QED
    BY <1>2, <2>1
<1>7. Kept(seq, positions) \in Seq(V)
  BY <1>1, <1>6
<1>8. ToSet(Kept(seq, positions)) = {seq[i] : i \in positions}
  <2>1. \A i \in positions : i <= n
    BY <1>2
  <2>2. \A x : Has(h[n], x) <=> \E i \in positions : seq[i] = x
    BY <1>6, <2>1
  <2>3. \A x : x \in ToSet(h[n]) <=> Has(h[n], x)
    BY DEF ToSet
  <2> QED
    BY <1>1, <2>2, <2>3
<1>9. ASSUME positions = DOMAIN seq
      PROVE  Kept(seq, positions) = seq
  <2>1. Len(h[n]) = n /\ \A j \in 1 .. n : h[n][j] = seq[j]
    BY <1>6, <1>9
  <2>2. h[n] \in Seq(V)
    BY <1>6
  <2>3. h[n] = seq
    BY <1>2, <2>1, <2>2
  <2> QED
    BY <1>1, <2>3
<1> QED
  BY <1>7, <1>8, <1>9

(* Of two fields of a name, select takes the last. *)
LEMMA NamedIsTheLast ==
    ASSUME NEW V, NEW fields \in Seq(V), NEW name \in NamesOf(fields)
    PROVE  /\ Named(fields, name) \in DOMAIN fields
           /\ fields[Named(fields, name)].name = name
           /\ \A i \in DOMAIN fields : fields[i].name = name => i <= Named(fields, name)
<1> DEFINE I == {i \in 1 .. Len(fields) : fields[i].name = name}
<1>1. I \in SUBSET (1 .. Len(fields)) /\ I # {} /\ Len(fields) \in Nat /\ DOMAIN fields = 1 .. Len(fields)
  BY DEF NamesOf
<1>2. Named(fields, name) = Max(I)
  BY <1>1 DEF Named, SelectLastInSeq
<1>3. Max(I) \in I /\ \A k \in I : k <= Max(I)
  <2> HIDE DEF I
  <2> QED
    BY <1>1, Greatest
<1> QED
  BY <1>1, <1>2, <1>3

-----------------------------------------------------------------------------
(* What a column is called.                                                *)

(* Names are sequences; a suffix makes another one. *)
Spellings == Seq(Words \cup Nat)

LEMMA SuffixesDiffer ==
    ASSUME NEW column \in Spellings, NEW j \in Nat, NEW k \in Nat
    PROVE  /\ Append(column, j) \in Spellings
           /\ Append(column, j) = Append(column, k) => j = k
<1>1. Append(column, j)[Len(column) + 1] = j /\ Append(column, k)[Len(column) + 1] = k
  BY DEF Spellings
<1> QED
  BY <1>1 DEF Spellings

(* What the first names are, of the columns up to k: each column has one,   *)
(* no two the same, and a column whose name is taken another one's not.     *)
GoodNames(names, columns, k) ==
    /\ names \in Seq(Spellings) /\ Len(names) = k
    /\ \A i, j \in 1 .. k : names[i] = names[j] => i = j
    /\ \A i \in 1 .. k : \E j \in 1 .. k : names[j] = columns[i]
    /\ \A i \in 1 .. k :
        \/ names[i] = columns[i]
        \/ names[i] \notin ToSet(columns) /\ \E j \in 1 .. i - 1 : columns[j] = columns[i]

(* There are more suffixes to try than names: one of them is free. *)
LEMMA SuffixIsFree ==
    ASSUME NEW columns \in Seq(Spellings), NEW k \in 1 .. Len(columns),
           NEW names, GoodNames(names, columns, k - 1), NEW column \in Spellings
    PROVE  /\ Suffixed(column, ToSet(names), columns) \in Spellings
           /\ Suffixed(column, ToSet(names), columns) \notin ToSet(names) \cup ToSet(columns)
<1> DEFINE n == Len(columns)
           taken == ToSet(names) \cup ToSet(columns)
           free == {c \in 2 .. n + 2 : Append(column, c) \notin taken}
           holder(j) == IF j < k THEN names[j] ELSE columns[j]
<1>1. n \in Nat /\ k \in 1 .. n /\ DOMAIN columns = 1 .. n /\ DOMAIN names = 1 .. k - 1
  BY DEF GoodNames
<1>2. \A u \in taken : \E j \in 1 .. n : holder(j) = u
  <2> SUFFICES ASSUME NEW u \in taken
               PROVE  \E j \in 1 .. n : holder(j) = u
    OBVIOUS
  <2>1. CASE \E j \in 1 .. k - 1 : names[j] = u
    BY <1>1, <2>1
  <2>2. CASE \E i \in 1 .. n : columns[i] = u
    <3>1. PICK i \in 1 .. n : columns[i] = u
      BY <2>2
    <3>2. CASE i < k
      <4>1. i \in 1 .. k - 1
        BY <1>1, <3>2
      <4>2. \E j \in 1 .. k - 1 : names[j] = u
        BY <3>1, <4>1 DEF GoodNames
      <4> QED
        BY <2>1, <4>2
    <3>3. CASE ~(i < k)
      BY <3>1, <3>3
    <3> QED
      BY <3>2, <3>3
  <2> QED
    BY <1>1, <2>1, <2>2 DEF ToSet
<1>3. free # {}
  <2> SUFFICES ASSUME free = {}
               PROVE  FALSE
    OBVIOUS
  <2> DEFINE f == [c \in 2 .. n + 2 |-> CHOOSE j \in 1 .. n : holder(j) = Append(column, c)]
  <2>1. \A c \in 2 .. n + 2 : \E j \in 1 .. n : holder(j) = Append(column, c)
    <3> HIDE DEF taken, holder
    <3> QED
      BY <1>2
  <2>2. \A c \in 2 .. n + 2 : f[c] \in 1 .. n /\ holder(f[c]) = Append(column, c)
    <3> HIDE DEF holder
    <3> QED
      BY <2>1
  <2> DEFINE S == 2 .. n + 2
             T == 1 .. n
  <2>3. f \in [S -> T]
    BY <2>2
  <2> HIDE DEF f
  <2>4. IsFiniteSet(S) /\ Cardinality(S) = n + 1
    BY <1>1, FS_Interval
  <2>5. IsFiniteSet(T) /\ Cardinality(T) = n
    BY <1>1, FS_Interval
  <2>6. IsFiniteSet(S) /\ IsFiniteSet(T) /\ Cardinality(T) < Cardinality(S)
    BY <1>1, <2>4, <2>5
  <2>7. \E x, y \in S : x # y /\ f[x] = f[y]
    <3> HIDE DEF S, T
    <3> QED
      BY <2>3, <2>6, FS_PigeonHole
  <2>8. PICK x, y \in 2 .. n + 2 : x # y /\ f[x] = f[y]
    BY <2>7
  <2>9. Append(column, x) = Append(column, y)
    BY <2>2, <2>8
  <2>10. x \in Nat /\ y \in Nat
    BY <1>1
  <2> QED
    BY <2>8, <2>9, <2>10, SuffixesDiffer
<1>4. PICK c \in free : \A other \in free : c <= other
  <2>1. free \in SUBSET Nat
    BY <1>1
  <2> HIDE DEF free
  <2> QED
    BY <1>3, <2>1, Least
<1> DEFINE first == CHOOSE s \in free : \A other \in free : s <= other
<1>5. first \in free
  <2> HIDE DEF free
  <2> QED
    BY <1>4
<1>6. Suffixed(column, ToSet(names), columns) = Append(column, first)
  BY DEF Suffixed
<1> HIDE DEF first
<1>7. first \in Nat
  BY <1>1, <1>5
<1> QED
  BY <1>5, <1>6, <1>7, SuffixesDiffer

(* The name the next column gets. *)
NameOf(columns, k, names) ==
    IF columns[k] \in ToSet(names) THEN Suffixed(columns[k], ToSet(names), columns) ELSE columns[k]

LEMMA NameStep ==
    ASSUME NEW columns \in Seq(Spellings), NEW k \in 1 .. Len(columns),
           NEW names, GoodNames(names, columns, k - 1)
    PROVE  GoodNames(Append(names, NameOf(columns, k, names)), columns, k)
<1> DEFINE n == Len(columns)
           name == NameOf(columns, k, names)
           longer == Append(names, name)
<1>1. /\ n \in Nat /\ k \in 1 .. n /\ DOMAIN columns = 1 .. n /\ columns[k] \in Spellings
      /\ columns[k] \in ToSet(columns)
  BY DEF ToSet
<1>2. /\ names \in Seq(Spellings) /\ Len(names) = k - 1 /\ DOMAIN names = 1 .. k - 1
      /\ \A i, j \in 1 .. k - 1 : names[i] = names[j] => i = j
      /\ \A i \in 1 .. k - 1 : \E j \in 1 .. k - 1 : names[j] = columns[i]
      /\ \A i \in 1 .. k - 1 :
            \/ names[i] = columns[i]
            \/ names[i] \notin ToSet(columns) /\ \E j \in 1 .. i - 1 : columns[j] = columns[i]
  BY <1>1 DEF GoodNames
<1>3. /\ name \in Spellings /\ name \notin ToSet(names)
      /\ \/ name = columns[k] /\ columns[k] \notin ToSet(names)
         \/ name \notin ToSet(columns) /\ columns[k] \in ToSet(names)
  <2>1. CASE columns[k] \in ToSet(names)
    <3>1. name = Suffixed(columns[k], ToSet(names), columns)
      BY <2>1 DEF NameOf
    <3> HIDE DEF name
    <3> QED
      BY <1>1, <2>1, <3>1, SuffixIsFree
  <2>2. CASE columns[k] \notin ToSet(names)
    BY <1>1, <2>2 DEF NameOf
  <2> QED
    BY <2>1, <2>2
<1> HIDE DEF name
<1>4. /\ longer \in Seq(Spellings) /\ Len(longer) = k /\ longer[k] = name
      /\ \A i \in 1 .. k - 1 : longer[i] = names[i]
  BY <1>1, <1>2, <1>3
<1> HIDE DEF longer
<1>5. \A i \in 1 .. k - 1 : names[i] # name
  BY <1>2, <1>3 DEF ToSet
<1>6. \A i \in 1 .. k : i \in 1 .. k - 1 \/ i = k
  BY <1>1
<1>7. ASSUME NEW i \in 1 .. k, NEW j \in 1 .. k, longer[i] = longer[j]
      PROVE  i = j
  <2>1. CASE i \in 1 .. k - 1 /\ j \in 1 .. k - 1
    BY <1>2, <1>4, <1>7, <2>1
  <2>2. CASE i \in 1 .. k - 1 /\ j = k
    BY <1>4, <1>5, <1>7, <2>2
  <2>3. CASE i = k /\ j \in 1 .. k - 1
    BY <1>4, <1>5, <1>7, <2>3
  <2> QED
    BY <1>6, <2>1, <2>2, <2>3
<1>8. ASSUME columns[k] \in ToSet(names)
      PROVE  \E j \in 1 .. k - 1 : names[j] = columns[k] /\ columns[j] = columns[k]
  <2>1. PICK j \in 1 .. k - 1 : names[j] = columns[k]
    BY <1>2, <1>8 DEF ToSet
  <2> QED
    BY <1>1, <1>2, <2>1
<1>9. ASSUME NEW i \in 1 .. k
      PROVE  \E j \in 1 .. k : longer[j] = columns[i]
  <2>1. CASE i \in 1 .. k - 1
    BY <1>1, <1>2, <1>4, <2>1
  <2>2. CASE i = k
    BY <1>1, <1>3, <1>4, <1>8, <2>2
  <2> QED
    BY <1>6, <2>1, <2>2
<1>10. ASSUME NEW i \in 1 .. k
       PROVE  \/ longer[i] = columns[i]
              \/ longer[i] \notin ToSet(columns) /\ \E j \in 1 .. i - 1 : columns[j] = columns[i]
  <2>1. CASE i \in 1 .. k - 1
    BY <1>2, <1>4, <2>1
  <2>2. CASE i = k
    BY <1>3, <1>4, <1>8, <2>2
  <2> QED
    BY <1>6, <2>1, <2>2
<1>11. GoodNames(longer, columns, k)
  BY <1>4, <1>7, <1>9, <1>10 DEF GoodNames
<1> QED
  BY <1>11 DEF longer, name

(* The columns of a result have names that meet all of it. *)
LEMMA UniqueNamesAreGood ==
    ASSUME NEW columns \in Seq(Spellings)
    PROVE  GoodNames(UniqueNames(columns), columns, Len(columns))
<1> DEFINE n == Len(columns)
           F == [p \in (1 .. n) \X Seq(Spellings) |-> Append(p[2], NameOf(columns, p[1], p[2]))]
<1>1. n \in Nat
  OBVIOUS
<1>2. \A i \in 1 .. n, v \in Seq(Spellings) : F[<<i, v>>] = Append(v, NameOf(columns, i, v))
  OBVIOUS
<1>3. ASSUME NEW k \in 1 .. n, NEW names, GoodNames(names, columns, k - 1)
      PROVE  /\ names \in Seq(Spellings)
             /\ GoodNames(Append(names, NameOf(columns, k, names)), columns, k)
  <2>1. names \in Seq(Spellings)
    BY <1>3 DEF GoodNames
  <2>2. GoodNames(Append(names, NameOf(columns, k, names)), columns, k)
    BY <1>3, NameStep
  <2> QED
    BY <2>1, <2>2
<1>4. GoodNames(<<>>, columns, 0)
  BY DEF GoodNames
<1> HIDE DEF F, n
<1>5. PICK h : Iterates(h, n, <<>>, F)
  <2>1. n \in Nat
    BY <1>1
  <2> QED
    BY <2>1, Iterate
<1>6. h[0] = <<>> /\ h = [i \in 0 .. n |-> h[i]] /\ \A i \in 1 .. n : h[i] = F[<<i, h[i - 1]>>]
  BY <1>5 DEF Iterates
<1> DEFINE Good(g) == {k \in 0 .. n : GoodNames(g[k], columns, k)}
           Body(g, i) == IF i = 0 THEN <<>> ELSE Append(g[i - 1], NameOf(columns, i, g[i - 1]))
           Solves(g) == g = [i \in 0 .. n |-> Body(g, i)]
           named == CHOOSE g : Solves(g)
<1>7. \A k \in 0 .. n : k \in Good(h)
  <2> DEFINE S == Good(h)
  <2>1. 0 \in S
    BY <1>1, <1>4, <1>6
  <2>2. \A k \in 0 .. n - 1 : k \in S => k + 1 \in S
    <3> SUFFICES ASSUME NEW k \in 0 .. n - 1, GoodNames(h[k], columns, k)
                 PROVE  GoodNames(h[k + 1], columns, k + 1)
      BY <1>1
    <3>1. k + 1 \in 1 .. n /\ (k + 1) - 1 = k
      BY <1>1
    <3>2. h[k] \in Seq(Spellings) /\ GoodNames(Append(h[k], NameOf(columns, k + 1, h[k])), columns, k + 1)
      BY <1>3, <3>1
    <3>3. h[k + 1] = Append(h[k], NameOf(columns, k + 1, h[k]))
      BY <1>2, <1>6, <3>1, <3>2
    <3> QED
      BY <3>2, <3>3
  <2>3. n \in Nat
    BY <1>1
  <2> HIDE DEF S
  <2>4. \A k \in 0 .. n : k \in S
    BY <2>1, <2>2, <2>3, Induction
  <2> QED
    BY <2>4 DEF S
<1>8. ASSUME NEW i \in 0 .. n
      PROVE  h[i] = Body(h, i)
  <2>1. CASE i = 0
    BY <1>6, <2>1
  <2>2. CASE i # 0
    <3>1. i \in 1 .. n /\ i - 1 \in 0 .. n
      BY <1>1, <2>2
    <3>2. h[i - 1] \in Seq(Spellings)
      BY <1>7, <3>1 DEF GoodNames
    <3>3. h[i] = Append(h[i - 1], NameOf(columns, i, h[i - 1]))
      BY <1>2, <1>6, <3>1, <3>2
    <3> QED
      BY <2>2, <3>3
  <2> QED
    BY <2>1, <2>2
<1>9. Solves(h)
  <2> HIDE DEF Body
  <2> QED
    BY <1>6, <1>8
<1>10. UniqueNames(columns) = named[n]
  BY DEF UniqueNames, NameOf, n
<1>11. \A i \in 0 .. n : named[i] = Body(named, i)
  <2> HIDE DEF Body
  <2>1. Solves(named)
    BY <1>9
  <2> HIDE DEF named
  <2> QED
    BY <2>1
<1> HIDE DEF named
<1>12. \A k \in 0 .. n : k \in Good(named)
  <2> DEFINE S == Good(named)
  <2>1. 0 \in S
    <3>1. named[0] = <<>> /\ 0 \in 0 .. n
      BY <1>1, <1>11
    <3> QED
      BY <1>4, <3>1
  <2>2. \A k \in 0 .. n - 1 : k \in S => k + 1 \in S
    <3> SUFFICES ASSUME NEW k \in 0 .. n - 1, GoodNames(named[k], columns, k)
                 PROVE  GoodNames(named[k + 1], columns, k + 1)
      BY <1>1
    <3>1. k + 1 \in 1 .. n /\ k + 1 \in 0 .. n /\ (k + 1) - 1 = k /\ k + 1 # 0
      BY <1>1
    <3>2. GoodNames(Append(named[k], NameOf(columns, k + 1, named[k])), columns, k + 1)
      BY <1>3, <3>1
    <3>3. named[k + 1] = Append(named[k], NameOf(columns, k + 1, named[k]))
      BY <1>11, <3>1
    <3> QED
      BY <3>2, <3>3
  <2>3. n \in Nat
    BY <1>1
  <2> HIDE DEF S
  <2>4. \A k \in 0 .. n : k \in S
    BY <2>1, <2>2, <2>3, Induction
  <2> QED
    BY <2>4 DEF S
<1>13. GoodNames(named[n], columns, n)
  BY <1>1, <1>12
<1> QED
  BY <1>10, <1>13 DEF n

-----------------------------------------------------------------------------
(* Normalisation.                                                          *)

(* A field of a dataset, whose name may have got a suffix. *)
DataFields == [name : Spellings, nullable : BOOLEAN]

LEMMA FieldsAreDataFields ==
    /\ Names \subseteq Spellings /\ Fields \subseteq DataFields
    /\ Seq(Names) \subseteq Seq(Spellings) /\ Seq(Fields) \subseteq Seq(DataFields)
<1>1. Names \subseteq Spellings
  BY PipelineAssumption DEF Spellings
<1>2. Fields \subseteq DataFields
  BY <1>1 DEF Fields, DataFields
<1> QED
  BY <1>1, <1>2

IsSchema(schema) == schema = Undefined \/ (schema \in Seq(Fields) /\ Distinct(schema))

(* A declared field keeps its declaration; of another, the cells decide. *)
LEMMA FieldIsDeclared ==
    ASSUME NEW schema, IsSchema(schema), NEW name \in Spellings, NEW cells
    PROVE  LET f == NormalizedField(schema, name, cells)
           IN /\ f \in DataFields /\ f.name = name
              /\ schema # Undefined =>
                    \A i \in DOMAIN schema : schema[i].name = name => f = schema[i]
              /\ schema = Undefined \/ name \notin NamesOf(schema) =>
                    f.nullable = (Null \in cells \/ cells = {})
<1> DEFINE declared == IF schema = Undefined THEN {}
                       ELSE {schema[i] : i \in {j \in DOMAIN schema : schema[j].name = name}}
           f == NormalizedField(schema, name, cells)
<1>1. CASE declared # {}
  <2>1. f = CHOOSE g \in declared : TRUE
    BY <1>1 DEF NormalizedField
  <2>2. f \in declared
    <3> HIDE DEF declared
    <3> QED
      BY <1>1, <2>1
  <2>3. schema # Undefined /\ schema \in Seq(Fields) /\ Distinct(schema)
    BY <1>1 DEF IsSchema
  <2>4. PICK j \in DOMAIN schema : schema[j].name = name /\ f = schema[j]
    BY <2>2, <2>3
  <2> HIDE DEF f
  <2>5. \A i \in DOMAIN schema : schema[i].name = name => f = schema[i]
    BY <2>3, <2>4 DEF Distinct
  <2>6. f \in DataFields /\ f.name = name /\ name \in NamesOf(schema)
    <3>1. schema[j] \in Fields
      BY <2>3
    <3> QED
      BY <2>4, <3>1, FieldsAreDataFields DEF NamesOf
  <2> QED
    BY <2>3, <2>5, <2>6 DEF f
<1>2. CASE declared = {}
  <2>1. f = [name |-> name, nullable |-> Null \in cells \/ cells = {}]
    BY <1>2 DEF NormalizedField
  <2>2. schema # Undefined => \A i \in DOMAIN schema : schema[i].name # name
    BY <1>2
  <2> HIDE DEF f
  <2>3. f \in DataFields /\ f.name = name /\ f.nullable = (Null \in cells \/ cells = {})
    BY <2>1 DEF DataFields
  <2> QED
    BY <2>2, <2>3 DEF f
<1> QED
  BY <1>1, <1>2

(* What every dataset is: its rows have a cell for every field and no other.*)
Shaped(data) ==
    /\ data = [fields |-> data.fields, rows |-> data.rows, truncated |-> data.truncated]
    /\ data.fields \in Seq(DataFields)
    /\ data.rows \in Seq(ToSet(data.rows))
    /\ \A r \in DOMAIN data.rows : DOMAIN data.rows[r] = NamesOf(data.fields)

(* A field that is not nullable has no null under its name; of two fields   *)
(* of a name, the last decides.                                             *)
NullsAreTold(data) ==
    \A n \in NamesOf(data.fields) :
        \/ data.fields[Named(data.fields, n)].nullable
        \/ \A r \in DOMAIN data.rows : data.rows[r][n] # Null

(* Every projected field is the last one of its name. *)
Delivers(fields, projection) ==
    \A i \in DOMAIN projection :
        /\ projection[i].name \in NamesOf(fields)
        /\ fields[Named(fields, projection[i].name)] = projection[i]

LEMMA NormalizeResultIs ==
    ASSUME NEW result \in Results, NEW schema, IsSchema(schema)
    PROVE  LET data == NormalizeResult(result, schema)
               names == UniqueNames(result.columns)
           IN /\ Shaped(data) /\ Distinct(data.fields)
              /\ Len(data.fields) = Len(result.columns)
              /\ \A i \in DOMAIN data.fields : data.fields[i].name = names[i]
              /\ NamesOf(data.fields) = ToSet(names)
              /\ Len(data.rows) = Len(result.rows) \/ data.truncated
              /\ ValidDataset(data, schema) => NullsAreTold(data)
              /\ ValidDataset(data, schema) /\ schema # Undefined => Delivers(data.fields, schema)
<1> DEFINE columns == result.columns
           names == UniqueNames(columns)
           n == Len(columns)
           rows == IF Len(result.rows) > MaxRows THEN SubSeq(result.rows, 1, MaxRows)
                                                 ELSE result.rows
           index(name) == CHOOSE i \in DOMAIN names : names[i] = name
           cells(i) == {rows[r][i] : r \in DOMAIN rows}
           data == NormalizeResult(result, schema)
<1>1. columns \in Seq(Spellings) /\ n \in Nat /\ DOMAIN columns = 1 .. n
  <2>1. columns \in Seq(Names)
    BY PipelineAssumption
  <2> QED
    BY <2>1, FieldsAreDataFields
<1>2. /\ names \in Seq(Spellings) /\ Len(names) = n /\ DOMAIN names = 1 .. n
      /\ \A i, j \in 1 .. n : names[i] = names[j] => i = j
  <2>1. GoodNames(names, columns, n)
    BY <1>1, UniqueNamesAreGood
  <2> HIDE DEF names, columns
  <2>2. names \in Seq(Spellings) /\ Len(names) = n
    BY <2>1 DEF GoodNames
  <2>3. \A i, j \in 1 .. n : names[i] = names[j] => i = j
    BY <2>1 DEF GoodNames
  <2> QED
    BY <2>2, <2>3
<1>3. /\ rows \in Seq(Seq(Cells))
      /\ Len(rows) = Len(result.rows) \/ Len(result.rows) > MaxRows
  <2>1. result.rows \in Seq(Seq(Cells)) /\ MaxRows \in Nat
    BY PipelineAssumption
  <2>2. ASSUME Len(result.rows) > MaxRows
        PROVE  SubSeq(result.rows, 1, MaxRows) \in Seq(Seq(Cells))
    BY <2>1, <2>2
  <2> QED
    BY <2>1, <2>2
<1>4. /\ data.fields = [i \in DOMAIN names |-> NormalizedField(schema, names[i], cells(i))]
      /\ data.rows = [r \in DOMAIN rows |-> [m \in ToSet(names) |-> rows[r][index(m)]]]
      /\ data.truncated = (Len(result.rows) > MaxRows)
      /\ data = [fields |-> data.fields, rows |-> data.rows, truncated |-> data.truncated]
  BY DEF NormalizeResult
<1> HIDE DEF names, rows, data, columns
<1>5. ASSUME NEW i \in 1 .. n
      PROVE  index(names[i]) = i
  <2> HIDE DEF n
  <2> QED
    BY <1>2
<1>6. ASSUME NEW i \in 1 .. n
      PROVE  LET f == NormalizedField(schema, names[i], cells(i))
             IN /\ data.fields[i] = f /\ f \in DataFields /\ f.name = names[i]
                /\ schema # Undefined =>
                      \A j \in DOMAIN schema : schema[j].name = names[i] => f = schema[j]
                /\ schema = Undefined \/ names[i] \notin NamesOf(schema) =>
                      f.nullable = (Null \in cells(i) \/ cells(i) = {})
  <2>1. names[i] \in Spellings
    BY <1>2
  <2> HIDE DEF cells, n
  <2> QED
    BY <1>2, <1>4, <2>1, FieldIsDeclared
<1> HIDE DEF index, n
<1>7. data.fields \in Seq(DataFields) /\ Len(data.fields) = n /\ DOMAIN data.fields = 1 .. n
  <2>1. data.fields = [i \in 1 .. n |-> data.fields[i]]
    BY <1>2, <1>4
  <2>2. \A i \in 1 .. n : data.fields[i] \in DataFields
    BY <1>6
  <2>3. n \in Nat
    BY <1>1
  <2> QED
    BY <2>1, <2>2, <2>3
<1>8. \A i \in 1 .. n : data.fields[i].name = names[i]
  BY <1>6
<1>9. NamesOf(data.fields) = ToSet(names)
  BY <1>2, <1>7, <1>8 DEF NamesOf, ToSet
<1>10. Distinct(data.fields)
  BY <1>2, <1>7, <1>8 DEF Distinct
<1>11. /\ DOMAIN data.rows = 1 .. Len(rows) /\ Len(rows) \in Nat
       /\ data.rows = [r \in 1 .. Len(rows) |-> data.rows[r]]
       /\ \A r \in 1 .. Len(rows) :
            /\ DOMAIN data.rows[r] = ToSet(names)
            /\ \A m \in ToSet(names) : data.rows[r][m] = rows[r][index(m)]
  BY <1>3, <1>4
<1>12. data.rows \in Seq(ToSet(data.rows)) /\ Len(data.rows) = Len(rows)
  BY <1>11 DEF ToSet
<1>13. Shaped(data)
  BY <1>4, <1>7, <1>9, <1>11, <1>12 DEF Shaped
<1>14. \A i \in 1 .. n : names[i] \in NamesOf(data.fields) /\ Named(data.fields, names[i]) = i
  <2> SUFFICES ASSUME NEW i \in 1 .. n
               PROVE  names[i] \in NamesOf(data.fields) /\ Named(data.fields, names[i]) = i
    OBVIOUS
  <2>1. names[i] \in NamesOf(data.fields)
    BY <1>7, <1>8 DEF NamesOf
  <2>2. /\ Named(data.fields, names[i]) \in 1 .. n
        /\ data.fields[Named(data.fields, names[i])].name = names[i]
    BY <1>7, <2>1, NamedIsTheLast
  <2> QED
    BY <1>2, <1>8, <2>1, <2>2
<1>15. ASSUME ValidDataset(data, schema), NEW i \in 1 .. n
       PROVE  data.fields[i].nullable \/ \A r \in DOMAIN data.rows : data.rows[r][names[i]] # Null
  <2>1. CASE schema # Undefined /\ names[i] \in NamesOf(schema)
    <3>1. PICK j \in DOMAIN schema : schema[j].name = names[i]
      BY <2>1 DEF NamesOf
    <3>2. data.fields[i] = schema[j]
      BY <1>6, <2>1, <3>1
    <3> QED
      BY <1>15, <2>1, <3>1, <3>2 DEF ValidDataset
  <2>2. CASE schema = Undefined \/ names[i] \notin NamesOf(schema)
    <3>1. data.fields[i].nullable = (Null \in cells(i) \/ cells(i) = {})
      BY <1>6, <2>2
    <3>2. \A r \in DOMAIN data.rows : data.rows[r][names[i]] = rows[r][i]
      <4>1. names[i] \in ToSet(names) /\ index(names[i]) = i
        BY <1>2, <1>5 DEF ToSet
      <4>2. \A r \in 1 .. Len(rows) : data.rows[r][names[i]] = rows[r][index(names[i])]
        BY <1>11, <4>1
      <4> QED
        BY <1>11, <4>1, <4>2
    <3>3. \A r \in DOMAIN data.rows : rows[r][i] \in cells(i)
      BY <1>3, <1>11
    <3> QED
      BY <3>1, <3>2, <3>3
  <2> QED
    BY <2>1, <2>2
<1>16. ValidDataset(data, schema) => NullsAreTold(data)
  <2> SUFFICES ASSUME ValidDataset(data, schema), NEW m \in NamesOf(data.fields)
               PROVE  \/ data.fields[Named(data.fields, m)].nullable
                      \/ \A r \in DOMAIN data.rows : data.rows[r][m] # Null
    BY DEF NullsAreTold
  <2>1. PICK i \in 1 .. n : names[i] = m
    BY <1>2, <1>9 DEF ToSet
  <2> QED
    BY <1>14, <1>15, <2>1
<1>17. ASSUME ValidDataset(data, schema), schema # Undefined
       PROVE  Delivers(data.fields, schema)
  <2> SUFFICES ASSUME NEW j \in DOMAIN schema
               PROVE  /\ schema[j].name \in NamesOf(data.fields)
                      /\ data.fields[Named(data.fields, schema[j].name)] = schema[j]
    BY DEF Delivers
  <2>1. schema[j].name \in NamesOf(data.fields)
    BY <1>17 DEF ValidDataset
  <2>2. PICK i \in 1 .. n : names[i] = schema[j].name
    BY <1>2, <1>9, <2>1 DEF ToSet
  <2>3. data.fields[i] = schema[j]
    BY <1>6, <1>17, <2>2
  <2> QED
    BY <1>14, <2>1, <2>2, <2>3
<1>18. Len(data.rows) = Len(result.rows) \/ data.truncated
  BY <1>3, <1>4, <1>12
<1> QED
  BY <1>7, <1>8, <1>9, <1>10, <1>13, <1>16, <1>17, <1>18 DEF data, names, columns, n

-----------------------------------------------------------------------------
(* The transforms, on fields.                                              *)

LEMMA TransformIs ==
    ASSUME NEW spec \in Transforms
    PROVE  /\ spec.type \in {"rename", "select", "derive", "filter", "sort", "limit", "opaque"}
           /\ spec.type = "rename" =>
                \A n \in DOMAIN spec.renames : n \in Names /\ spec.renames[n] \in Names
           /\ spec.type = "select" => spec.names \in Seq(Names)
           /\ spec.type = "derive" => spec.field \in Names
           /\ spec.type = "limit" => spec.offset \in Nat /\ spec.count \in Nat
<1>1. CASE spec \in [type : {"rename"}, renames : UNION {[S -> Names] : S \in SUBSET Names}]
  <2>1. PICK S \in SUBSET Names : spec.renames \in [S -> Names]
    BY <1>1
  <2> QED
    BY <1>1, <2>1
<1>2. CASE spec \in [type : {"select"}, names : Seq(Names)]
  BY <1>2
<1>3. CASE spec \in [type : {"derive"}, field : Names, expression : Expressions]
  BY <1>3
<1>4. CASE spec \in [type : {"filter"}, expression : Expressions]
  BY <1>4
<1>5. CASE spec \in [type : {"sort"}, field : Names, descending : BOOLEAN]
  BY <1>5
<1>6. CASE spec \in [type : {"limit"}, offset : Nat, count : Nat]
  BY <1>6
<1>7. CASE spec \in [type : {"opaque"}]
  BY <1>7
<1> QED
  BY <1>1, <1>2, <1>3, <1>4, <1>5, <1>6, <1>7 DEF Transforms

LEMMA NamedIs ==
    ASSUME NEW V, NEW fields \in Seq(V), NEW i \in DOMAIN fields,
           \A j \in DOMAIN fields : fields[j].name = fields[i].name => j <= i
    PROVE  Named(fields, fields[i].name) = i
<1> DEFINE name == fields[i].name
           k == Named(fields, name)
<1>1. name \in NamesOf(fields)
  BY DEF NamesOf
<1>2. k \in DOMAIN fields /\ fields[k].name = name /\ i <= k
  <2> HIDE DEF k
  <2>1. /\ Named(fields, name) \in DOMAIN fields /\ fields[Named(fields, name)].name = name
        /\ \A j \in DOMAIN fields : fields[j].name = name => j <= Named(fields, name)
    <3> HIDE DEF name
    <3> QED
      BY <1>1, NamedIsTheLast
  <2> QED
    BY <2>1 DEF k
<1> HIDE DEF k
<1>3. k <= i
  BY <1>2
<1> QED
  BY <1>2, <1>3 DEF k

LEMMA NamedOfDistinct ==
    ASSUME NEW V, NEW fields \in Seq(V), Distinct(fields), NEW i \in DOMAIN fields
    PROVE  Named(fields, fields[i].name) = i
<1>1. \A j \in DOMAIN fields : fields[j].name = fields[i].name => j <= i
  BY DEF Distinct
<1> QED
  BY <1>1, NamedIs

(* select: the fields of the names that are there, in the order asked for. *)
LEMMA SelectedIs ==
    ASSUME NEW V, NEW fields \in Seq(V), NEW spec, spec.names \in Seq(Names)
    PROVE  /\ Selected(spec, fields) \in Seq(V)
           /\ \A i \in DOMAIN Selected(spec, fields) :
                LET f == Selected(spec, fields)[i]
                IN f.name \in NamesOf(fields) /\ f = fields[Named(fields, f.name)]
           /\ ToSet(spec.names) \subseteq NamesOf(fields) =>
                /\ DOMAIN Selected(spec, fields) = DOMAIN spec.names
                /\ \A i \in DOMAIN spec.names :
                    /\ Selected(spec, fields)[i] = fields[Named(fields, spec.names[i])]
                    /\ Selected(spec, fields)[i].name = spec.names[i]
<1> DEFINE positions == {i \in DOMAIN spec.names : spec.names[i] \in NamesOf(fields)}
           present == Kept(spec.names, positions)
           selected == Selected(spec, fields)
<1>1. /\ present \in Seq(Names) /\ ToSet(present) = {spec.names[i] : i \in positions}
      /\ positions = DOMAIN spec.names => present = spec.names
  <2>1. positions \in SUBSET DOMAIN spec.names
    OBVIOUS
  <2> HIDE DEF positions
  <2> QED
    BY <2>1, KeptEntries
<1>2. selected = [i \in DOMAIN present |-> fields[Named(fields, present[i])]]
  BY DEF Selected
<1>3. \A i \in DOMAIN present : present[i] \in NamesOf(fields)
  <2>1. \A x \in ToSet(present) : x \in NamesOf(fields)
    BY <1>1
  <2> HIDE DEF present
  <2> QED
    BY <2>1 DEF ToSet
<1>4. ToSet(spec.names) \subseteq NamesOf(fields) => present = spec.names
  BY <1>1 DEF ToSet
<1> HIDE DEF positions, present, selected
<1>5. ASSUME NEW i \in DOMAIN present
      PROVE  selected[i] \in V /\ selected[i].name = present[i]
  <2>1. /\ Named(fields, present[i]) \in DOMAIN fields
        /\ fields[Named(fields, present[i])].name = present[i]
    BY <1>3, NamedIsTheLast
  <2> QED
    BY <1>2, <2>1
<1>6. selected \in Seq(V) /\ DOMAIN selected = DOMAIN present
  BY <1>1, <1>2, <1>5
<1>7. ASSUME NEW i \in DOMAIN selected
      PROVE  selected[i].name \in NamesOf(fields) /\ selected[i] = fields[Named(fields, selected[i].name)]
  BY <1>2, <1>3, <1>5, <1>6
<1> QED
  BY <1>2, <1>4, <1>5, <1>6, <1>7 DEF selected

LEMMA DescribedType ==
    ASSUME NEW spec \in Transforms, NEW N, Names \subseteq N,
           NEW fields \in Seq([name : N, nullable : BOOLEAN])
    PROVE  Described(spec, fields) \in Seq([name : N, nullable : BOOLEAN])
<1> DEFINE V == [name : N, nullable : BOOLEAN]
<1>1. CASE spec.type = "rename"
  <2>1. \A f \in V : [f EXCEPT !.name = NewName(spec, @)] \in V
    BY <1>1, TransformIs DEF NewName
  <2>2. fields \in Seq(V) /\ DOMAIN fields = 1 .. Len(fields) /\ Len(fields) \in Nat
    OBVIOUS
  <2> HIDE DEF V
  <2>3. \A i \in 1 .. Len(fields) : [fields[i] EXCEPT !.name = NewName(spec, @)] \in V
    BY <2>1, <2>2
  <2>4. Renamed(spec, fields) = [i \in 1 .. Len(fields) |-> [fields[i] EXCEPT !.name = NewName(spec, @)]]
    BY <2>2 DEF Renamed
  <2>5. Renamed(spec, fields) \in Seq(V)
    BY <2>2, <2>3, <2>4
  <2> QED
    BY <1>1, <2>5 DEF Described, V
<1>2. CASE spec.type = "select"
  <2>1. spec.names \in Seq(Names)
    BY <1>2, TransformIs
  <2>2. Selected(spec, fields) \in Seq(V)
    <3> HIDE DEF V
    <3> QED
      BY <2>1, SelectedIs DEF V
  <2> QED
    BY <1>2, <2>2 DEF Described
<1>3. CASE spec.type = "derive"
  <2>1. Derived(spec) \in V
    BY <1>3, TransformIs DEF Derived
  <2> QED
    BY <1>3, <2>1 DEF Described
<1>4. CASE spec.type \in {"filter", "sort", "limit", "opaque"}
  BY <1>4 DEF Described
<1> QED
  BY <1>1, <1>2, <1>3, <1>4, TransformIs

(* rename validated against the names known: it maps no two to one. *)
LEMMA RenamesApart ==
    ASSUME NEW spec, NEW known,
           \A n, m \in DOMAIN spec.renames : spec.renames[n] = spec.renames[m] => n = m,
           \A n \in DOMAIN spec.renames :
                spec.renames[n] \notin known \/ spec.renames[n] \in DOMAIN spec.renames,
           NEW n \in known, NEW m \in known, NewName(spec, n) = NewName(spec, m)
    PROVE  n = m
BY DEF NewName

LEMMA RenamedIs ==
    ASSUME NEW fields \in Seq(DataFields), NEW spec \in Transforms, spec.type = "rename"
    PROVE  /\ DOMAIN Renamed(spec, fields) = DOMAIN fields
           /\ \A i \in DOMAIN fields :
                /\ Renamed(spec, fields)[i] = [fields[i] EXCEPT !.name = NewName(spec, @)]
                /\ Renamed(spec, fields)[i].name = NewName(spec, fields[i].name)
                /\ Renamed(spec, fields)[i].nullable = fields[i].nullable
           /\ NamesOf(Renamed(spec, fields)) = {NewName(spec, n) : n \in NamesOf(fields)}
<1>1. \A i \in DOMAIN fields : fields[i] \in DataFields
  OBVIOUS
<1>2. DOMAIN Renamed(spec, fields) = DOMAIN fields
  BY DEF Renamed
<1>3. ASSUME NEW i \in DOMAIN fields
      PROVE  /\ Renamed(spec, fields)[i] = [fields[i] EXCEPT !.name = NewName(spec, @)]
             /\ Renamed(spec, fields)[i].name = NewName(spec, fields[i].name)
             /\ Renamed(spec, fields)[i].nullable = fields[i].nullable
  BY <1>1 DEF Renamed, DataFields
<1>4. NamesOf(Renamed(spec, fields)) = {NewName(spec, n) : n \in NamesOf(fields)}
  BY <1>2, <1>3 DEF NamesOf
<1> QED
  BY <1>2, <1>3, <1>4

LEMMA DerivedIs ==
    ASSUME NEW V, NEW fields \in Seq(V), NEW spec
    PROVE  LET longer == Append(fields, Derived(spec))
           IN /\ NamesOf(longer) = NamesOf(fields) \cup {spec.field}
              /\ longer[Named(longer, spec.field)] = Derived(spec)
              /\ \A n \in NamesOf(fields) : n # spec.field =>
                    longer[Named(longer, n)] = fields[Named(fields, n)]
<1> DEFINE longer == Append(fields, Derived(spec))
           last == Len(fields) + 1
<1>1. /\ Len(fields) \in Nat /\ DOMAIN fields = 1 .. Len(fields) /\ DOMAIN longer = 1 .. last
      /\ \A i \in DOMAIN fields : longer[i] = fields[i]
      /\ longer[last] = Derived(spec) /\ longer[last].name = spec.field
  BY DEF Derived
<1>2. longer \in Seq(V \cup {Derived(spec)})
  OBVIOUS
<1> HIDE DEF longer
<1>3. \A i \in DOMAIN longer : i \in DOMAIN fields \/ i = last
  BY <1>1
<1>4. NamesOf(longer) = NamesOf(fields) \cup {spec.field}
  <2>1. \A i \in DOMAIN fields : i \in DOMAIN longer
    BY <1>1
  <2>2. last \in DOMAIN longer
    BY <1>1
  <2> QED
    BY <1>1, <1>3, <2>1, <2>2 DEF NamesOf
<1>5. Named(longer, spec.field) = last
  <2>1. last \in DOMAIN longer /\ \A j \in DOMAIN longer : j <= last
    BY <1>1
  <2>2. Named(longer, longer[last].name) = last
    BY <1>2, <2>1, NamedIs
  <2> QED
    BY <1>1, <2>2
<1>6. ASSUME NEW n \in NamesOf(fields), n # spec.field
      PROVE  longer[Named(longer, n)] = fields[Named(fields, n)]
  <2> DEFINE k == Named(fields, n)
  <2>1. /\ k \in DOMAIN fields /\ fields[k].name = n
        /\ \A i \in DOMAIN fields : fields[i].name = n => i <= k
    BY NamedIsTheLast
  <2> HIDE DEF k
  <2>2. k \in DOMAIN longer /\ longer[k] = fields[k]
    BY <1>1, <2>1
  <2>3. \A j \in DOMAIN longer : longer[j].name = longer[k].name => j <= k
    BY <1>1, <1>3, <1>6, <2>1, <2>2
  <2>4. Named(longer, longer[k].name) = k
    BY <1>2, <2>2, <2>3, NamedIs
  <2> QED
    BY <2>1, <2>2, <2>4 DEF k
<1> QED
  BY <1>1, <1>4, <1>5, <1>6 DEF longer

-----------------------------------------------------------------------------
(* The transforms, on datasets.                                            *)

(* What becomes of one row. *)
RowOf(spec, fields, row) ==
    CASE spec.type = "rename" -> RenameRow(spec, row)
      [] spec.type = "select" -> [n \in NamesOf(Selected(spec, fields)) |-> row[n]]
      [] spec.type = "derive" -> DeriveRow(spec, row)
      [] OTHER -> row

(* Every row a transform returns comes from a row it was given. *)
LEMMA RowsComeFromRows ==
    ASSUME NEW spec \in Transforms, NEW data, Shaped(data), NEW rows \in NewRows(spec, data)
    PROVE  /\ rows \in Seq(ToSet(rows))
           /\ \A k \in DOMAIN rows : \E i \in DOMAIN data.rows :
                rows[k] = RowOf(spec, data.fields, data.rows[i])
<1> DEFINE n == Len(data.rows)
           R == ToSet(data.rows)
<1>1. data.rows \in Seq(R) /\ n \in Nat /\ DOMAIN data.rows = 1 .. n
  BY DEF Shaped
<1>2. \A s : \A V : s \in Seq(V) => s \in Seq(ToSet(s))
  BY DEF ToSet
<1>3. \A x \in R : \E i \in DOMAIN data.rows : x = data.rows[i]
  BY DEF ToSet
<1> HIDE DEF n, R
<1>4. CASE spec.type = "rename"
  <2>1. rows = [i \in DOMAIN data.rows |-> RowOf(spec, data.fields, data.rows[i])]
    BY <1>4 DEF NewRows, RowOf
  <2> QED
    BY <1>1, <2>1 DEF ToSet
<1>5. CASE spec.type = "select"
  <2>1. rows = [i \in DOMAIN data.rows |-> RowOf(spec, data.fields, data.rows[i])]
    BY <1>5 DEF NewRows, RowOf
  <2> QED
    BY <1>1, <2>1 DEF ToSet
<1>6. CASE spec.type = "derive"
  <2>1. rows = [i \in DOMAIN data.rows |-> RowOf(spec, data.fields, data.rows[i])]
    BY <1>6 DEF NewRows, RowOf
  <2> QED
    BY <1>1, <2>1 DEF ToSet
<1>7. ASSUME rows \in Seq(R), \A row : RowOf(spec, data.fields, row) = row
      PROVE  /\ rows \in Seq(ToSet(rows))
             /\ \A k \in DOMAIN rows : \E i \in DOMAIN data.rows :
                    rows[k] = RowOf(spec, data.fields, data.rows[i])
  <2>1. \A k \in DOMAIN rows : rows[k] \in R
    BY <1>7
  <2> QED
    BY <1>2, <1>3, <1>7, <2>1
<1>8. CASE spec.type = "filter"
  <2> DEFINE true == {i \in DOMAIN data.rows :
                        Truthy(EvaluateExpression(spec.expression, data.rows[i]))}
  <2>1. rows = Kept(data.rows, true)
    BY <1>8 DEF NewRows
  <2>2. true \in SUBSET DOMAIN data.rows
    OBVIOUS
  <2> HIDE DEF true
  <2>3. rows \in Seq(R)
    BY <1>1, <2>1, <2>2, KeptEntries
  <2>4. \A row : RowOf(spec, data.fields, row) = row
    BY <1>8 DEF RowOf
  <2> QED
    BY <1>7, <2>3, <2>4
<1>9. CASE spec.type = "sort"
  <2>1. PICK p \in [1 .. n -> 1 .. n] : rows = [i \in DOMAIN p |-> data.rows[p[i]]]
    <3>1. rows \in Sorted(spec, data.rows)
      BY <1>9 DEF NewRows
    <3> DEFINE asked == {p \in Orders(n) :
                    \A i, j \in DOMAIN p : i < j => Before(spec, data.rows, p[i], p[j])}
               chosen == IF asked = {} THEN Orders(n) ELSE asked
    <3>2. rows \in {[i \in DOMAIN p |-> data.rows[p[i]]] : p \in chosen}
      BY <3>1 DEF Sorted, n
    <3>3. chosen \subseteq [1 .. n -> 1 .. n]
      BY DEF Orders
    <3> HIDE DEF chosen
    <3> QED
      BY <3>2, <3>3
  <2>2. rows \in Seq(R)
    BY <1>1, <2>1
  <2>3. \A row : RowOf(spec, data.fields, row) = row
    BY <1>9 DEF RowOf
  <2> QED
    BY <1>7, <2>2, <2>3
<1>10. CASE spec.type = "limit"
  <2> DEFINE end == IF spec.offset + spec.count < n THEN spec.offset + spec.count ELSE n
  <2>1. rows = SubSeq(data.rows, spec.offset + 1, end)
    BY <1>10 DEF NewRows, n
  <2>2. spec.offset \in Nat /\ spec.count \in Nat
    BY <1>10, TransformIs
  <2>3. spec.offset + 1 \in 1 .. n + spec.offset + 1 /\ end \in 0 .. n
    BY <1>1, <2>2
  <2> HIDE DEF end
  <2>4. rows \in Seq(R)
    BY <1>1, <2>1, <2>2, <2>3 DEF n
  <2>5. \A row : RowOf(spec, data.fields, row) = row
    BY <1>10 DEF RowOf
  <2> QED
    BY <1>7, <2>4, <2>5
<1>11. CASE spec.type = "opaque"
  <2>1. rows \in Seq(R)
    BY <1>1, <1>11 DEF NewRows
  <2>2. \A row : RowOf(spec, data.fields, row) = row
    BY <1>11 DEF RowOf
  <2> QED
    BY <1>7, <2>1, <2>2
<1> QED
  BY <1>4, <1>5, <1>6, <1>8, <1>9, <1>10, <1>11, TransformIs

(* The dataset after a transform. *)
After(spec, data, rows) ==
    [data EXCEPT !.fields = NewFields(spec, @), !.rows = rows]

LEMMA TransformKeepsShape ==
    ASSUME NEW spec \in Transforms, NEW data, Shaped(data), NEW rows \in NewRows(spec, data)
    PROVE  /\ Shaped(After(spec, data, rows))
           /\ After(spec, data, rows).fields = Described(spec, data.fields)
           /\ After(spec, data, rows).rows = rows
<1> DEFINE after == After(spec, data, rows)
<1>1. after = [fields |-> Described(spec, data.fields), rows |-> rows, truncated |-> data.truncated]
  <2>1. data = [fields |-> data.fields, rows |-> data.rows, truncated |-> data.truncated]
    BY DEF Shaped
  <2>2. after = [data EXCEPT !.fields = Described(spec, data.fields), !.rows = rows]
    BY DEF After, NewFields
  <2> HIDE DEF after
  <2> QED
    BY <2>1, <2>2
<1> HIDE DEF after
<1>2. after.fields = Described(spec, data.fields) /\ after.rows = rows
  BY <1>1
<1>3. after = [fields |-> after.fields, rows |-> after.rows, truncated |-> after.truncated]
  BY <1>1
<1>4. data.fields \in Seq(DataFields) /\ after.fields \in Seq(DataFields)
  <2>1. data.fields \in Seq([name : Spellings, nullable : BOOLEAN])
    BY DEF Shaped, DataFields
  <2>2. Described(spec, data.fields) \in Seq([name : Spellings, nullable : BOOLEAN])
    BY <2>1, FieldsAreDataFields, DescribedType
  <2> QED
    BY <1>2, <2>1, <2>2 DEF DataFields
<1>5. rows \in Seq(ToSet(rows))
  BY RowsComeFromRows
<1>6. ASSUME NEW row, DOMAIN row = NamesOf(data.fields)
      PROVE  DOMAIN RowOf(spec, data.fields, row) = NamesOf(after.fields)
  <2>1. CASE spec.type = "rename"
    <3>1. DOMAIN RowOf(spec, data.fields, row) = {NewName(spec, n) : n \in NamesOf(data.fields)}
      BY <1>6, <2>1 DEF RowOf, RenameRow
    <3>2. after.fields = Renamed(spec, data.fields)
      BY <1>2, <2>1 DEF Described
    <3> QED
      BY <1>4, <2>1, <3>1, <3>2, RenamedIs
  <2>2. CASE spec.type = "select"
    <3>1. after.fields = Selected(spec, data.fields)
      BY <1>2, <2>2 DEF Described
    <3>2. RowOf(spec, data.fields, row) = [n \in NamesOf(Selected(spec, data.fields)) |-> row[n]]
      BY <2>2 DEF RowOf
    <3> QED
      BY <3>1, <3>2
  <2>3. CASE spec.type = "derive"
    <3>1. after.fields = Append(data.fields, Derived(spec))
      BY <1>2, <2>3 DEF Described
    <3>2. DOMAIN RowOf(spec, data.fields, row) = NamesOf(data.fields) \cup {spec.field}
      BY <1>6, <2>3 DEF RowOf, DeriveRow
    <3> QED
      BY <1>4, <3>1, <3>2, DerivedIs
  <2>4. CASE spec.type \in {"filter", "sort", "limit", "opaque"}
    BY <1>2, <1>6, <2>4 DEF RowOf, Described
  <2> QED
    BY <2>1, <2>2, <2>3, <2>4, TransformIs
<1>7. ASSUME NEW k \in DOMAIN rows
      PROVE  DOMAIN rows[k] = NamesOf(after.fields)
  <2>1. PICK i \in DOMAIN data.rows : rows[k] = RowOf(spec, data.fields, data.rows[i])
    BY RowsComeFromRows
  <2>2. DOMAIN data.rows[i] = NamesOf(data.fields)
    BY DEF Shaped
  <2> QED
    BY <1>6, <2>1, <2>2
<1> QED
  BY <1>2, <1>3, <1>4, <1>5, <1>7 DEF Shaped, after

(* What is not null in a row is not null in what becomes of it. *)
LEMMA TransformTellsNulls ==
    ASSUME NEW spec \in Transforms, NEW data, Shaped(data), ~Fails(spec, data),
           NullsAreTold(data), NEW rows \in NewRows(spec, data)
    PROVE  NullsAreTold(After(spec, data, rows))
<1> DEFINE F == data.fields
           G == Described(spec, F)
<1>1. After(spec, data, rows).fields = G /\ After(spec, data, rows).rows = rows
  BY TransformKeepsShape
<1>2. F \in Seq(DataFields) /\ \A i \in DOMAIN data.rows : DOMAIN data.rows[i] = NamesOf(F)
  BY DEF Shaped
<1>3. \A n \in NamesOf(F) : F[Named(F, n)].nullable \/ \A i \in DOMAIN data.rows : data.rows[i][n] # Null
  BY DEF NullsAreTold
<1> HIDE DEF F, G
<1>4. SUFFICES ASSUME NEW m \in NamesOf(G), ~G[Named(G, m)].nullable, NEW k \in DOMAIN rows
               PROVE  rows[k][m] # Null
  BY <1>1 DEF NullsAreTold
<1>5. PICK i \in DOMAIN data.rows : rows[k] = RowOf(spec, F, data.rows[i])
  BY RowsComeFromRows DEF F
<1> DEFINE row == data.rows[i]
<1>6. CASE spec.type = "rename"
  <2>1. G = Renamed(spec, F) /\ Distinct(Renamed(spec, F))
    BY <1>6 DEF F, G, Described, Fails
  <2>2. /\ DOMAIN G = DOMAIN F
        /\ \A l \in DOMAIN F : /\ G[l].name = NewName(spec, F[l].name)
                               /\ G[l].nullable = F[l].nullable
    BY <1>2, <1>6, <2>1, RenamedIs
  <2>3. PICK j \in DOMAIN F : G[j].name = m
    BY <1>4, <2>2 DEF NamesOf
  <2>4. \A l \in DOMAIN F : NewName(spec, F[l].name) = m => l = j
    BY <2>1, <2>2, <2>3 DEF Distinct
  <2>5. G \in Seq(DataFields) /\ DOMAIN G = DOMAIN F /\ Distinct(G)
    <3>1. Described(spec, F) \in Seq([name : Spellings, nullable : BOOLEAN])
      BY <1>2, FieldsAreDataFields, DescribedType DEF DataFields
    <3> QED
      BY <1>6, <2>1, <2>2, <3>1 DEF G, Described, DataFields
  <2>6. Named(G, m) = j
    BY <2>3, <2>5, NamedOfDistinct
  <2>7. Named(F, F[j].name) = j /\ F[j].name \in NamesOf(F)
    <3>1. NewName(spec, F[j].name) = m
      BY <2>2, <2>3
    <3>2. \A l \in DOMAIN F : F[l].name = F[j].name => l = j
      BY <2>4, <3>1
    <3>3. \A l \in DOMAIN F : F[l].name = F[j].name => l <= j
      BY <1>2, <3>2
    <3>4. Named(F, F[j].name) = j
      BY <1>2, <3>3, NamedIs
    <3> QED
      BY <3>4 DEF NamesOf
  <2>8. ~F[j].nullable
    BY <1>4, <2>2, <2>6
  <2>9. row[F[j].name] # Null
    BY <1>3, <2>7, <2>8
  <2>10. NewName(spec, F[j].name) = m /\ F[j].name \in DOMAIN row
    BY <1>2, <2>2, <2>3, <2>7
  <2>11. \A n \in DOMAIN row : NewName(spec, n) = m => n = F[j].name
    BY <1>2, <2>4 DEF NamesOf
  <2>12. (CHOOSE n \in DOMAIN row : NewName(spec, n) = m) = F[j].name
    BY <2>10, <2>11
  <2>13. RenameRow(spec, row)[m] = row[F[j].name]
    <3>1. m \in {NewName(spec, n) : n \in DOMAIN row}
      BY <2>10
    <3>2. RenameRow(spec, row)[m] = row[CHOOSE n \in DOMAIN row : NewName(spec, n) = m]
      BY <3>1 DEF RenameRow
    <3> QED
      BY <2>12, <3>2
  <2>14. rows[k] = RenameRow(spec, row)
    BY <1>5, <1>6 DEF RowOf
  <2> QED
    BY <2>9, <2>13, <2>14
<1>7. CASE spec.type = "select"
  <2>1. G = Selected(spec, F) /\ spec.names \in Seq(Names)
    BY <1>7, TransformIs DEF G, Described
  <2>2. /\ G \in Seq(DataFields)
        /\ \A l \in DOMAIN G : G[l].name \in NamesOf(F) /\ G[l] = F[Named(F, G[l].name)]
    BY <1>2, <2>1, SelectedIs
  <2>3. Named(G, m) \in DOMAIN G /\ G[Named(G, m)].name = m
    BY <1>4, <2>2, NamedIsTheLast
  <2>4. m \in NamesOf(F) /\ G[Named(G, m)] = F[Named(F, m)]
    BY <2>2, <2>3
  <2>5. row[m] # Null
    BY <1>3, <1>4, <2>4
  <2>6. rows[k][m] = row[m]
    BY <1>4, <1>5, <1>7, <2>1 DEF RowOf
  <2> QED
    BY <2>5, <2>6
<1>8. CASE spec.type = "derive"
  <2>1. G = Append(F, Derived(spec))
    BY <1>8 DEF G, Described
  <2>2. /\ NamesOf(G) = NamesOf(F) \cup {spec.field}
        /\ G[Named(G, spec.field)] = Derived(spec)
        /\ \A n \in NamesOf(F) : n # spec.field => G[Named(G, n)] = F[Named(F, n)]
    BY <1>2, <2>1, DerivedIs
  <2>3. m # spec.field /\ m \in NamesOf(F)
    BY <1>4, <2>2 DEF Derived
  <2>4. row[m] # Null
    BY <1>3, <1>4, <2>2, <2>3
  <2>5. rows[k][m] = row[m]
    BY <1>2, <1>5, <1>8, <2>3 DEF RowOf, DeriveRow
  <2> QED
    BY <2>4, <2>5
<1>9. CASE spec.type \in {"filter", "sort", "limit", "opaque"}
  <2>1. G = F /\ rows[k] = row
    BY <1>5, <1>9 DEF G, Described, RowOf
  <2> QED
    BY <1>3, <1>4, <2>1
<1> QED
  BY <1>6, <1>7, <1>8, <1>9, TransformIs

-----------------------------------------------------------------------------
(* The transforms, on a projection and on what is projected.               *)

(* What validate() asks of a transform whose fields are known. *)
LEMMA ValidIs ==
    ASSUME NEW spec \in Transforms, NEW P, P # Undefined, Valid(spec, P)
    PROVE  /\ spec.type = "rename" =>
                /\ \A n, m \in DOMAIN spec.renames : spec.renames[n] = spec.renames[m] => n = m
                /\ \A n \in DOMAIN spec.renames :
                    spec.renames[n] \notin NamesOf(P) \/ spec.renames[n] \in DOMAIN spec.renames
           /\ spec.type = "select" =>
                /\ \A i, j \in DOMAIN spec.names : spec.names[i] = spec.names[j] => i = j
                /\ ToSet(spec.names) \subseteq NamesOf(P)
           /\ spec.type = "derive" => spec.field \notin NamesOf(P)
           /\ spec.type \in {"derive", "filter"} => Normalizes(spec.expression)
<1>1. CASE spec.type = "rename"
  BY <1>1 DEF Valid
<1>2. CASE spec.type = "select"
  BY <1>2 DEF Valid, IsInjective
<1>3. CASE spec.type = "derive"
  BY <1>3 DEF Valid
<1>4. CASE spec.type = "filter"
  BY <1>4 DEF Valid
<1>5. CASE spec.type \in {"sort", "limit", "opaque"}
  BY <1>5
<1> QED
  BY <1>1, <1>2, <1>3, <1>4, <1>5, TransformIs

(* A transform that was validated against the names of the fields leaves no *)
(* two of one name, and the names it leaves are the projected ones.         *)
LEMMA TransformKeepsNames ==
    ASSUME NEW spec \in Transforms, NEW P \in Seq(DataFields), P # Undefined, Valid(spec, P),
           NEW F \in Seq(DataFields), Distinct(F), NamesOf(F) = NamesOf(P)
    PROVE  /\ Distinct(Described(spec, F))
           /\ NamesOf(Described(spec, F)) = NamesOf(Described(spec, P))
<1>1. CASE spec.type = "rename"
  <2>1. Described(spec, F) = Renamed(spec, F) /\ Described(spec, P) = Renamed(spec, P)
    BY <1>1 DEF Described
  <2>2. NamesOf(Renamed(spec, F)) = NamesOf(Renamed(spec, P))
    <3>1. NamesOf(Renamed(spec, F)) = {NewName(spec, n) : n \in NamesOf(F)}
      BY <1>1, RenamedIs
    <3>2. NamesOf(Renamed(spec, P)) = {NewName(spec, n) : n \in NamesOf(P)}
      BY <1>1, RenamedIs
    <3> QED
      BY <3>1, <3>2
  <2>3. \A n, m \in NamesOf(P) : NewName(spec, n) = NewName(spec, m) => n = m
    <3>1. /\ \A n, m \in DOMAIN spec.renames : spec.renames[n] = spec.renames[m] => n = m
          /\ \A n \in DOMAIN spec.renames :
                spec.renames[n] \notin NamesOf(P) \/ spec.renames[n] \in DOMAIN spec.renames
      BY <1>1, ValidIs
    <3> QED
      BY <3>1, RenamesApart
  <2>4. ASSUME NEW i \in DOMAIN F, NEW j \in DOMAIN F,
               Renamed(spec, F)[i].name = Renamed(spec, F)[j].name
        PROVE  i = j
    <3>1. NewName(spec, F[i].name) = NewName(spec, F[j].name)
      <4>1. \A l \in DOMAIN F : Renamed(spec, F)[l].name = NewName(spec, F[l].name)
        BY <1>1, RenamedIs
      <4> QED
        BY <2>4, <4>1
    <3>2. F[i].name \in NamesOf(P) /\ F[j].name \in NamesOf(P)
      BY DEF NamesOf
    <3>3. F[i].name = F[j].name
      BY <2>3, <3>1, <3>2
    <3> QED
      BY <3>3 DEF Distinct
  <2>5. DOMAIN Renamed(spec, F) = DOMAIN F
    BY <1>1, RenamedIs
  <2> QED
    BY <2>1, <2>2, <2>4, <2>5 DEF Distinct
<1>2. CASE spec.type = "select"
  <2>1. Described(spec, F) = Selected(spec, F) /\ Described(spec, P) = Selected(spec, P)
    BY <1>2 DEF Described
  <2>2. /\ spec.names \in Seq(Names) /\ ToSet(spec.names) \subseteq NamesOf(P)
        /\ \A i, j \in DOMAIN spec.names : spec.names[i] = spec.names[j] => i = j
    BY <1>2, TransformIs, ValidIs
  <2>3. /\ DOMAIN Selected(spec, F) = DOMAIN spec.names
        /\ \A i \in DOMAIN spec.names : Selected(spec, F)[i].name = spec.names[i]
    BY <2>2, SelectedIs
  <2>4. /\ DOMAIN Selected(spec, P) = DOMAIN spec.names
        /\ \A i \in DOMAIN spec.names : Selected(spec, P)[i].name = spec.names[i]
    BY <2>2, SelectedIs
  <2>5. Distinct(Selected(spec, F))
    BY <2>2, <2>3 DEF Distinct
  <2>6. NamesOf(Selected(spec, F)) = NamesOf(Selected(spec, P))
    BY <2>3, <2>4 DEF NamesOf
  <2> QED
    BY <2>1, <2>5, <2>6
<1>3. CASE spec.type = "derive"
  <2>1. /\ Described(spec, F) = Append(F, Derived(spec))
        /\ Described(spec, P) = Append(P, Derived(spec))
    BY <1>3 DEF Described
  <2>2. NamesOf(Described(spec, F)) = NamesOf(Described(spec, P))
    <3>1. NamesOf(Append(F, Derived(spec))) = NamesOf(F) \cup {spec.field}
      BY DerivedIs
    <3>2. NamesOf(Append(P, Derived(spec))) = NamesOf(P) \cup {spec.field}
      BY DerivedIs
    <3> QED
      BY <2>1, <3>1, <3>2
  <2>3. \A i \in DOMAIN F : F[i].name # spec.field
    BY <1>3, ValidIs DEF NamesOf
  <2> DEFINE longer == Append(F, Derived(spec))
             last == Len(F) + 1
  <2>4. /\ Len(F) \in Nat /\ DOMAIN F = 1 .. Len(F) /\ DOMAIN longer = 1 .. last
        /\ \A i \in DOMAIN F : longer[i] = F[i]
        /\ longer[last].name = spec.field
    BY DEF Derived
  <2> HIDE DEF longer
  <2>5. \A i \in DOMAIN longer : i \in DOMAIN F \/ i = last
    BY <2>4
  <2>6. Distinct(longer)
    BY <2>3, <2>4, <2>5 DEF Distinct
  <2> QED
    BY <2>1, <2>2, <2>6 DEF longer
<1>4. CASE spec.type \in {"filter", "sort", "limit", "opaque"}
  BY <1>4 DEF Described
<1> QED
  BY <1>1, <1>2, <1>3, <1>4, TransformIs

(* A transform delivers what it was projected to, if it was given that. *)
LEMMA TransformDelivers ==
    ASSUME NEW spec \in Transforms, NEW P \in Seq(DataFields), P # Undefined, Valid(spec, P),
           Distinct(P), NEW F \in Seq(DataFields), Delivers(F, P),
           spec.type = "rename" => Distinct(Renamed(spec, F))
    PROVE  Delivers(Described(spec, F), Described(spec, P))
<1>1. ASSUME NEW i \in DOMAIN P
      PROVE  P[i].name \in NamesOf(F) /\ F[Named(F, P[i].name)] = P[i]
  BY DEF Delivers
<1>2. CASE spec.type = "rename"
  <2> DEFINE G == Renamed(spec, F)
             Q == Renamed(spec, P)
  <2>1. Described(spec, F) = G /\ Described(spec, P) = Q
    BY <1>2 DEF Described
  <2>2. G \in Seq(DataFields) /\ Distinct(G)
    <3>1. Described(spec, F) \in Seq([name : Spellings, nullable : BOOLEAN])
      BY FieldsAreDataFields, DescribedType DEF DataFields
    <3> QED
      BY <1>2, <2>1, <3>1 DEF DataFields
  <2>3. /\ DOMAIN G = DOMAIN F /\ DOMAIN Q = DOMAIN P
        /\ \A k \in DOMAIN F : G[k] = [F[k] EXCEPT !.name = NewName(spec, @)]
        /\ \A k \in DOMAIN P : Q[k] = [P[k] EXCEPT !.name = NewName(spec, @)]
    BY <1>2, RenamedIs
  <2> HIDE DEF G, Q
  <2>4. ASSUME NEW i \in DOMAIN Q
        PROVE  Q[i].name \in NamesOf(G) /\ G[Named(G, Q[i].name)] = Q[i]
    <3>1. PICK k \in DOMAIN F : F[k] = P[i]
      BY <1>1, <2>3, NamedIsTheLast
    <3>2. G[k] = Q[i] /\ k \in DOMAIN G
      BY <2>3, <3>1
    <3>3. Named(G, G[k].name) = k
      BY <2>2, <3>2, NamedOfDistinct
    <3> QED
      BY <3>2, <3>3 DEF NamesOf
  <2> QED
    BY <2>1, <2>4 DEF Delivers
<1>3. CASE spec.type = "select"
  <2> DEFINE G == Selected(spec, F)
             Q == Selected(spec, P)
  <2>1. Described(spec, F) = G /\ Described(spec, P) = Q
    BY <1>3 DEF Described
  <2>2. spec.names \in Seq(Names) /\ ToSet(spec.names) \subseteq NamesOf(P)
    BY <1>3, TransformIs, ValidIs
  <2>3. NamesOf(P) \subseteq NamesOf(F)
    BY <1>1 DEF NamesOf
  <2>4. /\ DOMAIN Q = DOMAIN spec.names
        /\ \A i \in DOMAIN Q : Q[i] = P[Named(P, spec.names[i])] /\ Q[i].name = spec.names[i]
    BY <2>2, SelectedIs
  <2>5. /\ G \in Seq(DataFields) /\ DOMAIN G = DOMAIN spec.names
        /\ \A i \in DOMAIN G : G[i] = F[Named(F, spec.names[i])] /\ G[i].name = spec.names[i]
    BY <2>2, <2>3, SelectedIs
  <2> HIDE DEF G, Q
  <2>6. ASSUME NEW i \in DOMAIN Q
        PROVE  G[i] = Q[i]
    <3>1. spec.names[i] \in NamesOf(P)
      BY <2>2, <2>4 DEF ToSet
    <3>2. /\ Named(P, spec.names[i]) \in DOMAIN P
          /\ P[Named(P, spec.names[i])].name = spec.names[i]
      BY <3>1, NamedIsTheLast
    <3>3. F[Named(F, spec.names[i])] = P[Named(P, spec.names[i])]
      BY <1>1, <3>2
    <3> QED
      BY <2>4, <2>5, <3>3
  <2>7. Distinct(G)
    <3>1. \A i, j \in DOMAIN spec.names : spec.names[i] = spec.names[j] => i = j
      BY <1>3, ValidIs
    <3> QED
      BY <2>5, <3>1 DEF Distinct
  <2>8. ASSUME NEW i \in DOMAIN Q
        PROVE  Q[i].name \in NamesOf(G) /\ G[Named(G, Q[i].name)] = Q[i]
    <3>1. i \in DOMAIN G /\ G[i] = Q[i]
      BY <2>4, <2>5, <2>6
    <3>2. Named(G, G[i].name) = i
      BY <2>5, <2>7, <3>1, NamedOfDistinct
    <3> QED
      BY <3>1, <3>2 DEF NamesOf
  <2> QED
    BY <2>1, <2>8 DEF Delivers
<1>4. CASE spec.type = "derive"
  <2> DEFINE G == Append(F, Derived(spec))
             Q == Append(P, Derived(spec))
  <2>1. Described(spec, F) = G /\ Described(spec, P) = Q
    BY <1>4 DEF Described
  <2>2. /\ NamesOf(G) = NamesOf(F) \cup {spec.field}
        /\ G[Named(G, spec.field)] = Derived(spec)
        /\ \A n \in NamesOf(F) : n # spec.field => G[Named(G, n)] = F[Named(F, n)]
    BY DerivedIs
  <2>3. \A i \in DOMAIN Q :
            \/ i \in DOMAIN P /\ Q[i] = P[i]
            \/ Q[i] = Derived(spec) /\ Q[i].name = spec.field
    BY DEF Derived
  <2>4. \A i \in DOMAIN P : P[i].name # spec.field
    BY <1>4, ValidIs DEF NamesOf
  <2> HIDE DEF G, Q
  <2>5. ASSUME NEW i \in DOMAIN Q
        PROVE  Q[i].name \in NamesOf(G) /\ G[Named(G, Q[i].name)] = Q[i]
    <3>1. CASE i \in DOMAIN P /\ Q[i] = P[i]
      BY <1>1, <2>2, <2>4, <3>1
    <3>2. CASE Q[i] = Derived(spec) /\ Q[i].name = spec.field
      BY <2>2, <3>2
    <3> QED
      BY <2>3, <3>1, <3>2
  <2> QED
    BY <2>1, <2>5 DEF Delivers
<1>5. CASE spec.type \in {"filter", "sort", "limit", "opaque"}
  BY <1>5 DEF Described
<1> QED
  BY <1>2, <1>3, <1>4, <1>5, TransformIs

-----------------------------------------------------------------------------
(* The projections of a manifest.                                          *)

(* What prepare() knows of the fields after each transform. *)
Projections(m) ==
    LET p[k \in 0 .. Len(m.transforms)] ==
            IF k = 0 THEN m.schema ELSE Describe(m.transforms[k], p[k - 1])
    IN p

AllValid(m, k) == \A l \in 1 .. k : Valid(m.transforms[l], Projections(m)[l - 1])

LEMMA ManifestIs ==
    ASSUME NEW m \in Manifests
    PROVE  /\ m.transforms \in Seq(Transforms) /\ Len(m.transforms) \in Nat
           /\ \A k \in 1 .. Len(m.transforms) : m.transforms[k] \in Transforms
           /\ IsSchema(m.schema) /\ m.query \in BOOLEAN
BY PipelineAssumption DEF IsSchema

LEMMA ProjectionsAre ==
    ASSUME NEW m \in Manifests
    PROVE  /\ Projections(m)[0] = m.schema
           /\ \A k \in 1 .. Len(m.transforms) :
                Projections(m)[k] = Describe(m.transforms[k], Projections(m)[k - 1])
           /\ \A k \in 0 .. Len(m.transforms) :
                Projections(m)[k] = Undefined \/ Projections(m)[k] \in Seq(Fields)
<1> DEFINE n == Len(m.transforms)
           V == Seq(Fields) \cup {Undefined}
           F == [p \in (1 .. n) \X V |-> Describe(m.transforms[p[1]], p[2])]
           base == m.schema
<1>1. n \in Nat /\ base \in V /\ \A k \in 1 .. n : m.transforms[k] \in Transforms
  BY ManifestIs DEF IsSchema
<1>2. ASSUME NEW k \in 1 .. n, NEW fields \in V
      PROVE  Describe(m.transforms[k], fields) \in V
  <2>1. CASE fields = Undefined \/ m.transforms[k].type = "opaque"
    BY <2>1 DEF Describe
  <2>2. CASE fields # Undefined /\ m.transforms[k].type # "opaque"
    <3>1. fields \in Seq([name : Names, nullable : BOOLEAN])
      BY <2>2 DEF Fields
    <3>2. Described(m.transforms[k], fields) \in Seq([name : Names, nullable : BOOLEAN])
      BY <1>1, <3>1, DescribedType
    <3> QED
      BY <2>2, <3>2 DEF Describe, Fields
  <2> QED
    BY <2>1, <2>2
<1>3. \A k \in 1 .. n, fields \in V : F[<<k, fields>>] = Describe(m.transforms[k], fields)
  OBVIOUS
<1> HIDE DEF F, V, n, base
<1>4. PICK h : Iterates(h, n, base, F)
  <2>1. n \in Nat
    BY <1>1
  <2> QED
    BY <2>1, Iterate
<1>5. h[0] = base /\ h = [i \in 0 .. n |-> h[i]] /\ \A i \in 1 .. n : h[i] = F[<<i, h[i - 1]>>]
  BY <1>4 DEF Iterates
<1> DEFINE In(g) == {k \in 0 .. n : g[k] \in V}
           Body(g, k) == IF k = 0 THEN base ELSE Describe(m.transforms[k], g[k - 1])
           Solves(g) == g = [k \in 0 .. n |-> Body(g, k)]
           p == CHOOSE g : Solves(g)
<1>6. \A k \in 0 .. n : k \in In(h)
  <2> DEFINE S == In(h)
  <2>1. 0 \in S
    BY <1>1, <1>5
  <2>2. \A k \in 0 .. n - 1 : k \in S => k + 1 \in S
    <3> SUFFICES ASSUME NEW k \in 0 .. n - 1, h[k] \in V
                 PROVE  h[k + 1] \in V
      BY <1>1
    <3>1. k + 1 \in 1 .. n /\ (k + 1) - 1 = k
      BY <1>1
    <3>2. h[k + 1] = Describe(m.transforms[k + 1], h[k])
      BY <1>3, <1>5, <3>1
    <3> QED
      BY <1>2, <3>1, <3>2
  <2>3. n \in Nat
    BY <1>1
  <2> HIDE DEF S
  <2>4. \A k \in 0 .. n : k \in S
    BY <2>1, <2>2, <2>3, Induction
  <2> QED
    BY <2>4 DEF S
<1>7. ASSUME NEW k \in 0 .. n
      PROVE  h[k] = Body(h, k)
  <2>1. CASE k = 0
    BY <1>5, <2>1
  <2>2. CASE k # 0
    <3>1. k \in 1 .. n /\ k - 1 \in 0 .. n
      BY <1>1, <2>2
    <3>2. h[k - 1] \in V
      BY <1>6, <3>1
    <3> QED
      BY <1>3, <1>5, <2>2, <3>1, <3>2
  <2> QED
    BY <2>1, <2>2
<1>8. Solves(h)
  <2> HIDE DEF Body
  <2> QED
    BY <1>5, <1>7
<1>9. Projections(m) = p
  BY DEF Projections, n, base
<1>10. \A k \in 0 .. n : p[k] = Body(p, k)
  <2> HIDE DEF Body
  <2>1. Solves(p)
    BY <1>8
  <2> HIDE DEF p
  <2> QED
    BY <2>1
<1> HIDE DEF p
<1>11. p[0] = base /\ \A k \in 1 .. n : p[k] = Describe(m.transforms[k], p[k - 1])
  BY <1>1, <1>10
<1>12. \A k \in 0 .. n : p[k] \in V
  <2> DEFINE S == In(p)
  <2>1. 0 \in S
    BY <1>1, <1>11
  <2>2. \A k \in 0 .. n - 1 : k \in S => k + 1 \in S
    <3> SUFFICES ASSUME NEW k \in 0 .. n - 1, p[k] \in V
                 PROVE  p[k + 1] \in V
      BY <1>1
    <3>1. k + 1 \in 1 .. n /\ (k + 1) - 1 = k
      BY <1>1
    <3>2. p[k + 1] = Describe(m.transforms[k + 1], p[k])
      BY <1>11, <3>1
    <3> QED
      BY <1>2, <3>1, <3>2
  <2>3. n \in Nat
    BY <1>1
  <2> HIDE DEF S
  <2>4. \A k \in 0 .. n : k \in S
    BY <2>1, <2>2, <2>3, Induction
  <2> QED
    BY <2>4 DEF S
<1> QED
  BY <1>9, <1>11, <1>12 DEF n, V, base

(* A projection that is known at the end was known all along. *)
LEMMA ProjectionsAreKnown ==
    ASSUME NEW m \in Manifests, Projections(m)[Len(m.transforms)] # Undefined,
           NEW k \in 0 .. Len(m.transforms)
    PROVE  Projections(m)[k] # Undefined
<1> DEFINE n == Len(m.transforms)
           S == {j \in 0 .. n : Projections(m)[n - j] # Undefined}
<1>1. n \in Nat
  BY ManifestIs
<1>2. 0 \in S
  BY <1>1
<1>3. \A j \in 0 .. n - 1 : j \in S => j + 1 \in S
  <2> SUFFICES ASSUME NEW j \in 0 .. n - 1, Projections(m)[n - j] # Undefined
               PROVE  Projections(m)[n - (j + 1)] # Undefined
    BY <1>1
  <2>1. n - j \in 1 .. n /\ (n - j) - 1 = n - (j + 1)
    BY <1>1
  <2>2. Projections(m)[n - j] = Describe(m.transforms[n - j], Projections(m)[n - (j + 1)])
    BY <2>1, ProjectionsAre
  <2> QED
    BY <2>2 DEF Describe
<1>4. n - k \in 0 .. n /\ n - (n - k) = k
  BY <1>1
<1>5. \A j \in 0 .. n : j \in S
  <2> HIDE DEF S, n
  <2> QED
    BY <1>1, <1>2, <1>3, Induction
<1> QED
  BY <1>4, <1>5

(* Validated step by step, no projection has two fields of one name. *)
LEMMA ProjectionsAreDistinct ==
    ASSUME NEW m \in Manifests, AllValid(m, Len(m.transforms)),
           NEW l \in 0 .. Len(m.transforms), Projections(m)[l] # Undefined
    PROVE  Distinct(Projections(m)[l])
<1> DEFINE n == Len(m.transforms)
           P == Projections(m)
           S == {k \in 0 .. n : P[k] # Undefined => Distinct(P[k])}
<1>1. n \in Nat /\ \A k \in 1 .. n : m.transforms[k] \in Transforms
  BY ManifestIs
<1>2. /\ P[0] = m.schema /\ \A k \in 1 .. n : P[k] = Describe(m.transforms[k], P[k - 1])
      /\ \A k \in 0 .. n : P[k] = Undefined \/ P[k] \in Seq(Fields)
  BY ProjectionsAre
<1>3. \A k \in 1 .. n : Valid(m.transforms[k], P[k - 1])
  BY DEF AllValid
<1> HIDE DEF n, P
<1>4. 0 \in S
  <2>1. IsSchema(m.schema)
    BY ManifestIs
  <2> QED
    BY <1>1, <1>2, <2>1 DEF IsSchema
<1>5. \A k \in 0 .. n - 1 : k \in S => k + 1 \in S
  <2> SUFFICES ASSUME NEW k \in 0 .. n - 1, P[k] # Undefined => Distinct(P[k]),
                      P[k + 1] # Undefined
               PROVE  Distinct(P[k + 1])
    BY <1>1
  <2> DEFINE spec == m.transforms[k + 1]
  <2>1. k + 1 \in 1 .. n /\ (k + 1) - 1 = k /\ k \in 0 .. n
    BY <1>1
  <2>2. spec \in Transforms /\ Valid(spec, P[k]) /\ P[k + 1] = Describe(spec, P[k])
    BY <1>1, <1>2, <1>3, <2>1
  <2>3. P[k] # Undefined /\ P[k + 1] = Described(spec, P[k])
    BY <2>2 DEF Describe
  <2>4. P[k] \in Seq(DataFields) /\ Distinct(P[k])
    BY <1>2, <2>1, <2>3, FieldsAreDataFields
  <2> HIDE DEF spec
  <2>5. Distinct(Described(spec, P[k]))
    BY <2>2, <2>3, <2>4, TransformKeepsNames
  <2> QED
    BY <2>3, <2>5
<1>6. \A k \in 0 .. n : k \in S
  <2>1. n \in Nat
    BY <1>1
  <2> HIDE DEF S
  <2> QED
    BY <1>4, <1>5, <2>1, Induction
<1> QED
  BY <1>6 DEF n, P

-----------------------------------------------------------------------------
(* The invariant.                                                          *)

Total == Len(manifest.transforms)
Projection(k) == Projections(manifest)[k]

(* Which stages have a result, and where they are in the manifest. *)
Stages ==
    /\ manifest \in Manifests
    /\ stage \in {"prepare", "prepared", "transform", "done", "rejected", "failed"}
    /\ at \in 1 .. Total + 1
    /\ stage = "done" => at = Total + 1
    /\ stage \in {"prepare", "prepared"} => raw = Undefined /\ dataset = Empty
    /\ stage = "prepared" => at = 1
    /\ ~manifest.query => raw = Undefined
    /\ stage \in {"transform", "done"} /\ manifest.query => raw \in Results

(* What prepare() knows is the projection of as many transforms as it has   *)
(* validated.                                                               *)
Projected ==
    /\ stage = "prepare" => projected = Projection(at - 1) /\ AllValid(manifest, at - 1)
    /\ stage \in {"prepared", "transform", "done", "failed"} =>
          projected = Projection(Total) /\ AllValid(manifest, Total)

(* The dataset is what the source returned, delivers what is projected so   *)
(* far, has no other fields if the source returned none, and its fields     *)
(* tell where its nulls are.                                                *)
Returned ==
    stage = "transform" /\ at = 1 /\ manifest.query =>
        dataset = NormalizeResult(raw, manifest.schema)

Delivered ==
    stage \in {"transform", "done"} /\ manifest.query /\ Projection(at - 1) # Undefined =>
        Delivers(dataset.fields, Projection(at - 1))

NothingElse ==
    stage = "transform" /\ manifest.query /\ NothingUndeclared =>
        Distinct(dataset.fields) /\ NamesOf(dataset.fields) = NamesOf(Projection(at - 1))

Told == stage \in {"transform", "done"} => NullsAreTold(dataset)

IInv ==
    /\ Stages /\ Projected /\ Shaped(dataset) /\ Returned /\ Delivered /\ NothingElse /\ Told
    /\ PreparedDoesNotFail

LEMMA EmptyIsShaped == Shaped(Empty) /\ NullsAreTold(Empty)
<1>1. Empty = [fields |-> <<>>, rows |-> <<>>, truncated |-> FALSE]
  BY DEF Empty
<1>2. Empty.fields = <<>> /\ Empty.rows = <<>>
  BY <1>1
<1>3. <<>> \in Seq(DataFields) /\ <<>> \in Seq(ToSet(<<>>)) /\ DOMAIN <<>> = {}
  OBVIOUS
<1> QED
  BY <1>1, <1>2, <1>3 DEF Shaped, NullsAreTold

LEMMA InitStep == Init => IInv
<1> SUFFICES ASSUME Init
             PROVE  IInv
  OBVIOUS
<1>1. /\ manifest \in Manifests /\ stage = "prepare" /\ at = 1 /\ projected = manifest.schema
      /\ raw = Undefined /\ dataset = Empty
  BY DEF Init
<1>2. Total \in Nat
  BY <1>1, ManifestIs DEF Total
<1>3. Stages
  BY <1>1, <1>2 DEF Stages
<1>4. Projected
  <2>1. Projection(0) = manifest.schema
    BY <1>1, ProjectionsAre DEF Projection
  <2> QED
    BY <1>1, <2>1 DEF Projected, AllValid
<1>5. Shaped(dataset)
  BY <1>1, EmptyIsShaped
<1>6. Returned /\ Delivered /\ NothingElse /\ Told /\ PreparedDoesNotFail
  BY <1>1 DEF Returned, Delivered, NothingElse, Told, PreparedDoesNotFail
<1> QED
  BY <1>3, <1>4, <1>5, <1>6 DEF IInv

LEMMA PrepareStep ==
    ASSUME IInv, PrepareTransform
    PROVE  IInv'
<1>1. /\ stage = "prepare" /\ at \in 1 .. Total /\ manifest' = manifest
      /\ raw' = raw /\ dataset' = dataset /\ raw = Undefined /\ dataset = Empty
  BY DEF IInv, Stages, PrepareTransform, Total
<1>2. /\ Total \in Nat /\ manifest \in Manifests
      /\ projected = Projection(at - 1) /\ AllValid(manifest, at - 1)
  BY <1>1, ManifestIs DEF IInv, Stages, Projected, Total
<1>3. \/ /\ Valid(manifest.transforms[at], projected) /\ stage' = stage /\ at' = at + 1
         /\ projected' = Describe(manifest.transforms[at], projected)
      \/ stage' = "rejected" /\ at' = at /\ projected' = projected
  BY DEF PrepareTransform
<1>4. stage' \in {"prepare", "rejected"} /\ at' \in 1 .. Total + 1
  BY <1>1, <1>2, <1>3
<1>5. Stages'
  BY <1>1, <1>2, <1>4 DEF Stages, IInv, Total
<1>6. Projected'
  <2>1. CASE stage' = "prepare"
    <3>1. /\ Valid(manifest.transforms[at], projected) /\ at' = at + 1
          /\ projected' = Describe(manifest.transforms[at], projected)
      BY <1>3, <2>1
    <3>2. at' - 1 = at /\ \A l \in 1 .. at : l \in 1 .. at - 1 \/ l = at
      BY <1>1, <1>2, <3>1
    <3>3. AllValid(manifest, at)
      BY <1>2, <3>1, <3>2 DEF AllValid, Projection
    <3>4. projected' = Projection(at)
      BY <1>1, <1>2, <3>1, ProjectionsAre DEF Projection, Total
    <3>5. projected' = Projections(manifest')[at' - 1] /\ AllValid(manifest', at' - 1)
      BY <1>1, <3>2, <3>3, <3>4 DEF Projection
    <3> QED
      BY <2>1, <3>5 DEF Projected, Projection
  <2>2. CASE stage' = "rejected"
    BY <2>2 DEF Projected
  <2> QED
    BY <1>4, <2>1, <2>2
<1>7. Shaped(dataset)'
  BY <1>1 DEF IInv
<1>8. Returned' /\ Delivered' /\ NothingElse' /\ Told' /\ PreparedDoesNotFail'
  BY <1>4 DEF Returned, Delivered, NothingElse, Told, PreparedDoesNotFail
<1> QED
  BY <1>5, <1>6, <1>7, <1>8 DEF IInv

LEMMA RejectStep ==
    ASSUME IInv, TooManyTransforms
    PROVE  IInv'
<1>1. /\ stage' = "rejected" /\ stage = "prepare"
      /\ manifest' = manifest /\ at' = at /\ raw' = raw /\ dataset' = dataset
  BY DEF TooManyTransforms
<1>2. Stages'
  BY <1>1 DEF IInv, Stages, Total
<1>3. Shaped(dataset)'
  BY <1>1 DEF IInv
<1> QED
  BY <1>1, <1>2, <1>3
  DEF IInv, Projected, Returned, Delivered, NothingElse, Told, PreparedDoesNotFail

LEMMA PresentationStep ==
    ASSUME IInv, PreparePresentation
    PROVE  IInv'
<1>1. /\ stage' \in {"prepared", "rejected"} /\ stage = "prepare" /\ at > Total
      /\ manifest' = manifest /\ at' = 1 /\ projected' = projected
      /\ raw' = raw /\ dataset' = dataset
  BY DEF PreparePresentation, Total
<1>2. /\ Total \in Nat /\ manifest \in Manifests /\ at \in 1 .. Total + 1
      /\ projected = Projection(at - 1) /\ AllValid(manifest, at - 1)
  BY <1>1, ManifestIs DEF IInv, Stages, Projected, Total
<1>3. at - 1 = Total
  BY <1>1, <1>2
<1>4. Stages'
  BY <1>1, <1>2 DEF IInv, Stages, Total
<1>5. Projected'
  BY <1>1, <1>2, <1>3 DEF Projected, Projection, Total
<1>6. Shaped(dataset)'
  BY <1>1 DEF IInv
<1>7. Returned' /\ Delivered' /\ NothingElse' /\ Told' /\ PreparedDoesNotFail'
  BY <1>1 DEF Returned, Delivered, NothingElse, Told, PreparedDoesNotFail
<1> QED
  BY <1>4, <1>5, <1>6, <1>7 DEF IInv

LEMMA NoQueryStep ==
    ASSUME IInv, NoQuery
    PROVE  IInv'
<1>1. /\ stage = "prepared" /\ stage' = "transform" /\ ~manifest.query
      /\ manifest' = manifest /\ at' = at /\ projected' = projected
      /\ raw' = raw /\ dataset' = dataset /\ dataset = Empty
  BY DEF IInv, Stages, NoQuery
<1>2. Stages'
  BY <1>1 DEF IInv, Stages, Total
<1>3. Projected'
  BY <1>1 DEF IInv, Projected, Projection, Total
<1>4. Shaped(dataset)' /\ Told'
  BY <1>1, EmptyIsShaped DEF Told
<1>5. Returned' /\ Delivered' /\ NothingElse' /\ PreparedDoesNotFail'
  BY <1>1 DEF Returned, Delivered, NothingElse, PreparedDoesNotFail
<1> QED
  BY <1>2, <1>3, <1>4, <1>5 DEF IInv

LEMMA FinishStep ==
    ASSUME IInv, Finish
    PROVE  IInv'
<1>1. /\ stage = "transform" /\ stage' = "done" /\ at > Total
      /\ manifest' = manifest /\ at' = at /\ projected' = projected
      /\ raw' = raw /\ dataset' = dataset
  BY DEF Finish, Total
<1>2. Total \in Nat /\ at \in 1 .. Total + 1
  BY ManifestIs DEF IInv, Stages, Total
<1>3. Stages'
  BY <1>1, <1>2 DEF IInv, Stages, Total
<1>4. Projected' /\ Delivered' /\ Told'
  BY <1>1 DEF IInv, Projected, Delivered, Told, Projection, Total
<1>5. Shaped(dataset)'
  BY <1>1 DEF IInv
<1>6. Returned' /\ NothingElse' /\ PreparedDoesNotFail'
  BY <1>1 DEF Returned, NothingElse, PreparedDoesNotFail
<1> QED
  BY <1>3, <1>4, <1>5, <1>6 DEF IInv

LEMMA ReturnStep ==
    ASSUME IInv, NEW result \in Results, SourceReturns(result)
    PROVE  IInv'
<1> DEFINE schema == manifest.schema
           names == UniqueNames(result.columns)
<1>1. /\ stage = "prepared" /\ at = 1 /\ manifest.query /\ manifest \in Manifests
      /\ manifest' = manifest /\ at' = at /\ projected' = projected /\ raw' = result
      /\ dataset' = NormalizeResult(result, schema)
      /\ stage' = IF ValidDataset(dataset', schema) THEN "transform" ELSE "failed"
  BY DEF IInv, Stages, SourceReturns
<1>2. /\ IsSchema(schema) /\ Total \in Nat
      /\ Projection(0) = schema /\ projected = Projection(Total) /\ AllValid(manifest, Total)
  BY <1>1, ManifestIs, ProjectionsAre DEF IInv, Projected, Projection, Total
<1> HIDE DEF schema, names
<1>3. /\ Shaped(dataset') /\ Distinct(dataset'.fields) /\ NamesOf(dataset'.fields) = ToSet(names)
      /\ ValidDataset(dataset', schema) => NullsAreTold(dataset')
      /\ ValidDataset(dataset', schema) /\ schema # Undefined => Delivers(dataset'.fields, schema)
  <2> DEFINE data == NormalizeResult(result, schema)
  <2>1. /\ Shaped(data) /\ Distinct(data.fields) /\ NamesOf(data.fields) = ToSet(names)
        /\ ValidDataset(data, schema) => NullsAreTold(data)
        /\ ValidDataset(data, schema) /\ schema # Undefined => Delivers(data.fields, schema)
    BY <1>2, NormalizeResultIs DEF names
  <2> HIDE DEF data
  <2>2. dataset' = data
    BY <1>1 DEF data
  <2> QED
    BY <2>1, <2>2
<1>4. stage' \in {"transform", "failed"} /\ (stage' = "transform" <=> ValidDataset(dataset', schema))
  BY <1>1
<1>5. Stages'
  BY <1>1, <1>2, <1>4 DEF Stages, Total
<1>6. Projected'
  <2>1. projected' = Projections(manifest')[Len(manifest'.transforms)]
    BY <1>1, <1>2 DEF Projection, Total
  <2>2. AllValid(manifest', Len(manifest'.transforms))
    BY <1>1, <1>2 DEF Total
  <2> QED
    BY <1>4, <2>1, <2>2 DEF Projected, Projection, Total
<1>7. Shaped(dataset)'
  BY <1>3
<1>8. Returned'
  BY <1>1 DEF Returned, schema
<1>9. Delivered'
  <2>1. Projections(manifest')[at' - 1] = schema
    BY <1>1, <1>2 DEF Projection
  <2> QED
    BY <1>3, <1>4, <2>1 DEF Delivered, Projection
<1>10. NothingElse'
  <2> SUFFICES ASSUME stage' = "transform", NothingUndeclared'
               PROVE  NamesOf(dataset'.fields) = NamesOf(schema)
    BY <1>1, <1>2, <1>3 DEF NothingElse, Projection
  <2>1. projected # Undefined /\ ToSet(names) \subseteq NamesOf(schema)
    BY <1>1 DEF NothingUndeclared, names, schema
  <2>2. schema # Undefined
    BY <1>1, <1>2, <2>1, ProjectionsAreKnown DEF Projection, Total
  <2>3. NamesOf(schema) \subseteq NamesOf(dataset'.fields)
    <3>1. \A i \in DOMAIN schema : schema[i].name \in NamesOf(dataset'.fields)
      BY <1>4, <2>2 DEF ValidDataset
    <3>2. \A x \in NamesOf(schema) : \E i \in DOMAIN schema : x = schema[i].name
      BY DEF NamesOf
    <3> QED
      BY <3>1, <3>2
  <2> QED
    BY <1>3, <2>1, <2>3
<1>11. Told'
  BY <1>3, <1>4 DEF Told
<1>12. PreparedDoesNotFail'
  BY <1>1, <1>4 DEF PreparedDoesNotFail, schema
<1> QED
  BY <1>5, <1>6, <1>7, <1>8, <1>9, <1>10, <1>11, <1>12 DEF IInv

LEMMA TransformStep ==
    ASSUME IInv, RunTransform
    PROVE  IInv'
<1> DEFINE spec == manifest.transforms[at]
           P == Projection(at - 1)
           F == dataset.fields
<1>1. /\ stage = "transform" /\ at \in 1 .. Total /\ Total \in Nat
      /\ manifest' = manifest /\ projected' = projected /\ raw' = raw
      /\ manifest \in Manifests /\ spec \in Transforms
  <2>1. /\ stage = "transform" /\ at <= Total /\ at \in 1 .. Total + 1 /\ manifest \in Manifests
        /\ manifest' = manifest /\ projected' = projected /\ raw' = raw
    BY DEF IInv, Stages, RunTransform, Total
  <2>2. Total \in Nat /\ \A k \in 1 .. Total : manifest.transforms[k] \in Transforms
    BY <2>1, ManifestIs DEF Total
  <2>3. at \in 1 .. Total
    BY <2>1, <2>2
  <2> QED
    BY <2>1, <2>2, <2>3
<1>2. projected = Projection(Total) /\ AllValid(manifest, Total)
  BY <1>1 DEF IInv, Projected
<1>3. /\ Projection(at) = Describe(spec, P) /\ Valid(spec, P)
      /\ P # Undefined => P \in Seq(DataFields) /\ Distinct(P)
  <2>1. at - 1 \in 0 .. Total /\ at \in 1 .. Len(manifest.transforms)
    BY <1>1 DEF Total
  <2>2. Projection(at) = Describe(spec, P) /\ (P = Undefined \/ P \in Seq(Fields))
    BY <1>1, <2>1, ProjectionsAre DEF Projection, Total
  <2>3. Valid(spec, P)
    BY <1>1, <1>2 DEF AllValid, Projection
  <2>4. P # Undefined => Distinct(P)
    BY <1>1, <1>2, <2>1, ProjectionsAreDistinct DEF Projection, Total
  <2> QED
    BY <2>2, <2>3, <2>4, FieldsAreDataFields
<1>4. F \in Seq(DataFields) /\ Shaped(dataset) /\ NullsAreTold(dataset)
  BY <1>1 DEF IInv, Shaped, Told
<1>5. manifest.query /\ P # Undefined => Delivers(F, P)
  BY <1>1 DEF IInv, Delivered
<1>6. manifest.query /\ NothingUndeclared => Distinct(F) /\ NamesOf(F) = NamesOf(P)
  BY <1>1 DEF IInv, NothingElse
<1>7. raw # Undefined => manifest.query
  BY <1>1, PipelineAssumption DEF IInv, Stages
<1>8. NothingUndeclared' <=> NothingUndeclared
  BY <1>1 DEF NothingUndeclared
<1>9. projected # Undefined => P # Undefined
  <2>1. at - 1 \in 0 .. Len(manifest.transforms)
    BY <1>1 DEF Total
  <2> QED
    BY <1>1, <1>2, <2>1, ProjectionsAreKnown DEF Projection, Total
<1> HIDE DEF spec, P, F
<1>10. CASE Fails(spec, dataset) /\ stage' = "failed" /\ at' = at /\ dataset' = dataset
  <2>1. Stages' /\ Projected'
    BY <1>1, <1>2, <1>10 DEF IInv, Stages, Projected, Projection, Total
  <2>2. Shaped(dataset)'
    BY <1>4, <1>10
  <2>3. Returned' /\ Delivered' /\ NothingElse' /\ Told'
    BY <1>10 DEF Returned, Delivered, NothingElse, Told
  <2>4. ASSUME raw # Undefined, NothingUndeclared
        PROVE  FALSE
    <3>1. P # Undefined /\ P \in Seq(DataFields) /\ Distinct(F) /\ NamesOf(F) = NamesOf(P)
      BY <1>3, <1>6, <1>7, <1>9, <2>4 DEF NothingUndeclared
    <3>2. CASE spec.type = "rename" /\ ~Distinct(Renamed(spec, F))
      <4>1. Distinct(Described(spec, F))
        BY <1>1, <1>3, <1>4, <3>1, TransformKeepsNames
      <4> QED
        BY <3>2, <4>1 DEF Described
    <3>3. CASE spec.type \in {"derive", "filter"} /\ ~Normalizes(spec.expression)
      BY <1>1, <1>3, <3>1, <3>3, ValidIs
    <3> QED
      BY <1>10, <3>2, <3>3 DEF Fails, F
  <2>5. PreparedDoesNotFail'
    BY <1>1, <1>8, <2>4 DEF PreparedDoesNotFail
  <2> QED
    BY <2>1, <2>2, <2>3, <2>5 DEF IInv
<1>11. CASE /\ ~Fails(spec, dataset) /\ stage' = "transform" /\ at' = at + 1
            /\ \E rows \in NewRows(spec, dataset) : dataset' = After(spec, dataset, rows)
  <2>1. PICK rows \in NewRows(spec, dataset) : dataset' = After(spec, dataset, rows)
    BY <1>11
  <2>2. Shaped(dataset)' /\ dataset'.fields = Described(spec, F)
    BY <1>1, <1>4, <2>1, TransformKeepsShape DEF F
  <2>3. Told'
    BY <1>1, <1>4, <1>11, <2>1, TransformTellsNulls DEF Told
  <2>4. Stages' /\ Projected'
    <3>1. at' \in 1 .. Total + 1
      BY <1>1, <1>11
    <3> QED
      BY <1>1, <1>2, <1>11, <3>1 DEF IInv, Stages, Projected, Projection, Total
  <2>5. Returned' /\ PreparedDoesNotFail'
    <3>1. at' # 1
      BY <1>1, <1>11
    <3> QED
      BY <1>11, <3>1 DEF Returned, PreparedDoesNotFail
  <2>6. Projections(manifest')[at' - 1] = Describe(spec, P)
    <3>1. at' - 1 = at
      BY <1>1, <1>11
    <3> QED
      BY <1>1, <1>3, <3>1 DEF Projection
  <2>7. Delivered'
    <3> SUFFICES ASSUME manifest.query, Describe(spec, P) # Undefined
                 PROVE  Delivers(Described(spec, F), Describe(spec, P))
      BY <1>1, <2>2, <2>6 DEF Delivered, Projection
    <3>1. P # Undefined /\ Describe(spec, P) = Described(spec, P)
      BY DEF Describe
    <3>2. spec.type = "rename" => Distinct(Renamed(spec, F))
      BY <1>11 DEF Fails, F
    <3>3. Delivers(Described(spec, F), Described(spec, P))
      BY <1>1, <1>3, <1>4, <1>5, <3>1, <3>2, TransformDelivers
    <3> QED
      BY <3>1, <3>3
  <2>8. NothingElse'
    <3> SUFFICES ASSUME manifest.query, NothingUndeclared
                 PROVE  /\ Distinct(Described(spec, F))
                        /\ NamesOf(Described(spec, F)) = NamesOf(Describe(spec, P))
      BY <1>1, <1>8, <2>2, <2>6 DEF NothingElse, Projection
    <3>1. P # Undefined /\ Distinct(F) /\ NamesOf(F) = NamesOf(P)
      BY <1>6, <1>9 DEF NothingUndeclared
    <3>2. Describe(spec, P) = Described(spec, P)
      <4>1. at \in 0 .. Len(manifest.transforms) /\ Projection(Total) # Undefined
        BY <1>1, <1>2 DEF Total, NothingUndeclared
      <4>2. Projection(at) # Undefined
        BY <1>1, <4>1, ProjectionsAreKnown DEF Projection, Total
      <4> QED
        BY <1>3, <4>2 DEF Describe
    <3> QED
      BY <1>1, <1>3, <1>4, <3>1, <3>2, TransformKeepsNames
  <2> QED
    BY <2>2, <2>3, <2>4, <2>5, <2>7, <2>8 DEF IInv
<1> QED
  BY <1>1, <1>10, <1>11 DEF RunTransform, After, spec

LEMMA StutterStep ==
    ASSUME IInv, UNCHANGED vars
    PROVE  IInv'
<1>1. /\ manifest' = manifest /\ stage' = stage /\ at' = at /\ projected' = projected
      /\ raw' = raw /\ dataset' = dataset
  BY DEF vars
<1>2. Stages' /\ Projected' /\ Shaped(dataset)'
  BY <1>1 DEF IInv, Stages, Projected, Projection, Total
<1>3. Returned' /\ Delivered' /\ Told' /\ PreparedDoesNotFail'
  BY <1>1 DEF IInv, Returned, Delivered, Told, Projection, PreparedDoesNotFail, NothingUndeclared
<1>4. NothingElse'
  BY <1>1 DEF IInv, NothingElse, Projection, NothingUndeclared
<1> QED
  BY <1>2, <1>3, <1>4 DEF IInv

-----------------------------------------------------------------------------
(* The theorems.                                                           *)

LEMMA InvariantHolds == Spec => []IInv
<1>1. IInv /\ [Next]_vars => IInv'
  <2> SUFFICES ASSUME IInv, [Next]_vars
               PROVE  IInv'
    OBVIOUS
  <2> QED
    BY PrepareStep, RejectStep, PresentationStep, ReturnStep, NoQueryStep, TransformStep,
       FinishStep, StutterStep DEF Next
<1> QED
  BY InitStep, <1>1, PTL DEF Spec

(* Whatever the columns of a result are called, in whatever order, each     *)
(* reaches the dataset under a name of its own, a name that was its own     *)
(* already is kept, and rows are left out with a note only                  *)
(* (normalize-result.ts:62-81, 129).                                        *)
THEOREM ColumnsAreKept == Spec => []NothingIsLostSilently
<1>1. IInv => NothingIsLostSilently
  <2> SUFFICES ASSUME IInv, stage = "transform", at = 1, manifest.query
               PROVE  /\ Distinct(dataset.fields)
                      /\ Len(dataset.fields) = Len(raw.columns)
                      /\ \A i \in DOMAIN raw.columns :
                          (\A j \in DOMAIN raw.columns : raw.columns[j] = raw.columns[i] => i = j)
                                => dataset.fields[i].name = raw.columns[i]
                      /\ Len(dataset.rows) = Len(raw.rows) \/ dataset.truncated
    BY DEF NothingIsLostSilently
  <2> DEFINE names == UniqueNames(raw.columns)
  <2>1. raw \in Results /\ IsSchema(manifest.schema)
    BY ManifestIs DEF IInv, Stages
  <2>2. dataset = NormalizeResult(raw, manifest.schema)
    BY DEF IInv, Returned
  <2>3. /\ Shaped(dataset) /\ Distinct(dataset.fields) /\ Len(dataset.fields) = Len(raw.columns)
        /\ \A i \in DOMAIN dataset.fields : dataset.fields[i].name = names[i]
        /\ Len(dataset.rows) = Len(raw.rows) \/ dataset.truncated
    BY <2>1, <2>2, NormalizeResultIs
  <2>4. raw.columns \in Seq(Spellings)
    <3>1. raw.columns \in Seq(Names)
      BY <2>1, PipelineAssumption
    <3> QED
      BY <3>1, FieldsAreDataFields
  <2>5. GoodNames(names, raw.columns, Len(raw.columns))
    BY <2>4, UniqueNamesAreGood
  <2> HIDE DEF names
  <2>6. ASSUME NEW i \in DOMAIN raw.columns,
               \A j \in DOMAIN raw.columns : raw.columns[j] = raw.columns[i] => i = j
        PROVE  dataset.fields[i].name = raw.columns[i]
    <3>1. i \in 1 .. Len(raw.columns) /\ DOMAIN raw.columns = 1 .. Len(raw.columns)
      BY <2>4
    <3>2. ~ \E j \in 1 .. i - 1 : raw.columns[j] = raw.columns[i]
      BY <2>4, <2>6, <3>1
    <3>3. names[i] = raw.columns[i]
      BY <2>5, <3>1, <3>2 DEF GoodNames
    <3>4. i \in DOMAIN dataset.fields
      BY <2>3, <3>1 DEF Shaped
    <3> QED
      BY <2>3, <3>3, <3>4
  <2> QED
    BY <2>3, <2>6
<1> QED
  BY InvariantHolds, <1>1, PTL

(* Every projected field is in the dataset that execute() delivers, and at  *)
(* each step a row has a cell for every field and no other, whatever the    *)
(* transforms (docs/transforms.md:98-100, derive.ts:61-64, rename.ts:36).   *)
THEOREM ProjectionArrives == Spec => []ProjectionIsDelivered
<1>1. IInv => ProjectionIsDelivered
  <2> SUFFICES ASSUME IInv
               PROVE  ProjectionIsDelivered
    OBVIOUS
  <2>1. \A i \in DOMAIN dataset.rows : DOMAIN dataset.rows[i] = NamesOf(dataset.fields)
    BY DEF IInv, Shaped
  <2>2. ASSUME stage = "done", manifest.query, projected # Undefined, NEW x \in ToSet(projected)
        PROVE  x \in ToSet(dataset.fields)
    <3>1. projected = Projection(Total) /\ at - 1 = Total
      <4>1. Total \in Nat
        BY ManifestIs DEF IInv, Stages, Total
      <4> QED
        BY <2>2, <4>1 DEF IInv, Stages, Projected
    <3>2. Delivers(dataset.fields, projected)
      BY <2>2, <3>1 DEF IInv, Delivered
    <3>3. PICK i \in DOMAIN projected : x = projected[i]
      BY <2>2 DEF ToSet
    <3>4. /\ projected[i].name \in NamesOf(dataset.fields)
          /\ dataset.fields[Named(dataset.fields, projected[i].name)] = x
      BY <3>2, <3>3 DEF Delivers
    <3>5. dataset.fields \in Seq(DataFields)
      BY DEF IInv, Shaped
    <3>6. Named(dataset.fields, projected[i].name) \in DOMAIN dataset.fields
      BY <3>4, <3>5, NamedIsTheLast
    <3> QED
      BY <3>4, <3>6 DEF ToSet
  <2> QED
    BY <2>1, <2>2 DEF ProjectionIsDelivered
<1> QED
  BY InvariantHolds, <1>1, PTL

(* A pipeline whose fields were all known when it was prepared does not     *)
(* fail on its data (rename.ts:30, docs/transforms.md:186-192).             *)
THEOREM StaticValidationSuffices == Spec => []PreparedDoesNotFail
<1>1. IInv => PreparedDoesNotFail
  BY DEF IInv
<1> QED
  BY InvariantHolds, <1>1, PTL

(* Through any transforms, a field that is not nullable holds no null, as   *)
(* long as no name is taken twice (derive.ts:36-41, validate/dataset.ts:    *)
(* 58-81).                                                                  *)
THEOREM NullsAreDeclared == Spec => []NonNullableIsNotNull
<1>1. IInv => NonNullableIsNotNull
  <2> SUFFICES ASSUME IInv, stage \in {"transform", "done"}, Distinct(dataset.fields),
                      NEW f \in ToSet(dataset.fields)
               PROVE  f.nullable \/ \A r \in DOMAIN dataset.rows : dataset.rows[r][f.name] # Null
    BY DEF NonNullableIsNotNull
  <2>1. PICK i \in DOMAIN dataset.fields : f = dataset.fields[i]
    BY DEF ToSet
  <2>2. dataset.fields \in Seq(DataFields) /\ NullsAreTold(dataset)
    BY DEF IInv, Shaped, Told
  <2>3. Named(dataset.fields, f.name) = i /\ f.name \in NamesOf(dataset.fields)
    BY <2>1, <2>2, NamedOfDistinct DEF NamesOf
  <2> QED
    BY <2>1, <2>2, <2>3 DEF NullsAreTold
<1> QED
  BY InvariantHolds, <1>1, PTL

=============================================================================
