----------------------- MODULE PartitionStorageProofs -----------------------
(* Proofs about PartitionStorage: for every relation, every number of columns *)
(* and every choice of the indexes a new one is built from, the storage holds *)
(* exact partitions, no call replaces an index another was answered with, and *)
(* the errors computed from them are the numbers of pairs that violate.       *)
(* Then about TypoMiner, whose clusters are those of these indexes: a          *)
(* dependency that only the approximate algorithm finds has clusters with     *)
(* typos, and each of them agrees once the typos are left out.                *)
EXTENDS PartitionStorage, TypoMiner, AgreeSetFactory, FiniteSetTheorems, WellFoundedInduction, TLAPS

\* The relation as far as it is read.
RelationOK ==
  /\ width \in Nat \ {0}
  /\ DOMAIN columns = Cols
  /\ \A c \in Cols : \E V : columns[c] \in Seq(V)
  /\ \A c \in Cols : Len(columns[c]) = NumRows
  /\ Built => DOMAIN plis = Cols /\ \A c \in Cols : plis[c] = Partition({c})

-----------------------------------------------------------------------------
(* Sets of rows that agree. *)

LEMMA RowsFinite ==
  ASSUME RelationOK
  PROVE  /\ NumRows \in Nat
         /\ IsFiniteSet(Rows)
         /\ \A c \in Cols : DOMAIN columns[c] = Rows
<1>1. 1 \in Cols
  BY DEF RelationOK, Cols
<1>2. NumRows \in Nat
  BY <1>1 DEF RelationOK, NumRows
<1>3. IsFiniteSet(Rows)
  BY <1>2, FS_Interval DEF Rows
<1>4. ASSUME NEW c \in Cols PROVE DOMAIN columns[c] = Rows
  <2>1. PICK V : columns[c] \in Seq(V)
    BY DEF RelationOK
  <2>2. Len(columns[c]) = NumRows
    BY DEF RelationOK
  <2> QED BY <2>1, <2>2 DEF Rows
<1> QED BY <1>2, <1>3, <1>4

\* A finite set has more than one member when two of its members differ.
LEMMA TwoMembers ==
  ASSUME NEW g, IsFiniteSet(g)
  PROVE  Cardinality(g) > 1 <=> \E x, y \in g : x # y
<1>1. ASSUME NEW x \in g, NEW y \in g, x # y PROVE Cardinality(g) > 1
  <2>1. IsFiniteSet({x}) /\ Cardinality({x}) = 1
    BY FS_Singleton
  <2>2. Cardinality({x} \cup {y}) = 2
    <3>1. y \notin {x}
      BY <1>1
    <3>2. Cardinality({x} \cup {y}) = Cardinality({x}) + 1
      BY <2>1, <3>1, FS_AddElement
    <3> QED BY <2>1, <3>2
  <2>3. Cardinality({x} \cup {y}) <= Cardinality(g)
    BY <1>1, FS_Subset, {x} \cup {y} \subseteq g
  <2>4. Cardinality(g) \in Nat
    BY FS_CardinalityType
  <2> QED BY <2>2, <2>3, <2>4
<1>2. ASSUME ~\E x, y \in g : x # y PROVE ~(Cardinality(g) > 1)
  <2>1. CASE g = {}
    BY <2>1, FS_EmptySet
  <2>2. CASE g # {}
    <3>1. PICK x \in g : TRUE
      BY <2>2
    <3>2. g = {x}
      BY <1>2, <3>1
    <3> QED BY <3>2, FS_Singleton
  <2> QED BY <2>1, <2>2
<1> QED BY <1>1, <1>2

LEMMA AgreeSymmetric ==
  ASSUME NEW X, NEW i, NEW j, AgreeOn(X, i, j)
  PROVE  AgreeOn(X, j, i)
BY DEF AgreeOn

LEMMA AgreeTransitive ==
  ASSUME NEW X, NEW i, NEW j, NEW k, AgreeOn(X, i, j), AgreeOn(X, j, k)
  PROVE  AgreeOn(X, i, k)
BY DEF AgreeOn

LEMMA AgreeUnion ==
  ASSUME NEW X, NEW Y, NEW i, NEW j
  PROVE  AgreeOn(X \cup Y, i, j) <=> AgreeOn(X, i, j) /\ AgreeOn(Y, i, j)
BY DEF AgreeOn

\* The rows together with r are together with each of them.
LEMMA TogetherClass ==
  ASSUME NEW X, NEW r \in Rows, NEW s \in Together(X, r)
  PROVE  s \in Rows /\ Together(X, s) = Together(X, r)
<1>1. s \in Rows /\ (s = r \/ AgreeOn(X, r, s))
  BY DEF Together
<1>2. CASE s = r
  BY <1>1, <1>2
<1>3. CASE AgreeOn(X, r, s)
  <2>1. AgreeOn(X, s, r)
    BY <1>3, AgreeSymmetric
  <2>2. ASSUME NEW q \in Rows PROVE q \in Together(X, s) <=> q \in Together(X, r)
    <3>1. AgreeOn(X, r, q) => AgreeOn(X, s, q)
      BY <2>1, AgreeTransitive
    <3>2. AgreeOn(X, s, q) => AgreeOn(X, r, q)
      BY <1>3, AgreeTransitive
    <3> QED BY <3>1, <3>2, <1>3, <2>1 DEF Together
  <2> QED BY <1>1, <2>2 DEF Together
<1> QED BY <1>1, <1>2, <1>3

\* No other row agrees with r.
Alone(X, r) == \A s \in Rows : AgreeOn(X, r, s) => s = r

\* The clusters of a partition are the sets of rows together with one that is not alone.
LEMMA PartitionMember ==
  ASSUME RelationOK, NEW X, NEW g
  PROVE  g \in Partition(X) <=> \E r \in Rows : ~Alone(X, r) /\ g = Together(X, r)
<1>1. ASSUME NEW r \in Rows
      PROVE  Cardinality(Together(X, r)) > 1 <=> ~Alone(X, r)
  <2>1. IsFiniteSet(Together(X, r))
    BY RowsFinite, FS_Subset DEF Together
  <2>2. r \in Together(X, r)
    BY DEF Together
  <2>3. (\E x, y \in Together(X, r) : x # y) <=> ~Alone(X, r)
    BY <2>2 DEF Together, Alone
  <2> QED BY <2>1, <2>3, TwoMembers
<1> QED BY <1>1 DEF Partition, Clusters

\* The probing table of a partition gives each row the rows it is together with,
\* and none to a row that is alone.
LEMMA TableValue ==
  ASSUME RelationOK, NEW X, NEW r \in Rows
  PROVE  ProbingTable(Partition(X))[r] = IF Alone(X, r) THEN Singleton ELSE Together(X, r)
<1> DEFINE Of == {g \in Partition(X) : r \in g}
<1>1. ProbingTable(Partition(X))[r] = UNION Of
  BY DEF ProbingTable
<1>2. ASSUME NEW g \in Of PROVE ~Alone(X, r) /\ g = Together(X, r)
  <2>1. PICK s \in Rows : ~Alone(X, s) /\ g = Together(X, s)
    BY PartitionMember
  <2>2. Together(X, r) = Together(X, s)
    BY <2>1, TogetherClass
  <2>3. PICK t \in Rows : AgreeOn(X, s, t) /\ t # s
    BY <2>1 DEF Alone
  <2>4. CASE r = s
    BY <2>1, <2>2, <2>4
  <2>5. CASE r # s
    <3>1. AgreeOn(X, s, r)
      BY <2>1, <2>5 DEF Together
    <3> QED BY <3>1, <2>1, <2>2, <2>5, AgreeSymmetric DEF Alone
  <2> QED BY <2>4, <2>5
<1>3. CASE Alone(X, r)
  <2>1. Of = {}
    BY <1>2, <1>3
  <2> QED BY <1>1, <1>3, <2>1 DEF Singleton
<1>4. CASE ~Alone(X, r)
  <2>1. Together(X, r) \in Of
    BY <1>4, PartitionMember DEF Together
  <2>2. Of = {Together(X, r)}
    BY <2>1, <1>2
  <2> QED BY <1>1, <1>4, <2>2
<1> QED BY <1>3, <1>4

-----------------------------------------------------------------------------
(* Intersections are exact. *)

\* What a row has in the probing table is not Singleton when it is not alone.
LEMMA TogetherNotEmpty ==
  ASSUME NEW X, NEW r \in Rows
  PROVE  r \in Together(X, r) /\ Together(X, r) # Singleton
BY DEF Together, Singleton

\* A cluster split by the values of the table is split by the other columns.
LEMMA SplitExact ==
  ASSUME RelationOK, NEW X, NEW Y, NEW a \in Rows, ~Alone(Y, a)
  PROVE  {r \in Together(X, a) : ProbingTable(Partition(Y))[r] = ProbingTable(Partition(Y))[a]}
           = Together(X \cup Y, a)
<1> DEFINE T == ProbingTable(Partition(Y))
<1>1. T[a] = Together(Y, a)
  BY TableValue
<1>2. ASSUME NEW r \in Together(X, a), T[r] = T[a] PROVE r \in Together(X \cup Y, a)
  <2>1. r \in Rows /\ (r = a \/ AgreeOn(X, a, r))
    BY DEF Together
  <2>2. T[r] = Together(Y, r)
    BY <2>1, <1>1, <1>2, TableValue, TogetherNotEmpty
  <2>3. r \in Together(Y, a)
    BY <2>1, <2>2, <1>1, <1>2, TogetherNotEmpty
  <2> QED BY <2>1, <2>3, AgreeUnion DEF Together
<1>3. ASSUME NEW r \in Together(X \cup Y, a)
      PROVE  r \in Together(X, a) /\ T[r] = T[a]
  <2>1. r \in Rows /\ (r = a \/ (AgreeOn(X, a, r) /\ AgreeOn(Y, a, r)))
    BY AgreeUnion DEF Together
  <2>2. CASE r = a
    BY <2>1, <2>2 DEF Together
  <2>3. CASE r # a
    <3>1. r \in Together(X, a) /\ r \in Together(Y, a)
      BY <2>1, <2>3 DEF Together
    <3>2. Together(Y, r) = Together(Y, a)
      BY <3>1, TogetherClass
    <3>3. ~Alone(Y, r)
      BY <2>1, <2>3, AgreeSymmetric DEF Alone
    <3> QED BY <3>1, <3>2, <3>3, <2>1, <1>1, TableValue
  <2> QED BY <2>2, <2>3
<1> QED BY <1>2, <1>3

\* Probing one partition against another gives the partition by all columns.
LEMMA ProbeExact ==
  ASSUME RelationOK, NEW X, NEW Y
  PROVE  Probe(Partition(X), ProbingTable(Partition(Y))) = Partition(X \cup Y)
<1> DEFINE T == ProbingTable(Partition(Y))
<1> DEFINE Part(g, v) == {r \in g : T[r] = v}
<1>1. \A h : h \in Probe(Partition(X), T) <=>
               /\ Cardinality(h) > 1
               /\ \E g \in Partition(X) : \E a \in g : T[a] # Singleton /\ h = Part(g, T[a])
  BY DEF Probe, Clusters
<1>2. ASSUME NEW h \in Probe(Partition(X), T) PROVE h \in Partition(X \cup Y)
  <2>0. PICK g \in Partition(X) : \E a \in g : T[a] # Singleton /\ h = Part(g, T[a])
    BY <1>1
  <2>1. PICK a \in g : T[a] # Singleton /\ h = Part(g, T[a])
    BY <2>0
  <2>2. PICK b \in Rows : g = Together(X, b)
    BY PartitionMember
  <2>3. a \in Rows /\ g = Together(X, a)
    BY <2>1, <2>2, TogetherClass
  <2>4. ~Alone(Y, a)
    BY <2>1, <2>3, TableValue
  <2>5. h = Together(X \cup Y, a)
    BY <2>1, <2>3, <2>4, SplitExact
  <2>6. Cardinality(h) > 1
    BY <1>1
  <2> QED BY <2>3, <2>5, <2>6 DEF Partition, Clusters
<1>3. ASSUME NEW h \in Partition(X \cup Y) PROVE h \in Probe(Partition(X), T)
  <2>1. PICK a \in Rows : ~Alone(X \cup Y, a) /\ h = Together(X \cup Y, a)
    BY PartitionMember
  <2>2. ~Alone(X, a) /\ ~Alone(Y, a)
    BY <2>1, AgreeUnion DEF Alone
  <2>3. Together(X, a) \in Partition(X) /\ a \in Together(X, a)
    BY <2>2, PartitionMember, TogetherNotEmpty
  <2>4. h = Part(Together(X, a), T[a])
    BY <2>1, <2>2, SplitExact
  <2>5. T[a] # Singleton
    BY <2>2, TableValue, TogetherNotEmpty
  <2>6. Cardinality(h) > 1
    BY DEF Partition, Clusters
  <2> QED BY <1>1, <2>3, <2>4, <2>5, <2>6
<1> QED BY <1>2, <1>3

\* Intersect, whichever of the two is the smaller.
LEMMA IntersectExact ==
  ASSUME RelationOK, NEW X, NEW Y
  PROVE  Intersect(Partition(X), Partition(Y)) = Partition(X \cup Y)
<1>1. Probe(Partition(X), ProbingTable(Partition(Y))) = Partition(X \cup Y)
  BY ProbeExact
<1>2. Probe(Partition(Y), ProbingTable(Partition(X))) = Partition(Y \cup X)
  BY ProbeExact
<1>3. Y \cup X = X \cup Y
  OBVIOUS
<1> QED BY <1>1, <1>2, <1>3 DEF Intersect

\* Probing against all other columns at once.
LEMMA ProbeAllExact ==
  ASSUME RelationOK, Built, NEW B, NEW X \in SUBSET Cols
  PROVE  ProbeAll(Partition(B), X) = Partition(B \cup X)
<1> DEFINE Same(r, s) == \A c \in X : Tuple(r)[c] = Tuple(s)[c] /\ Tuple(r)[c] # Singleton
<1> DEFINE Part(g, s) == {r \in g : Same(r, s)}
<1>1. \A h : h \in ProbeAll(Partition(B), X) <=>
               Cardinality(h) > 1 /\ \E g \in Partition(B) : \E s \in g : h = Part(g, s)
  BY DEF ProbeAll, Clusters
<1>2. ASSUME NEW r \in Rows, NEW c \in X
      PROVE  Tuple(r)[c] = IF Alone({c}, r) THEN Singleton ELSE Together({c}, r)
  <2>1. Tuple(r)[c] = ProbingTable(Partition({c}))[r]
    BY DEF Tuple, RelationOK
  <2> QED BY <2>1, TableValue
<1>3. ASSUME NEW r \in Rows, NEW s \in Rows, Same(r, s)
      PROVE  r = s \/ AgreeOn(X, s, r)
  <2>1. ASSUME NEW c \in X PROVE r = s \/ AgreeOn({c}, s, r)
    <3>1. Together({c}, r) = Together({c}, s)
      BY <1>2, <1>3
    <3> QED BY <3>1, TogetherNotEmpty DEF Together
  <2> QED BY <2>1 DEF AgreeOn
<1>4. ASSUME NEW r \in Rows, NEW s \in Rows, AgreeOn(X, s, r), ~Alone(X, s)
      PROVE  Same(r, s)
  <2>1. ASSUME NEW c \in X PROVE Tuple(r)[c] = Tuple(s)[c] /\ Tuple(r)[c] # Singleton
    <3>1. AgreeOn({c}, s, r)
      BY <1>4 DEF AgreeOn
    <3>2. r \in Together({c}, s)
      BY <3>1 DEF Together
    <3>3. Together({c}, r) = Together({c}, s)
      BY <3>2, TogetherClass
    <3>4. PICK q \in Rows : AgreeOn(X, s, q) /\ q # s
      BY <1>4 DEF Alone
    <3>5. AgreeOn({c}, s, q)
      BY <3>4 DEF AgreeOn
    <3>6. ~Alone({c}, s)
      BY <3>4, <3>5 DEF Alone
    <3>7. ~Alone({c}, r)
      <4>1. CASE r = s
        BY <4>1, <3>6
      <4>2. CASE r # s
        BY <4>2, <3>1, AgreeSymmetric DEF Alone
      <4> QED BY <4>1, <4>2
    <3> QED BY <3>3, <3>6, <3>7, <1>2, TogetherNotEmpty
  <2> QED BY <2>1
<1>5. ASSUME NEW s \in Rows, Same(s, s) \/ ~Alone(B \cup X, s)
      PROVE  Part(Together(B, s), s) = Together(B \cup X, s)
  <2>1. Same(s, s)
    <3>1. CASE ~Alone(B \cup X, s)
      <4>1. PICK q \in Rows : AgreeOn(B \cup X, s, q) /\ q # s
        BY <3>1 DEF Alone
      <4>2. AgreeOn(X, s, q) /\ AgreeOn(X, s, s)
        BY <4>1 DEF AgreeOn
      <4>3. ~Alone(X, s)
        BY <4>1, <4>2 DEF Alone
      <4> QED BY <4>2, <4>3, <1>4
    <3> QED BY <3>1, <1>5
  <2>2. ASSUME NEW r \in Part(Together(B, s), s) PROVE r \in Together(B \cup X, s)
    <3>1. r \in Rows /\ (r = s \/ AgreeOn(B, s, r)) /\ Same(r, s)
      BY DEF Together
    <3>2. r = s \/ AgreeOn(X, s, r)
      BY <3>1, <1>3
    <3> QED BY <3>1, <3>2, AgreeUnion DEF Together
  <2>3. ASSUME NEW r \in Together(B \cup X, s) PROVE r \in Part(Together(B, s), s)
    <3>1. r \in Rows /\ (r = s \/ (AgreeOn(B, s, r) /\ AgreeOn(X, s, r)))
      BY AgreeUnion DEF Together
    <3>2. CASE r = s
      BY <3>1, <3>2, <2>1 DEF Together
    <3>3. CASE r # s
      <4>1. ~Alone(X, s)
        BY <3>1, <3>3 DEF Alone
      <4>2. Same(r, s)
        BY <3>1, <3>3, <4>1, <1>4
      <4> QED BY <3>1, <3>3, <4>2 DEF Together
    <3> QED BY <3>2, <3>3
  <2> QED BY <2>2, <2>3
<1>6. ASSUME NEW h \in ProbeAll(Partition(B), X) PROVE h \in Partition(B \cup X)
  <2>1. PICK g \in Partition(B) : \E s \in g : h = Part(g, s)
    BY <1>1
  <2>2. PICK s \in g : h = Part(g, s)
    BY <2>1
  <2>3. PICK b \in Rows : g = Together(B, b)
    BY PartitionMember
  <2>4. s \in Rows /\ g = Together(B, s)
    BY <2>2, <2>3, TogetherClass
  <2>5. Cardinality(h) > 1
    BY <1>1
  <2>6. PICK r \in h : TRUE
    BY <2>5, FS_EmptySet
  <2>7. Same(r, s)
    BY <2>2, <2>6
  <2>8. Same(s, s)
    BY <2>7
  <2>9. h = Together(B \cup X, s)
    BY <2>2, <2>4, <2>8, <1>5
  <2> QED BY <2>4, <2>5, <2>9 DEF Partition, Clusters
<1>7. ASSUME NEW h \in Partition(B \cup X) PROVE h \in ProbeAll(Partition(B), X)
  <2>1. PICK s \in Rows : ~Alone(B \cup X, s) /\ h = Together(B \cup X, s)
    BY PartitionMember
  <2>2. ~Alone(B, s)
    BY <2>1, AgreeUnion DEF Alone
  <2>3. Together(B, s) \in Partition(B) /\ s \in Together(B, s)
    BY <2>2, PartitionMember, TogetherNotEmpty
  <2>4. h = Part(Together(B, s), s)
    BY <2>1, <1>5
  <2>5. Cardinality(h) > 1
    BY DEF Partition, Clusters
  <2> QED BY <1>1, <2>3, <2>4, <2>5
<1> QED BY <1>6, <1>7

\* The index of more columns is not larger.
LEMMA SizeMonotone ==
  ASSUME RelationOK, NEW X, NEW Y, X \subseteq Y
  PROVE  /\ PliSize(Partition(X)) \in Nat
         /\ PliSize(Partition(Y)) \in Nat
         /\ PliSize(Partition(Y)) <= PliSize(Partition(X))
<1>1. UNION Partition(Y) \subseteq UNION Partition(X)
  <2>1. ASSUME NEW g \in Partition(Y), NEW r \in g PROVE r \in UNION Partition(X)
    <3>1. PICK a \in Rows : ~Alone(Y, a) /\ g = Together(Y, a)
      BY PartitionMember
    <3>2. ~Alone(X, a)
      BY <3>1 DEF Alone, AgreeOn
    <3>3. r \in Together(X, a)
      BY <3>1 DEF Together, AgreeOn
    <3> QED BY <3>2, <3>3, PartitionMember
  <2> QED BY <2>1
<1>2. UNION Partition(X) \subseteq Rows
  BY PartitionMember DEF Together
<1>3. IsFiniteSet(UNION Partition(X)) /\ IsFiniteSet(UNION Partition(Y))
  BY <1>1, <1>2, RowsFinite, FS_Subset
<1>4. Cardinality(UNION Partition(Y)) <= Cardinality(UNION Partition(X))
  BY <1>1, <1>3, FS_Subset
<1> QED BY <1>3, <1>4, FS_CardinalityType DEF PliSize

\* The index a column starts with is the partition by this column.
LEMMA CreateForExact ==
  ASSUME RelationOK, NEW c \in Cols
  PROVE  CreateFor(c) = Partition({c})
<1> DEFINE Col == columns[c]
<1> DEFINE With(v) == {r \in Rows : Col[r] = v}
<1> DEFINE Skipped == IF nullEqNull THEN {} ELSE {NullId}
<1>1. \A h : h \in CreateFor(c) <=>
               Cardinality(h) > 1 /\ \E r \in Rows : Col[r] \notin Skipped /\ h = With(Col[r])
  <2>1. Range(Col) = {Col[r] : r \in Rows}
    BY RowsFinite DEF Range
  <2> QED BY <2>1 DEF CreateFor, Clusters
<1>2. ASSUME NEW r \in Rows, Col[r] \notin Skipped PROVE With(Col[r]) = Together({c}, r)
  BY <1>2 DEF Together, AgreeOn
<1>3. ASSUME NEW r \in Rows, Col[r] \in Skipped PROVE Alone({c}, r)
  BY <1>3 DEF Alone, AgreeOn
<1>4. ASSUME NEW h \in CreateFor(c) PROVE h \in Partition({c})
  <2>1. PICK r \in Rows : Col[r] \notin Skipped /\ h = With(Col[r])
    BY <1>1
  <2>2. h = Together({c}, r)
    BY <2>1, <1>2
  <2>3. Cardinality(h) > 1
    BY <1>1
  <2> HIDE DEF Col, Skipped
  <2> QED BY <2>2, <2>3 DEF Partition, Clusters
<1>5. ASSUME NEW h \in Partition({c}) PROVE h \in CreateFor(c)
  <2>1. PICK r \in Rows : ~Alone({c}, r) /\ h = Together({c}, r)
    BY PartitionMember
  <2>2. Cardinality(h) > 1
    BY DEF Partition, Clusters
  <2>3. Col[r] \notin Skipped
    BY <1>3, <2>1
  <2>4. h = With(Col[r])
    BY <1>2, <2>1, <2>3
  <2> HIDE DEF Col, With, Skipped
  <2> QED BY <1>1, <2>2, <2>3, <2>4
<1> QED BY <1>4, <1>5

-----------------------------------------------------------------------------
(* Reading the relation. *)

LEMMA RelationOKInit ==
  ASSUME RelationInit
  PROVE  RelationOK
<1>1. width \in Nat \ {0} /\ 1 \in Cols
  BY WidthsAssumption DEF RelationInit, Cols
<1>2. DOMAIN columns = Cols /\ \A c \in Cols : columns[c] = <<>>
  BY DEF RelationInit
<1>3. ~Built
  BY DEF RelationInit, Built
<1>4. ASSUME NEW c \in Cols
      PROVE  (\E V : columns[c] \in Seq(V)) /\ Len(columns[c]) = NumRows
  <2>1. columns[c] = <<>> /\ NumRows = Len(<<>>)
    BY <1>1, <1>2 DEF NumRows
  <2>2. <<>> \in Seq({})
    OBVIOUS
  <2> QED BY <2>1, <2>2
<1> QED BY <1>1, <1>2, <1>3, <1>4 DEF RelationOK

LEMMA AppendRowOK ==
  ASSUME RelationOK, NEW row, AppendRow(row)
  PROVE  RelationOK'
<1> DEFINE id(c) == Identifier(dictionary', row[c])
<1>1. width' = width /\ Cols' = Cols /\ 1 \in Cols
  BY DEF AppendRow, RelationOK, Cols
<1>2. DOMAIN columns' = Cols /\ \A c \in Cols : columns'[c] = Append(columns[c], id(c))
  BY DEF AppendRow
<1>3. ASSUME NEW c \in Cols
      PROVE  /\ \E V : columns'[c] \in Seq(V)
             /\ Len(columns'[c]) = NumRows + 1
  <2>1. PICK V : columns[c] \in Seq(V)
    BY DEF RelationOK
  <2> DEFINE W == V \cup {id(c)}
  <2>2. columns[c] \in Seq(W) /\ id(c) \in W
    BY <2>1
  <2>3. columns'[c] \in Seq(W) /\ Len(columns'[c]) = Len(columns[c]) + 1
    <3> HIDE DEF W, id
    <3> QED BY <2>2, <1>2
  <2> QED BY <2>3 DEF RelationOK
<1>4. NumRows' = NumRows + 1
  BY <1>1, <1>3 DEF NumRows
<1>5. ~Built'
  BY DEF AppendRow, Built
<1>6. width' \in Nat \ {0}
  BY <1>1 DEF RelationOK
<1> QED BY <1>1, <1>2, <1>3, <1>4, <1>5, <1>6 DEF RelationOK

\* What agrees depends on the values read only.
LEMMA SameValuesSamePartition ==
  ASSUME UNCHANGED <<width, nullEqNull, columns>>
  PROVE  \A X : Partition(X)' = Partition(X)
BY DEF Partition, Clusters, Together, AgreeOn, Rows, NumRows

LEMMA BuildPlisOK ==
  ASSUME RelationOK, BuildPlis
  PROVE  RelationOK' /\ Built'
<1>1. UNCHANGED <<width, nullEqNull, columns>> /\ Cols' = Cols /\ NumRows' = NumRows
  BY DEF BuildPlis, Cols, NumRows
<1>2. DOMAIN plis' = Cols /\ \A c \in Cols : plis'[c] = Partition({c})
  BY CreateForExact DEF BuildPlis
<1>3. \A c \in Cols : plis'[c] = Partition({c})'
  BY <1>1, <1>2, SameValuesSamePartition
<1>4. 1 \in Cols
  BY DEF RelationOK, Cols
<1>5. Built'
  BY <1>2, <1>4 DEF Built
<1>6. /\ (width \in Nat \ {0})'
      /\ DOMAIN columns' = Cols'
      /\ \A c \in Cols' : \E V : columns'[c] \in Seq(V)
      /\ \A c \in Cols' : Len(columns'[c]) = NumRows'
  BY <1>1 DEF RelationOK
<1> QED BY <1>1, <1>2, <1>3, <1>5, <1>6 DEF RelationOK

-----------------------------------------------------------------------------
(* The storage. *)

Opened ==
  IF call = "closed" THEN cache = <<>> /\ joined = {}
  ELSE Built /\ \A c \in Cols : {c} \in DOMAIN cache

\* A call under way: its columns, and the indexes it is put together from.
CallOK ==
  /\ call \in {"cover", "join"} =>
       /\ wanted \in ColumnSets
       /\ operands \subseteq DOMAIN cache
       /\ \A t \in operands : t \subseteq wanted
  /\ call = "cover" => wanted \notin DOMAIN cache
  /\ call = "join" => joined # {}

\* No index kept holds an operand and columns that are not covered: the operand that
\* was taken is the one that covers most.
OperandsMaximal ==
  \A t \in operands : \A U \in DOMAIN cache : U \subseteq wanted /\ t \subseteq U => U \subseteq Covered

Several(T) == \E s, t \in T : s # t

\* What comes of several operands is not kept yet.
UnionsNew(keys) == \A T \in SUBSET keys : Several(T) => UNION T \notin DOMAIN cache

\* What still comes of a call is new, or adds nothing.
JoinsNew ==
  \A T \in SUBSET operands : T # {} /\ joined \cup UNION T \in DOMAIN cache => UNION T \subseteq joined

StorageOK ==
  /\ RelationOK
  /\ call \in {"closed", "ready", "cover", "join"}
  /\ DOMAIN cache \subseteq ColumnSets
  /\ joined \in SUBSET Cols
  /\ Opened
  /\ CallOK
  /\ PartitionsExact
  /\ call = "cover" => OperandsMaximal /\ UnionsNew(operands)
  /\ call = "join" => JoinsNew

LEMMA StorageOKInit ==
  StorageInit => StorageOK
<1> SUFFICES ASSUME StorageInit PROVE StorageOK
  OBVIOUS
<1>1. RelationOK
  BY RelationOKInit DEF StorageInit
<1>2. cache = <<>> /\ joined = {} /\ call = "closed" /\ DOMAIN cache = {}
  BY DEF StorageInit, CallInit
<1> QED BY <1>1, <1>2 DEF StorageOK, Opened, CallOK, PartitionsExact

\* Storage steps leave the relation alone.
LEMMA RelationKept ==
  ASSUME RelationOK, UNCHANGED relationVars
  PROVE  /\ RelationOK' /\ Cols' = Cols /\ ColumnSets' = ColumnSets /\ Built' = Built
         /\ \A X : Partition(X)' = Partition(X)
<1>1. UNCHANGED <<width, nullEqNull, dictionary, columns, plis>>
  BY DEF relationVars
<1>2. \A X : Partition(X)' = Partition(X)
  BY <1>1, SameValuesSamePartition
<1>3. Cols' = Cols /\ NumRows' = NumRows /\ Built' = Built
  BY <1>1 DEF Cols, NumRows, Built
<1>4. ColumnSets' = ColumnSets
  BY <1>3 DEF ColumnSets
<1>5. /\ width' \in Nat \ {0}
      /\ DOMAIN columns' = Cols'
      /\ \A c \in Cols' : \E V : columns'[c] \in Seq(V)
      /\ \A c \in Cols' : Len(columns'[c]) = NumRows'
  BY <1>1, <1>3 DEF RelationOK
<1>6. Built' => DOMAIN plis' = Cols' /\ \A c \in Cols' : plis'[c] = Partition({c})'
  BY <1>1, <1>2, <1>3 DEF RelationOK
<1> QED BY <1>2, <1>3, <1>4, <1>5, <1>6 DEF RelationOK

\* Reading goes on beside an open storage only in that nothing is read any more.
LEMMA ReadStepOK ==
  ASSUME StorageOK, ReadStep
  PROVE  StorageOK'
<1>1. UNCHANGED callVars /\ ~Built
  BY DEF ReadStep, ReadRow, AppendRow, BuildPlis
<1>2. RelationOK'
  <2>1. CASE \E row \in Offered[width] : ReadRow(row)
    BY <2>1, AppendRowOK DEF ReadRow, StorageOK
  <2>2. CASE BuildPlis
    BY <2>2, BuildPlisOK DEF StorageOK
  <2> QED BY <2>1, <2>2 DEF ReadStep
<1>3. call = "closed" /\ cache = <<>> /\ joined = {} /\ DOMAIN cache = {}
  BY <1>1 DEF StorageOK, Opened
<1>4. call' = "closed" /\ cache' = <<>> /\ joined' = {} /\ DOMAIN cache' = {}
  BY <1>1, <1>3 DEF callVars
<1> QED BY <1>2, <1>4 DEF StorageOK, Opened, CallOK, PartitionsExact

LEMMA OpenOK ==
  ASSUME StorageOK, Open
  PROVE  StorageOK'
<1> DEFINE Singles == {{c} : c \in Cols}
<1>1. RelationOK' /\ Cols' = Cols /\ ColumnSets' = ColumnSets /\ Built' /\ \A X : Partition(X)' = Partition(X)
  BY RelationKept DEF StorageOK, Open
<1>2. DOMAIN cache' = Singles /\ \A X \in Singles : cache'[X] = plis[CHOOSE c \in X : TRUE]
  BY DEF Open
<1>3. ASSUME NEW X \in Singles PROVE cache'[X] = Partition(X)
  <2>1. PICK c \in Cols : X = {c}
    OBVIOUS
  <2>2. (CHOOSE d \in X : TRUE) = c
    BY <2>1
  <2>3. plis[c] = Partition({c})
    BY DEF StorageOK, RelationOK, Open
  <2> QED BY <1>2, <2>1, <2>2, <2>3
<1>4. joined' = {} /\ call' = "ready"
  BY DEF Open, StorageOK, Opened
<1>5. PartitionsExact'
  BY <1>1, <1>2, <1>3, <1>4 DEF PartitionsExact
<1>6. DOMAIN cache' \subseteq ColumnSets'
  BY <1>1, <1>2 DEF ColumnSets
<1>7. Opened'
  BY <1>1, <1>2, <1>4 DEF Opened
<1> QED BY <1>1, <1>4, <1>5, <1>6, <1>7 DEF StorageOK, CallOK

LEMMA ServeOK ==
  ASSUME StorageOK, call = "ready", NEW X \in ColumnSets, Serve(X)
  PROVE  StorageOK'
<1>1. RelationOK' /\ Cols' = Cols /\ ColumnSets' = ColumnSets /\ Built' = Built /\ \A Y : Partition(Y)' = Partition(Y)
  BY RelationKept DEF StorageOK, Serve
<1>2. cache' = cache /\ call' = "ready" /\ joined' = X /\ current' = cache[X] /\ X \in DOMAIN cache
  BY DEF Serve
<1>3. X \in SUBSET Cols /\ current' = Partition(X)
  BY <1>2 DEF ColumnSets, StorageOK, PartitionsExact
<1>4. PartitionsExact'
  BY <1>1, <1>2, <1>3 DEF StorageOK, PartitionsExact
<1>5. Opened'
  BY <1>1, <1>2 DEF StorageOK, Opened
<1> QED BY <1>1, <1>2, <1>3, <1>4, <1>5 DEF StorageOK, CallOK

LEMMA BeginCoverOK ==
  ASSUME StorageOK, call = "ready", NEW X \in ColumnSets, BeginCover(X)
  PROVE  StorageOK'
<1>1. RelationOK' /\ Cols' = Cols /\ ColumnSets' = ColumnSets /\ Built' = Built /\ \A Y : Partition(Y)' = Partition(Y)
  BY RelationKept DEF StorageOK, BeginCover
<1>2. cache' = cache /\ call' = "cover" /\ joined' = {} /\ wanted' = X /\ X \notin DOMAIN cache
  BY DEF BeginCover
<1>3. PICK base \in SubsetEntries : /\ ~\E Y \in SubsetEntries : SmallerRank(Y, base)
                                   /\ operands' = {base}
  BY DEF BeginCover
<1>4. base \in DOMAIN cache /\ base \subseteq X
  BY <1>2, <1>3 DEF SubsetEntries
<1>5. CallOK'
  BY <1>1, <1>2, <1>3, <1>4 DEF CallOK
<1>6. ASSUME NEW U \in DOMAIN cache, U \subseteq X, base \subseteq U
      PROVE  U \subseteq base
  <2>1. U \in SubsetEntries
    BY <1>2, <1>6 DEF SubsetEntries
  <2>2. ~SmallerRank(U, base)
    BY <1>3, <2>1
  <2>3. cache[U] = Partition(U) /\ cache[base] = Partition(base)
    BY <1>4 DEF StorageOK, PartitionsExact
  <2>4. /\ PliSize(cache[base]) \in Nat /\ PliSize(cache[U]) \in Nat
        /\ PliSize(cache[U]) <= PliSize(cache[base])
    BY <2>3, <1>6, SizeMonotone DEF StorageOK
  <2>5. ~(Cardinality(U) > Cardinality(base))
    BY <2>2, <2>4 DEF SmallerRank
  <2>6. IsFiniteSet(U)
    <3>1. U \subseteq Cols
      BY DEF StorageOK, ColumnSets
    <3>2. width \in Nat
      BY DEF StorageOK, RelationOK
    <3>3. IsFiniteSet(Cols)
      BY <3>2, FS_Interval DEF Cols
    <3> QED BY <3>1, <3>3, FS_Subset
  <2>7. IsFiniteSet(base) /\ Cardinality(base) <= Cardinality(U)
    BY <1>6, <2>6, FS_Subset
  <2>8. Cardinality(base) \in Nat /\ Cardinality(U) \in Nat
    BY <2>6, <2>7, FS_CardinalityType
  <2>9. Cardinality(base) = Cardinality(U)
    BY <2>5, <2>7, <2>8
  <2> QED BY <1>6, <2>6, <2>9, FS_Subset
<1>7. OperandsMaximal'
  BY <1>2, <1>3, <1>6 DEF OperandsMaximal, Covered
<1>8. UnionsNew(operands)'
  BY <1>3 DEF UnionsNew, Several
<1>9. PartitionsExact'
  BY <1>1, <1>2 DEF StorageOK, PartitionsExact
<1>10. Opened'
  BY <1>1, <1>2 DEF StorageOK, Opened
<1> QED BY <1>1, <1>2, <1>5, <1>7, <1>8, <1>9, <1>10 DEF StorageOK

\* An index that adds most columns leaves out none that go with it.
LEMMA BestAddsAll ==
  ASSUME StorageOK, NEW best \in Ranks, ~\E Y \in Ranks : BetterRank(Y, best),
         NEW U \in DOMAIN cache, U \subseteq wanted, best \subseteq U
  PROVE  U \subseteq Covered \cup best
<1>1. IsFiniteSet(U)
  <2>1. U \subseteq Cols
    BY DEF StorageOK, ColumnSets
  <2>2. width \in Nat
    BY DEF StorageOK, RelationOK
  <2>3. IsFiniteSet(Cols)
    BY <2>2, FS_Interval DEF Cols
  <2> QED BY <2>1, <2>3, FS_Subset
<1>2. best \ Covered \subseteq U \ Covered /\ IsFiniteSet(U \ Covered)
  BY <1>1, FS_Subset
<1>3. IsFiniteSet(best \ Covered) /\ AddedArity(best) <= AddedArity(U)
  BY <1>2, FS_Subset DEF AddedArity
<1>4. AddedArity(best) \in Nat /\ AddedArity(U) \in Nat
  BY <1>2, <1>3, FS_CardinalityType DEF AddedArity
<1>5. AddedArity(best) >= 2
  BY DEF Ranks
<1>6. U \in Ranks
  BY <1>3, <1>4, <1>5 DEF Ranks
<1>7. ~(AddedArity(U) > AddedArity(best))
  BY <1>6 DEF BetterRank
<1>8. Cardinality(best \ Covered) = Cardinality(U \ Covered)
  BY <1>3, <1>4, <1>7 DEF AddedArity
<1>9. best \ Covered = U \ Covered
  BY <1>2, <1>8, FS_Subset
<1> QED BY <1>9

LEMMA ExtendCoverOK ==
  ASSUME StorageOK, ExtendCover
  PROVE  StorageOK'
<1>1. RelationOK' /\ Cols' = Cols /\ ColumnSets' = ColumnSets /\ Built' = Built /\ \A Y : Partition(Y)' = Partition(Y)
  BY RelationKept DEF StorageOK, ExtendCover
<1>2. UNCHANGED <<cache, wanted, joined, current, call>> /\ call = "cover"
  BY DEF ExtendCover
<1>3. PICK best \in Ranks : (~\E Y \in Ranks : BetterRank(Y, best)) /\ operands' = operands \cup {best}
  BY DEF ExtendCover
<1>4. best \in DOMAIN cache /\ best \subseteq wanted
  BY <1>3 DEF Ranks
<1>5. CallOK'
  BY <1>1, <1>2, <1>3, <1>4 DEF StorageOK, CallOK
<1>6. Covered' = Covered \cup best
  BY <1>3 DEF Covered
<1>7. OperandsMaximal'
  <2> SUFFICES ASSUME NEW t \in operands \cup {best}, NEW U \in DOMAIN cache, U \subseteq wanted, t \subseteq U
               PROVE  U \subseteq Covered \cup best
    BY <1>2, <1>3, <1>6 DEF OperandsMaximal
  <2>1. CASE t \in operands
    BY <2>1, <1>2 DEF StorageOK, OperandsMaximal
  <2>2. CASE t = best
    BY <2>2, <1>3, BestAddsAll
  <2> QED BY <2>1, <2>2
<1>8. UnionsNew(operands)'
  <2> SUFFICES ASSUME NEW T \in SUBSET (operands \cup {best}), Several(T), UNION T \in DOMAIN cache
               PROVE  FALSE
    BY <1>2, <1>3 DEF UnionsNew, Several
  <2>1. CASE T \in SUBSET operands
    BY <2>1, <1>2 DEF StorageOK, UnionsNew
  <2>2. CASE best \in T
    <3>1. PICK t \in T : t # best
      BY DEF Several
    <3>2. t \in operands /\ t \subseteq UNION T
      BY <3>1
    <3>3. UNION T \subseteq wanted
      BY <1>2, <1>4 DEF StorageOK, CallOK
    <3>4. UNION T \subseteq Covered
      BY <3>2, <3>3, <1>2 DEF StorageOK, OperandsMaximal
    <3>5. best \ Covered = {}
      BY <2>2, <3>4
    <3>6. AddedArity(best) = 0
      BY <3>5, FS_EmptySet DEF AddedArity
    <3> QED BY <1>3, <3>6 DEF Ranks
  <2> QED BY <2>1, <2>2
<1>9. PartitionsExact'
  BY <1>1, <1>2 DEF StorageOK, PartitionsExact
<1>10. Opened'
  BY <1>1, <1>2 DEF StorageOK, Opened
<1> QED BY <1>1, <1>2, <1>5, <1>7, <1>8, <1>9, <1>10 DEF StorageOK

\* The complete cover: indexes that are kept, that make up the columns wanted, and
\* none of whose unions is kept.
LEMMA CoverComplete ==
  ASSUME StorageOK, call = "cover", Ranks = {}
  PROVE  /\ AllOperands \subseteq DOMAIN cache
         /\ UNION AllOperands = wanted
         /\ UnionsNew(AllOperands)
<1>1. /\ wanted \in ColumnSets
      /\ operands \subseteq DOMAIN cache
      /\ \A t \in operands : t \subseteq wanted
      /\ wanted \subseteq Cols
  BY DEF StorageOK, CallOK, ColumnSets
<1>2. \A c \in Cols : {c} \in DOMAIN cache
  BY DEF StorageOK, Opened
<1>3. AllOperands \subseteq DOMAIN cache
  BY <1>1, <1>2 DEF AllOperands
<1>4. UNION AllOperands = wanted
  <2>1. \A t \in AllOperands : t \subseteq wanted
    BY <1>1 DEF AllOperands
  <2>2. ASSUME NEW c \in wanted PROVE c \in UNION AllOperands
    BY DEF AllOperands, Covered
  <2> QED BY <2>1, <2>2
<1>5. ASSUME NEW T \in SUBSET AllOperands, Several(T), UNION T \in DOMAIN cache
      PROVE  FALSE
  <2>1. UNION T \subseteq wanted
    BY <1>4
  <2>2. CASE T \subseteq operands
    BY <2>2, <1>5 DEF StorageOK, UnionsNew
  <2>3. CASE ~(T \subseteq operands)
    <3>1. PICK c \in wanted \ Covered : {c} \in T
      BY <2>3 DEF AllOperands
    <3>2. ASSUME NEW t \in T, t \in operands PROVE FALSE
      <4>1. t \subseteq UNION T
        OBVIOUS
      <4>2. UNION T \subseteq Covered
        BY <4>1, <3>2, <2>1, <1>5 DEF StorageOK, OperandsMaximal
      <4> QED BY <3>1, <4>2
    <3>3. PICK t \in T : t # {c}
      BY <1>5 DEF Several
    <3>4. PICK d \in wanted \ Covered : t = {d} /\ d # c
      BY <3>2, <3>3 DEF AllOperands
    <3>5. c \in (UNION T) \ Covered /\ d \in (UNION T) \ Covered
      BY <3>1, <3>4
    <3>6. IsFiniteSet((UNION T) \ Covered)
      <4>1. (UNION T) \ Covered \subseteq Cols
        BY <2>1, <1>1
      <4>2. width \in Nat
        BY DEF StorageOK, RelationOK
      <4>3. IsFiniteSet(Cols)
        BY <4>2, FS_Interval DEF Cols
      <4> QED BY <4>1, <4>3, FS_Subset
    <3>7. Cardinality((UNION T) \ Covered) > 1
      BY <3>4, <3>5, <3>6, TwoMembers
    <3>8. AddedArity(UNION T) >= 2
      BY <3>6, <3>7, FS_CardinalityType DEF AddedArity
    <3> QED BY <3>8, <2>1, <1>5 DEF Ranks
  <2> QED BY <2>2, <2>3
<1> QED BY <1>3, <1>4, <1>5 DEF UnionsNew

\* What CachingProcess does to the storage, when what it puts is exact.
LEMMA PutOK ==
  ASSUME StorageOK, call # "closed", UNCHANGED relationVars,
         joined' \in ColumnSets, current' = Partition(joined'), CachingProcess(joined', current')
  PROVE  /\ DOMAIN cache' \subseteq DOMAIN cache \cup {joined'}
         /\ DOMAIN cache \subseteq DOMAIN cache'
         /\ DOMAIN cache' \subseteq ColumnSets'
         /\ \A X \in DOMAIN cache' : cache'[X] = Partition(X)'
         /\ current' = Partition(joined')
         /\ Built' /\ \A c \in Cols' : {c} \in DOMAIN cache'
<1>1. Cols' = Cols /\ ColumnSets' = ColumnSets /\ Built' = Built /\ \A X : Partition(X)' = Partition(X)
  BY RelationKept DEF StorageOK
<1>2. \/ cache' = [Y \in DOMAIN cache \cup {joined'} |-> IF Y = joined' THEN current' ELSE cache[Y]]
      \/ cache' = cache
  BY DEF CachingProcess
<1>3. \A X \in DOMAIN cache : cache[X] = Partition(X)
  BY DEF StorageOK, PartitionsExact
<1>4. /\ DOMAIN cache \subseteq DOMAIN cache'
      /\ DOMAIN cache' \subseteq DOMAIN cache \cup {joined'}
      /\ \A X \in DOMAIN cache' : cache'[X] = Partition(X)
  BY <1>2, <1>3
<1>5. DOMAIN cache \subseteq ColumnSets /\ Built /\ \A c \in Cols : {c} \in DOMAIN cache
  BY DEF StorageOK, Opened
<1> QED BY <1>1, <1>4, <1>5

LEMMA IntersectAllOK ==
  ASSUME StorageOK, call = "cover", Ranks = {}, IntersectAll, UNCHANGED relationVars
  PROVE  StorageOK'
<1>1. PICK base \in Smallest(AllOperands) : current' = ProbeAll(cache[base], wanted \ base)
  BY DEF IntersectAll
<1>2. base \in DOMAIN cache /\ base \subseteq wanted
  BY <1>1, CoverComplete DEF Smallest
<1>3. wanted \in ColumnSets /\ wanted \subseteq Cols /\ Built
  BY DEF StorageOK, CallOK, ColumnSets, Opened
<1>4. ProbeAll(Partition(base), wanted \ base) = Partition(base \cup (wanted \ base))
  BY <1>3, ProbeAllExact DEF StorageOK
<1>5. base \cup (wanted \ base) = wanted
  BY <1>2
<1>6. cache[base] = Partition(base)
  BY <1>2 DEF StorageOK, PartitionsExact
<1>7. joined' = wanted /\ call' = "ready" /\ current' = Partition(wanted)
  BY <1>1, <1>4, <1>5, <1>6 DEF IntersectAll
<1>8. CachingProcess(joined', current')
  BY <1>7 DEF IntersectAll
<1>9. RelationOK' /\ Cols' = Cols /\ \A X : Partition(X)' = Partition(X)
  BY RelationKept DEF StorageOK
<1>10. /\ DOMAIN cache' \subseteq ColumnSets'
       /\ \A X \in DOMAIN cache' : cache'[X] = Partition(X)'
       /\ Built' /\ \A c \in Cols' : {c} \in DOMAIN cache'
  BY <1>3, <1>7, <1>8, PutOK
<1>11. PartitionsExact'
  BY <1>7, <1>9, <1>10 DEF PartitionsExact
<1> QED BY <1>3, <1>7, <1>9, <1>10, <1>11 DEF StorageOK, Opened, CallOK

LEMMA BeginJoinOK ==
  ASSUME StorageOK, call = "cover", Ranks = {}, BeginJoin, UNCHANGED relationVars
  PROVE  StorageOK'
<1>1. PICK base \in Smallest(AllOperands) :
        joined' = base /\ current' = cache[base] /\ operands' = AllOperands \ {base}
  BY DEF BeginJoin
<1>2. base \in AllOperands /\ base \in DOMAIN cache /\ base \subseteq wanted
  BY <1>1, CoverComplete DEF Smallest
<1>3. UNCHANGED <<cache, wanted>> /\ call' = "join"
  BY DEF BeginJoin
<1>4. RelationOK' /\ Cols' = Cols /\ ColumnSets' = ColumnSets /\ Built' = Built /\ \A X : Partition(X)' = Partition(X)
  BY RelationKept DEF StorageOK
<1>5. wanted \in ColumnSets /\ wanted \subseteq Cols /\ base # {}
  BY <1>2 DEF StorageOK, CallOK, ColumnSets
<1>6. CallOK'
  BY <1>1, <1>3, <1>4, <1>5, CoverComplete DEF CallOK
<1>7. joined' \cup UNION operands' = wanted
  BY <1>1, <1>2, CoverComplete
<1>8. PartitionsExact'
  <2>1. \A X \in DOMAIN cache : cache[X] = Partition(X)
    BY DEF StorageOK, PartitionsExact
  <2> QED BY <2>1, <1>1, <1>2, <1>3, <1>4, <1>7 DEF PartitionsExact
<1>9. JoinsNew'
  <2> SUFFICES ASSUME NEW T \in SUBSET (AllOperands \ {base}), T # {}, base \cup UNION T \in DOMAIN cache
               PROVE  FALSE
    BY <1>1, <1>3 DEF JoinsNew
  <2> DEFINE S == T \cup {base}
  <2>1. UNION S = base \cup UNION T
    OBVIOUS
  <2>2. S \in SUBSET AllOperands /\ Several(S)
    BY <1>2 DEF Several
  <2>3. UnionsNew(AllOperands)
    BY CoverComplete
  <2> QED BY <2>1, <2>2, <2>3 DEF UnionsNew
<1>10. Opened'
  BY <1>3, <1>4 DEF StorageOK, Opened
<1> QED BY <1>1, <1>2, <1>3, <1>4, <1>5, <1>6, <1>8, <1>9, <1>10 DEF StorageOK

LEMMA JoinOK ==
  ASSUME StorageOK, Join
  PROVE  StorageOK'
<1>1. PICK next \in Smallest(operands) : /\ joined' = joined \cup next
                                         /\ current' = Intersect(current, cache[next])
                                         /\ operands' = operands \ {next}
  BY DEF Join
<1>2. call = "join" /\ UNCHANGED relationVars /\ CachingProcess(joined', current')
  BY DEF Join
<1>3. /\ next \in operands /\ next \in DOMAIN cache /\ next \subseteq wanted
      /\ wanted \in ColumnSets /\ wanted \subseteq Cols /\ joined # {}
      /\ next # {} /\ operands \subseteq DOMAIN cache
  BY <1>1, <1>2 DEF Smallest, StorageOK, CallOK, ColumnSets
<1>4. joined \cup UNION operands = wanted /\ joined \subseteq wanted
  BY <1>2 DEF StorageOK, PartitionsExact
<1>5. joined' \cup UNION operands' = wanted
  BY <1>1, <1>3, <1>4
<1>6. joined' \in ColumnSets
  BY <1>1, <1>3, <1>4 DEF ColumnSets
<1>7. current' = Partition(joined')
  <2>1. cache[next] = Partition(next)
    BY <1>3 DEF StorageOK, PartitionsExact
  <2>2. current = Partition(joined)
    BY <1>2, <1>3 DEF StorageOK, PartitionsExact
  <2> QED BY <1>1, <2>1, <2>2, IntersectExact DEF StorageOK
<1>8. RelationOK' /\ Cols' = Cols /\ ColumnSets' = ColumnSets /\ \A X : Partition(X)' = Partition(X)
  BY <1>2, RelationKept DEF StorageOK
<1>9. /\ DOMAIN cache' \subseteq DOMAIN cache \cup {joined'}
      /\ DOMAIN cache \subseteq DOMAIN cache'
      /\ DOMAIN cache' \subseteq ColumnSets'
      /\ \A X \in DOMAIN cache' : cache'[X] = Partition(X)'
      /\ Built' /\ \A c \in Cols' : {c} \in DOMAIN cache'
  BY <1>2, <1>6, <1>7, PutOK
<1>10. call' \in {"ready", "join"} /\ (call' = "join" => wanted' = wanted /\ operands' # {})
  BY <1>2 DEF Join
<1>11. PartitionsExact'
  BY <1>5, <1>7, <1>8, <1>9, <1>10 DEF PartitionsExact
<1>12. JoinsNew'
  <2> SUFFICES ASSUME NEW T \in SUBSET (operands \ {next}), T # {}, joined' \cup UNION T \in DOMAIN cache'
               PROVE  UNION T \subseteq joined'
    BY <1>1 DEF JoinsNew
  <2>1. CASE joined' \cup UNION T \in DOMAIN cache
    <3> DEFINE S == T \cup {next}
    <3>1. joined \cup UNION S = joined' \cup UNION T
      BY <1>1
    <3>2. S \in SUBSET operands /\ S # {}
      BY <1>3
    <3>3. UNION S \subseteq joined
      BY <2>1, <3>1, <3>2, <1>2 DEF StorageOK, JoinsNew
    <3> QED BY <3>3, <1>1
  <2>2. CASE joined' \cup UNION T = joined'
    BY <2>2
  <2> QED BY <2>1, <2>2, <1>9
<1>13. CallOK'
  <2>1. operands' \subseteq DOMAIN cache' /\ \A t \in operands' : t \subseteq wanted
    BY <1>1, <1>3, <1>4, <1>9
  <2>2. joined' # {}
    BY <1>1, <1>3
  <2> QED BY <1>3, <1>8, <1>10, <2>1, <2>2 DEF CallOK
<1>14. joined' \in SUBSET Cols'
  BY <1>3, <1>4, <1>5, <1>8
<1> QED BY <1>8, <1>9, <1>10, <1>11, <1>12, <1>13, <1>14 DEF StorageOK, Opened

-----------------------------------------------------------------------------

LEMMA StorageOKInvariant == StorageSpec => []StorageOK
<1>1. StorageInit => StorageOK
  BY StorageOKInit
<1>2. StorageOK /\ [StorageNext]_storageVars => StorageOK'
  <2> SUFFICES ASSUME StorageOK, [StorageNext]_storageVars PROVE StorageOK'
    OBVIOUS
  <2>1. CASE ReadStep
    BY <2>1, ReadStepOK
  <2>2. CASE Open
    BY <2>2, OpenOK
  <2>3. CASE StorageStep
    <3>1. CASE \E X \in ColumnSets : GetOrCreateFor(X)
      <4>1. PICK X \in ColumnSets : GetOrCreateFor(X)
        BY <3>1
      <4>2. CASE Serve(X)
        BY <4>1, <4>2, ServeOK DEF GetOrCreateFor
      <4>3. CASE BeginCover(X)
        BY <4>1, <4>3, BeginCoverOK DEF GetOrCreateFor
      <4> QED BY <4>1, <4>2, <4>3 DEF GetOrCreateFor
    <3>2. CASE ExtendCover
      BY <3>2, ExtendCoverOK
    <3>3. CASE CompleteCover
      BY <3>3, IntersectAllOK, BeginJoinOK DEF CompleteCover
    <3>4. CASE Join
      BY <3>4, JoinOK
    <3> QED BY <2>3, <3>1, <3>2, <3>3, <3>4 DEF StorageStep
  <2>4. CASE UNCHANGED storageVars
    <3>1. UNCHANGED relationVars /\ UNCHANGED <<cache, wanted, operands, joined, current, call>>
      BY <2>4 DEF storageVars, callVars
    <3>2. RelationOK' /\ Cols' = Cols /\ ColumnSets' = ColumnSets /\ Built' = Built /\ \A X : Partition(X)' = Partition(X)
      BY <3>1, RelationKept DEF StorageOK
    <3>3. Opened' /\ CallOK'
      BY <3>1, <3>2 DEF StorageOK, Opened, CallOK
    <3>4. PartitionsExact'
      BY <3>1, <3>2 DEF StorageOK, PartitionsExact
    <3>5. (call = "cover" => OperandsMaximal /\ UnionsNew(operands))'
      BY <3>1 DEF StorageOK, OperandsMaximal, UnionsNew, Covered, Several
    <3>6. (call = "join" => JoinsNew)'
      BY <3>1 DEF StorageOK, JoinsNew
    <3> QED BY <3>1, <3>2, <3>3, <3>4, <3>5, <3>6 DEF StorageOK
  <2> QED BY <2>1, <2>2, <2>3, <2>4 DEF StorageNext
<1> QED BY <1>1, <1>2, PTL DEF StorageSpec

\* For every relation and every history of calls, the indexes kept and answered with
\* are the partitions of the columns they are for (GetOrCreateFor).
THEOREM StorageExact == StorageSpec => []PartitionsExact
<1>1. StorageOK => PartitionsExact
  BY DEF StorageOK
<1> QED BY <1>1, StorageOKInvariant, PTL

\* No call replaces an index that an earlier call was answered with, which other
\* threads may still be using (GetOrCreateFor, CachingProcess).
THEOREM AnswersStay == StorageSpec => []NoIndexReplaced
<1>1. StorageOK => NoIndexReplaced
  <2> SUFFICES ASSUME StorageOK, call = "join", NEW next \in Smallest(operands), joined \cup next \in DOMAIN cache
               PROVE  next \subseteq joined
    BY DEF NoIndexReplaced
  <2>1. {next} \in SUBSET operands /\ {next} # {} /\ UNION {next} = next
    BY DEF Smallest
  <2> QED BY <2>1 DEF StorageOK, JoinsNew
<1> QED BY <1>1, StorageOKInvariant, PTL

-----------------------------------------------------------------------------
(* Indexes of any set of columns. *)

LEMMA SmallestNumber ==
  ASSUME NEW S, S \subseteq Nat, S # {}
  PROVE  \E x \in S : \A y \in S : x <= y
<1>1. PICK x \in S : \A y \in S : <<y, x>> \notin OpToRel(<, Nat)
  BY NatLessThanWellFounded, WFMin
<1>2. ASSUME NEW y \in S PROVE x <= y
  <2>1. x \in Nat /\ y \in Nat
    OBVIOUS
  <2>2. y < x => <<y, x>> \in OpToRel(<, Nat)
    BY <2>1 DEF OpToRel
  <2>3. ~(y < x)
    BY <1>1, <1>2, <2>2
  <2> QED BY <2>1, <2>3
<1> QED BY <1>2

LEMMA MinColumn ==
  ASSUME width \in Nat \ {0}, NEW X \in SUBSET Cols, X # {}
  PROVE  Min(X) \in X /\ Min(X) \in 1..width /\ \A y \in X : Min(X) <= y
<1>1. X \subseteq Nat
  BY DEF Cols
<1>2. \E x \in X : \A y \in X : x <= y
  BY <1>1, SmallestNumber
<1>3. Min(X) \in X /\ \A y \in X : Min(X) <= y
  BY <1>2 DEF Min
<1>4. Min(X) \in Cols
  BY <1>3
<1> QED BY <1>3, <1>4 DEF Cols

\* What PliOf computes column by column, from that of the columns before it.
UpToStep(X, f, c) ==
  IF c <= Min(X) THEN plis[Min(X)]
  ELSE IF c \in X THEN Intersect(f[c - 1], plis[c]) ELSE f[c - 1]

\* A function does compute it: the first column of which there is none up to it has
\* one for the columns before.
LEMMA UpToExists ==
  ASSUME width \in Nat \ {0}, NEW X \in SUBSET Cols, X # {}
  PROVE  \E f : f = [c \in Cols |-> UpToStep(X, f, c)]
<1> DEFINE Computed(n) == \E f : f = [c \in 1..n |-> UpToStep(X, f, c)]
           lacking == {n \in Nat \ {0} : ~Computed(n)}
<1>0. Min(X) \in Nat /\ 1 <= Min(X)
  BY MinColumn
<1>1. lacking = {}
  <2> SUFFICES ASSUME lacking # {} PROVE FALSE
    OBVIOUS
  <2>1. PICK n \in lacking : \A m \in lacking : n <= m
    BY SmallestNumber
  <2>2. n \in Nat \ {0} /\ ~Computed(n)
    BY <2>1
  <2>3. CASE n = 1
    <3> DEFINE f == [c \in 1..1 |-> plis[Min(X)]]
    <3>2. f = [c \in 1..1 |-> UpToStep(X, f, c)]
      <4>1. \A c \in 1..1 : UpToStep(X, f, c) = plis[Min(X)]
        BY <1>0 DEF UpToStep
      <4> QED BY <4>1
    <3> QED BY <2>2, <2>3, <3>2
  <2>4. CASE n # 1
    <3>1. n - 1 \in Nat \ {0} /\ Computed(n - 1)
      BY <2>1, <2>2, <2>4
    <3>2. PICK g : g = [c \in 1..n - 1 |-> UpToStep(X, g, c)]
      BY <3>1
    <3> DEFINE f == [c \in 1..n |-> UpToStep(X, g, c)]
    <3>3. \A c \in 1..n - 1 : f[c] = g[c]
      BY <2>2, <3>2
    <3>4. ASSUME NEW c \in 1..n PROVE UpToStep(X, f, c) = UpToStep(X, g, c)
      <4>1. CASE c <= Min(X)
        BY <4>1 DEF UpToStep
      <4>2. CASE ~(c <= Min(X)) /\ c = 1
        BY <1>0, <4>2
      <4>3. CASE ~(c <= Min(X)) /\ c # 1
        <5>0. c - 1 \in 1..n - 1
          BY <2>2, <4>3
        <5>1. f[c - 1] = g[c - 1]
          BY <3>3, <5>0
        <5> HIDE DEF f
        <5> QED BY <4>3, <5>1 DEF UpToStep
      <4> QED BY <4>1, <4>2, <4>3
    <3>5. f = [c \in 1..n |-> UpToStep(X, f, c)]
      BY <3>4
    <3> QED BY <2>2, <3>5
  <2> QED BY <2>3, <2>4
<1>2. Computed(width)
  BY <1>1
<1> QED BY <1>2 DEF Cols

\* It is the partition by the columns of X up to there, from the first of them on.
LEMMA PliOfExact ==
  ASSUME RelationOK, Built, NEW X \in SUBSET Cols
  PROVE  PliOf(X) = Partition(X)
<1>0. width \in Nat \ {0} /\ \A c \in Cols : plis[c] = Partition({c})
  BY DEF RelationOK
<1>1. CASE X = {}
  <2>1. \A r \in Rows : Together({}, r) = Rows
    BY DEF Together, AgreeOn
  <2>2. PliForEmpty = Partition({})
    <3>1. CASE Rows = {}
      <4>1. Cardinality({}) = 0
        BY FS_EmptySet
      <4>2. Partition({}) = {} /\ PliForEmpty = {}
        BY <3>1, <4>1 DEF Partition, PliForEmpty, Clusters
      <4> QED BY <4>2
    <3>2. CASE Rows # {}
      <4>1. {Together({}, r) : r \in Rows} = {Rows}
        BY <2>1, <3>2
      <4> QED BY <4>1 DEF Partition, PliForEmpty
    <3> QED BY <3>1, <3>2
  <2> QED BY <1>1, <2>2 DEF PliOf
<1>2. CASE X # {}
  <2> DEFINE upTo == CHOOSE f : f = [c \in Cols |-> UpToStep(X, f, c)]
  <2>1. upTo = [c \in Cols |-> UpToStep(X, upTo, c)]
    BY <1>0, <1>2, UpToExists
  <2>2. PliOf(X) = upTo[width]
    BY <1>2 DEF PliOf, UpToStep
  <2> HIDE DEF upTo
  <2>3. Min(X) \in X /\ Min(X) \in 1..width /\ \A y \in X : Min(X) <= y
    BY <1>0, <1>2, MinColumn
  <2> DEFINE Upper(c) == {d \in X : d <= c}
             wrong == {c \in Min(X)..width : upTo[c] # Partition(Upper(c))}
  <2>4. wrong = {}
    <3> SUFFICES ASSUME wrong # {} PROVE FALSE
      OBVIOUS
    <3>1. PICK c \in wrong : \A d \in wrong : c <= d
      <4>1. wrong \subseteq Nat
        BY <1>0, <2>3
      <4> QED BY <4>1, SmallestNumber
    <3>2. c \in Nat /\ Min(X) <= c /\ c <= width /\ c \in Cols /\ upTo[c] # Partition(Upper(c))
      BY <1>0, <2>3, <3>1 DEF Cols
    <3>3. upTo[c] = UpToStep(X, upTo, c)
      BY <2>1, <3>2
    <3>4. CASE c = Min(X)
      <4>0. \A d \in X : d <= c <=> d = c
        BY <2>3, <3>2, <3>4 DEF Cols
      <4>1. Upper(c) = {c}
        BY <2>3, <3>4, <4>0
      <4>2. upTo[c] = plis[c]
        BY <3>2, <3>3, <3>4 DEF UpToStep
      <4> QED BY <1>0, <3>2, <4>1, <4>2
    <3>5. CASE c # Min(X)
      <4>1. ~(c <= Min(X)) /\ c - 1 \in Min(X)..width /\ c - 1 < c
        BY <1>0, <2>3, <3>2, <3>5
      <4>2. upTo[c - 1] = Partition(Upper(c - 1))
        <5>1. ~(c <= c - 1)
          BY <3>2
        <5>2. c - 1 \notin wrong
          BY <3>1, <5>1
        <5> QED BY <4>1, <5>2
      <4>3. \A d \in X : d <= c <=> d <= c - 1 \/ d = c
        BY <3>2 DEF Cols
      <4>4. CASE c \in X
        <5>1. upTo[c] = Intersect(Partition(Upper(c - 1)), Partition({c}))
          BY <1>0, <3>2, <3>3, <4>1, <4>2, <4>4 DEF UpToStep
        <5>2. Upper(c) = Upper(c - 1) \cup {c}
          BY <4>3, <4>4
        <5> HIDE DEF Upper
        <5> QED BY <3>2, <5>1, <5>2, IntersectExact
      <4>5. CASE c \notin X
        <5>1. upTo[c] = Partition(Upper(c - 1))
          BY <3>3, <4>1, <4>2, <4>5 DEF UpToStep
        <5>2. Upper(c) = Upper(c - 1)
          BY <4>3, <4>5
        <5> QED BY <3>2, <5>1, <5>2
      <4> QED BY <4>4, <4>5
    <3> QED BY <3>4, <3>5
  <2>5. Upper(width) = X /\ width \in Min(X)..width
    <3>1. \A d \in X : d <= width
      BY <1>0 DEF Cols
    <3> QED BY <1>0, <2>3, <3>1
  <2>6. upTo[width] = Partition(Upper(width))
    BY <2>4, <2>5
  <2> QED BY <2>2, <2>5, <2>6
<1> QED BY <1>1, <1>2

\* Of every relation that is read, the index of any set of columns, intersected column
\* by column, is the partition of the rows by their values in them
\* (PositionListIndex::Intersect).
THEOREM IndexesArePartitions == StorageSpec => []PliIsPartition
<1>1. StorageOK => PliIsPartition
  BY PliOfExact DEF StorageOK, PliIsPartition
<1> QED BY <1>1, StorageOKInvariant, PTL
-----------------------------------------------------------------------------
(* Sums, as MapThenSumSet computes them: element by element. *)

SumStep(f, sum, T) ==
  IF T = {} THEN 0 ELSE f[CHOOSE x \in T : TRUE] + sum[T \ {CHOOSE x \in T : TRUE}]

IsSum(sum, f, S) == sum = [T \in SUBSET S |-> SumStep(f, sum, T)]

\* A function does compute the sums over all subsets: those of n elements come from
\* those of fewer.
LEMMA SumExists ==
  ASSUME NEW S, IsFiniteSet(S), NEW f
  PROVE  \E sum : IsSum(sum, f, S)
<1> DEFINE Upto(n) == {T \in SUBSET S : Cardinality(T) <= n}
           Computed(n) == \E sum : sum = [T \in Upto(n) |-> SumStep(f, sum, T)]
           lacking == {n \in Nat : ~Computed(n)}
<1>0. \A T \in SUBSET S : IsFiniteSet(T) /\ Cardinality(T) \in Nat /\ Cardinality(T) <= Cardinality(S)
  BY FS_Subset, FS_CardinalityType
<1>1. lacking = {}
  <2> SUFFICES ASSUME lacking # {} PROVE FALSE
    OBVIOUS
  <2>1. PICK n \in lacking : \A m \in lacking : n <= m
    BY SmallestNumber
  <2>2. n \in Nat /\ ~Computed(n)
    BY <2>1
  <2>3. CASE n = 0
    <3>1. \A T \in Upto(0) : T = {}
      BY <1>0, FS_EmptySet
    <3> DEFINE sum == [T \in Upto(0) |-> 0]
    <3>2. \A T \in Upto(0) : SumStep(f, sum, T) = 0
      BY <3>1 DEF SumStep
    <3>3. sum = [T \in Upto(0) |-> SumStep(f, sum, T)]
      BY <3>2
    <3> QED BY <2>2, <2>3, <3>3
  <2>4. CASE n # 0
    <3>1. n - 1 \in Nat /\ Computed(n - 1)
      <4> HIDE DEF Computed
      <4>1. n - 1 \in Nat /\ ~(n <= n - 1)
        BY <2>2, <2>4
      <4>2. n - 1 \notin lacking
        BY <2>1, <4>1
      <4> QED BY <4>1, <4>2
    <3>2. PICK less : less = [T \in Upto(n - 1) |-> SumStep(f, less, T)]
      BY <3>1
    <3> DEFINE sum == [T \in Upto(n) |-> SumStep(f, less, T)]
    <3>3. ASSUME NEW T \in Upto(n - 1) PROVE T \in Upto(n) /\ sum[T] = less[T]
      <4>1. T \in Upto(n)
        BY <1>0, <2>2, <3>3
      <4> QED BY <3>2, <3>3, <4>1
    <3>4. ASSUME NEW T \in Upto(n) PROVE SumStep(f, sum, T) = SumStep(f, less, T)
      <4>1. CASE T = {}
        BY <4>1 DEF SumStep
      <4>2. CASE T # {}
        <5> DEFINE x == CHOOSE x \in T : TRUE
        <5>1. x \in T
          BY <4>2
        <5>2. Cardinality(T \ {x}) = Cardinality(T) - 1
          BY <1>0, <5>1, FS_RemoveElement
        <5>3. T \ {x} \in Upto(n - 1)
          BY <1>0, <2>2, <5>2
        <5>4. sum[T \ {x}] = less[T \ {x}]
          BY <3>3, <5>3
        <5> HIDE DEF sum
        <5> QED BY <4>2, <5>4 DEF SumStep
      <4> QED BY <4>1, <4>2
    <3>5. sum = [T \in Upto(n) |-> SumStep(f, sum, T)]
      BY <3>4
    <3> QED BY <2>2, <3>5
  <2> QED BY <2>3, <2>4
<1>2. Cardinality(S) \in Nat
  BY FS_CardinalityType
<1>3. Computed(Cardinality(S))
  BY <1>1, <1>2
<1>4. Upto(Cardinality(S)) = SUBSET S
  BY <1>0
<1> QED BY <1>3, <1>4 DEF IsSum

Joint(part, S) == UNION {part[g] : g \in S}

\* The sum of the sizes of disjoint sets is the size of their union.
LEMMA SumOfParts ==
  ASSUME NEW S, IsFiniteSet(S), NEW part, NEW f, NEW sum, IsSum(sum, f, S),
         \A g \in S : IsFiniteSet(part[g]) /\ f[g] = Cardinality(part[g]),
         \A g, h \in S : g # h => part[g] \cap part[h] = {}
  PROVE  IsFiniteSet(Joint(part, S)) /\ sum[S] = Cardinality(Joint(part, S))
<1> DEFINE All(T) == Joint(part, T)
           Right(T) == IsFiniteSet(All(T)) /\ sum[T] = Cardinality(All(T))
           wrong == {n \in Nat : \E T \in SUBSET S : Cardinality(T) = n /\ ~Right(T)}
<1>0. \A T \in SUBSET S : IsFiniteSet(T) /\ Cardinality(T) \in Nat
  BY FS_Subset, FS_CardinalityType
<1>1. wrong = {}
  <2> SUFFICES ASSUME wrong # {} PROVE FALSE
    OBVIOUS
  <2>1. PICK n \in wrong : \A m \in wrong : n <= m
    BY SmallestNumber
  <2>2. PICK T \in SUBSET S : Cardinality(T) = n /\ ~Right(T)
    BY <2>1
  <2>3. CASE T = {}
    <3>1. All(T) = {} /\ sum[T] = 0
      BY <2>3 DEF IsSum, SumStep, Joint
    <3> QED BY <2>2, <3>1, FS_EmptySet
  <2>4. CASE T # {}
    <3> DEFINE x == CHOOSE x \in T : TRUE
               U == T \ {x}
    <3>1. x \in T /\ U \in SUBSET S
      BY <2>4
    <3>2. sum[T] = Cardinality(part[x]) + sum[U]
      BY <2>4, <3>1 DEF IsSum, SumStep
    <3> HIDE DEF x
    <3>3. Right(U)
      <4>1. Cardinality(U) = n - 1 /\ n \in Nat /\ n - 1 \in Nat
        <5>1. IsFiniteSet(T) /\ Cardinality(T) \in Nat /\ Cardinality(U) \in Nat
          BY <1>0, <3>1
        <5>2. Cardinality(T \ {x}) = Cardinality(T) - 1
          BY <3>1, <5>1, FS_RemoveElement
        <5> QED BY <2>2, <5>1, <5>2
      <4> HIDE DEF U, Right
      <4>2. n - 1 \notin wrong
        BY <2>1, <4>1
      <4> QED BY <3>1, <4>1, <4>2
    <3>4. All(T) = part[x] \cup All(U)
      BY <3>1 DEF Joint
    <3>5. part[x] \cap All(U) = {}
      BY <3>1 DEF Joint
    <3>6. IsFiniteSet(part[x]) /\ IsFiniteSet(All(U)) /\ sum[U] = Cardinality(All(U))
      BY <3>1, <3>3
    <3> HIDE DEF All, U
    <3>7. /\ IsFiniteSet(All(T))
          /\ Cardinality(All(T)) = Cardinality(part[x]) + Cardinality(All(U)) - Cardinality({})
      BY <3>4, <3>5, <3>6, FS_Union
    <3>8. Cardinality(part[x]) \in Nat /\ Cardinality(All(U)) \in Nat /\ Cardinality({}) = 0
      BY <3>6, FS_CardinalityType, FS_EmptySet
    <3> QED BY <2>2, <3>2, <3>6, <3>7, <3>8
  <2> QED BY <2>3, <2>4
<1>2. Cardinality(S) \in Nat /\ S \in SUBSET S
  BY <1>0
<1> QED BY <1>1, <1>2

\* The ordered pairs of a set of n numbers are n * (n - 1) / 2.
PairsOf(g) == {p \in g \X g : p[1] < p[2]}

LEMMA PairsCounted ==
  ASSUME NEW S \in SUBSET Nat, IsFiniteSet(S)
  PROVE  /\ IsFiniteSet(PairsOf(S))
         /\ Cardinality(PairsOf(S)) = (Cardinality(S) * (Cardinality(S) - 1)) \div 2
<1> DEFINE Right(T) == 2 * Cardinality(PairsOf(T)) = Cardinality(T) * (Cardinality(T) - 1)
           wrong == {n \in Nat : \E T \in SUBSET S : Cardinality(T) = n /\ ~Right(T)}
<1>0. \A T \in SUBSET S : /\ IsFiniteSet(T) /\ Cardinality(T) \in Nat
                          /\ IsFiniteSet(PairsOf(T)) /\ Cardinality(PairsOf(T)) \in Nat
  <2> SUFFICES ASSUME NEW T \in SUBSET S
               PROVE  /\ IsFiniteSet(T) /\ Cardinality(T) \in Nat
                      /\ IsFiniteSet(PairsOf(T)) /\ Cardinality(PairsOf(T)) \in Nat
    OBVIOUS
  <2>1. IsFiniteSet(T) /\ IsFiniteSet(T \X T)
    BY FS_Subset, FS_Product
  <2>2. PairsOf(T) \in SUBSET (T \X T)
    BY DEF PairsOf
  <2> QED BY <2>1, <2>2, FS_Subset, FS_CardinalityType
<1>1. wrong = {}
  <2> SUFFICES ASSUME wrong # {} PROVE FALSE
    OBVIOUS
  <2>1. PICK n \in wrong : \A m \in wrong : n <= m
    BY SmallestNumber
  <2>2. PICK T \in SUBSET S : Cardinality(T) = n /\ ~Right(T)
    BY <2>1
  <2>3. CASE T = {}
    <3>1. PairsOf(T) = {}
      BY <2>3 DEF PairsOf
    <3>2. Cardinality(T) = 0 /\ Cardinality(PairsOf(T)) = 0
      BY <2>3, <3>1, FS_EmptySet
    <3> QED BY <2>2, <3>2
  <2>4. CASE T # {}
    <3>1. PICK x \in T : TRUE
      BY <2>4
    <3> DEFINE U == T \ {x}
               pairOf == [y \in U |-> IF y < x THEN <<y, x>> ELSE <<x, y>>]
               new == {pairOf[y] : y \in U}
    <3>2. U \in SUBSET S /\ Cardinality(U) = n - 1 /\ n \in Nat /\ n - 1 \in Nat
      <4>1. IsFiniteSet(T) /\ Cardinality(T) \in Nat /\ Cardinality(U) \in Nat
        BY <1>0
      <4>2. Cardinality(T \ {x}) = Cardinality(T) - 1
        BY <4>1, FS_RemoveElement
      <4> QED BY <2>2, <4>1, <4>2
    <3>3. Right(U)
      <4> HIDE DEF U, Right
      <4>1. n - 1 \notin wrong
        BY <2>1, <3>2
      <4> QED BY <3>2, <4>1
    <3>4. PairsOf(T) = PairsOf(U) \cup new
      <4>1. ASSUME NEW p \in PairsOf(T) PROVE p \in PairsOf(U) \cup new
        <5>1. p = <<p[1], p[2]>> /\ p[1] \in T /\ p[2] \in T /\ p[1] < p[2]
          BY DEF PairsOf
        <5>2. CASE p[1] # x /\ p[2] # x
          BY <5>1, <5>2 DEF PairsOf
        <5>3. CASE p[2] = x
          <6>1. p[1] \in U /\ pairOf[p[1]] = p
            BY <5>1, <5>3
          <6> QED BY <6>1
        <5>4. CASE p[1] = x
          <6>1. p[2] \in U /\ ~(p[2] < x) /\ pairOf[p[2]] = p
            BY <5>1, <5>4
          <6> QED BY <6>1
        <5> QED BY <5>2, <5>3, <5>4
      <4>2. \A y \in U : pairOf[y] \in PairsOf(T)
        BY DEF PairsOf
      <4>3. PairsOf(U) \subseteq PairsOf(T)
        BY DEF PairsOf
      <4> QED BY <4>1, <4>2, <4>3
    <3>5. PairsOf(U) \cap new = {}
      BY DEF PairsOf
    <3>6. IsFiniteSet(new) /\ Cardinality(new) = n - 1
      <4>1. pairOf \in Injection(U, new)
        BY DEF Injection, IsInjective
      <4>2. pairOf \in Surjection(U, new)
        BY DEF Surjection
      <4>3. pairOf \in Bijection(U, new)
        BY <4>1, <4>2 DEF Bijection
      <4> HIDE DEF pairOf, new, U
      <4>4. ExistsBijection(U, new)
        BY <4>3 DEF ExistsBijection
      <4>5. IsFiniteSet(U)
        BY <1>0, <3>2
      <4> QED BY <3>2, <4>4, <4>5, FS_Bijection
    <3>7. Cardinality(PairsOf(T)) = Cardinality(PairsOf(U)) + (n - 1)
      <4>1. IsFiniteSet(PairsOf(U)) /\ Cardinality(PairsOf(U)) \in Nat
        BY <1>0, <3>2
      <4>2. Cardinality({}) = 0
        BY FS_EmptySet
      <4> HIDE DEF new, U
      <4>3. Cardinality(PairsOf(U) \cup new)
              = Cardinality(PairsOf(U)) + Cardinality(new) - Cardinality(PairsOf(U) \cap new)
        BY <3>6, <4>1, FS_Union
      <4>4. Cardinality(PairsOf(T)) = Cardinality(PairsOf(U) \cup new)
        BY <3>4
      <4>5. Cardinality(PairsOf(U) \cap new) = 0
        BY <3>5, <4>2
      <4> HIDE DEF pairOf, Right, wrong
      <4> QED BY <3>2, <3>6, <4>1, <4>3, <4>4, <4>5
    <3>8. 2 * Cardinality(PairsOf(T)) = (n - 1) * ((n - 1) - 1) + 2 * (n - 1)
      <4>1. Cardinality(PairsOf(U)) \in Nat
        BY <1>0, <3>2
      <4>2. 2 * Cardinality(PairsOf(U)) = (n - 1) * ((n - 1) - 1)
        BY <3>2, <3>3
      <4> HIDE DEF U
      <4> QED BY <3>2, <3>7, <4>1, <4>2
    <3>9. \A k \in Nat : (k - 1) * ((k - 1) - 1) + 2 * (k - 1) = k * (k - 1)
      OBVIOUS
    <3> QED BY <2>2, <3>2, <3>8, <3>9
  <2> QED BY <2>3, <2>4
<1>2. Right(S)
  BY <1>0, <1>1
<1>3. \A k, m \in Nat : 2 * k = m => k = m \div 2
  OBVIOUS
<1>4. \A k \in Nat : k * (k - 1) \in Nat
  OBVIOUS
<1> QED BY <1>0, <1>2, <1>3, <1>4

\* Nep adds up the pairs of all clusters: those of their union, when no two share a row.
LEMMA NepCounts ==
  ASSUME NEW S, IsFiniteSet(S), \A g \in S : g \in SUBSET Nat /\ IsFiniteSet(g),
         \A g, h \in S : g # h => g \cap h = {}
  PROVE  /\ IsFiniteSet(UNION {PairsOf(g) : g \in S})
         /\ Nep(S) = Cardinality(UNION {PairsOf(g) : g \in S})
<1> DEFINE pairs(g) == (Cardinality(g) * (Cardinality(g) - 1)) \div 2
           part == [g \in S |-> PairsOf(g)]
           f == [g \in S |-> Cardinality(part[g])]
           added(sum, T) == IF T = {} THEN 0
                            ELSE pairs(CHOOSE x \in T : TRUE) + sum[T \ {CHOOSE x \in T : TRUE}]
           sum == CHOOSE sum : sum = [T \in SUBSET S |-> added(sum, T)]
<1>1. Nep(S) = sum[S]
  BY DEF Nep, MapThenSumSet, MapThenFoldSet
<1>2. \A g \in S : IsFiniteSet(part[g]) /\ f[g] = pairs(g)
  BY PairsCounted
<1>3. ASSUME NEW i, NEW T \in SUBSET S PROVE added(i, T) = SumStep(f, i, T)
  <2>1. CASE T = {}
    BY <2>1 DEF SumStep
  <2>2. CASE T # {}
    <3>1. (CHOOSE x \in T : TRUE) \in S
      BY <2>2
    <3> HIDE DEF f, pairs
    <3> QED BY <1>2, <2>2, <3>1 DEF SumStep
  <2> QED BY <2>1, <2>2
<1> HIDE DEF added, f
<1>4. \E i : i = [T \in SUBSET S |-> added(i, T)]
  <2>1. PICK i : IsSum(i, f, S)
    BY SumExists
  <2>2. i = [T \in SUBSET S |-> added(i, T)]
    BY <1>3, <2>1 DEF IsSum
  <2> QED BY <2>2
<1>5. sum = [T \in SUBSET S |-> added(sum, T)]
  BY <1>4
<1> HIDE DEF sum
<1>6. IsSum(sum, f, S)
  BY <1>3, <1>5 DEF IsSum
<1>7. \A g, h \in S : g # h => part[g] \cap part[h] = {}
  BY DEF PairsOf
<1>8. Joint(part, S) = UNION {PairsOf(g) : g \in S}
  BY DEF Joint
<1>9. \A g \in S : IsFiniteSet(part[g]) /\ f[g] = Cardinality(part[g])
  BY <1>2 DEF f
<1> HIDE DEF part
<1>10. sum[S] = Cardinality(Joint(part, S)) /\ IsFiniteSet(Joint(part, S))
  BY <1>6, <1>7, <1>9, SumOfParts
<1> QED BY <1>1, <1>8, <1>10

-----------------------------------------------------------------------------
(* Errors are exact. *)

\* The pairs of rows that agree on X.
AgreeingPairs(X) == {p \in Rows \X Rows : p[1] < p[2] /\ AgreeOn(X, p[1], p[2])}

LEMMA ClustersApart ==
  ASSUME RelationOK, NEW X
  PROVE  /\ IsFiniteSet(Partition(X))
         /\ \A g \in Partition(X) : g \in SUBSET Rows /\ g \in SUBSET Nat /\ IsFiniteSet(g)
         /\ \A g, h \in Partition(X) : g # h => g \cap h = {}
         /\ \A g \in Partition(X) : \A r, s \in g : r # s => AgreeOn(X, r, s)
<1>1. IsFiniteSet(Rows) /\ Rows \subseteq Nat
  BY RowsFinite DEF Rows
<1>2. \A g \in Partition(X) : g \in SUBSET Rows
  BY DEF Partition, Clusters, Together
<1>3. IsFiniteSet(Partition(X))
  <2>1. IsFiniteSet(SUBSET Rows)
    BY <1>1, FS_SUBSET
  <2>2. Partition(X) \in SUBSET (SUBSET Rows)
    BY <1>2
  <2> QED BY <2>1, <2>2, FS_Subset
<1>4. ASSUME NEW g \in Partition(X), NEW r \in g
      PROVE  r \in Rows /\ g = Together(X, r)
  <2>1. PICK s \in Rows : g = Together(X, s)
    BY PartitionMember
  <2> QED BY <2>1, TogetherClass
<1>5. \A g, h \in Partition(X) : g # h => g \cap h = {}
  BY <1>4
<1>6. ASSUME NEW g \in Partition(X), NEW r \in g, NEW s \in g, r # s
      PROVE  AgreeOn(X, r, s)
  BY <1>4, <1>6 DEF Together
<1> QED BY <1>1, <1>2, <1>3, <1>5, <1>6, FS_Subset

\* The pairs of an index are those that agree on its columns.
LEMMA NepExact ==
  ASSUME RelationOK, NEW X
  PROVE  IsFiniteSet(AgreeingPairs(X)) /\ Nep(Partition(X)) = Cardinality(AgreeingPairs(X))
<1>1. UNION {PairsOf(g) : g \in Partition(X)} = AgreeingPairs(X)
  <2>1. ASSUME NEW g \in Partition(X), NEW p \in PairsOf(g) PROVE p \in AgreeingPairs(X)
    <3>1. p = <<p[1], p[2]>> /\ p[1] \in g /\ p[2] \in g /\ p[1] < p[2]
      BY DEF PairsOf
    <3>2. p[1] \in Rows /\ p[2] \in Rows /\ p[1] # p[2]
      BY <3>1, ClustersApart, RowsFinite DEF Rows
    <3>3. AgreeOn(X, p[1], p[2])
      BY <3>1, <3>2, ClustersApart
    <3> QED BY <3>1, <3>2, <3>3 DEF AgreeingPairs
  <2>2. ASSUME NEW p \in AgreeingPairs(X) PROVE \E g \in Partition(X) : p \in PairsOf(g)
    <3>1. /\ p = <<p[1], p[2]>> /\ p[1] \in Rows /\ p[2] \in Rows /\ p[1] < p[2]
          /\ AgreeOn(X, p[1], p[2])
      BY DEF AgreeingPairs
    <3>2. p[1] # p[2]
      BY <3>1, RowsFinite DEF Rows
    <3>3. Together(X, p[1]) \in Partition(X)
      BY <3>1, <3>2, PartitionMember DEF Alone
    <3>4. p \in PairsOf(Together(X, p[1]))
      BY <3>1 DEF PairsOf, Together
    <3> QED BY <3>3, <3>4
  <2> QED BY <2>1, <2>2
<1> QED BY <1>1, ClustersApart, NepCounts

\* What a cluster is split into by the rows that are not alone in A.
Blocks(g, A) ==
  {{r \in g : Tuple(r)[A] = v} : v \in {Tuple(r)[A] : r \in g} \ {Singleton}}

\* The pairs in the blocks of a cluster are those of its pairs that agree on A.
LEMMA BlocksExact ==
  ASSUME RelationOK, Built, NEW A \in Cols, NEW g \in SUBSET Rows
  PROVE  /\ IsFiniteSet({p \in PairsOf(g) : AgreeOn({A}, p[1], p[2])})
         /\ Nep(Blocks(g, A)) = Cardinality({p \in PairsOf(g) : AgreeOn({A}, p[1], p[2])})
<1>1. ASSUME NEW r \in Rows
      PROVE  Tuple(r)[A] = IF Alone({A}, r) THEN Singleton ELSE Together({A}, r)
  <2>1. Tuple(r)[A] = ProbingTable(Partition({A}))[r]
    BY DEF Tuple, RelationOK
  <2> QED BY <2>1, TableValue
<1>2. ASSUME NEW r \in Rows, NEW s \in Rows, r # s
      PROVE  AgreeOn({A}, r, s) <=> Tuple(r)[A] = Tuple(s)[A] /\ Tuple(r)[A] # Singleton
  <2>1. ASSUME AgreeOn({A}, r, s)
        PROVE  Tuple(r)[A] = Tuple(s)[A] /\ Tuple(r)[A] # Singleton
    <3>1. AgreeOn({A}, s, r)
      BY <2>1, AgreeSymmetric
    <3>2. ~Alone({A}, r) /\ ~Alone({A}, s)
      BY <1>2, <2>1, <3>1 DEF Alone
    <3>3. Together({A}, s) = Together({A}, r)
      BY <2>1, TogetherClass DEF Together
    <3> QED BY <1>1, <3>2, <3>3, TogetherNotEmpty
  <2>2. ASSUME Tuple(r)[A] = Tuple(s)[A], Tuple(r)[A] # Singleton
        PROVE  AgreeOn({A}, r, s)
    <3>1. Together({A}, r) = Together({A}, s)
      BY <1>1, <2>2
    <3>2. s \in Together({A}, r)
      BY <3>1, TogetherNotEmpty
    <3> QED BY <1>2, <3>2 DEF Together
  <2> QED BY <2>1, <2>2
<1>3. IsFiniteSet(g) /\ g \subseteq Nat
  <2>1. IsFiniteSet(Rows) /\ Rows \subseteq Nat
    BY RowsFinite DEF Rows
  <2> QED BY <2>1, FS_Subset
<1>4. /\ IsFiniteSet(Blocks(g, A))
      /\ \A b \in Blocks(g, A) : b \in SUBSET Nat /\ IsFiniteSet(b)
      /\ \A b, c \in Blocks(g, A) : b # c => b \cap c = {}
  <2>1. \A b \in Blocks(g, A) : b \in SUBSET g
    BY DEF Blocks
  <2>2. IsFiniteSet(SUBSET g) /\ Blocks(g, A) \in SUBSET (SUBSET g)
    BY <1>3, <2>1, FS_SUBSET
  <2>3. \A b, c \in Blocks(g, A) : b # c => b \cap c = {}
    BY DEF Blocks
  <2> QED BY <1>3, <2>1, <2>2, <2>3, FS_Subset
<1>5. UNION {PairsOf(b) : b \in Blocks(g, A)} = {p \in PairsOf(g) : AgreeOn({A}, p[1], p[2])}
  <2>1. ASSUME NEW b \in Blocks(g, A), NEW p \in PairsOf(b)
        PROVE  p \in PairsOf(g) /\ AgreeOn({A}, p[1], p[2])
    <3>1. p = <<p[1], p[2]>> /\ p[1] \in b /\ p[2] \in b /\ p[1] < p[2]
      BY DEF PairsOf
    <3>2. /\ p[1] \in g /\ p[2] \in g
          /\ Tuple(p[1])[A] = Tuple(p[2])[A] /\ Tuple(p[1])[A] # Singleton
      BY <3>1 DEF Blocks
    <3>3. p \in PairsOf(g) /\ p[1] # p[2]
      <4>1. p[1] \in Nat /\ p[2] \in Nat
        BY <1>3, <3>2
      <4> QED BY <3>1, <3>2, <4>1 DEF PairsOf
    <3> QED BY <1>2, <3>2, <3>3
  <2>2. ASSUME NEW p \in PairsOf(g), AgreeOn({A}, p[1], p[2])
        PROVE  \E b \in Blocks(g, A) : p \in PairsOf(b)
    <3>1. p = <<p[1], p[2]>> /\ p[1] \in g /\ p[2] \in g /\ p[1] < p[2] /\ p[1] # p[2]
      <4>1. p = <<p[1], p[2]>> /\ p[1] \in g /\ p[2] \in g /\ p[1] < p[2]
        BY DEF PairsOf
      <4>2. p[1] \in Nat /\ p[2] \in Nat
        BY <1>3, <4>1
      <4> QED BY <4>1, <4>2
    <3>2. Tuple(p[1])[A] = Tuple(p[2])[A] /\ Tuple(p[1])[A] # Singleton
      BY <1>2, <2>2, <3>1
    <3> DEFINE b == {r \in g : Tuple(r)[A] = Tuple(p[1])[A]}
    <3>3. b \in Blocks(g, A)
      BY <3>1, <3>2 DEF Blocks
    <3>4. p \in PairsOf(b)
      BY <3>1, <3>2 DEF PairsOf
    <3> QED BY <3>3, <3>4
  <2> QED BY <2>1, <2>2
<1>6. /\ IsFiniteSet(UNION {PairsOf(b) : b \in Blocks(g, A)})
      /\ Nep(Blocks(g, A)) = Cardinality(UNION {PairsOf(b) : b \in Blocks(g, A)})
  BY <1>4, NepCounts
<1> QED BY <1>5, <1>6

\* Probing the index of X against A counts the pairs that agree on X but not on A.
LEMMA ViolationsInExact ==
  ASSUME RelationOK, Built, NEW X, NEW A \in Cols
  PROVE  ViolationsIn(Partition(X), A)
           = Cardinality(AgreeingPairs(X)) - Cardinality(AgreeingPairs(X \cup {A}))
<1> DEFINE S == Partition(X)
           part == [g \in S |-> {p \in PairsOf(g) : AgreeOn({A}, p[1], p[2])}]
           f == [g \in S |-> Cardinality(part[g])]
           added(sum, T) == IF T = {} THEN 0
                            ELSE Nep(Blocks(CHOOSE x \in T : TRUE, A)) + sum[T \ {CHOOSE x \in T : TRUE}]
           sum == CHOOSE sum : sum = [T \in SUBSET S |-> added(sum, T)]
<1>1. ViolationsIn(S, A) = Nep(S) - sum[S]
  BY DEF ViolationsIn, MapThenSumSet, MapThenFoldSet, Blocks
<1>2. \A g \in S : IsFiniteSet(part[g]) /\ f[g] = Nep(Blocks(g, A))
  BY BlocksExact, ClustersApart
<1>3. ASSUME NEW i, NEW T \in SUBSET S PROVE added(i, T) = SumStep(f, i, T)
  <2>1. CASE T = {}
    BY <2>1 DEF SumStep
  <2>2. CASE T # {}
    <3>1. (CHOOSE x \in T : TRUE) \in S
      BY <2>2
    <3> HIDE DEF f, S
    <3> QED BY <1>2, <2>2, <3>1 DEF SumStep
  <2> QED BY <2>1, <2>2
<1> HIDE DEF added, f
<1>4. \E i : i = [T \in SUBSET S |-> added(i, T)]
  <2>1. PICK i : IsSum(i, f, S)
    BY SumExists, ClustersApart
  <2>2. i = [T \in SUBSET S |-> added(i, T)]
    BY <1>3, <2>1 DEF IsSum
  <2> QED BY <2>2
<1>5. sum = [T \in SUBSET S |-> added(sum, T)]
  BY <1>4
<1> HIDE DEF sum
<1>6. IsSum(sum, f, S)
  BY <1>3, <1>5 DEF IsSum
<1>7. \A g, h \in S : g # h => part[g] \cap part[h] = {}
  BY ClustersApart DEF PairsOf
<1>8. Joint(part, S) = AgreeingPairs(X \cup {A})
  <2>1. \A p \in Rows \X Rows : AgreeOn(X \cup {A}, p[1], p[2])
                                  <=> AgreeOn(X, p[1], p[2]) /\ AgreeOn({A}, p[1], p[2])
    BY AgreeUnion
  <2>2. ASSUME NEW g \in S, NEW p \in part[g] PROVE p \in AgreeingPairs(X \cup {A})
    <3>1. p = <<p[1], p[2]>> /\ p[1] \in g /\ p[2] \in g /\ p[1] < p[2] /\ AgreeOn({A}, p[1], p[2])
      BY DEF PairsOf
    <3>2. p[1] \in Rows /\ p[2] \in Rows /\ p[1] # p[2]
      BY <3>1, ClustersApart, RowsFinite DEF Rows
    <3>3. AgreeOn(X, p[1], p[2])
      BY <3>1, <3>2, ClustersApart
    <3> QED BY <2>1, <3>1, <3>2, <3>3 DEF AgreeingPairs
  <2>3. ASSUME NEW p \in AgreeingPairs(X \cup {A}) PROVE \E g \in S : p \in part[g]
    <3>1. /\ p = <<p[1], p[2]>> /\ p[1] \in Rows /\ p[2] \in Rows /\ p[1] < p[2]
          /\ AgreeOn(X, p[1], p[2]) /\ AgreeOn({A}, p[1], p[2])
      BY <2>1 DEF AgreeingPairs
    <3>2. p[1] # p[2]
      BY <3>1, RowsFinite DEF Rows
    <3>3. Together(X, p[1]) \in S
      BY <3>1, <3>2, PartitionMember DEF Alone
    <3>4. p \in PairsOf(Together(X, p[1]))
      BY <3>1 DEF PairsOf, Together
    <3> QED BY <3>1, <3>3, <3>4
  <2> QED BY <2>2, <2>3 DEF Joint
<1>9. /\ IsFiniteSet(S)
      /\ \A g \in S : IsFiniteSet(part[g]) /\ f[g] = Cardinality(part[g])
  BY <1>2, ClustersApart DEF f
<1>10. sum[S] = Cardinality(Joint(part, S))
  <2> HIDE DEF part, S, f, added, sum
  <2>1. IsFiniteSet(S)
    BY <1>9
  <2>2. \A g \in S : IsFiniteSet(part[g]) /\ f[g] = Cardinality(part[g])
    BY <1>9
  <2> QED BY <1>6, <1>7, <2>1, <2>2, SumOfParts
<1> QED BY <1>1, <1>8, <1>10, NepExact

\* With or without the joint index, the pairs that violate a dependency are counted.
LEMMA ViolationsExact ==
  ASSUME StorageOK, call = "ready", joined # {}, NEW A \in Cols \ joined
  PROVE  Violations(A) = Cardinality(ViolatingPairs(joined, A))
<1>1. RelationOK /\ Built /\ current = Partition(joined)
  BY DEF StorageOK, Opened, PartitionsExact
<1>2. Violations(A) = Cardinality(AgreeingPairs(joined)) - Cardinality(AgreeingPairs(joined \cup {A}))
  <2>1. CASE joined \cup {A} \in DOMAIN cache
    <3>1. cache[joined \cup {A}] = Partition(joined \cup {A})
      BY <2>1 DEF StorageOK, PartitionsExact
    <3> QED BY <1>1, <2>1, <3>1, NepExact DEF Violations
  <2>2. CASE joined \cup {A} \notin DOMAIN cache
    BY <1>1, <2>2, ViolationsInExact DEF Violations
  <2> QED BY <2>1, <2>2
<1>3. /\ ViolatingPairs(joined, A) = AgreeingPairs(joined) \ AgreeingPairs(joined \cup {A})
      /\ AgreeingPairs(joined) \cap AgreeingPairs(joined \cup {A}) = AgreeingPairs(joined \cup {A})
  BY AgreeUnion DEF ViolatingPairs, AgreeingPairs
<1>4. IsFiniteSet(AgreeingPairs(joined))
  BY <1>1, NepExact
<1> QED BY <1>2, <1>3, <1>4, FS_Difference

\* For every relation, whatever indexes are kept, the error of a dependency is the
\* number of pairs of rows that violate it (FdG1Strategy::CalculateError).
THEOREM ErrorsAreExact == StorageSpec => []ErrorsExact
<1>1. StorageOK => ErrorsExact
  BY ViolationsExact DEF ErrorsExact
<1> QED BY <1>1, StorageOKInvariant, PTL

-----------------------------------------------------------------------------
(* TypoMiner. *)

\* The relation is read row by row, of any rows, and the indexes are built.
MinerNext ==
  \/ \E row : ReadRow(row) \/ ReadEmptyLine(row) \/ SkipRow(row)
  \/ BuildPlis
MinerSpec == RelationInit /\ [][MinerNext]_relationVars

LEMMA RelationRead == MinerSpec => []RelationOK
<1>1. RelationInit => RelationOK
  BY RelationOKInit
<1>2. RelationOK /\ [MinerNext]_relationVars => RelationOK'
  <2> SUFFICES ASSUME RelationOK, [MinerNext]_relationVars PROVE RelationOK'
    OBVIOUS
  <2>1. ASSUME NEW row, ReadRow(row) PROVE RelationOK'
    BY <2>1, AppendRowOK DEF ReadRow
  <2>2. ASSUME NEW row, ReadEmptyLine(row) PROVE RelationOK'
    BY <2>2, AppendRowOK DEF ReadEmptyLine
  <2>3. ASSUME NEW row, SkipRow(row) PROVE RelationOK'
    BY <2>3, RelationKept DEF SkipRow
  <2>4. CASE BuildPlis
    BY <2>4, BuildPlisOK
  <2>5. CASE UNCHANGED relationVars
    BY <2>5, RelationKept
  <2> QED BY <2>1, <2>2, <2>3, <2>4, <2>5 DEF MinerNext
<1> QED BY <1>1, <1>2, PTL DEF MinerSpec

LEMMA RowsAreNumbers ==
  ASSUME RelationOK, NEW g \in SUBSET Rows
  PROVE  /\ IsFiniteSet(g) /\ Cardinality(g) \in Nat /\ Cardinality(g) <= NumRows
         /\ NumRows \in Nat /\ \A r \in g : r \in Nat
<1>1. NumRows \in Nat /\ IsFiniteSet(Rows)
  BY RowsFinite
<1>2. Cardinality(Rows) = NumRows
  BY <1>1, FS_Interval DEF Rows
<1>3. IsFiniteSet(g) /\ Cardinality(g) <= Cardinality(Rows)
  BY <1>1, FS_Subset
<1>4. Cardinality(g) \in Nat
  BY <1>3, FS_CardinalityType
<1> QED BY <1>1, <1>2, <1>3, <1>4 DEF Rows

-----------------------------------------------------------------------------
(* Clusters that break a dependency. *)

\* Two rows agree on a column when its index has them in one cluster.
LEMMA SameValue ==
  ASSUME RelationOK, Built, NEW A \in Cols, NEW r \in Rows, NEW s \in Rows, r # s
  PROVE  AgreeOn({A}, r, s) <=> Probing(A)[r] # Singleton /\ Probing(A)[r] = Probing(A)[s]
<1>1. /\ Probing(A)[r] = IF Alone({A}, r) THEN Singleton ELSE Together({A}, r)
      /\ Probing(A)[s] = IF Alone({A}, s) THEN Singleton ELSE Together({A}, s)
  BY TableValue DEF Probing, RelationOK
<1>2. ASSUME AgreeOn({A}, r, s)
      PROVE  Probing(A)[r] # Singleton /\ Probing(A)[r] = Probing(A)[s]
  <2>1. AgreeOn({A}, s, r)
    BY <1>2, AgreeSymmetric
  <2>2. ~Alone({A}, r) /\ ~Alone({A}, s)
    BY <1>2, <2>1 DEF Alone
  <2>3. Together({A}, s) = Together({A}, r)
    BY <1>2, TogetherClass DEF Together
  <2> QED BY <1>1, <2>2, <2>3, TogetherNotEmpty
<1>3. ASSUME Probing(A)[r] # Singleton, Probing(A)[r] = Probing(A)[s]
      PROVE  AgreeOn({A}, r, s)
  <2>1. Together({A}, r) = Together({A}, s)
    BY <1>1, <1>3
  <2>2. s \in Together({A}, r)
    BY <2>1, TogetherNotEmpty
  <2> QED BY <2>2 DEF Together
<1> QED BY <1>2, <1>3

\* Two rows of a cluster differ on A just in the clusters looked for: some values
\* of its rows differ, or all of its rows, two at least, are alone.
LEMMA BreaksDependency ==
  ASSUME RelationOK, Built, NEW A \in Cols, NEW g \in SUBSET Rows, Cardinality(g) > 1
  PROVE  (\E r, s \in g : r < s /\ ~AgreeOn({A}, r, s))
           <=> \/ \E r, s \in g : Probing(A)[r] # Probing(A)[s]
               \/ \A r \in g : Probing(A)[r] = Singleton
<1>0. IsFiniteSet(g) /\ \A r \in g : r \in Nat
  BY RowsAreNumbers
<1>1. ASSUME NEW r \in g, NEW s \in g, r # s
      PROVE  AgreeOn({A}, r, s) <=> Probing(A)[r] # Singleton /\ Probing(A)[r] = Probing(A)[s]
  BY <1>1, SameValue
<1>2. ASSUME NEW r \in g, NEW s \in g, r # s, ~AgreeOn({A}, r, s)
      PROVE  \E x, y \in g : x < y /\ ~AgreeOn({A}, x, y)
  <2>1. ~AgreeOn({A}, s, r)
    BY <1>2, AgreeSymmetric
  <2>2. r < s \/ s < r
    BY <1>0, <1>2
  <2> QED BY <1>2, <2>1, <2>2
<1>3. ASSUME NEW r \in g, NEW s \in g, Probing(A)[r] # Probing(A)[s]
      PROVE  \E x, y \in g : x < y /\ ~AgreeOn({A}, x, y)
  BY <1>1, <1>2, <1>3
<1>4. ASSUME \A r \in g : Probing(A)[r] = Singleton
      PROVE  \E x, y \in g : x < y /\ ~AgreeOn({A}, x, y)
  <2>1. PICK r, s \in g : r # s
    BY <1>0, TwoMembers
  <2> QED BY <1>1, <1>2, <1>4, <2>1
<1>5. ASSUME NEW r \in g, NEW s \in g, r < s, ~AgreeOn({A}, r, s),
             ~\E x, y \in g : Probing(A)[x] # Probing(A)[y]
      PROVE  \A x \in g : Probing(A)[x] = Singleton
  <2>1. r # s
    BY <1>0, <1>5
  <2> QED BY <1>1, <1>5, <2>1
<1> QED BY <1>3, <1>4, <1>5

\* The clusters with typos are those that break the dependency, if it is broken.
LEMMA ClustersBroken ==
  ASSUME RelationOK, Built, NEW X \in SUBSET Cols, NEW A \in Cols, ViolatingPairs(X, A) # {}
  PROVE  FindClustersWithTypos(X, A) = Broken(X, A) /\ Broken(X, A) # {}
<1>1. PICK r \in Rows, s \in Rows : r < s /\ AgreeOn(X, r, s) /\ ~AgreeOn({A}, r, s)
  BY DEF ViolatingPairs
<1>2. r # s
  BY <1>1 DEF Rows
<1>3. Together(X, r) \in Partition(X) /\ s \in Together(X, r) /\ r \in Together(X, r)
  BY <1>1, <1>2, PartitionMember DEF Alone, Together
<1>4. Together(X, r) \in Broken(X, A)
  BY <1>1, <1>3 DEF Broken
<1>5. ASSUME NEW g \in Partition(X) PROVE g \in SUBSET Rows /\ Cardinality(g) > 1
  BY DEF Partition, Clusters, Together
<1>6. CASE X = {}
  <2>1. \A q \in Rows : Together({}, q) = Rows
    BY DEF Together, AgreeOn
  <2>2. \A g \in Partition({}) : g = Rows
    BY <2>1 DEF Partition, Clusters
  <2>3. Broken(X, A) = {Rows}
    BY <1>4, <1>6, <2>1, <2>2 DEF Broken
  <2> QED BY <1>4, <1>6, <2>3 DEF FindClustersWithTypos
<1>7. CASE X # {}
  <2>1. PliOf(X) = Partition(X)
    BY PliOfExact
  <2>2. \A g \in Partition(X) :
          (\E x, y \in g : x < y /\ ~AgreeOn({A}, x, y))
            <=> \/ \E x, y \in g : Probing(A)[x] # Probing(A)[y]
                \/ \A x \in g : Probing(A)[x] = Singleton
    BY <1>5, BreaksDependency
  <2>3. FindClustersWithTypos(X, A) = Broken(X, A)
    BY <1>7, <2>1, <2>2 DEF FindClustersWithTypos, Broken
  <2> QED BY <1>4, <2>3
<1> QED BY <1>6, <1>7

LEMMA PairsFinite ==
  ASSUME RelationOK, NEW X, NEW A
  PROVE  IsFiniteSet(ViolatingPairs(X, A)) /\ Cardinality(ViolatingPairs(X, A)) \in Nat
<1>1. IsFiniteSet(Rows \X Rows)
  BY RowsFinite, FS_Product
<1>2. ViolatingPairs(X, A) \subseteq Rows \X Rows
  BY DEF ViolatingPairs
<1> QED BY <1>1, <1>2, FS_Subset, FS_CardinalityType

\* What only the approximate algorithm finds does not hold exactly.
LEMMA ApproxViolated ==
  ASSUME RelationOK, NEW e \in Nat, NEW fd \in ApproxFds(e)
  PROVE  /\ fd[1] \in SUBSET Cols /\ fd[2] \in Cols
         /\ ViolatingPairs(fd[1], fd[2]) # {}
<1>1. fd \in AllFds(e) /\ fd \notin MinimalFds
  BY DEF ApproxFds, MinimalIn
<1>2. /\ fd \in (SUBSET Cols) \X Cols /\ fd[2] \notin fd[1]
      /\ ~\E other \in AllFds(e) : other[2] = fd[2] /\ other[1] \subseteq fd[1] /\ other # fd
  BY <1>1 DEF AllFds, ApproxFds, MinimalIn
<1>3. AllFds(0) \subseteq AllFds(e)
  <2> SUFFICES ASSUME NEW f \in AllFds(0) PROVE f \in AllFds(e)
    OBVIOUS
  <2>1. Cardinality(ViolatingPairs(f[1], f[2])) \in Nat
    BY PairsFinite
  <2> QED BY <2>1 DEF AllFds, HoldsBut
<1>4. ASSUME ViolatingPairs(fd[1], fd[2]) = {} PROVE FALSE
  <2>1. fd \in AllFds(0)
    BY <1>2, <1>4, FS_EmptySet DEF AllFds, HoldsBut
  <2> QED BY <1>1, <1>2, <1>3, <2>1 DEF MinimalFds, MinimalIn
<1> QED BY <1>2, <1>4

-----------------------------------------------------------------------------
(* The rows of a cluster in order. *)

\* Less and Place of SortCluster.
Rarer(A, g, r, s) ==
  \/ Frequency(A, g, r) < Frequency(A, g, s)
  \/ Frequency(A, g, r) = Frequency(A, g, s) /\ r < s
Before(A, g, r) == {s \in g : Rarer(A, g, s, r)}
PlaceOf(A, g, r) == Cardinality(Before(A, g, r)) + 1

LEMMA FrequencyCounts ==
  ASSUME RelationOK, NEW A, NEW g \in SUBSET Rows, NEW r
  PROVE  Frequency(A, g, r) \in Nat
<1> DEFINE same == {s \in g : Probing(A)[s] = Probing(A)[r]}
<1>1. same \in SUBSET Rows
  OBVIOUS
<1>2. Cardinality(same) \in Nat
  BY <1>1, RowsAreNumbers
<1> QED BY <1>2 DEF Frequency

\* Rows have different places.
LEMMA PlacesDiffer ==
  ASSUME RelationOK, NEW A, NEW g \in SUBSET Rows
  PROVE  /\ \A r \in g : PlaceOf(A, g, r) \in 1..Cardinality(g)
         /\ \A r, s \in g : PlaceOf(A, g, r) = PlaceOf(A, g, s) => r = s
<1>0. /\ IsFiniteSet(g) /\ Cardinality(g) \in Nat
      /\ \A r \in g : r \in Nat /\ Frequency(A, g, r) \in Nat
  BY RowsAreNumbers, FrequencyCounts
<1>1. ASSUME NEW r \in g
      PROVE  /\ IsFiniteSet(Before(A, g, r)) /\ Cardinality(Before(A, g, r)) \in Nat
             /\ Cardinality(Before(A, g, r)) < Cardinality(g)
  <2>1. Before(A, g, r) \subseteq g /\ r \notin Before(A, g, r)
    BY <1>0 DEF Before, Rarer
  <2>2. IsFiniteSet(Before(A, g, r)) /\ Cardinality(Before(A, g, r)) <= Cardinality(g)
    BY <1>0, <2>1, FS_Subset
  <2>3. Cardinality(Before(A, g, r)) # Cardinality(g)
    BY <1>0, <2>1, FS_Subset
  <2>4. Cardinality(Before(A, g, r)) \in Nat
    BY <2>2, FS_CardinalityType
  <2> QED BY <1>0, <2>2, <2>3, <2>4
<1>2. ASSUME NEW r \in g, NEW s \in g, Rarer(A, g, r, s)
      PROVE  PlaceOf(A, g, r) # PlaceOf(A, g, s)
  <2>1. ASSUME NEW q \in g, Rarer(A, g, q, r) PROVE Rarer(A, g, q, s)
    BY <1>0, <1>2, <2>1 DEF Rarer
  <2>2. Before(A, g, r) \subseteq Before(A, g, s)
    BY <2>1 DEF Before
  <2>3. r \in Before(A, g, s) /\ r \notin Before(A, g, r)
    BY <1>0, <1>2 DEF Before, Rarer
  <2>4. Cardinality(Before(A, g, r)) # Cardinality(Before(A, g, s))
    BY <1>1, <2>2, <2>3, FS_Subset
  <2> QED BY <1>1, <2>4 DEF PlaceOf
<1>3. \A r, s \in g : r # s => Rarer(A, g, r, s) \/ Rarer(A, g, s, r)
  BY <1>0 DEF Rarer
<1>4. ASSUME NEW r \in g PROVE PlaceOf(A, g, r) \in 1..Cardinality(g)
  BY <1>0, <1>1 DEF PlaceOf
<1> QED BY <1>2, <1>3, <1>4

\* SortCluster has each row of the cluster once.
LEMMA SortedOnce ==
  ASSUME RelationOK, NEW A, NEW g \in SUBSET Rows
  PROVE  /\ DOMAIN SortCluster(A, g) = 1..Cardinality(g)
         /\ \A i \in 1..Cardinality(g) : SortCluster(A, g)[i] \in g
         /\ \A i, j \in 1..Cardinality(g) : SortCluster(A, g)[i] = SortCluster(A, g)[j] => i = j
         /\ Range(SortCluster(A, g)) = g
<1> DEFINE n == Cardinality(g)
           place == [r \in g |-> PlaceOf(A, g, r)]
<1>0. IsFiniteSet(g) /\ n \in Nat
  BY RowsAreNumbers
<1>1. SortCluster(A, g) = [i \in 1..n |-> CHOOSE r \in g : PlaceOf(A, g, r) = i]
  BY DEF SortCluster, PlaceOf, Before, Rarer
<1>2. IsFiniteSet(1..n) /\ Cardinality(1..n) = n
  BY <1>0, FS_Interval
<1>3. place \in Injection(g, 1..n)
  BY PlacesDiffer DEF Injection, IsInjective
<1>4. place \in Surjection(g, 1..n)
  BY <1>2, <1>3, FS_Injection
<1>5. \A i \in 1..n : \E r \in g : PlaceOf(A, g, r) = i
  BY <1>4 DEF Surjection
<1>6. \A i \in 1..n : SortCluster(A, g)[i] \in g /\ PlaceOf(A, g, SortCluster(A, g)[i]) = i
  BY <1>1, <1>5
<1>7. ASSUME NEW r \in g PROVE \E i \in 1..n : SortCluster(A, g)[i] = r
  <2>1. PlaceOf(A, g, r) \in 1..n
    BY PlacesDiffer
  <2>2. SortCluster(A, g)[PlaceOf(A, g, r)] = r
    BY <1>6, <2>1, PlacesDiffer
  <2> QED BY <2>1, <2>2
<1>8. DOMAIN SortCluster(A, g) = 1..n
  BY <1>1
<1> HIDE DEF n, place
<1>9. Range(SortCluster(A, g)) = g
  BY <1>6, <1>7, <1>8 DEF Range
<1> QED BY <1>6, <1>8, <1>9 DEF n

-----------------------------------------------------------------------------
(* What is left without the typos. *)

LEMMA GreatestNumber ==
  ASSUME NEW S, NEW n \in Nat, S \subseteq 0..n, S # {}
  PROVE  Max(S) \in S /\ \A x \in S : x <= Max(S)
<1> DEFINE T == {n - x : x \in S}
<1>1. PICK t \in T : \A u \in T : t <= u
  <2>1. T \subseteq Nat /\ T # {}
    OBVIOUS
  <2> HIDE DEF T
  <2> QED BY <2>1, SmallestNumber
<1>2. PICK x \in S : t = n - x
  BY <1>1
<1>3. \A y \in S : x >= y
  BY <1>1, <1>2
<1>4. Max(S) \in S /\ \A y \in S : Max(S) >= y
  BY <1>3 DEF Max
<1> QED BY <1>4

\* The value of the row that is taken for the most frequent one is.
LEMMA MostFrequentRight ==
  ASSUME RelationOK, NEW A, NEW g \in SUBSET Rows, g # {}
  PROVE  LET frequent == MostFrequent(A, SortCluster(A, g))
         IN  frequent \in g /\ \A r \in g : Frequency(A, g, r) <= Frequency(A, g, frequent)
<1> DEFINE sorted == SortCluster(A, g)
           counts == {Frequency(A, g, r) : r \in g}
           best == Max(counts)
           places == {i \in DOMAIN sorted : Frequency(A, g, sorted[i]) = best}
<1>1. /\ DOMAIN sorted = 1..Cardinality(g) /\ Range(sorted) = g
      /\ \A i \in DOMAIN sorted : sorted[i] \in g
  BY SortedOnce
<1>2. ASSUME NEW r \in g PROVE Frequency(A, g, r) \in 0..NumRows + 1
  <2> DEFINE same == {s \in g : Probing(A)[s] = Probing(A)[r]}
  <2>1. same \in SUBSET Rows
    OBVIOUS
  <2>2. Cardinality(same) \in Nat /\ Cardinality(same) <= NumRows /\ NumRows \in Nat
    BY <2>1, RowsAreNumbers
  <2> QED BY <2>2 DEF Frequency
<1>3. NumRows + 1 \in Nat
  BY RowsAreNumbers
<1>4. counts \subseteq 0..NumRows + 1 /\ counts # {}
  BY <1>2
<1>5. best \in counts /\ \A r \in g : Frequency(A, g, r) <= best
  <2> HIDE DEF counts
  <2>1. best \in counts /\ \A x \in counts : x <= best
    BY <1>3, <1>4, GreatestNumber
  <2> QED BY <2>1 DEF counts
<1>6. places # {} /\ places \subseteq Nat
  <2> HIDE DEF sorted, best
  <2>1. PICK r \in g : Frequency(A, g, r) = best
    BY <1>5
  <2>2. PICK i \in DOMAIN sorted : sorted[i] = r
    BY <1>1 DEF Range
  <2> QED BY <1>1, <2>1, <2>2
<1>7. Min(places) \in places
  <2> HIDE DEF places
  <2>1. \E x \in places : \A y \in places : x <= y
    BY <1>6, SmallestNumber
  <2> QED BY <2>1 DEF Min
<1>8. MostFrequent(A, sorted) = sorted[Min(places)]
  BY <1>1 DEF MostFrequent
<1> HIDE DEF sorted, best
<1>9. sorted[Min(places)] \in g /\ Frequency(A, g, sorted[Min(places)]) = best
  BY <1>1, <1>7
<1> QED BY <1>5, <1>8, <1>9 DEF sorted

\* Rows with the value of another are as frequent.
LEMMA SameFrequency ==
  ASSUME NEW A, NEW g, NEW r, NEW s, Probing(A)[r] = Probing(A)[s]
  PROVE  Frequency(A, g, r) = Frequency(A, g, s)
BY DEF Frequency

LEMMA ClusterMended ==
  ASSUME RelationOK, Built, NEW A \in Cols, NEW g \in SUBSET Rows, g # {}
  PROVE  /\ Mended(A, g)
         /\ \A radius : FindLinesWithTypos(A, SortCluster(A, g), radius, DefaultRatio)
                          \subseteq FindLinesWithTypos(A, SortCluster(A, g), -1, <<1, 1>>)
<1> DEFINE sorted == SortCluster(A, g)
           frequent == MostFrequent(A, sorted)
           Typos(radius) == {r \in g : /\ Probing(A)[r] # Probing(A)[frequent] /\ ~IsNull(A, r)
                                        /\ ValuesAreClose(A, frequent, r, radius)}
           hopeless == Probing(A)[frequent] = Singleton \/ IsNull(A, frequent)
           Lines(radius, ratio) == FindLinesWithTypos(A, sorted, radius, ratio)
<1>1. Range(sorted) = g
  BY SortedOnce
<1>2. frequent \in g /\ \A r \in g : Frequency(A, g, r) <= Frequency(A, g, frequent)
  BY MostFrequentRight
<1> HIDE DEF sorted, frequent
<1>3. ASSUME NEW radius, NEW ratio
      PROVE  Lines(radius, ratio) =
               IF hopeless THEN IF ratio[1] = ratio[2] THEN g ELSE {}
               ELSE IF Cardinality(Typos(radius)) * ratio[2] > ratio[1] * NumRows THEN {} ELSE Typos(radius)
  BY <1>1 DEF FindLinesWithTypos, frequent
<1>4. Lines(-1, <<1, 1>>) = IF hopeless THEN g ELSE Typos(-1)
  <2>1. Typos(-1) \in SUBSET Rows
    OBVIOUS
  <2>2. /\ Cardinality(Typos(-1)) \in Nat /\ NumRows \in Nat
        /\ Cardinality(Typos(-1)) <= NumRows
    BY <2>1, RowsAreNumbers
  <2> HIDE DEF Typos, hopeless
  <2>3. ~(Cardinality(Typos(-1)) * 1 > 1 * NumRows)
    BY <2>2
  <2> QED BY <1>3, <2>3
<1>5. ASSUME NEW radius PROVE Lines(radius, DefaultRatio) \subseteq Lines(-1, <<1, 1>>)
  <2>1. Typos(radius) \subseteq Typos(-1)
    BY DEF ValuesAreClose
  <2>2. Typos(radius) \subseteq g
    OBVIOUS
  <2> HIDE DEF Typos, hopeless
  <2> QED BY <1>3, <1>4, <2>1, <2>2
<1>6. CASE hopeless
  <2>1. Lines(-1, <<1, 1>>) = g
    BY <1>4, <1>6
  <2> QED BY <1>5, <2>1 DEF Mended, sorted
<1>7. CASE ~hopeless
  <2>1. Lines(-1, <<1, 1>>) = Typos(-1)
    BY <1>4, <1>7
  <2>2. ASSUME NEW r \in g \ Typos(-1), ~IsNull(A, r)
        PROVE  Probing(A)[r] = Probing(A)[frequent]
    BY <2>2 DEF ValuesAreClose
  <2>3. ASSUME NEW r \in g \ Typos(-1), NEW s \in g \ Typos(-1), ~IsNull(A, r), ~IsNull(A, s)
        PROVE  AgreeOn({A}, r, s)
    <3>1. CASE r = s
      BY <2>3, <3>1 DEF AgreeOn, IsNull
    <3>2. CASE r # s
      BY <1>7, <2>2, <2>3, <3>2, SameValue
    <3> QED BY <3>1, <3>2
  <2>4. ASSUME NEW r \in g, NEW s \in g \ Typos(-1), ~IsNull(A, s)
        PROVE  Frequency(A, g, r) <= Frequency(A, g, s)
    <3>1. Frequency(A, g, s) = Frequency(A, g, frequent)
      BY <2>2, <2>4, SameFrequency
    <3> QED BY <1>2, <3>1
  <2>5. Typos(-1) \subseteq g
    OBVIOUS
  <2> HIDE DEF Typos
  <2>6. Mended(A, g)
    BY <2>1, <2>3, <2>4, <2>5 DEF Mended, sorted
  <2> QED BY <1>5, <2>6 DEF sorted
<1> QED BY <1>6, <1>7

-----------------------------------------------------------------------------
(* Folds over 1..n, as FoldLeft computes them: the greatest index last. *)

LEMMA Upward ==
  ASSUME NEW n \in Nat, NEW S, 0 \in S, \A k \in 0..n : k < n /\ k \in S => k + 1 \in S
  PROVE  0..n \subseteq S
<1> DEFINE missing == {k \in 0..n : k \notin S}
<1>1. ASSUME missing # {} PROVE FALSE
  <2>1. missing \subseteq Nat
    OBVIOUS
  <2>2. PICK k \in missing : \A j \in missing : k <= j
    <3> HIDE DEF missing
    <3> QED BY <1>1, <2>1, SmallestNumber
  <2>3. k \in 0..n /\ k \notin S /\ k # 0
    BY <2>2
  <2>4. k - 1 \in 0..n /\ k - 1 < n /\ ~(k <= k - 1)
    BY <2>3
  <2>5. k - 1 \in S
    BY <2>2, <2>4
  <2> QED BY <2>3, <2>4, <2>5
<1> QED BY <1>1

LEMMA MaxOfPart ==
  ASSUME NEW n \in Nat, NEW T \in SUBSET (1..n), T # {}
  PROVE  /\ Max(T) \in T /\ T \ {Max(T)} \in SUBSET (1..n)
         /\ n \in T => Max(T) = n
<1>1. T \subseteq 0..n
  OBVIOUS
<1>2. Max(T) \in T /\ \A x \in T : x <= Max(T)
  BY <1>1, GreatestNumber
<1>3. Max(T) \in 1..n
  BY <1>2
<1>4. n \in T => n <= Max(T) /\ Max(T) <= n
  BY <1>2, <1>3
<1>5. T \ {Max(T)} \in SUBSET (1..n)
  OBVIOUS
<1>6. n \in T => Max(T) = n
  BY <1>3, <1>4
<1> QED BY <1>2, <1>5, <1>6

LEMMA MaxOfAll ==
  ASSUME NEW n \in Nat \ {0}
  PROVE  Max(1..n) = n /\ (1..n) \ {n} = 1..n - 1 /\ 1..n # {}
<1>1. n \in 1..n
  OBVIOUS
<1>2. Max(1..n) = n
  BY <1>1, MaxOfPart
<1> QED BY <1>1, <1>2

\* The folds of F over the parts of 1..k.
IsFold(iter, F, V, base, k) ==
  /\ iter \in [SUBSET (1..k) -> V]
  /\ \A T \in SUBSET (1..k) :
       iter[T] = IF T = {} THEN base ELSE F[<<Max(T), iter[T \ {Max(T)}]>>]

LEMMA FoldExists ==
  ASSUME NEW n \in Nat, NEW V, NEW base \in V, NEW F \in [(1..n) \X V -> V]
  PROVE  \E iter : IsFold(iter, F, V, base, n)
<1> DEFINE computed == {k \in 0..n : \E iter : IsFold(iter, F, V, base, k)}
<1>1. 0 \in computed
  <2> DEFINE iter == [T \in SUBSET (1..0) |-> base]
  <2>1. \A T \in SUBSET (1..0) : T = {}
    OBVIOUS
  <2>2. IsFold(iter, F, V, base, 0)
    BY <2>1 DEF IsFold
  <2> QED BY <2>2
<1>2. ASSUME NEW k \in 0..n, k < n, k \in computed PROVE k + 1 \in computed
  <2> DEFINE m == k + 1
  <2>0. m \in Nat /\ m \in 1..n /\ k \in Nat /\ \A T \in SUBSET (1..m) : m \notin T => T \in SUBSET (1..k)
    BY <1>2
  <2>1. PICK less : IsFold(less, F, V, base, k)
    BY <1>2
  <2> DEFINE iter == [T \in SUBSET (1..m) |->
                        IF m \in T THEN F[<<m, less[T \ {m}]>>] ELSE less[T]]
  <2> HIDE DEF m
  <2>2. ASSUME NEW T \in SUBSET (1..m), m \in T
        PROVE  T \ {m} \in SUBSET (1..k) /\ less[T \ {m}] \in V
    <3>1. T \ {m} \in SUBSET (1..m) /\ m \notin T \ {m}
      OBVIOUS
    <3>2. T \ {m} \in SUBSET (1..k)
      BY <2>0, <3>1
    <3> QED BY <2>1, <3>2 DEF IsFold
  <2>3. ASSUME NEW T \in SUBSET (1..m) PROVE iter[T] \in V
    <3>1. CASE m \in T
      <4>1. <<m, less[T \ {m}]>> \in (1..n) \X V
        BY <2>0, <2>2, <3>1
      <4> QED BY <3>1, <4>1
    <3>2. CASE m \notin T
      BY <2>0, <2>1, <3>2 DEF IsFold
    <3> QED BY <3>1, <3>2
  <2>4. ASSUME NEW T \in SUBSET (1..m)
        PROVE  iter[T] = IF T = {} THEN base ELSE F[<<Max(T), iter[T \ {Max(T)}]>>]
    <3>1. CASE m \in T
      <4>1. Max(T) = m /\ T # {}
        BY <2>0, <3>1, MaxOfPart
      <4>2. iter[T \ {m}] = less[T \ {m}]
        OBVIOUS
      <4>3. iter[T] = F[<<m, less[T \ {m}]>>]
        BY <3>1
      <4> HIDE DEF iter
      <4> QED BY <4>1, <4>2, <4>3
    <3>2. CASE m \notin T /\ T # {}
      <4>1. T \in SUBSET (1..k) /\ iter[T] = less[T]
        BY <2>0, <3>2
      <4>2. T \ {Max(T)} \in SUBSET (1..m) /\ m \notin T \ {Max(T)}
        BY <3>2
      <4>3. iter[T \ {Max(T)}] = less[T \ {Max(T)}]
        BY <4>2
      <4>4. less[T] = F[<<Max(T), less[T \ {Max(T)}]>>]
        BY <2>1, <3>2, <4>1 DEF IsFold
      <4> HIDE DEF iter
      <4> QED BY <3>2, <4>1, <4>3, <4>4
    <3>3. CASE T = {}
      <4>1. iter[T] = less[T] /\ T \in SUBSET (1..k)
        BY <3>3
      <4>2. less[T] = base
        BY <2>1, <3>3, <4>1 DEF IsFold
      <4> HIDE DEF iter
      <4> QED BY <3>3, <4>1, <4>2
    <3> QED BY <3>1, <3>2, <3>3
  <2>5. iter \in [SUBSET (1..m) -> V]
    BY <2>3
  <2>6. IsFold(iter, F, V, base, m)
    <3> HIDE DEF iter
    <3> QED BY <2>4, <2>5 DEF IsFold
  <2> QED BY <1>2, <2>6 DEF m
<1>3. n \in computed
  <2>1. 0..n \subseteq computed
    <3> HIDE DEF computed
    <3> QED BY <1>1, <1>2, Upward
  <2> QED BY <2>1
<1> QED BY <1>3

-----------------------------------------------------------------------------
(* Squashing. *)

SumAmounts(q) == FoldLeft(LAMBDA n, s : n + s.amount, 0, q)

\* The amounts add up to what a running total says.
LEMMA AmountsAdd ==
  ASSUME NEW m \in Nat, NEW q, DOMAIN q = 1..m, \A i \in 1..m : q[i].amount \in Nat,
         NEW total \in [0..m -> Nat], total[0] = 0,
         \A i \in 1..m : total[i] = total[i - 1] + q[i].amount
  PROVE  SumAmounts(q) = total[m]
<1> DEFINE F == [p \in (1..m) \X Nat |-> p[2] + q[p[1]].amount]
           added(iter, T) == IF T = {} THEN 0 ELSE iter[T \ {Max(T)}] + q[Max(T)].amount
           iter == CHOOSE iter : iter = [T \in SUBSET (1..m) |-> added(iter, T)]
<1>1. SumAmounts(q) = iter[1..m]
  BY DEF SumAmounts, FoldLeft, MapThenFoldSet
<1>2. \E i : i = [T \in SUBSET (1..m) |-> added(i, T)]
  <2>1. F \in [(1..m) \X Nat -> Nat]
    OBVIOUS
  <2>2. PICK i : IsFold(i, F, Nat, 0, m)
    <3> HIDE DEF F
    <3> QED BY <2>1, FoldExists
  <2>3. ASSUME NEW T \in SUBSET (1..m), T # {} PROVE i[T] = i[T \ {Max(T)}] + q[Max(T)].amount
    <3>1. Max(T) \in 1..m /\ T \ {Max(T)} \in SUBSET (1..m) /\ i[T \ {Max(T)}] \in Nat
      BY <2>2, <2>3, MaxOfPart DEF IsFold
    <3>2. F[<<Max(T), i[T \ {Max(T)}]>>] = i[T \ {Max(T)}] + q[Max(T)].amount
      BY <3>1
    <3> HIDE DEF F
    <3> QED BY <2>2, <2>3, <3>2 DEF IsFold
  <2>4. i = [T \in SUBSET (1..m) |-> added(i, T)]
    <3> HIDE DEF F
    <3> QED BY <2>2, <2>3 DEF IsFold
  <2> QED BY <2>4
<1>3. iter = [T \in SUBSET (1..m) |-> added(iter, T)]
  <2> HIDE DEF added
  <2> QED BY <1>2
<1> HIDE DEF iter
<1> DEFINE right == {k \in 0..m : iter[1..k] = total[k]}
<1>4. 0 \in right
  <2>1. 1..0 = {}
    OBVIOUS
  <2>2. iter[1..0] = 0
    BY <1>3, <2>1
  <2> QED BY <2>2
<1>5. ASSUME NEW k \in 0..m, k < m, k \in right PROVE k + 1 \in right
  <2>1. k + 1 \in Nat \ {0} /\ k + 1 \in 1..m /\ (k + 1) - 1 = k /\ 1..k + 1 \in SUBSET (1..m)
    BY <1>5
  <2>2. Max(1..k + 1) = k + 1 /\ (1..k + 1) \ {k + 1} = 1..k /\ 1..k + 1 # {}
    BY <2>1, MaxOfAll
  <2>3. iter[1..k + 1] = added(iter, 1..k + 1)
    <3> HIDE DEF added
    <3> QED BY <1>3, <2>1
  <2>4. iter[1..k + 1] = iter[1..k] + q[k + 1].amount
    BY <2>2, <2>3
  <2>5. total[k + 1] = total[k] + q[k + 1].amount
    BY <2>1
  <2> QED BY <1>5, <2>1, <2>4, <2>5
<1>6. m \in right
  <2> HIDE DEF right
  <2>1. 0..m \subseteq right
    BY <1>4, <1>5, Upward
  <2> QED BY <2>1
<1> QED BY <1>1, <1>6

\* Joins and Add of SquashCluster.
Joined(A, sorted, i) ==
  Probing(A)[sorted[i]] # Singleton /\ Probing(A)[sorted[i]] = Probing(A)[sorted[i - 1]]
AddRow(A, sorted, q, i) ==
  IF i > 1 /\ Joined(A, sorted, i) THEN [q EXCEPT ![Len(q)].amount = @ + 1]
  ELSE Append(q, [row |-> sorted[i], amount |-> 1])
Squashed(g) == Seq([row : g, amount : Nat])

LEMMA AddRowType ==
  ASSUME NEW A, NEW g, NEW n \in Nat, NEW sorted \in [1..n -> g],
         NEW q \in Squashed(g), NEW i \in 1..n
  PROVE  AddRow(A, sorted, q, i) \in Squashed(g)
<1> DEFINE Element == [row : g, amount : Nat]
<1>1. q \in Seq(Element)
  BY DEF Squashed
<1>2. Append(q, [row |-> sorted[i], amount |-> 1]) \in Seq(Element)
  <2>1. [row |-> sorted[i], amount |-> 1] \in Element
    OBVIOUS
  <2> HIDE DEF Element
  <2> QED BY <1>1, <2>1
<1>3. [q EXCEPT ![Len(q)].amount = @ + 1] \in Seq(Element)
  <2>0. \A e \in Element : [e EXCEPT !.amount = @ + 1] \in Element
    OBVIOUS
  <2> HIDE DEF Element
  <2> DEFINE more == [q EXCEPT ![Len(q)].amount = @ + 1]
  <2>1. DOMAIN more = 1..Len(q) /\ Len(q) \in Nat
    BY <1>1
  <2>3. q \in [1..Len(q) -> Element]
    BY <1>1
  <2>4. more \in [1..Len(q) -> Element]
    <3>1. CASE Len(q) \in 1..Len(q)
      <4>1. [q[Len(q)] EXCEPT !.amount = @ + 1] \in Element
        BY <2>0, <2>3, <3>1
      <4> QED BY <2>3, <4>1
    <3>2. CASE Len(q) \notin 1..Len(q)
      <4>1. 1..Len(q) = {}
        BY <2>1, <3>2
      <4> QED BY <2>3, <4>1
    <3> QED BY <3>1, <3>2
  <2>5. more \in Seq(Element)
    <3> HIDE DEF more
    <3> QED BY <2>1, <2>4
  <2> QED BY <2>5
<1> QED BY <1>2, <1>3 DEF AddRow, Squashed

LEMMA NothingSquashed ==
  ASSUME NEW g
  PROVE  <<>> \in Squashed(g)
BY DEF Squashed

\* Rows are squashed one by one.
SquashesTo(A, g, n, sorted, run, squashed) ==
  /\ run \in [0..n -> Squashed(g)]
  /\ run[0] = <<>>
  /\ \A k \in 1..n : run[k] = AddRow(A, sorted, run[k - 1], k)
  /\ squashed = run[n]

LEMMA SquashedByRow ==
  ASSUME NEW A, NEW g, NEW n \in Nat, NEW sorted \in [1..n -> g]
  PROVE  \E run : SquashesTo(A, g, n, sorted, run, SquashCluster(A, sorted))
<1> DEFINE V == Squashed(g)
           F == [p \in (1..n) \X V |-> AddRow(A, sorted, p[2], p[1])]
           index == [i \in DOMAIN sorted |-> i]
           Folded(iter, T) == IF T = {} THEN <<>> ELSE AddRow(A, sorted, iter[T \ {Max(T)}], index[Max(T)])
           iter == CHOOSE iter : iter = [T \in SUBSET DOMAIN index |-> Folded(iter, T)]
<1>0. DOMAIN index = 1..n /\ \A i \in 1..n : index[i] = i
  OBVIOUS
<1>1. SquashCluster(A, sorted) = iter[DOMAIN index]
  BY DEF SquashCluster, FoldLeft, MapThenFoldSet, AddRow, Joined
<1>2. \E i : i = [T \in SUBSET DOMAIN index |-> Folded(i, T)]
  <2>0. ASSUME NEW p \in (1..n) \X V PROVE AddRow(A, sorted, p[2], p[1]) \in V
    BY AddRowType
  <2>1. F \in [(1..n) \X V -> V] /\ <<>> \in V
    <3> HIDE DEF V
    <3>1. F \in [(1..n) \X V -> V]
      BY <2>0
    <3> QED BY <3>1, NothingSquashed DEF V
  <2>2. PICK i : IsFold(i, F, V, <<>>, n)
    <3> HIDE DEF F, V
    <3> QED BY <2>1, FoldExists
  <2>3. ASSUME NEW T \in SUBSET (1..n) PROVE i[T] = Folded(i, T)
    <3>1. CASE T = {}
      BY <2>2, <3>1 DEF IsFold
    <3>2. CASE T # {}
      <4>1. Max(T) \in 1..n /\ T \ {Max(T)} \in SUBSET (1..n) /\ i[T \ {Max(T)}] \in V
        BY <2>2, <3>2, MaxOfPart DEF IsFold
      <4>2. F[<<Max(T), i[T \ {Max(T)}]>>] = AddRow(A, sorted, i[T \ {Max(T)}], Max(T))
        BY <4>1
      <4>3. i[T] = F[<<Max(T), i[T \ {Max(T)}]>>]
        BY <2>2, <3>2 DEF IsFold
      <4> HIDE DEF F, V, index
      <4> QED BY <1>0, <3>2, <4>1, <4>2, <4>3
    <3> QED BY <3>1, <3>2
  <2>4. i = [T \in SUBSET (1..n) |-> i[T]]
    BY <2>2 DEF IsFold
  <2>5. i = [T \in SUBSET (1..n) |-> Folded(i, T)]
    <3> HIDE DEF Folded
    <3> QED BY <2>3, <2>4
  <2> HIDE DEF Folded, index
  <2> QED BY <1>0, <2>5
<1>3. iter = [T \in SUBSET (1..n) |-> Folded(iter, T)]
  <2> HIDE DEF Folded, index
  <2> QED BY <1>0, <1>2
<1> HIDE DEF iter, F, V
<1> DEFINE run == [k \in 0..n |-> iter[1..k]]
<1>4. iter[{}] = <<>>
  BY <1>3
<1>5. run[0] = <<>>
  <2>1. 1..0 = {} /\ run[0] = iter[1..0]
    OBVIOUS
  <2> QED BY <1>4, <2>1
<1>6. ASSUME NEW k \in 1..n PROVE run[k] = AddRow(A, sorted, run[k - 1], k)
  <2>1. Max(1..k) = k /\ (1..k) \ {k} = 1..k - 1 /\ 1..k # {}
    <3>1. k \in Nat \ {0}
      OBVIOUS
    <3> QED BY <3>1, MaxOfAll
  <2>2. iter[1..k] = Folded(iter, 1..k)
    <3>1. 1..k \in SUBSET (1..n)
      OBVIOUS
    <3> HIDE DEF Folded
    <3> QED BY <1>3, <3>1
  <2>3. iter[1..k] = AddRow(A, sorted, iter[1..k - 1], k)
    <3> HIDE DEF index
    <3> QED BY <1>0, <2>1, <2>2
  <2>4. run[k] = iter[1..k] /\ run[k - 1] = iter[1..k - 1]
    OBVIOUS
  <2> QED BY <2>3, <2>4
<1> DEFINE typed == {k \in 0..n : run[k] \in V}
<1>7. 0 \in typed
  <2> HIDE DEF run
  <2> QED BY <1>5, NothingSquashed DEF V
<1>8. ASSUME NEW k \in 0..n, k < n, k \in typed PROVE k + 1 \in typed
  <2>1. k + 1 \in 1..n /\ (k + 1) - 1 = k /\ run[k] \in V
    BY <1>8
  <2>2. run[k + 1] = AddRow(A, sorted, run[k], k + 1)
    <3> HIDE DEF run
    <3> QED BY <1>6, <2>1
  <2> HIDE DEF run
  <2>3. run[k + 1] \in V
    BY <2>1, <2>2, AddRowType DEF V
  <2> QED BY <2>1, <2>3
<1>9. 0..n \subseteq typed
  <2> HIDE DEF typed
  <2> QED BY <1>7, <1>8, Upward
<1>10. run \in [0..n -> Squashed(g)]
  BY <1>9 DEF V
<1>11. SquashCluster(A, sorted) = run[n]
  BY <1>0, <1>1
<1> HIDE DEF run
<1> QED BY <1>5, <1>6, <1>10, <1>11 DEF SquashesTo

Differ(A, r, s) == r # s /\ ~AgreeOn({A}, r, s)

\* What the first k rows are squashed to: their number is kept, neighbours differ,
\* and the last element stands for a run that goes on to row k.
IsTotal(q, total) ==
  /\ total \in [0..Len(q) -> Nat] /\ total[0] = 0
  /\ \A i \in 1..Len(q) : total[i] = total[i - 1] + q[i].amount
SquashedSoFar(A, sorted, q, k) ==
  /\ \E total : IsTotal(q, total) /\ total[Len(q)] = k
  /\ \A i \in 2..Len(q) : Differ(A, q[i - 1].row, q[i].row)
  /\ k = 0 => q = <<>>
  /\ k # 0 => /\ Len(q) # 0
              /\ \E j \in 1..k : /\ q[Len(q)].row = sorted[j]
                                 /\ j = k \/ /\ Probing(A)[sorted[j]] # Singleton
                                             /\ Probing(A)[sorted[j]] = Probing(A)[sorted[k]]

\* A row that joins the run only raises the amount of its element.
LEMMA JoiningKeeps ==
  ASSUME NEW A, NEW g, NEW n \in Nat, NEW sorted \in [1..n -> g],
         NEW q \in Squashed(g), NEW k \in 1..n, k < n,
         SquashedSoFar(A, sorted, q, k), Joined(A, sorted, k + 1)
  PROVE  SquashedSoFar(A, sorted, [q EXCEPT ![Len(q)].amount = @ + 1], k + 1)
<1> DEFINE m == Len(q)
           more == [q EXCEPT ![m].amount = @ + 1]
           raised(total) == [i \in 0..m |-> IF i = m THEN total[i] + 1 ELSE total[i]]
<1>0. /\ m \in Nat \ {0} /\ DOMAIN q = 1..m
      /\ q \in Seq([row : g, amount : Nat])
      /\ k + 1 \in Nat /\ k + 1 # 0 /\ (k + 1) - 1 = k /\ k \in 1..k + 1 /\ k + 1 \in 1..n
  BY DEF Squashed, SquashedSoFar
<1>1. more \in Squashed(g)
  <2>1. AddRow(A, sorted, q, k + 1) = more
    BY DEF AddRow
  <2> HIDE DEF more
  <2> QED BY <1>0, <2>1, AddRowType
<1>2. Len(more) = m
  <2>1. DOMAIN more = 1..m
    BY <1>0
  <2>2. more \in Seq([row : g, amount : Nat])
    BY <1>1 DEF Squashed
  <2> HIDE DEF more
  <2> QED BY <1>0, <2>1, <2>2
<1>3. \A i \in 1..m : /\ more[i].row = q[i].row /\ q[i].amount \in Nat
                      /\ more[i].amount = IF i = m THEN q[i].amount + 1 ELSE q[i].amount
  <2> SUFFICES ASSUME NEW i \in 1..m
               PROVE  /\ more[i].row = q[i].row /\ q[i].amount \in Nat
                      /\ more[i].amount = IF i = m THEN q[i].amount + 1 ELSE q[i].amount
    OBVIOUS
  <2> DEFINE Element == [row : g, amount : Nat]
  <2>1. q[i] \in Element
    <3>1. q \in Seq(Element) /\ i \in 1..Len(q)
      BY <1>0
    <3> HIDE DEF Element, more, raised
    <3> QED BY <3>1
  <2> QED BY <1>0, <2>1
<1>4. PICK total : /\ total \in [0..m -> Nat] /\ total[0] = 0 /\ total[m] = k
                   /\ \A i \in 1..m : total[i] = total[i - 1] + q[i].amount
  BY DEF SquashedSoFar, IsTotal
<1>5. \A i \in 2..m : Differ(A, q[i - 1].row, q[i].row)
  BY DEF SquashedSoFar
<1>6. PICK j \in 1..k : /\ q[m].row = sorted[j]
                        /\ j = k \/ /\ Probing(A)[sorted[j]] # Singleton
                                    /\ Probing(A)[sorted[j]] = Probing(A)[sorted[k]]
  BY DEF SquashedSoFar
<1> HIDE DEF more, m
<1>7. IsTotal(more, raised(total)) /\ raised(total)[m] = k + 1
  <2>1. raised(total) \in [0..m -> Nat] /\ raised(total)[0] = 0
    BY <1>0, <1>4
  <2>2. ASSUME NEW i \in 1..m PROVE raised(total)[i] = raised(total)[i - 1] + more[i].amount
    <3>1. total[i] = total[i - 1] + q[i].amount /\ i - 1 \in 0..m /\ i - 1 # m /\ i \in 0..m
      BY <1>0, <1>4
    <3>2. raised(total)[i - 1] = total[i - 1] /\ total[i - 1] \in Nat
      BY <1>4, <3>1
    <3> QED BY <1>3, <3>1, <3>2
  <2>3. raised(total)[m] = k + 1
    BY <1>0, <1>4
  <2> HIDE DEF raised
  <2> QED BY <1>2, <2>1, <2>2, <2>3 DEF IsTotal
<1>8. ASSUME NEW i \in 2..m PROVE Differ(A, more[i - 1].row, more[i].row)
  <2>1. Differ(A, q[i - 1].row, q[i].row)
    BY <1>5
  <2>2. i \in 1..m /\ i - 1 \in 1..m
    BY <1>0
  <2> QED BY <1>3, <2>1, <2>2
<1>9. /\ Probing(A)[sorted[j]] # Singleton
      /\ Probing(A)[sorted[j]] = Probing(A)[sorted[k + 1]]
  <2>1. /\ Probing(A)[sorted[k + 1]] # Singleton
        /\ Probing(A)[sorted[k + 1]] = Probing(A)[sorted[k]]
    BY <1>0 DEF Joined
  <2> QED BY <1>6, <2>1
<1>10. j \in 1..k + 1 /\ more[m].row = sorted[j]
  <2>1. m \in 1..m
    BY <1>0
  <2> QED BY <1>3, <1>6, <2>1
<1>11. SquashedSoFar(A, sorted, more, k + 1)
  <2> HIDE DEF raised
  <2> QED BY <1>0, <1>2, <1>7, <1>8, <1>9, <1>10 DEF SquashedSoFar
<1> QED BY <1>11 DEF more, m

\* A row that does not differs from the element before.
LEMMA AddingKeeps ==
  ASSUME RelationOK, Built, NEW A \in Cols, NEW g \in SUBSET Rows, NEW n \in Nat,
         NEW sorted \in [1..n -> g], \A i, j \in 1..n : sorted[i] = sorted[j] => i = j,
         NEW q \in Squashed(g), NEW k \in 0..n, k < n,
         SquashedSoFar(A, sorted, q, k), k # 0 => ~Joined(A, sorted, k + 1)
  PROVE  SquashedSoFar(A, sorted, Append(q, [row |-> sorted[k + 1], amount |-> 1]), k + 1)
<1> DEFINE m == Len(q)
           new == [row |-> sorted[k + 1], amount |-> 1]
           more == Append(q, new)
<1>0. /\ m \in Nat /\ q \in Seq([row : g, amount : Nat])
      /\ k + 1 \in 1..n /\ k + 1 # 0 /\ (k + 1) - 1 = k
  BY DEF Squashed
<1>1. /\ Len(more) = m + 1 /\ more[m + 1] = new
      /\ \A i \in 1..m : more[i] = q[i]
  BY <1>0
<1> HIDE DEF more
<1>2. PICK total : IsTotal(q, total) /\ total[m] = k
  BY DEF SquashedSoFar
<1> DEFINE raised == [i \in 0..m + 1 |-> IF i = m + 1 THEN k + 1 ELSE total[i]]
<1>3. IsTotal(more, raised) /\ raised[m + 1] = k + 1
  <2>0. \A i \in 0..m : total[i] \in Nat
    BY <1>2 DEF IsTotal
  <2>1. raised \in [0..m + 1 -> Nat] /\ raised[0] = 0
    BY <1>0, <1>2, <2>0 DEF IsTotal
  <2>2. ASSUME NEW i \in 1..m + 1 PROVE raised[i] = raised[i - 1] + more[i].amount
    <3>1. CASE i = m + 1
      <4>1. raised[i] = k + 1 /\ raised[i - 1] = k
        BY <1>0, <1>2, <3>1
      <4> QED BY <1>1, <3>1, <4>1
    <3>2. CASE i # m + 1
      <4>1. i \in 1..m /\ i - 1 \in 0..m /\ i \in 0..m
        BY <1>0, <3>2
      <4>2. total[i] = total[i - 1] + q[i].amount
        BY <1>2, <4>1 DEF IsTotal
      <4>3. raised[i] = total[i] /\ raised[i - 1] = total[i - 1]
        BY <1>0, <3>2, <4>1
      <4> QED BY <1>1, <4>1, <4>2, <4>3
    <3> QED BY <3>1, <3>2
  <2>3. raised[m + 1] = k + 1
    BY <1>0
  <2> HIDE DEF raised
  <2> QED BY <1>1, <2>1, <2>2, <2>3 DEF IsTotal
<1>4. ASSUME NEW i \in 2..m + 1 PROVE Differ(A, more[i - 1].row, more[i].row)
  <2>1. CASE i # m + 1
    <3>1. i \in 2..m /\ i \in 1..m /\ i - 1 \in 1..m
      BY <1>0, <2>1
    <3>2. Differ(A, q[i - 1].row, q[i].row)
      BY <3>1 DEF SquashedSoFar
    <3> QED BY <1>1, <3>1, <3>2
  <2>2. CASE i = m + 1
    <3>0. m # 0 /\ i - 1 = m /\ m \in 1..m
      BY <1>0, <2>2
    <3>1. k # 0
      <4>1. q = <<>> => m = 0
        OBVIOUS
      <4> QED BY <3>0, <4>1 DEF SquashedSoFar
    <3>2. PICK j \in 1..k : /\ q[m].row = sorted[j]
                            /\ j = k \/ /\ Probing(A)[sorted[j]] # Singleton
                                        /\ Probing(A)[sorted[j]] = Probing(A)[sorted[k]]
      BY <3>1 DEF SquashedSoFar
    <3>3. j \in 1..n /\ j # k + 1 /\ sorted[j] \in Rows /\ sorted[k + 1] \in Rows
      BY <1>0, <3>1
    <3>4. sorted[j] # sorted[k + 1]
      BY <1>0, <3>3
    <3>5. ~AgreeOn({A}, sorted[j], sorted[k + 1])
      <4> SUFFICES ASSUME AgreeOn({A}, sorted[j], sorted[k + 1]) PROVE FALSE
        OBVIOUS
      <4>1. /\ Probing(A)[sorted[j]] # Singleton
            /\ Probing(A)[sorted[j]] = Probing(A)[sorted[k + 1]]
        BY <3>3, <3>4, SameValue
      <4>2. Probing(A)[sorted[j]] = Probing(A)[sorted[k]]
        BY <3>2
      <4>3. Joined(A, sorted, k + 1)
        BY <1>0, <4>1, <4>2 DEF Joined
      <4> QED BY <3>1, <4>3
    <3>6. more[i - 1].row = sorted[j] /\ more[i].row = sorted[k + 1]
      BY <1>1, <2>2, <3>0, <3>2
    <3> QED BY <3>4, <3>5, <3>6 DEF Differ
  <2> QED BY <2>1, <2>2
<1>5. k + 1 \in 1..k + 1 /\ more[m + 1].row = sorted[k + 1] /\ m + 1 # 0
  BY <1>0, <1>1
<1>6. SquashedSoFar(A, sorted, more, k + 1)
  <2> HIDE DEF raised, m, new
  <2> QED BY <1>0, <1>1, <1>3, <1>4, <1>5 DEF SquashedSoFar
<1> QED BY <1>6 DEF more

LEMMA ClusterSquashed ==
  ASSUME RelationOK, Built, NEW A \in Cols, NEW g \in SUBSET Rows
  PROVE  SquashedWell(A, g)
<1> DEFINE n == Cardinality(g)
           sorted == SortCluster(A, g)
           squashed == SquashCluster(A, sorted)
<1>0. n \in Nat
  BY RowsAreNumbers
<1>1. /\ sorted \in [1..n -> g]
      /\ \A i, j \in 1..n : sorted[i] = sorted[j] => i = j
  <2>1. DOMAIN sorted = 1..n /\ \A i \in 1..n : sorted[i] \in g
    BY SortedOnce
  <2>2. sorted = [i \in DOMAIN sorted |-> sorted[i]]
    BY DEF SortCluster
  <2>3. \A i, j \in 1..n : sorted[i] = sorted[j] => i = j
    BY SortedOnce
  <2> HIDE DEF sorted
  <2> QED BY <2>1, <2>2, <2>3
<1> HIDE DEF n, sorted
<1>2. PICK run : /\ run \in [0..n -> Squashed(g)]
                 /\ run[0] = <<>>
                 /\ \A k \in 1..n : run[k] = AddRow(A, sorted, run[k - 1], k)
                 /\ squashed = run[n]
  <2>1. \E run : SquashesTo(A, g, n, sorted, run, SquashCluster(A, sorted))
    BY <1>0, <1>1, SquashedByRow
  <2> QED BY <2>1 DEF SquashesTo
<1> DEFINE kept == {k \in 0..n : SquashedSoFar(A, sorted, run[k], k)}
<1>3. 0 \in kept
  <2> DEFINE none == [i \in 0..0 |-> 0]
  <2>1. none \in [0..0 -> Nat] /\ none[0] = 0
    OBVIOUS
  <2>2. Len(<<>>) = 0
    OBVIOUS
  <2> HIDE DEF none
  <2>3. IsTotal(<<>>, none) /\ none[Len(<<>>)] = 0
    BY <2>1, <2>2 DEF IsTotal
  <2>4. SquashedSoFar(A, sorted, <<>>, 0)
    BY <2>2, <2>3 DEF SquashedSoFar
  <2> QED BY <1>0, <1>2, <2>4
<1>4. ASSUME NEW k \in 0..n, k < n, k \in kept PROVE k + 1 \in kept
  <2>1. /\ k + 1 \in 1..n /\ (k + 1) - 1 = k /\ (k # 0 <=> k + 1 > 1) /\ (k # 0 => k \in 1..n)
        /\ run[k] \in Squashed(g) /\ SquashedSoFar(A, sorted, run[k], k)
    BY <1>0, <1>2, <1>4
  <2>2. run[k + 1] = AddRow(A, sorted, run[k], k + 1)
    BY <1>2, <2>1
  <2>3. CASE k # 0 /\ Joined(A, sorted, k + 1)
    <3>1. run[k + 1] = [run[k] EXCEPT ![Len(run[k])].amount = @ + 1]
      BY <2>1, <2>2, <2>3 DEF AddRow
    <3>2. SquashedSoFar(A, sorted, run[k + 1], k + 1)
      BY <1>0, <1>1, <1>4, <2>1, <2>3, <3>1, JoiningKeeps
    <3> QED BY <2>1, <3>2
  <2>4. CASE ~(k # 0 /\ Joined(A, sorted, k + 1))
    <3>1. run[k + 1] = Append(run[k], [row |-> sorted[k + 1], amount |-> 1])
      BY <2>1, <2>2, <2>4 DEF AddRow
    <3>2. SquashedSoFar(A, sorted, run[k + 1], k + 1)
      BY <1>0, <1>1, <1>4, <2>1, <2>4, <3>1, AddingKeeps
    <3> QED BY <2>1, <3>2
  <2> QED BY <2>3, <2>4
<1>5. SquashedSoFar(A, sorted, squashed, n) /\ squashed \in Squashed(g)
  <2>1. 0..n \subseteq kept
    <3> HIDE DEF kept
    <3> QED BY <1>0, <1>3, <1>4, Upward
  <2>2. n \in 0..n
    BY <1>0
  <2> QED BY <1>2, <2>1, <2>2
<1> HIDE DEF squashed
<1>6. PICK total : IsTotal(squashed, total) /\ total[Len(squashed)] = n
  BY <1>5 DEF SquashedSoFar
<1>7. SumAmounts(squashed) = n
  <2> DEFINE Element == [row : g, amount : Nat]
  <2>1. squashed \in Seq(Element)
    BY <1>5 DEF Squashed
  <2>2. \A e \in Element : e.amount \in Nat
    OBVIOUS
  <2> HIDE DEF Element
  <2>3. /\ Len(squashed) \in Nat /\ DOMAIN squashed = 1..Len(squashed)
        /\ \A i \in 1..Len(squashed) : squashed[i].amount \in Nat
    BY <2>1, <2>2
  <2>4. /\ total \in [0..Len(squashed) -> Nat] /\ total[0] = 0
        /\ \A i \in 1..Len(squashed) : total[i] = total[i - 1] + squashed[i].amount
    BY <1>6 DEF IsTotal
  <2> QED BY <1>6, <2>3, <2>4, AmountsAdd
<1>8. \A i \in 2..Len(squashed) : Differ(A, squashed[i - 1].row, squashed[i].row)
  BY <1>5 DEF SquashedSoFar
<1> QED BY <1>7, <1>8 DEF SquashedWell, SumAmounts, Differ, squashed, sorted, n

LEMMA TyposMend == RelationOK => TyposMendDependencies
<1> SUFFICES ASSUME RelationOK, Built, NEW e \in Errors, NEW fd \in ApproxFds(e)
             PROVE  LET clusters == FindClustersWithTypos(fd[1], fd[2])
                        Lines(g, radius, ratio) ==
                          FindLinesWithTypos(fd[2], SortCluster(fd[2], g), radius, ratio)
                    IN  /\ clusters = Broken(fd[1], fd[2]) /\ clusters # {}
                        /\ \A g \in clusters :
                             /\ Mended(fd[2], g) /\ SquashedWell(fd[2], g)
                             /\ \A radius \in Radii :
                                  Lines(g, radius, DefaultRatio) \subseteq Lines(g, -1, <<1, 1>>)
  BY DEF TyposMendDependencies
<1>1. /\ fd[1] \in SUBSET Cols /\ fd[2] \in Cols
      /\ ViolatingPairs(fd[1], fd[2]) # {}
  BY ErrorsAssumption, ApproxViolated
<1>2. /\ FindClustersWithTypos(fd[1], fd[2]) = Broken(fd[1], fd[2])
      /\ Broken(fd[1], fd[2]) # {}
  BY <1>1, ClustersBroken
<1>3. ASSUME NEW g \in Broken(fd[1], fd[2])
      PROVE  /\ Mended(fd[2], g) /\ SquashedWell(fd[2], g)
             /\ \A radius : FindLinesWithTypos(fd[2], SortCluster(fd[2], g), radius, DefaultRatio)
                              \subseteq FindLinesWithTypos(fd[2], SortCluster(fd[2], g), -1, <<1, 1>>)
  <2>1. g \in SUBSET Rows /\ g # {}
    <3>1. g \in Partition(fd[1]) /\ \E r \in g : TRUE
      BY DEF Broken
    <3>2. PICK r \in Rows : g = Together(fd[1], r)
      BY <3>1 DEF Partition, Clusters
    <3> QED BY <3>1, <3>2 DEF Together
  <2> QED BY <1>1, <2>1, ClusterMended, ClusterSquashed
<1> QED BY <1>2, <1>3

\* In every relation and for every error allowed, a dependency that only the
\* approximate algorithm finds has clusters that break it, and the miner looks at
\* exactly those; each agrees, nulls apart, once its typos are left out, and is
\* squashed without a row lost or a value told twice in succession
\* (TypoMiner::ExecuteInternal, FindClustersWithTypos, FindLinesWithTypos,
\* SquashCluster).
THEOREM TyposMended == MinerSpec => []TyposMendDependencies
<1>1. RelationOK => TyposMendDependencies
  BY TyposMend
<1> QED BY <1>1, RelationRead, PTL

-----------------------------------------------------------------------------
(* AgreeSetFactory: classes in order. *)

LEMMA MinOfNumbers ==
  ASSUME NEW X, X \subseteq Nat, X # {}
  PROVE  Min(X) \in X /\ \A x \in X : Min(X) <= x
<1>1. \E x \in X : \A y \in X : x <= y
  BY SmallestNumber
<1> QED BY <1>1 DEF Min

\* The first number that is in one of them only is in X.
Leads(X, Y) == \E a \in X \ Y : \A d \in Nat : d < a => (d \in X <=> d \in Y)

LEMMA LeadsIs ==
  ASSUME NEW X, NEW Y, X \subseteq Nat, Y \subseteq Nat, X # Y
  PROVE  /\ Min((X \ Y) \cup (Y \ X)) \in X <=> Leads(X, Y)
         /\ Leads(X, Y) \/ Leads(Y, X)
<1> DEFINE diff == (X \ Y) \cup (Y \ X)
           m == Min(diff)
<1>1. diff \subseteq Nat /\ diff # {}
  OBVIOUS
<1>2. m \in diff /\ \A x \in diff : m <= x
  <2> HIDE DEF diff
  <2> QED BY <1>1, MinOfNumbers
<1> HIDE DEF m
<1>3. \A d \in Nat : d < m => (d \in X <=> d \in Y)
  <2>1. ASSUME NEW d \in Nat, d < m PROVE d \notin diff
    <3> HIDE DEF diff
    <3> QED BY <1>1, <1>2, <2>1
  <2> QED BY <2>1
<1>4. m \in Nat
  BY <1>1, <1>2
<1>5. m \in X => Leads(X, Y)
  BY <1>2, <1>3 DEF Leads
<1>6. m \in Y => Leads(Y, X)
  BY <1>2, <1>3 DEF Leads
<1>7. ASSUME Leads(X, Y) PROVE m \in X
  <2>1. PICK a \in X \ Y : \A d \in Nat : d < a => (d \in X <=> d \in Y)
    BY <1>7 DEF Leads
  <2>2. m <= a /\ a \in Nat
    BY <1>2, <2>1
  <2>3. CASE m = a
    BY <2>1, <2>3
  <2>4. CASE m < a
    BY <1>2, <1>4, <2>1, <2>4
  <2> QED BY <1>4, <2>2, <2>3, <2>4
<1> QED BY <1>2, <1>5, <1>6, <1>7 DEF m

LEMMA LeadsTransitive ==
  ASSUME NEW X, NEW Y, NEW Z, X \subseteq Nat, Y \subseteq Nat, Z \subseteq Nat, Leads(X, Y), Leads(Y, Z)
  PROVE  Leads(X, Z)
<1>1. PICK a \in X \ Y : \A d \in Nat : d < a => (d \in X <=> d \in Y)
  BY DEF Leads
<1>2. PICK b \in Y \ Z : \A d \in Nat : d < b => (d \in Y <=> d \in Z)
  BY DEF Leads
<1>3. a \in Nat /\ b \in Nat /\ a # b
  BY <1>1, <1>2
<1>4. CASE a < b
  <2>1. a \in X \ Z
    BY <1>1, <1>2, <1>3, <1>4
  <2>2. \A d \in Nat : d < a => (d \in X <=> d \in Z)
    BY <1>1, <1>2, <1>3, <1>4
  <2> QED BY <2>1, <2>2 DEF Leads
<1>5. CASE b < a
  <2>1. b \in X \ Z
    BY <1>1, <1>2, <1>3, <1>5
  <2>2. \A d \in Nat : d < b => (d \in X <=> d \in Z)
    BY <1>1, <1>2, <1>3, <1>5
  <2> QED BY <2>1, <2>2 DEF Leads
<1> QED BY <1>3, <1>4, <1>5

LEMMA SizeLessIs ==
  ASSUME NEW X, NEW Y, X \subseteq Nat, Y \subseteq Nat, IsFiniteSet(X), IsFiniteSet(Y)
  PROVE  /\ Cardinality(X) \in Nat /\ Cardinality(Y) \in Nat
         /\ SizeLess(X, Y) <=> \/ Cardinality(X) < Cardinality(Y)
                               \/ Cardinality(X) = Cardinality(Y) /\ Leads(X, Y)
         /\ X # Y => SizeLess(X, Y) \/ SizeLess(Y, X)
         /\ ~SizeLess(X, X)
         /\ ~(SizeLess(X, Y) /\ SizeLess(Y, X))
<1>1. Cardinality(X) \in Nat /\ Cardinality(Y) \in Nat
  BY FS_CardinalityType
<1>2. ~Leads(X, X) /\ ~Leads(Y, Y) /\ (X = Y => ~Leads(X, Y))
  BY DEF Leads
<1>3. X # Y => (Min((X \ Y) \cup (Y \ X)) \in X <=> Leads(X, Y)) /\ (Leads(X, Y) \/ Leads(Y, X))
  BY LeadsIs
<1>4. SizeLess(X, Y) <=> \/ Cardinality(X) < Cardinality(Y)
                         \/ Cardinality(X) = Cardinality(Y) /\ Leads(X, Y)
  BY <1>2, <1>3 DEF SizeLess
<1>5. X # Y => (Min((Y \ X) \cup (X \ Y)) \in Y <=> Leads(Y, X))
  BY LeadsIs
<1>6. SizeLess(Y, X) <=> \/ Cardinality(Y) < Cardinality(X)
                         \/ Cardinality(Y) = Cardinality(X) /\ Leads(Y, X)
  BY <1>2, <1>5 DEF SizeLess
<1>7. ~SizeLess(X, X)
  BY <1>1 DEF SizeLess
<1>8. ~(Leads(X, Y) /\ Leads(Y, X))
  BY <1>2, LeadsTransitive
<1> QED BY <1>1, <1>3, <1>4, <1>6, <1>7, <1>8

LEMMA SizeLessTransitive ==
  ASSUME NEW X, NEW Y, NEW Z, X \subseteq Nat, Y \subseteq Nat, Z \subseteq Nat,
         IsFiniteSet(X), IsFiniteSet(Y), IsFiniteSet(Z), SizeLess(X, Y), SizeLess(Y, Z)
  PROVE  SizeLess(X, Z)
<1>1. Leads(X, Y) /\ Leads(Y, Z) => Leads(X, Z)
  BY LeadsTransitive
<1>2. /\ Cardinality(X) \in Nat /\ Cardinality(Y) \in Nat /\ Cardinality(Z) \in Nat
      /\ \/ Cardinality(X) < Cardinality(Y)
         \/ Cardinality(X) = Cardinality(Y) /\ Leads(X, Y)
  BY SizeLessIs
<1>3. \/ Cardinality(Y) < Cardinality(Z)
      \/ Cardinality(Y) = Cardinality(Z) /\ Leads(Y, Z)
  BY SizeLessIs
<1>4. \/ Cardinality(X) < Cardinality(Z)
      \/ Cardinality(X) = Cardinality(Z) /\ Leads(X, Z)
  BY <1>1, <1>2, <1>3
<1> QED BY <1>4, SizeLessIs

\* The classes in order are the classes, from the smallest up.
LEMMA OrderedBySize ==
  ASSUME NEW S, IsFiniteSet(S), \A X \in S : X \subseteq Nat /\ IsFiniteSet(X)
  PROVE  LET n == Cardinality(S)
             s == Ordered(S, SizeLess)
         IN  /\ n \in Nat /\ s \in [1..n -> S]
             /\ \A X \in S : \E i \in 1..n : s[i] = X
             /\ \A i, j \in 1..n : i < j => Cardinality(s[i]) <= Cardinality(s[j]) /\ s[i] # s[j]
<1> DEFINE n == Cardinality(S)
           smaller(X) == {Y \in S : SizeLess(Y, X)}
           place(X) == Cardinality(smaller(X))
           s == Ordered(S, SizeLess)
<1>0. n \in Nat /\ s = [i \in 1..n |-> CHOOSE X \in S : place(X) = i - 1]
  BY FS_CardinalityType DEF Ordered
<1>1. ASSUME NEW X \in S
      PROVE  smaller(X) \subseteq S /\ X \notin smaller(X) /\ IsFiniteSet(smaller(X)) /\ place(X) \in Nat
             /\ place(X) < n
  <2>1. X \notin smaller(X)
    BY SizeLessIs
  <2>2. smaller(X) \subseteq S /\ smaller(X) # S
    BY <2>1
  <2> HIDE DEF smaller
  <2>3. IsFiniteSet(smaller(X)) /\ place(X) \in Nat /\ place(X) <= n /\ place(X) # n
    BY <2>2, FS_Subset, FS_CardinalityType
  <2> QED BY <1>0, <2>1, <2>2, <2>3
<1>2. ASSUME NEW X \in S, NEW Y \in S, SizeLess(X, Y) PROVE place(X) < place(Y)
  <2>1. smaller(X) \subseteq smaller(Y)
    BY <1>2, SizeLessTransitive
  <2>2. X \in smaller(Y) /\ X \notin smaller(X)
    BY <1>1, <1>2
  <2>3. smaller(X) # smaller(Y) /\ IsFiniteSet(smaller(Y)) /\ place(X) \in Nat /\ place(Y) \in Nat
    BY <1>1, <2>2
  <2> HIDE DEF smaller
  <2>4. place(X) <= place(Y) /\ place(X) # place(Y)
    BY <2>1, <2>3, FS_Subset
  <2> QED BY <2>3, <2>4
<1> HIDE DEF smaller
<1>3. ASSUME NEW X \in S, NEW Y \in S, X # Y PROVE place(X) # place(Y)
  <2>1. SizeLess(X, Y) \/ SizeLess(Y, X)
    BY <1>3, SizeLessIs
  <2> QED BY <1>1, <1>2, <2>1
<1> DEFINE at == [X \in S |-> place(X) + 1]
<1>4. \A X \in S : place(X) + 1 \in 1..n
  BY <1>0, <1>1
<1>5. at \in Injection(S, 1..n)
  <2>1. \A X, Y \in S : at[X] = at[Y] => X = Y
    <3> HIDE DEF n
    <3> QED BY <1>1, <1>3
  <2>2. at \in [S -> 1..n]
    BY <1>4
  <2> HIDE DEF at
  <2> QED BY <2>1, <2>2 DEF Injection, IsInjective
<1>6. IsFiniteSet(1..n) /\ Cardinality(1..n) = n
  BY <1>0, FS_Interval
<1>7. at \in Surjection(S, 1..n)
  <2> HIDE DEF at
  <2> QED BY <1>5, <1>6, FS_Injection
<1>8. ASSUME NEW i \in 1..n PROVE \E X \in S : place(X) = i - 1
  <2>1. PICK X \in S : at[X] = i
    <3> HIDE DEF at
    <3> QED BY <1>7 DEF Surjection
  <2>2. place(X) + 1 = i /\ place(X) \in Nat
    BY <1>1, <2>1
  <2> QED BY <2>2
<1>9. ASSUME NEW i \in 1..n PROVE s[i] \in S /\ place(s[i]) = i - 1
  <2> DEFINE c == CHOOSE X \in S : place(X) = i - 1
  <2>1. c \in S /\ place(c) = i - 1
    <3> HIDE DEF n, place
    <3> QED BY <1>8
  <2>2. s[i] = c
    BY <1>0
  <2> QED BY <2>1, <2>2
<1>10. s \in [1..n -> S]
  <2>1. DOMAIN s = 1..n /\ s = [i \in DOMAIN s |-> s[i]]
    BY <1>0
  <2> HIDE DEF s, n
  <2> QED BY <1>9, <2>1
<1> HIDE DEF s
<1>11. ASSUME NEW X \in S PROVE \E i \in 1..n : s[i] = X
  <2>1. place(X) + 1 \in 1..n /\ place(X) \in Nat
    BY <1>1, <1>4
  <2>2. s[place(X) + 1] \in S /\ place(s[place(X) + 1]) = (place(X) + 1) - 1
    BY <1>9, <2>1
  <2>3. (place(X) + 1) - 1 = place(X)
    BY <2>1
  <2>4. s[place(X) + 1] = X
    BY <1>3, <2>2, <2>3
  <2> QED BY <2>1, <2>4
<1>12. ASSUME NEW i \in 1..n, NEW j \in 1..n, i < j
       PROVE  Cardinality(s[i]) <= Cardinality(s[j]) /\ s[i] # s[j]
  <2>1. s[i] \in S /\ place(s[i]) = i - 1 /\ s[j] \in S /\ place(s[j]) = j - 1
    BY <1>9
  <2>2. place(s[i]) < place(s[j]) /\ place(s[i]) \in Nat /\ place(s[j]) \in Nat
    BY <1>1, <1>12, <2>1
  <2>3. s[i] # s[j] /\ ~SizeLess(s[j], s[i])
    BY <1>2, <2>1, <2>2
  <2>4. SizeLess(s[i], s[j])
    BY <2>1, <2>3, SizeLessIs
  <2> QED BY <2>1, <2>3, <2>4, SizeLessIs
<1> QED BY <1>0, <1>10, <1>11, <1>12 DEF s, n

-----------------------------------------------------------------------------
(* The maximal representation. *)

\* The step of McUsingHandlePartition.
Handled(mc, g) == IF \E h \in mc : g \subseteq h THEN mc ELSE mc \cup {g}
HandledAll(V, q) == FoldLeft(LAMBDA mc, g : Handled(mc, g), {}, q)

\* run[k] is what is kept of the first k classes of q.
IsRun(run, n, V, q) ==
  /\ run \in [0..n -> SUBSET V]
  /\ run[0] = {}
  /\ \A k \in 1..n : run[k] = Handled(run[k - 1], q[k])
  /\ HandledAll(V, q) = run[n]

LEMMA HandledByClass ==
  ASSUME NEW n \in Nat, NEW V, NEW q \in [1..n -> V]
  PROVE  \E run : IsRun(run, n, V, q)
<1> DEFINE W == SUBSET V
           F == [p \in (1..n) \X W |-> Handled(p[2], q[p[1]])]
           Folded(iter, T) == IF T = {} THEN {} ELSE Handled(iter[T \ {Max(T)}], q[Max(T)])
           iter == CHOOSE iter : iter = [T \in SUBSET DOMAIN q |-> Folded(iter, T)]
<1>0. DOMAIN q = 1..n /\ \A i \in 1..n : q[i] \in V
  OBVIOUS
<1>1. HandledAll(V, q) = iter[DOMAIN q]
  BY DEF HandledAll, FoldLeft, MapThenFoldSet
<1>2. \E i : /\ i = [T \in SUBSET DOMAIN q |-> Folded(i, T)]
             /\ \A T \in SUBSET (1..n) : i[T] \in W
  <2>0. ASSUME NEW p \in (1..n) \X W PROVE Handled(p[2], q[p[1]]) \in W
    BY <1>0 DEF Handled
  <2>1. F \in [(1..n) \X W -> W] /\ {} \in W
    <3> HIDE DEF W
    <3>1. F \in [(1..n) \X W -> W]
      BY <2>0
    <3> QED BY <3>1 DEF W
  <2>2. PICK i : IsFold(i, F, W, {}, n)
    <3> HIDE DEF F, W
    <3> QED BY <2>1, FoldExists
  <2>3. ASSUME NEW T \in SUBSET (1..n) PROVE i[T] = Folded(i, T)
    <3>1. CASE T = {}
      BY <2>2, <3>1 DEF IsFold
    <3>2. CASE T # {}
      <4>0. Max(T) \in 1..n /\ T \ {Max(T)} \in SUBSET (1..n)
        BY <3>2, MaxOfPart
      <4>1. Max(T) \in 1..n /\ T \ {Max(T)} \in SUBSET (1..n) /\ i[T \ {Max(T)}] \in W
        <5>1. i \in [SUBSET (1..n) -> W]
          BY <2>2 DEF IsFold
        <5> HIDE DEF W
        <5> QED BY <4>0, <5>1
      <4>2. F[<<Max(T), i[T \ {Max(T)}]>>] = Handled(i[T \ {Max(T)}], q[Max(T)])
        BY <4>1
      <4>3. i[T] = F[<<Max(T), i[T \ {Max(T)}]>>]
        BY <2>2, <3>2 DEF IsFold
      <4> HIDE DEF F, W
      <4> QED BY <3>2, <4>2, <4>3
    <3> QED BY <3>1, <3>2
  <2>4. i = [T \in SUBSET (1..n) |-> i[T]] /\ \A T \in SUBSET (1..n) : i[T] \in W
    BY <2>2 DEF IsFold
  <2>5. i = [T \in SUBSET (1..n) |-> Folded(i, T)]
    <3> HIDE DEF Folded
    <3> QED BY <2>3, <2>4
  <2> HIDE DEF Folded, W
  <2> QED BY <1>0, <2>4, <2>5
<1>3. iter = [T \in SUBSET (1..n) |-> Folded(iter, T)]
  <2> HIDE DEF Folded
  <2> QED BY <1>0, <1>2
<1> HIDE DEF iter, F, W
<1> DEFINE run == [k \in 0..n |-> iter[1..k]]
<1>4. run[0] = {}
  <2>1. 1..0 = {} /\ run[0] = iter[1..0]
    OBVIOUS
  <2> QED BY <1>3, <2>1
<1>5. ASSUME NEW k \in 1..n PROVE run[k] = Handled(run[k - 1], q[k])
  <2>1. Max(1..k) = k /\ (1..k) \ {k} = 1..k - 1 /\ 1..k # {}
    <3>1. k \in Nat \ {0}
      OBVIOUS
    <3> QED BY <3>1, MaxOfAll
  <2>2. iter[1..k] = Folded(iter, 1..k)
    <3>1. 1..k \in SUBSET (1..n)
      OBVIOUS
    <3> HIDE DEF Folded
    <3> QED BY <1>3, <3>1
  <2>3. iter[1..k] = Handled(iter[1..k - 1], q[k])
    BY <2>1, <2>2
  <2>4. run[k] = iter[1..k] /\ run[k - 1] = iter[1..k - 1]
    OBVIOUS
  <2> QED BY <2>3, <2>4
<1> DEFINE typed == {k \in 0..n : run[k] \in W}
<1>6. 0 \in typed
  <2> HIDE DEF run
  <2> QED BY <1>4 DEF W
<1>7. ASSUME NEW k \in 0..n, k < n, k \in typed PROVE k + 1 \in typed
  <2>1. k + 1 \in 1..n /\ (k + 1) - 1 = k /\ run[k] \in W
    BY <1>7
  <2>2. run[k + 1] = Handled(run[k], q[k + 1])
    <3> HIDE DEF run
    <3> QED BY <1>5, <2>1
  <2> HIDE DEF run
  <2>3. run[k + 1] \in W
    BY <1>0, <2>1, <2>2 DEF W, Handled
  <2> QED BY <2>1, <2>3
<1>8. 0..n \subseteq typed
  <2> HIDE DEF typed
  <2> QED BY <1>6, <1>7, Upward
<1>9. run \in [0..n -> SUBSET V]
  BY <1>8 DEF W
<1>10. HandledAll(V, q) = run[n]
  BY <1>0, <1>1
<1> HIDE DEF run
<1>11. IsRun(run, n, V, q)
  BY <1>4, <1>5, <1>9, <1>10 DEF IsRun
<1> QED BY <1>11

\* From the largest class down, what is kept are the classes that are in no other.
LEMMA HandledAreMaximal ==
  ASSUME NEW n \in Nat, NEW V, NEW q \in [1..n -> V], \A X \in V : \E i \in 1..n : q[i] = X,
         \A X \in V : IsFiniteSet(X),
         \A i, j \in 1..n : i < j => Cardinality(q[j]) <= Cardinality(q[i])
  PROVE  HandledAll(V, q) = MaximalOf(V) /\ \A X \in V : \E Y \in HandledAll(V, q) : X \subseteq Y
<1>0. PICK run : IsRun(run, n, V, q)
  BY HandledByClass
<1>1. /\ run \in [0..n -> SUBSET V]
      /\ run[0] = {}
      /\ \A k \in 1..n : run[k] = Handled(run[k - 1], q[k])
      /\ HandledAll(V, q) = run[n]
  BY <1>0 DEF IsRun
<1> DEFINE good(k) == /\ \A X \in run[k] : \E i \in 1..k : q[i] = X
                      /\ \A i \in 1..k : \E Y \in run[k] : q[i] \subseteq Y
                      /\ \A X, Y \in run[k] : X \subseteq Y => X = Y
           done == {k \in 0..n : good(k)}
<1>2. 0 \in done
  BY <1>1
<1>3. ASSUME NEW k \in 0..n, k < n, k \in done PROVE k + 1 \in done
  <2>0. k + 1 \in 1..n /\ (k + 1) - 1 = k /\ good(k) /\ q[k + 1] \in V /\ run[k] \subseteq V
        /\ 1..k + 1 = (1..k) \cup {k + 1} /\ 1..k \subseteq 1..n
    <3>1. good(k)
      BY <1>3
    <3>2. run[k] \subseteq V
      BY <1>1
    <3>3. k + 1 \in 1..n /\ (k + 1) - 1 = k /\ 1..k + 1 = (1..k) \cup {k + 1} /\ 1..k \subseteq 1..n
      BY <1>3
    <3>4. q[k + 1] \in V
      BY <3>3
    <3> HIDE DEF good
    <3> QED BY <3>1, <3>2, <3>3, <3>4
  <2> DEFINE g == q[k + 1]
  <2>1. run[k + 1] = Handled(run[k], g)
    BY <1>1, <2>0
  <2>2. CASE \E h \in run[k] : g \subseteq h
    <3>1. run[k + 1] = run[k]
      BY <2>1, <2>2 DEF Handled
    <3>2. good(k + 1)
      BY <2>0, <2>2, <3>1
    <3> QED BY <2>0, <3>2
  <2>3. CASE ~\E h \in run[k] : g \subseteq h
    <3>1. run[k + 1] = run[k] \cup {g}
      BY <2>1, <2>3 DEF Handled
    <3>2. ASSUME NEW X \in run[k], X \subseteq g PROVE FALSE
      <4>1. PICK i \in 1..k : q[i] = X
        BY <2>0
      <4>2. Cardinality(g) <= Cardinality(X) /\ IsFiniteSet(g)
        BY <2>0, <4>1
      <4>3. Cardinality(X) <= Cardinality(g) /\ (Cardinality(X) = Cardinality(g) => X = g)
        BY <3>2, <4>2, FS_Subset
      <4>4. Cardinality(X) \in Nat /\ Cardinality(g) \in Nat
        BY <2>0, FS_CardinalityType
      <4>5. X = g
        BY <4>2, <4>3, <4>4
      <4> QED BY <2>3, <4>5
    <3>3. good(k + 1)
      <4>1. \A X \in run[k + 1] : \E i \in 1..k + 1 : q[i] = X
        BY <2>0, <3>1
      <4>2. \A i \in 1..k + 1 : \E Y \in run[k + 1] : q[i] \subseteq Y
        BY <2>0, <3>1
      <4>3. \A X, Y \in run[k + 1] : X \subseteq Y => X = Y
        <5> HIDE DEF g
        <5> QED BY <2>0, <2>3, <3>1, <3>2
      <4> QED BY <4>1, <4>2, <4>3
    <3> QED BY <2>0, <3>3
  <2> QED BY <2>2, <2>3
<1>4. good(n)
  <2>1. 0..n \subseteq done
    <3> HIDE DEF done
    <3> QED BY <1>2, <1>3, Upward
  <2>2. n \in 0..n
    OBVIOUS
  <2>3. \A k \in done : good(k)
    <3> HIDE DEF good
    <3> QED OBVIOUS
  <2> HIDE DEF done, good
  <2> QED BY <2>1, <2>2, <2>3
<1>5. run[n] \subseteq V /\ \A X \in V : \E Y \in run[n] : X \subseteq Y
  BY <1>4
<1>6. run[n] = MaximalOf(V)
  <2>1. ASSUME NEW X \in run[n] PROVE X \in MaximalOf(V)
    <3>1. ASSUME NEW Y \in V, X \subseteq Y PROVE X = Y
      <4>1. PICK Z \in run[n] : Y \subseteq Z
        BY <1>5
      <4>2. X = Z
        BY <1>4, <3>1, <4>1
      <4> QED BY <3>1, <4>1, <4>2
    <3> QED BY <1>5, <3>1 DEF MaximalOf
  <2>2. ASSUME NEW X \in MaximalOf(V) PROVE X \in run[n]
    <3>1. X \in V /\ ~\E Y \in V : X \subseteq Y /\ X # Y
      BY DEF MaximalOf
    <3>2. PICK Y \in run[n] : X \subseteq Y
      BY <1>5, <3>1
    <3>3. X = Y
      BY <1>5, <3>1, <3>2
    <3> QED BY <3>2, <3>3
  <2> QED BY <2>1, <2>2
<1> QED BY <1>1, <1>5, <1>6

LEMMA ClassIs ==
  ASSUME RelationOK, Built, NEW g
  PROVE  g \in EqvClasses <=> \E c \in Cols : g \in plis[c]
<1>1. DOMAIN plis = Cols
  BY DEF RelationOK
<1> QED BY <1>1 DEF EqvClasses, Range

LEMMA ClassesFinite ==
  ASSUME RelationOK, Built
  PROVE  IsFiniteSet(EqvClasses) /\ \A g \in EqvClasses : g \subseteq Rows /\ g \subseteq Nat /\ IsFiniteSet(g)
<1>1. ASSUME NEW g \in EqvClasses PROVE g \in SUBSET Rows
  <2>0. PICK c \in Cols : g \in plis[c]
    BY ClassIs
  <2>1. PICK d \in Cols : g \in Partition({d})
    BY <2>0 DEF RelationOK
  <2> QED BY <2>1 DEF Partition, Clusters, Together
<1>2. \A g \in EqvClasses : g \subseteq Rows /\ g \subseteq Nat /\ IsFiniteSet(g)
  BY <1>1, RowsAreNumbers
<1>3. IsFiniteSet(SUBSET Rows)
  BY RowsFinite, FS_SUBSET
<1>4. EqvClasses \subseteq SUBSET Rows
  BY <1>1
<1> QED BY <1>2, <1>3, <1>4, FS_Subset

LEMMA RepresentationIs ==
  ASSUME RelationOK, Built
  PROVE  /\ McUsingHandlePartition = MaximalOf(EqvClasses)
         /\ \A g \in EqvClasses : \E h \in McUsingHandlePartition : g \subseteq h
<1> DEFINE n == Cardinality(EqvClasses)
           up == Ordered(EqvClasses, SizeLess)
           down == Reverse(up)
<1>1. IsFiniteSet(EqvClasses) /\ \A g \in EqvClasses : g \subseteq Nat /\ IsFiniteSet(g)
  BY ClassesFinite
<1>2. /\ n \in Nat /\ up \in [1..n -> EqvClasses]
      /\ \A X \in EqvClasses : \E i \in 1..n : up[i] = X
      /\ \A i, j \in 1..n : i < j => Cardinality(up[i]) <= Cardinality(up[j]) /\ up[i] # up[j]
  BY <1>1, OrderedBySize
<1>3. McUsingHandlePartition = HandledAll(EqvClasses, down)
  BY DEF McUsingHandlePartition, HandledAll, Handled
<1> HIDE DEF up, n
<1>4. Len(up) = n
  BY <1>2
<1>5. down = [i \in 1..n |-> up[(n - i) + 1]]
  BY <1>4 DEF Reverse
<1> HIDE DEF down
<1>6. \A i \in 1..n : (n - i) + 1 \in 1..n /\ down[i] = up[(n - i) + 1]
  BY <1>2, <1>5
<1>7. down \in [1..n -> EqvClasses]
  BY <1>2, <1>5, <1>6
<1>8. ASSUME NEW X \in EqvClasses PROVE \E i \in 1..n : down[i] = X
  <2>1. PICK i \in 1..n : up[i] = X
    BY <1>2
  <2>2. (n - i) + 1 \in 1..n /\ (n - ((n - i) + 1)) + 1 = i
    BY <1>2
  <2> QED BY <1>6, <2>1, <2>2
<1>9. ASSUME NEW i \in 1..n, NEW j \in 1..n, i < j PROVE Cardinality(down[j]) <= Cardinality(down[i])
  <2>1. (n - j) + 1 < (n - i) + 1
    BY <1>2, <1>9
  <2> QED BY <1>2, <1>6, <2>1
<1>10. HandledAll(EqvClasses, down) = MaximalOf(EqvClasses)
       /\ \A X \in EqvClasses : \E Y \in HandledAll(EqvClasses, down) : X \subseteq Y
  BY <1>1, <1>2, <1>7, <1>8, <1>9, HandledAreMaximal
<1> QED BY <1>3, <1>10

-----------------------------------------------------------------------------
(* Agree sets. *)

LEMMA SharedCluster ==
  ASSUME RelationOK, Built, NEW c \in Cols, NEW i \in Rows, NEW j \in Rows, i # j
  PROVE  (\E g \in plis[c] : i \in g /\ j \in g) <=> AgreeOn({c}, i, j)
<1>0. plis[c] = Partition({c})
  BY DEF RelationOK
<1>1. ASSUME NEW g \in Partition({c}), i \in g, j \in g PROVE AgreeOn({c}, i, j)
  <2>1. PICK r \in Rows : g = Together({c}, r)
    BY PartitionMember
  <2>2. j \in Together({c}, i)
    BY <1>1, <2>1, TogetherClass
  <2> QED BY <2>2 DEF Together
<1>2. ASSUME AgreeOn({c}, i, j) PROVE \E g \in Partition({c}) : i \in g /\ j \in g
  <2>1. ~Alone({c}, i)
    BY <1>2 DEF Alone
  <2>2. Together({c}, i) \in Partition({c})
    BY <2>1, PartitionMember
  <2>3. i \in Together({c}, i) /\ j \in Together({c}, i)
    BY <1>2 DEF Together
  <2> QED BY <2>2, <2>3
<1> QED BY <1>0, <1>1, <1>2

\* Two rows have the same values in the probing tables where they agree.
LEMMA GetAgreeSetIs ==
  ASSUME RelationOK, Built, NEW i \in Rows, NEW j \in Rows, i # j
  PROVE  GetAgreeSet(i, j) = AgreeSet(i, j)
<1>1. ASSUME NEW c \in Cols PROVE c \in GetAgreeSet(i, j) <=> AgreeOn({c}, i, j)
  <2>1. /\ Tuple(i)[c] = IF Alone({c}, i) THEN Singleton ELSE Together({c}, i)
        /\ Tuple(j)[c] = IF Alone({c}, j) THEN Singleton ELSE Together({c}, j)
    <3>1. Tuple(i)[c] = ProbingTable(Partition({c}))[i] /\ Tuple(j)[c] = ProbingTable(Partition({c}))[j]
      BY DEF Tuple, RelationOK
    <3> QED BY <3>1, TableValue
  <2>2. c \in GetAgreeSet(i, j) <=> Tuple(i)[c] # Singleton /\ Tuple(i)[c] = Tuple(j)[c]
    BY DEF GetAgreeSet
  <2>3. ASSUME AgreeOn({c}, i, j) PROVE c \in GetAgreeSet(i, j)
    <3>1. ~Alone({c}, i) /\ ~Alone({c}, j)
      BY <2>3, AgreeSymmetric DEF Alone
    <3>2. j \in Together({c}, i)
      BY <2>3 DEF Together
    <3>3. Together({c}, i) = Together({c}, j)
      BY <3>2, TogetherClass
    <3> QED BY <2>1, <2>2, <3>1, <3>3, TogetherNotEmpty
  <2>4. ASSUME c \in GetAgreeSet(i, j) PROVE AgreeOn({c}, i, j)
    <3>1. Together({c}, i) = Together({c}, j)
      BY <2>1, <2>2, <2>4
    <3>2. j \in Together({c}, i)
      BY <3>1, TogetherNotEmpty
    <3> QED BY <3>2 DEF Together
  <2> QED BY <2>3, <2>4
<1>2. GetAgreeSet(i, j) \subseteq Cols
  BY DEF GetAgreeSet
<1> QED BY <1>1, <1>2 DEF AgreeSet

LEMMA IdsMeet ==
  ASSUME RelationOK, Built, NEW i \in Rows, NEW j \in Rows, i # j
  PROVE  IntersectIds(IdentifierSet(i), IdentifierSet(j)) = AgreeSet(i, j)
<1> DEFINE ids == IdentifierSet(i) \cap IdentifierSet(j)
<1>1. ASSUME NEW c, c \in IntersectIds(IdentifierSet(i), IdentifierSet(j)) PROVE c \in AgreeSet(i, j)
  <2>1. PICK id \in ids : c = id[1]
    BY <1>1 DEF IntersectIds
  <2>2. id[1] \in Cols /\ id[2] \in plis[id[1]] /\ i \in id[2] /\ j \in id[2]
    BY <2>1 DEF IdentifierSet
  <2>3. AgreeOn({c}, i, j)
    BY <2>1, <2>2, SharedCluster
  <2> QED BY <2>1, <2>2, <2>3 DEF AgreeSet
<1>2. ASSUME NEW c \in AgreeSet(i, j) PROVE c \in IntersectIds(IdentifierSet(i), IdentifierSet(j))
  <2>1. c \in Cols /\ AgreeOn({c}, i, j)
    BY DEF AgreeSet
  <2>2. PICK g \in plis[c] : i \in g /\ j \in g
    BY <2>1, SharedCluster
  <2>3. g \in EqvClasses
    BY <2>1, ClassIs
  <2>4. <<c, g>> \in ids
    BY <2>1, <2>2, <2>3 DEF IdentifierSet
  <2>5. c = <<c, g>>[1]
    OBVIOUS
  <2> QED BY <2>4, <2>5 DEF IntersectIds
<1> QED BY <1>1, <1>2

\* Classes of which each class is in one.
Represents(mc) == mc \subseteq EqvClasses /\ \A g \in EqvClasses : \E h \in mc : g \subseteq h

\* Two rows are in one of them together when they agree on some column.
LEMMA AgreeTogether ==
  ASSUME RelationOK, Built, NEW mc, Represents(mc), NEW i \in Rows, NEW j \in Rows, i # j
  PROVE  (\E g \in mc : i \in g /\ j \in g) <=> AgreeSet(i, j) # {}
<1>1. ASSUME NEW g \in mc, i \in g, j \in g PROVE AgreeSet(i, j) # {}
  <2>1. PICK c \in Cols : g \in plis[c]
    BY <1>1, ClassIs DEF Represents
  <2>2. AgreeOn({c}, i, j)
    BY <1>1, <2>1, SharedCluster
  <2> QED BY <2>2 DEF AgreeSet
<1>2. ASSUME AgreeSet(i, j) # {} PROVE \E g \in mc : i \in g /\ j \in g
  <2>1. PICK c \in Cols : AgreeOn({c}, i, j)
    BY <1>2 DEF AgreeSet
  <2>2. PICK g \in plis[c] : i \in g /\ j \in g
    BY <2>1, SharedCluster
  <2>3. g \in EqvClasses
    BY ClassIs
  <2> QED BY <2>2, <2>3 DEF Represents
<1> QED BY <1>1, <1>2

LEMMA PairsInIs ==
  ASSUME RelationOK, Built, NEW mc, Represents(mc), NEW p
  PROVE  p \in PairsIn(mc) <=> p \in Rows \X Rows /\ p[1] < p[2] /\ AgreeSet(p[1], p[2]) # {}
<1>1. ASSUME p \in Rows \X Rows, p[1] < p[2]
      PROVE  (\E g \in mc : {p[1], p[2]} \subseteq g) <=> AgreeSet(p[1], p[2]) # {}
  <2>1. p[1] \in Rows /\ p[2] \in Rows /\ p[1] # p[2]
    BY <1>1, RowsAreNumbers
  <2>2. (\E g \in mc : p[1] \in g /\ p[2] \in g) <=> AgreeSet(p[1], p[2]) # {}
    BY <2>1, AgreeTogether
  <2> QED BY <2>2
<1> QED BY <1>1 DEF PairsIn

LEMMA AgreeSetSymmetric ==
  ASSUME NEW i, NEW j
  PROVE  AgreeSet(i, j) = AgreeSet(j, i)
BY AgreeSymmetric DEF AgreeSet


\* The agree sets of the pairs that are in a cluster together are all but perhaps the empty
\* one, whatever generates them.
LEMMA AllGenerated ==
  ASSUME RelationOK, Built, NEW mc, Represents(mc), NEW generated,
         \A S \in generated : S = {} \/ \E p \in PairsIn(mc) : S = AgreeSet(p[1], p[2]),
         \A p \in PairsIn(mc) : AgreeSet(p[1], p[2]) \in generated
  PROVE  GenAgreeSets(generated) = AgreeSets \cup {{}}
<1>1. ASSUME NEW p \in PairsIn(mc) PROVE AgreeSet(p[1], p[2]) \in AgreeSets
  <2>1. p \in Rows \X Rows /\ p[1] < p[2]
    BY PairsInIs
  <2> QED BY <2>1 DEF AgreeSets
<1>2. ASSUME NEW S \in AgreeSets, S # {} PROVE S \in generated
  <2>1. PICK p \in Rows \X Rows : p[1] < p[2] /\ S = AgreeSet(p[1], p[2])
    BY DEF AgreeSets
  <2>2. p \in PairsIn(mc)
    BY <1>2, <2>1, PairsInIs
  <2> QED BY <2>1, <2>2
<1> QED BY <1>1, <1>2 DEF GenAgreeSets

\* The rows of a pair are in classes of mc, and are two.
LEMMA PairsAreRows ==
  ASSUME RelationOK, Built, NEW mc, Represents(mc)
  PROVE  /\ UNION mc \subseteq Rows
         /\ \A p \in PairsIn(mc) : p[1] \in UNION mc /\ p[2] \in UNION mc /\ p[1] # p[2]
<1>1. UNION mc \subseteq Rows
  BY ClassesFinite DEF Represents
<1>2. ASSUME NEW p \in PairsIn(mc) PROVE p[1] \in UNION mc /\ p[2] \in UNION mc /\ p[1] # p[2]
  <2>1. p \in Rows \X Rows /\ p[1] < p[2] /\ \E g \in mc : {p[1], p[2]} \subseteq g
    BY DEF PairsIn
  <2> QED BY <2>1, RowsAreNumbers
<1> QED BY <1>1, <1>2

LEMMA GetAgreeSetComplete ==
  ASSUME RelationOK, Built, NEW mc, Represents(mc)
  PROVE  GenAgreeSets(AsUsingMcAndGetAgreeSets(mc)) = AgreeSets \cup {{}}
<1>1. ASSUME NEW p \in PairsIn(mc) PROVE GetAgreeSet(p[1], p[2]) = AgreeSet(p[1], p[2])
  BY PairsAreRows, GetAgreeSetIs
<1> QED BY <1>1, AllGenerated DEF AsUsingMcAndGetAgreeSets

LEMMA IdentifierSetsComplete ==
  ASSUME RelationOK, Built, NEW mc, Represents(mc)
  PROVE  /\ GenAgreeSets(AsUsingMapOfIdSets(mc)) = AgreeSets \cup {{}}
         /\ GenAgreeSets(AsUsingVectorOfIdSets(mc)) = AgreeSets \cup {{}}
<1> DEFINE ids == [r \in UNION mc |-> IdentifierSet(r)]
           pairs == {q \in (UNION mc) \X (UNION mc) : q[1] # q[2]}
<1>1. ASSUME NEW i \in UNION mc, NEW j \in UNION mc, i # j
      PROVE  IntersectIds(ids[i], ids[j]) = AgreeSet(i, j)
  BY <1>1, PairsAreRows, IdsMeet
<1> HIDE DEF ids
<1>2. AsUsingMapOfIdSets(mc) = {IntersectIds(ids[p[1]], ids[p[2]]) : p \in PairsIn(mc)}
  BY DEF AsUsingMapOfIdSets, ids
<1>3. AsUsingVectorOfIdSets(mc) = {IntersectIds(ids[q[1]], ids[q[2]]) : q \in pairs}
  BY DEF AsUsingVectorOfIdSets, ids
<1>4. ASSUME NEW p \in PairsIn(mc) PROVE IntersectIds(ids[p[1]], ids[p[2]]) = AgreeSet(p[1], p[2])
  BY <1>1, PairsAreRows
<1>5. ASSUME NEW q \in pairs, AgreeSet(q[1], q[2]) # {}
      PROVE  \E p \in PairsIn(mc) : AgreeSet(q[1], q[2]) = AgreeSet(p[1], p[2])
  <2>1. q[1] \in Rows /\ q[2] \in Rows /\ q[1] # q[2] /\ q[1] \in Nat /\ q[2] \in Nat
    BY PairsAreRows, RowsAreNumbers
  <2>2. CASE q[1] < q[2]
    <3>1. <<q[1], q[2]>> \in PairsIn(mc)
      BY <1>5, <2>1, <2>2, PairsInIs
    <3> QED BY <3>1
  <2>3. CASE q[2] < q[1]
    <3>1. AgreeSet(q[2], q[1]) = AgreeSet(q[1], q[2])
      BY AgreeSetSymmetric
    <3>2. <<q[2], q[1]>> \in PairsIn(mc)
      BY <1>5, <2>1, <2>3, <3>1, PairsInIs
    <3> QED BY <3>1, <3>2
  <2> QED BY <2>1, <2>2, <2>3
<1>6. ASSUME NEW q \in pairs PROVE IntersectIds(ids[q[1]], ids[q[2]]) = AgreeSet(q[1], q[2])
  BY <1>1
<1>7. ASSUME NEW p \in PairsIn(mc) PROVE AgreeSet(p[1], p[2]) \in AsUsingVectorOfIdSets(mc)
  <2>1. p \in pairs
    BY PairsAreRows DEF PairsIn
  <2> HIDE DEF pairs
  <2> QED BY <1>3, <1>6, <2>1
<1> HIDE DEF pairs
<1>8. GenAgreeSets(AsUsingMapOfIdSets(mc)) = AgreeSets \cup {{}}
  BY <1>2, <1>4, AllGenerated
<1>9. GenAgreeSets(AsUsingVectorOfIdSets(mc)) = AgreeSets \cup {{}}
  BY <1>3, <1>5, <1>6, <1>7, AllGenerated
<1> QED BY <1>8, <1>9

LEMMA AgreeSetsGenerated == RelationOK => AgreeSetsComplete
<1> SUFFICES ASSUME RelationOK, Built PROVE AgreeSetsComplete
  BY DEF AgreeSetsComplete
<1> DEFINE mc == McUsingHandlePartition
<1>1. mc = MaximalOf(EqvClasses) /\ Represents(mc)
  <2>1. MaximalOf(EqvClasses) \subseteq EqvClasses
    BY DEF MaximalOf
  <2> QED BY <2>1, RepresentationIs DEF Represents
<1>2. Represents(EqvClasses)
  BY DEF Represents
<1>3. AsUsingGetAgreeSets = AsUsingMcAndGetAgreeSets(EqvClasses)
  BY DEF AsUsingGetAgreeSets, AsUsingMcAndGetAgreeSets
<1> HIDE DEF mc
<1>4. GenAgreeSets(AsUsingGetAgreeSets) = AgreeSets \cup {{}}
  BY <1>2, <1>3, GetAgreeSetComplete
<1>5. GenAgreeSets(AsUsingMcAndGetAgreeSets(mc)) = AgreeSets \cup {{}}
  BY <1>1, GetAgreeSetComplete
<1>6. /\ GenAgreeSets(AsUsingMapOfIdSets(mc)) = AgreeSets \cup {{}}
      /\ GenAgreeSets(AsUsingVectorOfIdSets(mc)) = AgreeSets \cup {{}}
  BY <1>1, IdentifierSetsComplete
<1> QED BY <1>1, <1>4, <1>5, <1>6 DEF AgreeSetsComplete, mc

\* The maximal representation that HandlePartition makes has the maximal clusters of every
\* relation, and each of the four ways to generate the agree sets gives those of all pairs of
\* rows, the empty set apart.
THEOREM AgreeSetsFound == MinerSpec => []AgreeSetsComplete
<1>1. RelationOK => AgreeSetsComplete
  BY AgreeSetsGenerated
<1> QED BY <1>1, RelationRead, PTL

=============================================================================
