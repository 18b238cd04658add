---------------------------- MODULE RelationData ----------------------------
(***************************************************************************)
(* The relation the discovery algorithms work on: the rows of a data set   *)
(* read one by one into columns of value identifiers                       *)
(* (ColumnLayoutRelationData::CreateFrom), the position list indexes built *)
(* from them (util::PositionListIndex), and what it means for a functional *)
(* dependency to hold.                                                     *)
(***************************************************************************)
EXTENDS Integers, Sequences, FiniteSetsExt, SequencesExt, TLC

CONSTANTS
  Widths,      \* the numbers of columns a data set may have
  Empty,       \* the text of an empty field
  MaxRows      \* bound: MaxRows[w] rows are read into a relation of w columns

ASSUME WidthsAssumption == Widths \subseteq Nat \ {0}

VARIABLES
  width,       \* num_columns
  nullEqNull,  \* is_null_eq_null
  dictionary,  \* value_dictionary: the identifier of each field met so far
  columns,     \* column_vectors
  plis         \* the position list index of each column; none until all rows are read

relationVars == <<width, nullEqNull, dictionary, columns, plis>>

NullId == -1

Cols == 1..width
NumRows == Len(columns[1])
Rows == 1..NumRows
Built == plis # <<>>

RelationInit ==
  /\ width \in Widths
  /\ nullEqNull \in BOOLEAN
  /\ dictionary = <<>>
  /\ columns = [c \in Cols |-> <<>>]
  /\ plis = <<>>

\* The dictionary is shared by all columns; identifiers are given in order of
\* appearance, from 1.
Learn(known, field) ==
  IF field = Empty \/ field \in DOMAIN known THEN known
  ELSE known @@ (field :> Cardinality(DOMAIN known) + 1)

Identifier(known, field) == IF field = Empty THEN NullId ELSE known[field]

\* A row of the relation's width is appended, column by column.
AppendRow(row) ==
  /\ ~Built
  /\ NumRows < MaxRows[width]
  /\ dictionary' = FoldLeft(Learn, dictionary, row)
  /\ columns' = [c \in Cols |-> Append(columns[c], Identifier(dictionary', row[c]))]
  /\ UNCHANGED <<width, nullEqNull, plis>>

ReadRow(row) == Len(row) = width /\ AppendRow(row)

\* An empty line of a table of one column is a row with an empty field.
ReadEmptyLine(row) == Len(row) = 0 /\ width = 1 /\ AppendRow(<<Empty>>)

\* Rows of another length are skipped.
SkipRow(row) == ~Built /\ Len(row) # width /\ ~(Len(row) = 0 /\ width = 1) /\ UNCHANGED relationVars

\* The members of S in ascending order.
Ordered(S, less(_, _)) ==
  [i \in 1..Cardinality(S) |-> CHOOSE x \in S : Cardinality({y \in S : less(y, x)}) = i - 1]

-----------------------------------------------------------------------------
(* Position list indexes: clusters of at least two rows. *)

Clusters(groups) == {g \in groups : Cardinality(g) > 1}

\* The rows with each identifier; nulls make no cluster unless they are equal.
CreateFor(c) ==
  Clusters({{r \in Rows : columns[c][r] = v} :
             v \in Range(columns[c]) \ (IF nullEqNull THEN {} ELSE {NullId})})

\* All rows are read: the indexes of the columns are built.
BuildPlis ==
  /\ ~Built
  /\ plis' = [c \in Cols |-> CreateFor(c)]
  /\ UNCHANGED <<width, nullEqNull, dictionary, columns>>

RelationTypeOK ==
  /\ width \in Widths
  /\ IsInjective(dictionary)
  /\ Range(dictionary) = 1..Cardinality(DOMAIN dictionary)
  /\ \A c \in Cols : Len(columns[c]) = NumRows /\ Range(columns[c]) \subseteq {NullId} \cup Range(dictionary)
  /\ Built => plis \in [Cols -> SUBSET SUBSET Rows]

\* The cluster each row is in; none for a row that is alone.
Singleton == {}
ProbingTable(pli) == [r \in Rows |-> UNION {g \in pli : r \in g}]

\* Mutant of Probe: rows that are alone in the other index fall together.
ProbeSingletons(pli, table) ==
  Clusters(UNION {{{r \in g : table[r] = v} : v \in {table[r] : r \in g}} : g \in pli})

\* Each cluster is split by the values the probing table has for its rows.
Probe(pli, table) ==
  Clusters(UNION {{{r \in g : table[r] = v} : v \in {table[r] : r \in g} \ {Singleton}} : g \in pli})

PliSize(pli) == Cardinality(UNION pli)

\* The smaller index is probed against the larger one.
Intersect(p, q) ==
  IF PliSize(p) > PliSize(q) THEN Probe(q, ProbingTable(p)) ELSE Probe(p, ProbingTable(q))

\* Clusters, counting every row that is alone.
NumCluster(pli) == Cardinality(pli) + NumRows - PliSize(pli)

\* The pairs of rows that agree.
Nep(pli) == MapThenSumSet(LAMBDA g : (Cardinality(g) * (Cardinality(g) - 1)) \div 2, pli)
NumTuplePairs == (NumRows * (NumRows - 1)) \div 2

IsConstant(pli) == NumRows <= 1 \/ (Cardinality(pli) = 1 /\ PliSize(pli) = NumRows)

PliForEmpty == Clusters({Rows})

\* The index of a set of columns, intersected from the first column up.
PliOf(X) ==
  LET upTo[c \in Cols] ==
        IF c <= Min(X) THEN plis[Min(X)]
        ELSE IF c \in X THEN Intersect(upTo[c - 1], plis[c]) ELSE upTo[c - 1]
  IN  IF X = {} THEN PliForEmpty ELSE upTo[width]

\* GetTuple: the cluster of row r in each column, Singleton where it is alone.
Tuple(r) == [c \in Cols |-> ProbingTable(plis[c])[r]]

\* ProbeAll: split by the clusters of all the probing columns at once, leaving
\* out rows that are alone in one of them.
ProbeAll(pli, X) ==
  Clusters(UNION {{{r \in g : /\ \A c \in X : Tuple(r)[c] = Tuple(s)[c] /\ Tuple(r)[c] # Singleton} : s \in g} : g \in pli})

-----------------------------------------------------------------------------
(* What is looked for. *)

AgreeOn(X, i, j) ==
  \A c \in X : columns[c][i] = columns[c][j] /\ (nullEqNull \/ columns[c][i] # NullId)

\* The rows by their values in columns X, without those that are alone.
Together(X, r) == {s \in Rows : s = r \/ AgreeOn(X, r, s)}
Partition(X) == Clusters({Together(X, r) : r \in Rows})

\* The columns two rows agree on.
AgreeSet(i, j) == {c \in Cols : AgreeOn({c}, i, j)}
AgreeSets == {AgreeSet(p[1], p[2]) : p \in {q \in Rows \X Rows : q[1] < q[2]}}

\* The pairs of rows that violate the dependency X -> A.
ViolatingPairs(X, A) ==
  {p \in Rows \X Rows : p[1] < p[2] /\ AgreeOn(X, p[1], p[2]) /\ ~AgreeOn({A}, p[1], p[2])}

HoldsBut(e, X, A) == Cardinality(ViolatingPairs(X, A)) <= e

\* The non-trivial dependencies with minimal left-hand sides.
MinimalIn(fds) == {fd \in fds : ~\E other \in fds : other[2] = fd[2] /\ other[1] \subseteq fd[1] /\ other # fd}
AllFds(e) == {fd \in (SUBSET Cols) \X Cols : fd[2] \notin fd[1] /\ HoldsBut(e, fd[1], fd[2])}
MinimalFds == MinimalIn(AllFds(0))

\* The same, of the agree sets of all pairs of rows.
MinimalFdsOf(agreeSets) ==
  MinimalIn({fd \in (SUBSET Cols) \X Cols :
               fd[2] \notin fd[1] /\ \A S \in agreeSets : fd[1] \subseteq S => fd[2] \in S})

-----------------------------------------------------------------------------

\* The index of a set of columns, intersected column by column with the smaller
\* index probed against the larger, is the partition of the rows by their values
\* in all the columns, without the rows that are alone (PositionListIndex::Intersect).
PliIsPartition == Built => \A X \in SUBSET Cols : PliOf(X) = Partition(X)
=============================================================================
