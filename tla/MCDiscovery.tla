---------------------------- MODULE MCDiscovery ----------------------------
(***************************************************************************)
(* The discovery algorithms, and the miner of typos, over all small        *)
(* relations, for TLC.                                                     *)
(***************************************************************************)
EXTENDS Hyfd, DifferenceSets, NegativeCover, TypoMiner

CONSTANT Records   \* Records[w]: the rows a data set of w columns may have

\* Rows are taken up to renaming the fields of a column: its k-th new field is k.
Canonical(row) ==
  \A c \in DOMAIN row : row[c] # Empty =>
    row[c] <= 1 + Cardinality({columns[c][r] : r \in Rows} \ {NullId})

\* Four columns: the rows are binary, without empty fields, and in ascending order;
\* the first may come twice.
WideCols == 4
Ascending(row) ==
  width = WideCols /\ NumRows > 0 =>
    LET last == {c \in Cols : columns[c][NumRows] = 2}
        new == {c \in Cols : row[c] = 2}
    IN  BitsetLess(last, new) \/ (NumRows = 1 /\ new = last)

DiscoveryInit == RelationInit /\ (width = WideCols => nullEqNull) /\ FitInit

\* Lines of another length, empty, short or too long, are in narrow tables of few rows.
NarrowCols == 2
FewRows == 2
IrregularLines == IF width > NarrowCols THEN {} ELSE {[c \in 1..n |-> 1] : n \in 0..(width + 1) \ {width}}
Regular == fit = "lines" /\ Len(tuples) = NumRows

\* What reads into columns and what reads into tuples are given the same lines.
ReadLine(line) ==
  /\ ReadRow(line) \/ ReadEmptyLine(line) \/ SkipRow(line)
  /\ FitFd(line)

DiscoveryNext ==
  \/ \E row \in Records[width] : Canonical(row) /\ Ascending(row) /\ (Regular \/ NumRows < FewRows) /\ ReadLine(row)
  \/ \E line \in IrregularLines : NumRows <= FewRows /\ ReadLine(line)
  \/ NumRows > 0 /\ BuildPlis /\ UNCHANGED fitVars

DiscoverySpec == DiscoveryInit /\ [][DiscoveryNext]_<<relationVars, fitVars>>

\* Every relation of at most MaxRows rows over these fields; of three columns, the
\* last has no empty field.
SmallMaxRows == <<3, 4, 3, 4>>
SmallRows == <<[1..1 -> 0..3], [1..2 -> 0..4], {row \in [1..3 -> 0..3] : row[3] # Empty}, [1..4 -> {1, 2}]>>

\* The relations of five rows taken from four.
HyfdMaxRows == <<0, 0, 0, 5>>
HyfdRows == <<{}, {}, {}, {<<1, 1, 1, 1>>, <<1, 1, 1, 2>>, <<2, 1, 2, 2>>, <<1, 2, 2, 2>>}>>
=============================================================================
