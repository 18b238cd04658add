---------------------------- MODULE NegativeCover ----------------------------
(***************************************************************************)
(* Discovery from the negative cover: FDep, with its prefix trees, and Aid *)
(* (AID-FD), with its search tree.  Both read the data set for themselves  *)
(* and compare hashes of the texts, whatever is_null_eq_null says; that     *)
(* two texts have one hash is left out.                                     *)
(***************************************************************************)
EXTENDS LatticeSearch

VARIABLES
  tuples,   \* tuples_, with the texts for their hashes
  fit       \* how reading goes: "lines", "ended" or "undefined"

fitVars == <<tuples, fit>>

FitInit == tuples = <<>> /\ fit = "lines"

\* A line becomes a tuple of the table's width; what a longer line has more is left.
TakeLine(line) ==
  /\ fit = "lines" /\ Len(line) >= width
  /\ Len(tuples) < MaxRows[width]
  /\ tuples' = Append(tuples, [c \in Cols |-> line[c]])
  /\ UNCHANGED fit

\* The first empty line ends the reading.
StopAtEmptyLine(line) ==
  /\ fit = "lines" /\ line = <<>>
  /\ fit' = "ended"
  /\ UNCHANGED tuples

\* next_line[i] is read past the end of a shorter line: anything may follow.
ReadPastEnd(line) ==
  /\ fit = "lines" /\ Len(line) \in 1..(width - 1)
  /\ fit' = "undefined"
  /\ UNCHANGED tuples

\* Lines after the one that ended the reading are not asked for.
FitFd(line) ==
  \/ TakeLine(line) \/ StopAtEmptyLine(line) \/ ReadPastEnd(line)
  \/ fit # "lines" /\ UNCHANGED fitVars

\* The columns in which two tuples have the same text.
EqualTexts(i, j) == {c \in Cols : tuples[i][c] = tuples[j][c]}

\* What all pairs of tuples agree on.
TupleAgreeSets == {EqualTexts(p[1], p[2]) : p \in {q \in (DOMAIN tuples) \X (DOMAIN tuples) : q[1] < q[2]}}

-----------------------------------------------------------------------------
(* FDep.  A tree is the dependencies it has (is_fd_) and the marks of its   *)
(* nodes (rhs_attributes_); a node is the set of columns on the path to it. *)

PathOf(X) == {X \cap 1..c : c \in X} \cup {{}}
NoFds == [fds |-> {}, marks |-> {}]
MostGeneral == [fds |-> {{}} \X Cols, marks |-> {{}} \X Cols]

AddFunctionalDependency(tree, X, a) ==
  [fds |-> tree.fds \cup {<<X, a>>}, marks |-> tree.marks \cup (PathOf(X) \X {a})]

\* Dependencies are found along marked nodes; the root is not looked at.
Reached(tree, a) ==
  {X \in {fd[1] : fd \in tree.fds} : <<X, a>> \in tree.fds /\ (PathOf(X) \ {{}}) \X {a} \subseteq tree.marks}
\* Mutant of ContainsGeneralization: the set itself is looked for.
ContainsItself(tree, X, a) == X \in Reached(tree, a)

ContainsGeneralization(tree, X, a) == \E Y \in Reached(tree, a) : Y \subseteq X
GetSpecialization(tree, X, a) == <<{}, a>> \in tree.marks /\ \E Y \in Reached(tree, a) : X \subseteq Y

\* The order of a walk: lower columns first, and a node before those below it, or after.
Prefix(X, Y) == X \subseteq Y /\ X = Y \cap 1..Max(X \cup {0})
Left(X, Y) == ~Prefix(X, Y) /\ ~Prefix(Y, X) /\ Min((X \ Y) \cup (Y \ X)) \in X
PreOrder(X, Y) == X # Y /\ (Prefix(X, Y) \/ Left(X, Y))
PostOrder(X, Y) == X # Y /\ (Prefix(Y, X) \/ Left(X, Y))
PreOrderWalk(fds) == Ordered(fds, LAMBDA f, g : PreOrder(f[1], g[1]) \/ (f[1] = g[1] /\ f[2] < g[2]))
PostOrderWalk(fds) == Ordered(fds, LAMBDA f, g : PostOrder(f[1], g[1]) \/ (f[1] = g[1] /\ f[2] < g[2]))

\* The first generalisation goes, with its mark, and with the mark of each node
\* above it that has no marked node below.
Unmark(tree, X, a) ==
  LET up == Reverse(SetToSortSeq(PathOf(X) \ {X}, LAMBDA P, Q : Cardinality(P) < Cardinality(Q)))
      final(marks, P) == ~\E c \in Cols : (\A d \in P : d < c) /\ <<P \cup {c}, a>> \in marks
  IN  [fds |-> tree.fds \ {<<X, a>>},
       marks |-> FoldLeft(LAMBDA marks, P : IF final(marks, P) THEN marks \ {<<P, a>>} ELSE marks,
                          tree.marks \ {<<X, a>>}, up)]

\* Every generalisation of an invalid dependency gives way to its minimal
\* extensions by one column, the last column first.
RECURSIVE SpecializePositiveCover(_, _, _)
SpecializePositiveCover(tree, X, a) ==
  LET generals == {Y \in Reached(tree, a) : Y \subseteq X}
      Z == CHOOSE Y \in generals : \A W \in generals \ {Y} : PreOrder(Y, W)
      extend(t, c) == IF ContainsGeneralization(t, Z \cup {c}, a) THEN t ELSE AddFunctionalDependency(t, Z \cup {c}, a)
  IN  IF generals = {} THEN tree
      ELSE SpecializePositiveCover(
             FoldLeft(extend, Unmark(tree, Z, a), Reverse(SetToSortSeq(Cols \ (X \cup {a}), <))), X, a)

\* The agree sets of all pairs of rows violate the dependencies on the columns
\* outside of them; FilterSpecializations keeps those with no specialisation.
BuildNegativeCover ==
  LET violated == {fd \in TupleAgreeSets \X Cols : fd[2] \notin fd[1]}
  IN  FoldLeft(LAMBDA tree, fd : IF GetSpecialization(tree, fd[1], fd[2]) THEN tree
                                 ELSE AddFunctionalDependency(tree, fd[1], fd[2]),
               NoFds, PostOrderWalk(violated))

\* CalculatePositiveCover walks the negative cover from the root down.
FDep ==
  FoldLeft(LAMBDA tree, fd : SpecializePositiveCover(tree, fd[1], fd[2]), MostGeneral,
           PreOrderWalk(BuildNegativeCover.fds)).fds

-----------------------------------------------------------------------------
(* SearchTree: a binary trie of sets.  A leaf is a set; an inner node      *)
(* decides by one column, bit, and keeps the union and the intersection of *)
(* the sets below it.                                                      *)

NoTree == [bit |-> -1]
Leaf(X) == [bit |-> 0, union |-> X, inter |-> X]
IsLeaf(tree) == tree.bit = 0
Inner(bit, left, right) ==
  [bit |-> bit, left |-> left, right |-> right,
   union |-> left.union \cup right.union, inter |-> left.inter \cap right.inter]

\* A leaf is put where its set first leaves the path: above a subtree whose sets
\* have the columns passed over alike (InsertLeafIntoMiddle), or at a leaf
\* (InsertLeafIntoEnd).
RECURSIVE AddBelow(_, _, _)
AddBelow(tree, X, from) ==
  LET passed == IF IsLeaf(tree) THEN Cols ELSE from..(tree.bit - 1)
      leaving == ((tree.union \ X) \cup (X \ tree.union)) \cap passed
      bit == Min(leaving)
  IN  IF leaving # {}
      THEN IF bit \in X THEN Inner(bit, tree, Leaf(X)) ELSE Inner(bit, Leaf(X), tree)
      ELSE IF IsLeaf(tree) THEN tree
      ELSE IF tree.bit \in X
      THEN Inner(tree.bit, tree.left, AddBelow(tree.right, X, tree.bit + 1))
      ELSE Inner(tree.bit, AddBelow(tree.left, X, tree.bit + 1), tree.right)
AddSet(tree, X) == IF tree = NoTree THEN Leaf(X) ELSE AddBelow(tree, X, 1)

\* Mutant of RemoveSet: the whole subtree goes with the leaf.
RECURSIVE RemoveParent(_, _)
RemoveParent(tree, X) ==
  IF tree = NoTree \/ (IsLeaf(tree) /\ tree.union # X) THEN tree
  ELSE IF IsLeaf(tree) THEN NoTree
  ELSE IF RemoveParent(IF tree.bit \in X THEN tree.right ELSE tree.left, X) = NoTree THEN NoTree ELSE tree

\* FindNode and CutLeaf: the sibling takes the place of the parent.
RECURSIVE RemoveSet(_, _)
RemoveSet(tree, X) ==
  LET cut == RemoveSet(IF tree.bit \in X THEN tree.right ELSE tree.left, X)
  IN  IF tree = NoTree \/ (IsLeaf(tree) /\ tree.union # X) THEN tree
      ELSE IF IsLeaf(tree) THEN NoTree
      ELSE IF ~(X \subseteq tree.union /\ tree.inter \subseteq X) THEN tree
      ELSE IF cut = NoTree THEN IF tree.bit \in X THEN tree.left ELSE tree.right
      ELSE IF tree.bit \in X THEN Inner(tree.bit, tree.left, cut) ELSE Inner(tree.bit, cut, tree.right)

RECURSIVE CollectSubsets(_, _)
CollectSubsets(tree, X) ==
  IF tree = NoTree THEN {}
  ELSE IF ~(tree.inter \subseteq X) THEN {}
  ELSE IF IsLeaf(tree) THEN {tree.union}
  ELSE CollectSubsets(tree.left, X) \cup (IF tree.bit \in X THEN CollectSubsets(tree.right, X) ELSE {})

-----------------------------------------------------------------------------
(* Aid. *)

prime == 10619863
WindowSize == 10

\* HandleTuple: each row against one row before it in each of its clusters, by
\* another index in each iteration, while the iteration is not above its own.
HandleTuples(iteration) ==
  LET before(c, r) == SelectSeq([s \in 1..(r - 1) |-> s], LAMBDA s : tuples[s][c] = tuples[r][c])
      second(index) == (iteration * (prime % index)) % index
  IN  {LET others == before(p[1], p[2]) IN EqualTexts(p[2], others[second(Len(others)) + 1]) :
         p \in {q \in Cols \X DOMAIN tuples : iteration <= Len(before(q[1], q[2]))}}

\* The growth of the cover, averaged over a window of iterations, is small when
\* none of them let it grow: with covers of less than ten sets any growth
\* brings the average above growth_threshold_.
RECURSIVE CreateNegativeCover(_, _, _, _)
CreateNegativeCover(window, iteration, quiet, cover) ==
  LET grown == cover \cup HandleTuples(iteration)
      still == IF grown = cover THEN quiet + 1 ELSE 0
  IN  IF still >= window THEN grown ELSE CreateNegativeCover(window, iteration + 1, still, grown)

\* Of no tuples no column is constant.
ConstantColumns == {c \in Cols : tuples # <<>> /\ \A tuple \in Range(tuples) : tuple[c] = tuples[1][c]}

\* The subsets of the agree set are removed; each is extended by one column.
HandleInvalidFd(tree, X, extensions) ==
  LET subsets == CollectSubsets(tree, X)
      add(t, Y) == IF CollectSubsets(t, Y) # {} THEN t ELSE AddSet(t, Y)
      extend(t, Y) == FoldLeft(LAMBDA u, c : add(u, Y \cup {c}), t, SetToSortSeq(extensions \ X, <))
  IN  FoldSet(LAMBDA Y, t : extend(t, Y), FoldSet(LAMBDA Y, t : RemoveSet(t, Y), tree, subsets), subsets)

\* InvertNegativeCover: columns are renumbered, those in most agree sets first,
\* and agree sets are taken from the largest down.
Aid(window) ==
  LET cover == CreateNegativeCover(window, 1, 0, {})
      frequency(c) == Cardinality({X \in cover : c \in X})
      order == Ordered(Cols, LAMBDA c, d : frequency(c) > frequency(d) \/ (frequency(c) = frequency(d) /\ c < d))
      renumbered(X) == {i \in Cols : order[i] \in X}
      sorted == Ordered({renumbered(X) : X \in cover},
                        LAMBDA X, Y : \/ Cardinality(X) > Cardinality(Y)
                                      \/ Cardinality(X) = Cardinality(Y) /\ BitsetLess(X, Y))
      attributes == Cols \ renumbered(ConstantColumns)
      positive(rhs) ==
        FoldLeft(LAMBDA tree, X : IF rhs \in X THEN tree ELSE HandleInvalidFd(tree, X, attributes \ {rhs}),
                 FoldLeft(LAMBDA tree, c : AddSet(tree, {c}), NoTree, SetToSortSeq(attributes \ {rhs}, <)), sorted)
  IN  ({{}} \X ConstantColumns)
        \cup UNION {{<<{order[i] : i \in X}, order[rhs]>> : X \in CollectSubsets(positive(rhs), Cols)} : rhs \in attributes}

-----------------------------------------------------------------------------

\* The minimal dependencies between the texts of the tuples taken.
TextFds == MinimalFdsOf(TupleAgreeSets)

\* The data set is read, without reading past the end of a line.
Fitted == Built /\ fit # "undefined"

\* FDep finds exactly these: a mark cleared too early in a prefix tree would hide a
\* generalisation from the next specialisation.
FDepFindsMinimal == FDep = TextFds

\* Aid finds exactly these too, with the window of its own; stopped at the first
\* iteration that brings nothing, it still finds a generalisation of each.  Of no
\* tuples it finds that each column determines each other one.
AidFindsMinimal ==
  IF tuples = <<>> THEN Aid(WindowSize) = {<<{c}, a>> : <<c, a>> \in {q \in Cols \X Cols : q[1] # q[2]}}
  ELSE /\ Aid(WindowSize) = TextFds
       /\ LET early == Aid(1)
          IN  \A fd \in TextFds : \E general \in early : general[2] = fd[2] /\ general[1] \subseteq fd[1]

\* Both invert a negative cover kept in a tree; of the lines up to the first empty
\* one, cut to the width of the table, nothing is lost (FDep::FitFd, Aid::FitFd).
NegativeCoverInverted == Fitted => FDepFindsMinimal /\ AidFindsMinimal

\* is_null_eq_null, "specify whether two NULLs should be considered equal"
\* (descriptions.h:32), is registered for every FDAlgorithm: of lines of the table's
\* width, FDep and Aid find the dependencies that hold with nulls as specified.
NullsAsSpecified ==
  Fitted /\ fit = "lines" /\ Len(tuples) = NumRows => FDep = MinimalFds /\ Aid(WindowSize) = MinimalFds
=============================================================================
