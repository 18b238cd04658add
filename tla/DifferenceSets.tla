--------------------------- MODULE DifferenceSets ---------------------------
(***************************************************************************)
(* Discovery from agree sets: the other two of util::AgreeSetFactory's ways *)
(* to generate the maximal representation, and the searches over the sets, *)
(* Depminer and FastFDs.                                                   *)
(***************************************************************************)
EXTENDS LatticeSearch, AgreeSetFactory

-----------------------------------------------------------------------------
(* The maximal representation. *)

\* CalculateSupersets: the clusters of a partition against one set of the
\* representation.  The scan ends at the first cluster found inside the set.
SupersetsOf(partition, state, it) ==
  LET left == partition \ state.exclude
      inside == {p \in left : p \subseteq it}
      seen == {p \in left : \A q \in inside : Min(p) < Min(q)}
      stop == {p \in inside : \A q \in inside : Min(p) <= Min(q)}
  IN  [add |-> (state.add \cup seen) \ stop,
       exclude |-> state.exclude \cup stop,
       delete |-> state.delete \cup {m \in {it} : \E p \in seen : it \subseteq p}]

CalculateSupersets(mc, pli) ==
  LET state == FoldLeft(LAMBDA s, it : SupersetsOf(pli, s, it),
                        [add |-> {}, exclude |-> {}, delete |-> {}],
                        Ordered(mc, BitsetLess))
  IN  (mc \cup state.add) \ state.delete

McUsingCalculateSupersets ==
  LET notEmpty == SelectSeq(plis, LAMBDA pli : pli # {})
  IN  IF notEmpty = <<>> THEN {} ELSE FoldLeft(CalculateSupersets, Head(notEmpty), Tail(notEmpty))

\* HandleEqvClass: what is inside the class is removed, from its largest
\* subsets down; below a subset that was there nothing else can be.
RECURSIVE HandleEqvClass(_, _)
HandleEqvClass(class, mc) ==
  FoldSet(LAMBDA r, sets : LET copy == class \ {r}
                           IN  IF copy \in sets THEN sets \ {copy}
                               ELSE IF Cardinality(copy) > 2 THEN HandleEqvClass(copy, sets)
                               ELSE sets,
          mc, class)

\* Mutant of McUsingHandleEqvClass: the larger classes come first.
McUsingHandleEqvClassDown ==
  LET minimal == {g \in EqvClasses : \A h \in EqvClasses : Cardinality(g) <= Cardinality(h)}
  IN  FoldLeft(LAMBDA mc, g : HandleEqvClass(g, mc) \cup {g}, minimal,
               Reverse(Ordered(EqvClasses \ minimal, SizeLess)))

McUsingHandleEqvClass ==
  LET minimal == {g \in EqvClasses : \A h \in EqvClasses : Cardinality(g) <= Cardinality(h)}
  IN  FoldLeft(LAMBDA mc, g : HandleEqvClass(g, mc) \cup {g}, minimal,
               Ordered(EqvClasses \ minimal, SizeLess))

-----------------------------------------------------------------------------
(* Depminer. *)

\* The complements of the maximal agree sets without the column.
CmaxSet(agreeSets, a) == {Cols \ X : X \in MaximalOf({Y \in agreeSets : a \notin Y})}

\* Candidates of the next size, all of whose subsets are in the level.
GenNextLevel(level) ==
  LET candidates == {p[1] \cup p[2] : p \in {q \in level \X level : Max(q[1]) < Max(q[2])}}
  IN  {X \in candidates : \A c \in X : X \ {c} \in level}

\* Mutant of LhsForColumn: covers are extended too.
RECURSIVE LhsForColumnExtending(_, _, _)
LhsForColumnExtending(cmax, a, level) ==
  LET covers == {X \in level : \A Y \in cmax : X \cap Y # {}}
  IN  IF level = {} THEN {}
      ELSE {<<X, a>> : X \in {Y \in covers : a \notin Y}}
             \cup LhsForColumnExtending(cmax, a, GenNextLevel(level))

RECURSIVE LhsForColumn(_, _, _)
LhsForColumn(cmax, a, level) ==
  LET covers == {X \in level : \A Y \in cmax : X \cap Y # {}}
  IN  IF level = {} THEN {}
      ELSE {<<X, a>> : X \in {Y \in covers : a \notin Y}}
             \cup LhsForColumn(cmax, a, GenNextLevel(level \ covers))

LhsSearch(agreeSets) ==
  UNION {IF IsConstant(plis[a]) THEN {<<{}, a>>}
         ELSE LET cmax == CmaxSet(agreeSets, a)
              IN  LhsForColumn(cmax, a, {{c} : c \in UNION cmax}) : a \in Cols}

-----------------------------------------------------------------------------
(* FastFDs. *)

DiffSets(agreeSets) == {Cols \ X : X \in agreeSets}

\* The minimal difference sets with the column, without it.
GetDiffSetsMod(diffSets, a) ==
  LET withColumn == {D \ {a} : D \in {E \in diffSets : a \in E}}
  IN  {D \in withColumn : ~\E E \in withColumn : E \subseteq D /\ E # D}

\* Columns in more difference sets come first, then those with higher index.
Ordering(diffSets, cols) ==
  LET cover(c) == Cardinality({D \in diffSets : c \in D})
  IN  Ordered(cols, LAMBDA c, d : cover(c) > cover(d) \/ (cover(c) = cover(d) /\ c > d))

\* Mutant of GetNextOrdering: one column more is passed over.
GetNextOrderingLater(diffSets, chosen, ordering) ==
  Ordering(diffSets, {ordering[i] : i \in (chosen + 2)..Len(ordering)} \cap UNION diffSets)

\* The columns after the one chosen, if some difference set has them.
GetNextOrdering(diffSets, chosen, ordering) ==
  Ordering(diffSets, {ordering[i] : i \in (chosen + 1)..Len(ordering)} \cap UNION diffSets)

CoverMinimal(path, mod) == \A c \in path : \E D \in mod : D \cap (path \ {c}) = {}

RECURSIVE FindCovers(_, _, _, _, _)
FindCovers(maxLhs, mod, current, path, ordering) ==
  IF Cardinality(path) > maxLhs THEN {}
  ELSE IF current = {} THEN {X \in {path} : CoverMinimal(X, mod)}
  ELSE UNION {LET next == {D \in current : ordering[i] \notin D}
              IN  FindCovers(maxLhs, mod, next, path \cup {ordering[i]},
                             GetNextOrdering(next, i, ordering)) : i \in DOMAIN ordering}

CoverSearch(agreeSets, maxLhs) ==
  LET diffSets == DiffSets(agreeSets)
      covers(a) == LET mod == GetDiffSetsMod(diffSets, a)
                   IN  IF mod = {{}} THEN {}
                       ELSE FindCovers(maxLhs, mod, mod, {}, Ordering(mod, Cols \ {a}))
  IN  IF diffSets = {{}} THEN {}
      ELSE UNION {IF IsConstant(plis[a]) THEN {<<{}, a>>}
                  ELSE {<<X, a>> : X \in covers(a)} : a \in Cols}

-----------------------------------------------------------------------------
(* The algorithms as they are run: GenDiffSets and Depminer::ExecuteInternal *)
(* both take the agree sets of the default Configuration.                    *)

DefaultAgreeSets == GenAgreeSets(AsUsingMapOfIdSets(McUsingCalculateSupersets))
Depminer == LhsSearch(DefaultAgreeSets)
FastFds(maxLhs) == CoverSearch(DefaultAgreeSets, maxLhs)

-----------------------------------------------------------------------------

\* What is inside another class is removed whichever class it is in, though a class
\* that is looked for is not looked below: the maximal clusters are left
\* (AgreeSetFactory::HandleEqvClass).
EqvClassesHandled == Built => McUsingHandleEqvClass = MaximalOf(EqvClasses)

\* Given the agree sets, the levels of Depminer give exactly the minimal dependencies.
DepminerSearchesMinimal == Built => LhsSearch(GenAgreeSets(AgreeSets)) = MinimalFds

\* Given the agree sets, the covers FastFDs finds are exactly the minimal
\* dependencies with at most max_lhs columns on the left.
FastFdsSearchesMinimal ==
  Built =>
    LET agreeSets == GenAgreeSets(AgreeSets)
        minimal == MinimalFds
    IN  \A maxLhs \in 0..width : CoverSearch(agreeSets, maxLhs) = {fd \in minimal : Cardinality(fd[1]) <= maxLhs}

\* The other sound way to the classes leaves the maximal ones, and both searches turn the
\* sets of columns on which rows differ into left-hand sides.
DifferencesGiveMinimal == EqvClassesHandled /\ DepminerSearchesMinimal /\ FastFdsSearchesMinimal

\* As they are run, both find exactly the minimal dependencies: the factory
\* "generates agree set for all pairs of tuples that can form agree set"
\* (agree_set_factory.h:46-47), and test_algorithm.cpp:148 expects of the two what it
\* expects of Tane, FUN and HyFD on the same data.
DefaultAgreeSetsSuffice == Built => Depminer = MinimalFds /\ FastFds(width) = MinimalFds
=============================================================================
