---------------------------- MODULE LatticeSearch ----------------------------
(***************************************************************************)
(* The level-wise searches for functional dependencies: Tane, FUN and      *)
(* FD_Mine.  Each is an operator of the relation, its result the set of    *)
(* the dependencies it registers, as pairs <<left-hand columns, right-hand *)
(* column>>.                                                               *)
(***************************************************************************)
EXTENDS RelationData

\* dynamic_bitset's operator<, as for numbers: the highest difference decides.
BitsetLess(X, Y) == X # Y /\ Max((X \ Y) \cup (Y \ X)) \in Y

-----------------------------------------------------------------------------
(* Tane.  Errors are counted in pairs of rows: max_fd_error_ and           *)
(* max_ucc_error_ are maxError / NumTuplePairs.  With fewer than two rows  *)
(* the errors are 0/0, which no comparison accepts.                        *)

Within(pairs, maxError) == NumTuplePairs > 0 /\ pairs <= maxError

\* Level 1: columns, after the constant columns and the keys among them.
TaneFirst(maxError, maxLhs) ==
  LET gap(c) == NumTuplePairs - Nep(plis[c])
      zeroary == {c \in Cols : Within(gap(c), maxError)}
      rest(c) == (IF Within(gap(c), 0) THEN {} ELSE Cols) \ zeroary
      key(c) == Within(Nep(plis[c]), maxError)
      unique(c) == Within(Nep(plis[c]), 0) /\ maxLhs # 0
  IN  [found |-> {<<{}, c>> : c \in zeroary}
                   \cup UNION {{<<{c}, a>> : a \in rest(c) \ {c}} : c \in {d \in Cols : unique(d)}},
       level |-> [X \in {{c} : c \in Cols} |->
                   LET c == CHOOSE d \in X : TRUE
                   IN  [candidates |-> IF unique(c) THEN rest(c) \cap X ELSE rest(c),
                        keyCandidate |-> ~key(c),
                        invalid |-> unique(c) /\ maxError = 0,
                        pli |-> plis[c]]]]

\* LatticeLevel::GenerateNextLevel: two vertices that differ in their last
\* column only are joined when every parent of their union is in the level.
NextLevel(level) ==
  LET parents(XA) == {XA \ {a} : a \in XA}
      first(XA) == XA \ {Max(XA)}
      second(XA) == XA \ {Max(first(XA))}
      candidates(XA) == {a \in Cols : \A X \in parents(XA) : a \in level[X].candidates}
      joined(XA) ==
        /\ parents(XA) \subseteq DOMAIN level
        /\ \/ level[first(XA)].candidates # {}
           \/ level[first(XA)].keyCandidate /\ level[second(XA)].keyCandidate
        /\ Cardinality(XA) > 2 => candidates(XA) # {}
      unions == {X \cup Y : <<X, Y>> \in {p \in (DOMAIN level) \X (DOMAIN level) : Cardinality(p[1] \ p[2]) = 1}}
  IN  [XA \in {U \in unions : joined(U)} |->
        [candidates |-> candidates(XA),
         keyCandidate |-> \A X \in parents(XA) : level[X].keyCandidate,
         invalid |-> \E X \in parents(XA) : level[X].invalid,
         pli |-> Intersect(level[first(XA)].pli, level[second(XA)].pli)]]

\* Mutant of TaneCheck: the columns found stay candidates.
TaneCheckKeeping(maxError, level, next) ==
  LET error(XA, a) == Nep(level[XA \ {a}].pli) - Nep(next[XA].pli)
      found(XA) == IF next[XA].invalid THEN {}
                   ELSE {a \in XA \cap next[XA].candidates : Within(error(XA, a), maxError)}
      exact(XA) == {a \in found(XA) : error(XA, a) = 0}
  IN  [found |-> UNION {{<<XA \ {a}, a>> : a \in found(XA)} : XA \in DOMAIN next},
       level |-> [XA \in DOMAIN next |-> [next[XA] EXCEPT !.candidates = IF exact(XA) = {} THEN @ ELSE @ \cap XA]]]

\* The dependencies X -> A with XA a vertex of the level, and the level with
\* the candidates they leave.
TaneCheck(maxError, level, next) ==
  LET error(XA, a) == Nep(level[XA \ {a}].pli) - Nep(next[XA].pli)
      found(XA) == IF next[XA].invalid THEN {}
                   ELSE {a \in XA \cap next[XA].candidates : Within(error(XA, a), maxError)}
      exact(XA) == {a \in found(XA) : error(XA, a) = 0}
  IN  [found |-> UNION {{<<XA \ {a}, a>> : a \in found(XA)} : XA \in DOMAIN next},
       level |-> [XA \in DOMAIN next |->
                   [next[XA] EXCEPT !.candidates =
                     (IF exact(XA) = {} THEN @ ELSE @ \cap XA) \ found(XA)]]]

\* Keys determine the candidates their siblings have too; then, for exact
\* dependencies, they are left out.  Vertices are taken in the order of the map.
TanePrune(maxError, level) ==
  LET prune(state, X) ==
        LET vertex == state.level[X]
            isKey == vertex.keyCandidate /\ Within(Nep(vertex.pli), 0)
            sibling(a, b) == (X \ {b}) \cup {a}
            determined == {a \in vertex.candidates \ X :
                             \A b \in X : /\ sibling(a, b) \in DOMAIN level
                                          /\ a \in state.level[sibling(a, b)].candidates}
        IN  [found |-> state.found \cup (IF isKey THEN {<<X, a>> : a \in determined} ELSE {}),
             level |-> [state.level EXCEPT ![X] =
                         [candidates |-> IF isKey /\ maxError = 0 THEN @.candidates \cap X ELSE @.candidates,
                          keyCandidate |-> @.keyCandidate /\ ~Within(Nep(@.pli), maxError),
                          invalid |-> @.invalid \/ (isKey /\ maxError = 0),
                          pli |-> @.pli]]]
  IN  FoldLeft(prune, [found |-> {}, level |-> level], Ordered(DOMAIN level, BitsetLess))

RECURSIVE TaneLevels(_, _, _, _)
TaneLevels(maxError, maxLhs, arity, level) ==
  LET checked == TaneCheck(maxError, level, NextLevel(level))
      pruned == TanePrune(maxError, checked.level)
  IN  IF arity > maxLhs + 1 \/ DOMAIN checked.level = {} THEN {}
      ELSE IF arity = maxLhs + 1 THEN checked.found
      ELSE checked.found \cup pruned.found \cup TaneLevels(maxError, maxLhs, arity + 1, pruned.level)

\* Tane::ExecuteInternal.
Tane(maxError, maxLhs) ==
  LET first == TaneFirst(maxError, maxLhs)
  IN  first.found \cup TaneLevels(maxError, maxLhs, 2, first.level)

-----------------------------------------------------------------------------
(* FUN.  A level is a function from candidates to their quadruples.        *)

FunCount(X) == NumCluster(PliOf(X))
FunIsKey(quadruple) == quadruple.count = NumRows
Quadruple(X, count) == [count |-> count, quasiclosure |-> {}, closure |-> {}]

\* The count of X: looked up, or that of its largest known subset.
FastCount(previous, level, X) ==
  IF X \in DOMAIN level THEN level[X].count
  ELSE Max({0} \cup {previous[Y].count : Y \in {Z \in DOMAIN previous : Z \subseteq X}})

\* Mutant of ComputeClosure: a column that splits the clusters of a key only.
ComputeClosureKeys(previous, level, nonKeys) ==
  [X \in DOMAIN previous |->
    [previous[X] EXCEPT !.closure =
           previous[X].quasiclosure \cup
             {a \in nonKeys \ previous[X].quasiclosure :
                FastCount(previous, level, X \cup {a}) = previous[X].count}]]

\* A column that does not split the clusters is in the closure; columns that
\* are keys (not in nonKeys) are not tried.
ComputeClosure(previous, level, nonKeys) ==
  [X \in DOMAIN previous |->
    IF FunIsKey(previous[X]) THEN previous[X]
    ELSE [previous[X] EXCEPT !.closure =
           previous[X].quasiclosure \cup
             {a \in nonKeys \ previous[X].quasiclosure :
                FastCount(previous, level, X \cup {a}) = previous[X].count}]]

\* What the closures of the subsets already determine.
ComputeQuasiClosure(previous, level) ==
  [X \in DOMAIN level |->
    [level[X] EXCEPT
      !.closure = IF FunIsKey(level[X]) THEN Cols ELSE @,
      !.quasiclosure = X \cup UNION {previous[Y].closure : Y \in {Z \in DOMAIN previous : Z \subseteq X}}]]

\* What the closure adds to the quasi-closure, unless a subset determines it.
DisplayFd(fds, level) ==
  fds \cup {<<X, a>> \in (DOMAIN level) \X Cols :
              /\ a \in level[X].closure \ level[X].quasiclosure
              /\ ~\E fd \in fds : fd[2] = a /\ fd[1] \subseteq X}

PurePrune(previous, level) ==
  Restrict(level, {X \in DOMAIN level :
    ~\E Y \in DOMAIN previous : Y \subseteq X /\ previous[Y].count = level[X].count})

GenerateCandidate(level, nonKeys) ==
  [X \in UNION {{Y \cup {a} : a \in nonKeys \ Y} : Y \in {Z \in DOMAIN level : ~FunIsKey(level[Z])}} |->
    Quadruple(X, FunCount(X))]

RECURSIVE FunLevels(_, _, _, _)
FunLevels(fds, previous, level, nonKeys) ==
  LET closed == ComputeClosure(previous, level, nonKeys)
      found == DisplayFd(fds, closed)
      pruned == PurePrune(closed, ComputeQuasiClosure(closed, level))
  IN  IF DOMAIN level = {} THEN DisplayFd(fds, previous)
      ELSE FunLevels(found, pruned, GenerateCandidate(pruned, nonKeys), nonKeys)

\* FUN::ExecuteInternal.
Fun ==
  LET level == [X \in {{c} : c \in Cols} |-> Quadruple(X, FunCount(X))]
      nonKeys == {c \in Cols : ~FunIsKey(level[{c}])}
      constant == {<<{}, c>> : c \in {d \in Cols : level[{d}].count = 1}}
  IN  FunLevels(constant, [X \in {{}} |-> Quadruple(X, 0)], level, nonKeys)

-----------------------------------------------------------------------------
(* FD_Mine. *)

\* ComputeNonTrivialClosure: the columns that do not split the clusters.
NonTrivialClosure(X) ==
  LET pli == PliOf(X)
  IN  {a \in Cols \ X : NumCluster(pli) = NumCluster(Intersect(pli, plis[a]))}

\* fd_set_ is a set of pairs <<X, closure of X>>.
\* ObtainEqSet: the candidates just closed against everything closed so far.
ObtainEqSet(closed, fdSet) ==
  LET equal == {<<p[1][1], p[2][1]>> : p \in {q \in closed \X fdSet :
                  /\ q[1][1] # q[2][1]
                  /\ q[1][1] \ q[2][1] \subseteq q[2][2]
                  /\ q[2][1] \ q[1][1] \subseteq q[1][2]}}
  IN  equal \cup {<<e[2], e[1]>> : e \in equal}

\* Mutant of PruneCandidates: of equivalent candidates none is kept.
PruneCandidatesAll(closed, eqSet) ==
  {fd \in closed : fd[1] \cup fd[2] # Cols /\ ~\E other \in closed : <<fd[1], other[1]>> \in eqSet}

\* PruneCandidates: in the order of the set; equivalent candidates but one, and keys.
PruneCandidates(closed, eqSet) ==
  FoldLeft(LAMBDA left, fd : IF \/ fd[1] \cup fd[2] = Cols
                                \/ \E other \in left : <<fd[1], other[1]>> \in eqSet
                             THEN left \ {fd} ELSE left,
           closed, Ordered(closed, LAMBDA f, g : BitsetLess(f[1], g[1])))

\* GenerateNextLevelCandidates: unions of two that differ in their last column,
\* neither of which determines the other, and which are not known to be keys.
NextLevelCandidates(closed) ==
  LET similar(X, Y) == X \ {Max(X)} = Y \ {Max(Y)} /\ Max(X) < Max(Y)
      joins == {q \in closed \X closed :
                  /\ similar(q[1][1], q[2][1])
                  /\ ~(q[2][1] \subseteq q[1][2]) /\ ~(q[1][1] \subseteq q[2][2])
                  /\ q[1][1] \cup q[2][1] \cup q[1][2] \cup q[2][2] # Cols}
  IN  {q[1][1] \cup q[2][1] : q \in joins}

RECURSIVE FdMineLevels(_, _, _)
FdMineLevels(candidates, fdSet, eqSet) ==
  LET closed == {<<X, NonTrivialClosure(X)>> : X \in candidates}
      known == fdSet \cup closed
      equal == eqSet \cup ObtainEqSet(closed, known)
  IN  IF candidates = {} THEN [fdSet |-> fdSet, eqSet |-> eqSet]
      ELSE FdMineLevels(NextLevelCandidates(PruneCandidates(closed, equal)), known, equal)

\* Reconstruct: the left-hand sides that replacing equivalent sets leads to ...
RECURSIVE LhssObserved(_, _)
LhssObserved(lhss, eqSet) ==
  LET new == {(X \ e[1]) \cup e[2] : <<X, e>> \in {p \in lhss \X eqSet : p[2][1] \subseteq p[1]}}
  IN  IF new \subseteq lhss THEN lhss ELSE LhssObserved(lhss \cup new, eqSet)

\* ... and the right-hand side, extended by a pass over eq_set_.  That is a hash
\* table: in any order a pass adds this much ...
Extend(rhs, eqSet) == rhs \cup UNION {e[2] : e \in {d \in eqSet : d[1] \subseteq rhs}}

\* ... and there is a pass for each left-hand side, and one before: at least so many
\* extensions.  In the order that adds most, what is added extends it further, to
\* no more than its closure, which is reached in width extensions.
Reconstruct(found, most) ==
  UNION {LET lhss == LhssObserved({fd[1]}, found.eqSet)
             extended[n \in Nat] == IF n = 0 THEN fd[2] ELSE Extend(extended[n - 1], found.eqSet)
         IN  lhss \X {extended[IF most THEN width ELSE Cardinality(lhss) + 1]} : fd \in found.fdSet}

\* Fd_mine::ExecuteInternal: every column determined by a left-hand side.
FdMineFound == FdMineLevels({{c} : c \in Cols}, {}, {})
FdMine(found, most) ==
  UNION {{<<fd[1], a>> : a \in fd[2] \ fd[1]} : fd \in Reconstruct(found, most)}

-----------------------------------------------------------------------------

\* Tane finds exactly the minimal dependencies with at most max_lhs columns on the
\* left; with errors allowed, the minimal ones of what it finds are those of the
\* dependencies violated by at most one pair of rows, or it finds these alone.
\* Of a relation with one row it finds nothing, its errors being 0/0.
TaneFindsMinimal ==
  Built =>
    LET minimal == MinimalFds IN
    IF NumRows < 2 THEN Tane(0, width) = {}
    ELSE /\ \A maxLhs \in 0..width : Tane(0, maxLhs) = {fd \in minimal : Cardinality(fd[1]) <= maxLhs}
         /\ Tane(1, width) = MinimalIn(AllFds(1))

\* FUN finds exactly the minimal dependencies, through counts of clusters of the
\* candidates it kept (fun.cpp, FastCount).
FunFindsMinimal == Built => Fun = MinimalFds

\* Both go through the lattice level by level, and prune what later candidates look up.
LevelwiseFindsMinimal == TaneFindsMinimal /\ FunFindsMinimal

\* Whatever the order of its hash table, what FD_Mine registers holds, even if it
\* adds most, and each minimal dependency is registered, even if it adds least, but
\* those with nothing on the left; it registers others too, which are not minimal.
FdMineCoversMinimal ==
  Built =>
    LET found == FdMineFound IN
    /\ FdMine(found, TRUE) \subseteq AllFds(0)
    /\ \A fd \in MinimalFds : fd[1] # {} => fd \in FdMine(found, FALSE)
=============================================================================
