-------------------------------- MODULE Hyfd --------------------------------
(***************************************************************************)
(* HyFD: a sampler of agree sets, an inductor that specialises a prefix    *)
(* tree of candidate dependencies by them, and a validator that walks the  *)
(* tree level by level, taking turns.  Columns are sorted first; inside of *)
(* this module a column is its place in that order.                        *)
(***************************************************************************)
EXTENDS LatticeSearch

\* Most clusters first; std::sort leaves columns with as many in place.
OgMapping ==
  Ordered(Cols, LAMBDA c, d : \/ NumCluster(plis[c]) > NumCluster(plis[d])
                              \/ NumCluster(plis[c]) = NumCluster(plis[d]) /\ c < d)

\* The cluster a row is in, named by its first row; the name of no cluster,
\* kSingletonClusterId, is above all others.
NoCluster == NumRows + 1
ClusterOf(pli, r) == Min({NoCluster} \cup UNION {g \in pli : r \in g})

\* The clusters of a column, each sorted by the rows' clusters in the column to
\* the left, which is the right neighbour as well.
SortedClusters(pli, left) ==
  LET later(r, s) == \/ width >= 3 /\ ClusterOf(left, r) > ClusterOf(left, s)
                     \/ (width >= 3 => ClusterOf(left, r) = ClusterOf(left, s)) /\ r < s
      clusters == Ordered(pli, LAMBDA g, h : Min(g) < Min(h))
  IN  [i \in DOMAIN clusters |-> Ordered(clusters[i], later)]

\* What the three parts share: plis_, compressed_records_ and the clusters.
Preprocess(ties) ==
  LET pli(p) == plis[OgMapping[p]]
  IN  [ties |-> ties,
       plis |-> [p \in Cols |-> pli(p)],
       rec |-> [r \in Rows |-> [p \in Cols |-> ClusterOf(pli(p), r)]],
       clusters |-> [p \in Cols |-> SortedClusters(pli(p), pli(IF p = 1 THEN width ELSE p - 1))]]

-----------------------------------------------------------------------------
(* The tree: its nodes, each named by the columns on the path to it, the   *)
(* dependencies of a node (fds_) and its marks (attributes_).              *)

Root == {}
PathTo(X) == {X \cap 1..c : c \in X}
InitialTree == [nodes |-> {Root}, fds |-> {Root} \X Cols, marks |-> {}]

AddFD(tree, X, a) ==
  [nodes |-> tree.nodes \cup PathTo(X),
   fds |-> tree.fds \cup {<<X, a>>},
   marks |-> tree.marks \cup (PathTo(X) \X {a})]

\* Found along marked nodes only.
GetFdAndGenerals(tree, X, a) ==
  {Y \in {fd[1] : fd \in tree.fds} : <<Y, a>> \in tree.fds /\ Y \subseteq X /\ PathTo(Y) \X {a} \subseteq tree.marks}
FindFdOrGeneral(tree, X, a) == GetFdAndGenerals(tree, X, a) # {}

\* Mutant of RemoveFD: the node is cut off while it has marks.
RemoveFDCutting(tree, X, a) ==
  LET cut == {Y \in tree.nodes : X # Root /\ X \subseteq Y /\ Y \cap 1..Max(X) = X}
  IN  [nodes |-> tree.nodes \ cut,
       fds |-> {fd \in tree.fds : fd # <<X, a>> /\ fd[1] \notin cut},
       marks |-> {m \in tree.marks : m # <<X, a>> /\ m[1] \notin cut}]

\* The node of X loses the dependency and its mark, and is cut off with what is
\* below it when no mark is left.  The marks above it stay: IsLastNodeOf wants
\* every one of num_attributes_ children marked, or no child ever added.
RemoveFD(tree, X, a) ==
  LET marks == tree.marks \ {<<X, a>>}
      cut == {Y \in tree.nodes : X # Root /\ X \subseteq Y /\ Y \cap 1..Max(X) = X /\ ~\E b \in Cols : <<X, b>> \in marks}
  IN  [nodes |-> tree.nodes \ cut,
       fds |-> {fd \in tree.fds : fd # <<X, a>> /\ fd[1] \notin cut},
       marks |-> {m \in marks : m[1] \notin cut}]

-----------------------------------------------------------------------------
(* The inductor. *)

SpecializeTreeForNonFd(tree, X, a) ==
  LET extend(Y, t) == FoldSet(LAMBDA c, u : IF FindFdOrGeneral(u, Y \cup {c}, a) THEN u ELSE AddFD(u, Y \cup {c}, a),
                              RemoveFD(t, Y, a), Cols \ (X \cup {a}))
  IN  FoldSet(extend, tree, GetFdAndGenerals(tree, X, a))

\* Larger agree sets first; the empty one is left out.
UpdateFdTree(tree, nonFds) ==
  FoldLeft(LAMBDA t, X : FoldSet(LAMBDA a, u : SpecializeTreeForNonFd(u, X, a), t, Cols \ X), tree,
           Ordered(nonFds \ {{}}, LAMBDA X, Y : \/ Cardinality(X) > Cardinality(Y)
                                                \/ Cardinality(X) = Cardinality(Y) /\ BitsetLess(X, Y)))

-----------------------------------------------------------------------------
(* The sampler.  Its state: the agree sets found, the queue of columns with *)
(* the outcome of their last window, and the efficiency threshold, a        *)
(* fraction.                                                                *)

Match(h, r, s) == {p \in Cols : h.rec[r][p] = h.rec[s][p] /\ h.rec[r][p] # NoCluster}

\* RunWindow: rows at the next distance in each cluster of the column.
RunWindow(h, known, efficiency) ==
  LET window == efficiency.window + 1
      clusters == Range(h.clusters[efficiency.attr])
      found == UNION {{Match(h, g[i], g[i + window]) : i \in 1..(Len(g) - window)} : g \in clusters}
  IN  [known |-> known \cup found,
       efficiency |-> [attr |-> efficiency.attr, window |-> window,
                       violations |-> Cardinality(found \ known),
                       comparisons |-> MapThenSumSet(LAMBDA g : Max({0, Len(g) - window}), clusters)]]

\* Fractions: efficiencies and thresholds.
AtLeast(p, q) == p[1] * q[2] >= q[1] * p[2]
Lesser(p, q) == IF AtLeast(p, q) THEN q ELSE p
Efficiency(e) == IF e.comparisons = 0 THEN <<0, 1>> ELSE <<e.violations, e.comparisons>>
Enqueue(queue, e) == IF e.violations > 0 THEN queue \cup {e} ELSE queue
kEfficiencyThreshold == <<1, 100>>

\* The most efficient column; which of equal ones the heap gives is left to
\* h.ties: the first or the last.
Top(h, queue) ==
  LET top == {e \in queue : \A f \in queue : AtLeast(Efficiency(e), Efficiency(f))}
  IN  CHOOSE e \in top : \A f \in top : h.ties * e.attr <= h.ties * f.attr

InitializeEfficiencyQueue(h, state) ==
  LET run(s, p) == LET ran == RunWindow(h, s.known, [attr |-> p, window |-> 0, violations |-> 0, comparisons |-> 0])
                   IN  [s EXCEPT !.known = ran.known, !.queue = Enqueue(@, ran.efficiency)]
      filled == FoldLeft(run, state, [p \in Cols |-> p])
      top == Efficiency(Top(h, filled.queue))
  IN  IF filled.queue = {} THEN filled
      ELSE [filled EXCEPT !.threshold = Lesser(kEfficiencyThreshold, <<top[1], 2 * top[2]>>)]

LowerThreshold(h, state) ==
  LET top == Efficiency(Top(h, state.queue))
  IN  [state EXCEPT !.threshold = Lesser(<<@[1], 2 * @[2]>>, <<9 * top[1], 10 * top[2]>>)]

RECURSIVE RunWindows(_, _)
RunWindows(h, state) ==
  LET best == Top(h, state.queue)
      ran == RunWindow(h, state.known, best)
  IN  IF state.queue = {} \/ ~AtLeast(Efficiency(best), state.threshold) THEN state
      ELSE RunWindows(h, [state EXCEPT !.known = ran.known, !.queue = Enqueue(@ \ {best}, ran.efficiency)])

GetNonFDCandidates(h, state, suggestions) ==
  LET compared == [state EXCEPT !.known = @ \cup {Match(h, p[1], p[2]) : p \in suggestions}]
  IN  RunWindows(h, IF compared.queue = {} THEN InitializeEfficiencyQueue(h, compared)
                    ELSE LowerThreshold(h, compared))

-----------------------------------------------------------------------------
(* The validator. *)

\* The columns compared with AsVector's vector: it starts with a zero for every
\* column of the set it is made from, and column 1 here is the code's column 0.
AsVector(X) == IF X = {} THEN {} ELSE {1} \cup X

\* Refine: among the rows with the same clusters in X, all are compared with the
\* one met first.  Each right-hand side is given up at its first failure.
Refine(h, X, rhs) ==
  LET first == Min(X)
      compared == {first} \cup AsVector(X \ {first})
      scan == SelectSeq(FlattenSeq(h.clusters[first]), LAMBDA r : \A p \in compared : h.rec[r][p] # NoCluster)
      met(i) == Min({j \in 1..i : \A p \in compared : h.rec[scan[j]][p] = h.rec[scan[i]][p]})
      fails(i, a) == met(i) # i /\ (h.rec[scan[i]][a] = NoCluster \/ h.rec[scan[i]][a] # h.rec[scan[met(i)]][a])
      failing(a) == {i \in DOMAIN scan : fails(i, a)}
      invalid == {a \in rhs : failing(a) # {}}
  IN  [invalid |-> invalid,
       suggestions |-> {<<scan[Min(failing(a))], scan[met(Min(failing(a)))]>> : a \in invalid}]

\* ProcessZeroLevel, ProcessFirstLevel and ProcessHigherLevel.
GetValidations(h, X, rhs) ==
  IF X = Root THEN [invalid |-> {a \in rhs : ~IsConstant(h.plis[a])}, suggestions |-> {}]
  ELSE IF Cardinality(X) = 1
  THEN [invalid |-> {a \in rhs : \E g \in h.plis[Min(X)] : \E r \in g :
                       h.rec[r][a] = NoCluster \/ h.rec[r][a] # h.rec[Min(g)][a]},
        suggestions |-> {}]
  ELSE Refine(h, X, rhs)

\* One more column for each dependency found invalid.
ExtendedCandidates(tree, invalid) ==
  UNION {{<<fd[1] \cup {c}, fd[2]>> : c \in {d \in Cols \ (fd[1] \cup {fd[2]}) :
            /\ ~FindFdOrGeneral(tree, fd[1], d)
            /\ <<{d}, fd[2]>> \notin tree.fds
            /\ ~FindFdOrGeneral(tree, fd[1] \cup {d}, fd[2])}} : fd \in invalid}

Rhs(tree, X) == {fd[2] : fd \in {f \in tree.fds : f[1] = X}}

\* ValidateAndExtendSeq: the dependencies of a level that fail leave the tree.
CheckLevel(h, tree, nodes) ==
  LET checked == {<<X, GetValidations(h, X, Rhs(tree, X))>> : X \in nodes}
      invalid == UNION {{v[1]} \X v[2].invalid : v \in checked}
  IN  [tree |-> [tree EXCEPT !.fds = @ \ invalid],
       invalid |-> invalid,
       count |-> MapThenSumSet(LAMBDA X : Cardinality(Rhs(tree, X)), nodes),
       suggestions |-> UNION {v[2].suggestions : v \in checked}]

\* The children of the nodes, those added for the failures included.
NextLevelNodes(tree, nodes, candidates) ==
  {X \in tree.nodes : X # Root /\ X \ {Max(X)} \in nodes} \cup ({fd[1] : fd \in candidates} \ tree.nodes)

\* The levels, until one has more failures than the one before it: then the
\* pairs of rows to compare are returned, and none when the tree is done.
RECURSIVE ValidateLevels(_, _, _, _, _, _)

FinishLevel(h, level, nodes, suggestions, previous, result) ==
  LET candidates == ExtendedCandidates(result.tree, result.invalid)
      extended == FoldSet(LAMBDA fd, t : AddFD(t, fd[1], fd[2]), result.tree, candidates)
      suggested == suggestions \cup result.suggestions
      invalid == Cardinality(result.invalid)
  IN  IF level >= width THEN [tree |-> result.tree, level |-> level, suggestions |-> {}]
      ELSE IF 100 * invalid > result.count - invalid /\ previous < invalid
      THEN [tree |-> extended, level |-> level + 1, suggestions |-> suggested]
      ELSE ValidateLevels(h, extended, level + 1, NextLevelNodes(result.tree, nodes, candidates), suggested, invalid)

ValidateLevels(h, tree, level, nodes, suggestions, previous) ==
  IF nodes = {} THEN [tree |-> tree, level |-> level, suggestions |-> {}]
  ELSE FinishLevel(h, level, nodes, suggestions, previous, CheckLevel(h, tree, nodes))

ValidateAndExtendCandidates(h, tree, level) ==
  ValidateLevels(h, tree, level, {X \in tree.nodes : Cardinality(X) = level}, {}, 0)

-----------------------------------------------------------------------------

\* ExecuteInternal: the cycles end when the validator suggests no pairs.
RECURSIVE HyfdCycles(_, _, _, _, _)

NextCycle(h, sampled, validated) ==
  IF validated.suggestions = {} THEN validated.tree
  ELSE HyfdCycles(h, sampled, validated.tree, validated.level, validated.suggestions)

InductAndValidate(h, sampler, sampled, tree, level) ==
  NextCycle(h, sampled, ValidateAndExtendCandidates(h, UpdateFdTree(tree, sampled.known \ sampler.known), level))

HyfdCycles(h, sampler, tree, level, suggestions) ==
  InductAndValidate(h, sampler, GetNonFDCandidates(h, sampler, suggestions), tree, level)

Hyfd(ties) ==
  LET tree == HyfdCycles(Preprocess(ties), [known |-> {}, queue |-> {}, threshold |-> <<0, 1>>], InitialTree, 0, {})
  IN  {<<{OgMapping[p] : p \in fd[1]}, OgMapping[fd[2]]>> : fd \in tree.fds}

-----------------------------------------------------------------------------

\* Whichever of two equally efficient columns the sampler takes first, HyFD finds a
\* generalisation of each dependency that holds: specialising and cutting the tree
\* never loses one.
HyfdMissesNone ==
  Built =>
    \A ties \in {-1, 1} :
      LET found == Hyfd(ties)
      IN  \A fd \in MinimalFds : \E general \in found : general[2] = fd[2] /\ general[1] \subseteq fd[1]

\* HyFD finds exactly the minimal dependencies: the validator is "validating the FDs
\* and specializing incorrect candidates" (hyfd.h:23) of the whole tree.
HyfdFindsMinimal == Built => \A ties \in {-1, 1} : Hyfd(ties) = MinimalFds
=============================================================================
