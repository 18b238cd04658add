-------------------------- MODULE LatticeTraversal --------------------------
(***************************************************************************)
(* DFD's search for the left-hand sides of one column: a random walk up    *)
(* and down the lattice of column sets that classifies each set it visits, *)
(* infers what it can from the sets classified before, and starts again    *)
(* from new seeds until none is left (LatticeTraversal::FindLHSs).         *)
(*                                                                         *)
(* What the partitions of the relation say is the variable deps: the sets  *)
(* that determine the column.  It may be any family a relation can have.   *)
(***************************************************************************)
EXTENDS FiniteSetsExt, SequencesExt

CONSTANT Columns   \* the columns other than the right-hand side

ASSUME ColumnsAssumption == IsFiniteSet(Columns)

VARIABLES
  deps,                \* the sets of columns that determine the right-hand side
  observations,        \* the categories of the sets classified so far
  minimalDeps,         \* minimal_deps_
  maximalNonDeps,      \* maximal_non_deps_
  dependenciesMap,     \* by column: the dependencies with it, none above another
  nonDependenciesMap,  \* by column: the non-dependencies with it, none below another
  seeds,               \* where to start from
  pending,             \* the non-dependencies new seeds still have to escape from
  node,                \* where the walk is
  trace,               \* where it goes back to
  pc

vars == <<deps, observations, minimalDeps, maximalNonDeps, dependenciesMap,
          nonDependenciesMap, seeds, pending, node, trace, pc>>

EmptyVertical == {}
Nodes == (SUBSET Columns) \ {EmptyVertical}

DependencyKinds == {"Dependency", "MinimalDependency", "CandidateMinimalDependency"}
NonDependencyKinds == {"NonDependency", "MaximalNonDependency", "CandidateMaximalNonDependency"}

UpwardClosed(family) == \A X \in family, Y \in Nodes : X \subseteq Y => Y \in family

-----------------------------------------------------------------------------
(* The pruning maps. *)

AddNewDependency(map, X) ==
  [c \in Columns |-> IF c \notin X \/ \E Y \in map[c] : Y \subseteq X THEN map[c]
                     ELSE {Y \in map[c] : ~(X \subseteq Y)} \cup {X}]

AddNewNonDependency(map, X) ==
  [c \in Columns |-> IF c \notin X \/ \E Y \in map[c] : X \subseteq Y THEN map[c]
                     ELSE {Y \in map[c] : ~(Y \subseteq X)} \cup {X}]

KnownDependency(X) == \E c \in X : \E Y \in dependenciesMap[c] : Y \subseteq X
KnownNonDependency(X) == \E c \in X : \E Y \in nonDependenciesMap[c] : X \subseteq Y

-----------------------------------------------------------------------------
(* The categories. *)

Subsets(X) == {X \ {c} : c \in X}
Supersets(X) == {X \cup {c} : c \in Columns \ X}
Observed(X, kinds) == X \in DOMAIN observations /\ observations[X] \in kinds
Unchecked(sets) == sets \ DOMAIN observations

\* UpdateDependencyCategory.
DependencyCategory(X) ==
  IF Cardinality(X) <= 1 THEN "MinimalDependency"
  ELSE IF \E Y \in Subsets(X) : Observed(Y, DependencyKinds) THEN "Dependency"
  ELSE IF Unchecked(Subsets(X)) # {} THEN "CandidateMinimalDependency"
  ELSE "MinimalDependency"

\* Mutant of NonDependencyCategory: supersets not seen yet are overlooked.
NonDependencyCategoryEager(X) ==
  IF \E Y \in Supersets(X) : Observed(Y, NonDependencyKinds) THEN "NonDependency"
  ELSE "MaximalNonDependency"

\* UpdateNonDependencyCategory.
NonDependencyCategory(X) ==
  IF \E Y \in Supersets(X) : Observed(Y, NonDependencyKinds) THEN "NonDependency"
  ELSE IF Unchecked(Supersets(X)) # {} THEN "CandidateMaximalNonDependency"
  ELSE "MaximalNonDependency"

Classify(X, category) ==
  observations' = [Y \in DOMAIN observations \cup {X} |-> IF Y = X THEN category ELSE observations[Y]]

\* The category of a dependency is written, and remembered when it is minimal.
ClassifyDependency(X) ==
  /\ Classify(X, DependencyCategory(X))
  /\ minimalDeps' = IF DependencyCategory(X) = "MinimalDependency" THEN minimalDeps \cup {X} ELSE minimalDeps
  /\ UNCHANGED maximalNonDeps

ClassifyNonDependency(X) ==
  /\ Classify(X, NonDependencyCategory(X))
  /\ maximalNonDeps' = IF NonDependencyCategory(X) = "MaximalNonDependency" THEN maximalNonDeps \cup {X} ELSE maximalNonDeps
  /\ UNCHANGED minimalDeps

-----------------------------------------------------------------------------

\* ExecuteInternal has dealt with a column all rows agree on.  The unique columns
\* are known to determine the right-hand side.
Init ==
  /\ deps \in SUBSET Nodes
  /\ UpwardClosed(deps)
  /\ \E unique \in SUBSET {c \in Columns : {c} \in deps} :
       /\ minimalDeps = {{c} : c \in unique}
       /\ observations = [X \in minimalDeps |-> "MinimalDependency"]
       /\ dependenciesMap = [c \in Columns |-> minimalDeps \cap {{c}}]
  /\ nonDependenciesMap = [c \in Columns |-> {}]
  /\ maximalNonDeps = {}
  /\ seeds = {{c} : c \in Columns}
  /\ pending = {}
  /\ node = EmptyVertical
  /\ trace = <<>>
  /\ pc = "seed"

\* The order of the seeds follows the data and the hash table: any is next.
PopSeed ==
  /\ pc = "seed"
  /\ \E seed \in seeds : node' = seed /\ seeds' = seeds \ {seed}
  /\ pc' = "observe"
  /\ UNCHANGED <<deps, observations, minimalDeps, maximalNonDeps, dependenciesMap, nonDependenciesMap, pending, trace>>

mapVars == <<dependenciesMap, nonDependenciesMap>>
walkVars == <<deps, seeds, pending, node, trace>>

\* A candidate met again: its neighbours may have been classified meanwhile.
Recheck ==
  /\ pc = "observe"
  /\ node \in DOMAIN observations
  /\ \/ observations[node] = "CandidateMinimalDependency" /\ ClassifyDependency(node)
     \/ observations[node] = "CandidateMaximalNonDependency" /\ ClassifyNonDependency(node)
     \/ /\ observations[node] \notin {"CandidateMinimalDependency", "CandidateMaximalNonDependency"}
        /\ UNCHANGED <<observations, minimalDeps, maximalNonDeps>>
  /\ pc' = "pick"
  /\ UNCHANGED <<walkVars, mapVars>>

\* What is inferred is never entered as minimal or maximal; lines
\* 115 and 122 test for the category of the other kind.
InferNonDependency ==
  /\ pc = "observe"
  /\ node \notin DOMAIN observations
  /\ KnownNonDependency(node)
  /\ Classify(node, NonDependencyCategory(node))
  /\ nonDependenciesMap' = AddNewNonDependency(nonDependenciesMap, node)
  /\ pc' = "pick"
  /\ UNCHANGED <<walkVars, minimalDeps, maximalNonDeps, dependenciesMap>>

InferDependency ==
  /\ pc = "observe"
  /\ node \notin DOMAIN observations
  /\ ~KnownNonDependency(node)
  /\ KnownDependency(node)
  /\ Classify(node, DependencyCategory(node))
  /\ dependenciesMap' = AddNewDependency(dependenciesMap, node)
  /\ pc' = "pick"
  /\ UNCHANGED <<walkVars, minimalDeps, maximalNonDeps, nonDependenciesMap>>

InferCategory == IF KnownNonDependency(node) THEN InferNonDependency ELSE InferDependency

\* The partitions of the node, without and with the right-hand side, are compared.
ComparePartitions ==
  /\ pc = "observe"
  /\ node \notin DOMAIN observations
  /\ ~KnownNonDependency(node)
  /\ ~KnownDependency(node)
  /\ \/ /\ node \in deps
        /\ ClassifyDependency(node)
        /\ dependenciesMap' = AddNewDependency(dependenciesMap, node)
        /\ UNCHANGED nonDependenciesMap
     \/ /\ node \notin deps
        /\ ClassifyNonDependency(node)
        /\ nonDependenciesMap' = AddNewNonDependency(nonDependenciesMap, node)
        /\ UNCHANGED dependenciesMap
  /\ pc' = "pick"
  /\ UNCHANGED walkVars

-----------------------------------------------------------------------------
(* PickNextNode. *)

\* Back along the trace; at its start the walk from this seed is over.
GoBack ==
  IF trace = <<>> THEN node' = EmptyVertical /\ pc' = "seed" /\ UNCHANGED trace
  ELSE node' = Last(trace) /\ trace' = Front(trace) /\ pc' = "observe"

GoOn(next) == node' = next /\ trace' = Append(trace, node) /\ pc' = "observe"

Mark(nonDependencies, dependencies) ==
  observations' = [X \in DOMAIN observations \cup nonDependencies \cup dependencies |->
                     IF X \in dependencies THEN "Dependency"
                     ELSE IF X \in nonDependencies THEN "NonDependency" ELSE observations[X]]

\* Down from a dependency that may be minimal, to a random subset not known yet.
PickSubset ==
  /\ pc = "pick"
  /\ Observed(node, {"CandidateMinimalDependency"})
  /\ LET unchecked == Unchecked(Subsets(node))
         pruned == {X \in unchecked : KnownNonDependency(X)}
     IN  /\ IF unchecked = {}
            THEN Classify(node, "MinimalDependency") /\ minimalDeps' = minimalDeps \cup {node}
            ELSE Mark(pruned, {}) /\ UNCHANGED minimalDeps
         /\ IF unchecked = pruned THEN GoBack ELSE \E X \in unchecked \ pruned : GoOn(X)
  /\ UNCHANGED <<deps, maximalNonDeps, mapVars, seeds, pending>>

\* Up from a non-dependency that may be maximal, to a random superset.
PickSuperset ==
  /\ pc = "pick"
  /\ Observed(node, {"CandidateMaximalNonDependency"})
  /\ LET unchecked == Unchecked(Supersets(node))
         nonDependencies == {X \in unchecked : KnownNonDependency(X)}
         dependencies == {X \in unchecked : KnownDependency(X)}
         left == unchecked \ (nonDependencies \cup dependencies)
     IN  /\ IF left = {} /\ nonDependencies = {}
            THEN /\ observations' = [X \in DOMAIN observations \cup dependencies |->
                                       IF X = node THEN "MaximalNonDependency"
                                       ELSE IF X \in dependencies THEN "Dependency" ELSE observations[X]]
                 /\ maximalNonDeps' = maximalNonDeps \cup {node}
            ELSE Mark(nonDependencies, dependencies) /\ UNCHANGED maximalNonDeps
         /\ IF left = {} THEN GoBack ELSE \E X \in left : GoOn(X)
  /\ UNCHANGED <<deps, minimalDeps, mapVars, seeds, pending>>

PickNone ==
  /\ pc = "pick"
  /\ ~Observed(node, {"CandidateMinimalDependency", "CandidateMaximalNonDependency"})
  /\ GoBack
  /\ UNCHANGED <<deps, observations, minimalDeps, maximalNonDeps, mapVars, seeds, pending>>

-----------------------------------------------------------------------------
(* GenerateNextSeeds: what hits the complement of every maximal            *)
(* non-dependency, in the order in which the hash table gives these.       *)

NoSeeds ==
  /\ pc = "seed"
  /\ seeds = {}
  /\ pending' = maximalNonDeps
  /\ pc' = "generate"
  /\ UNCHANGED <<deps, observations, minimalDeps, maximalNonDeps, mapVars, seeds, node, trace>>

Minimize(sets) == {X \in sets : ~\E Y \in sets : Y # X /\ Y \subseteq X}

\* Mutant of EscapeFrom: a column tried is not taken out again, so that only the
\* seed with the first one is minimal.
EscapeFromNoRestore(X) ==
  LET first == {c \in Columns \ X : c = CHOOSE d \in Columns \ X : TRUE}
  IN  IF seeds = {} THEN {{c} : c \in Columns \ X}
      ELSE Minimize({seed \cup {c} : seed \in seeds, c \in first})

Extended(X) == {seed \cup {c} : seed \in seeds, c \in Columns \ X}

EscapeFrom(X) == IF seeds = {} THEN {{c} : c \in Columns \ X} ELSE Minimize(Extended(X))

GenerateSeeds ==
  /\ pc = "generate"
  /\ \E X \in pending : seeds' = EscapeFrom(X) /\ pending' = pending \ {X}
  /\ UNCHANGED <<deps, observations, minimalDeps, maximalNonDeps, mapVars, node, trace, pc>>

\* Mutant of SeedsReady: minimal dependencies are seeds again.
SeedsReadyAll ==
  /\ pc = "generate"
  /\ pending = {}
  /\ UNCHANGED seeds
  /\ pc' = IF seeds' = {} THEN "done" ELSE "seed"
  /\ UNCHANGED <<deps, observations, minimalDeps, maximalNonDeps, mapVars, pending, node, trace>>

\* The minimal dependencies known are no seeds; without seeds the search ends.
SeedsReady ==
  /\ pc = "generate"
  /\ pending = {}
  /\ seeds' = seeds \ minimalDeps
  /\ pc' = IF seeds' = {} THEN "done" ELSE "seed"
  /\ UNCHANGED <<deps, observations, minimalDeps, maximalNonDeps, mapVars, pending, node, trace>>

Next ==
  \/ PopSeed
  \/ Recheck \/ InferCategory \/ ComparePartitions
  \/ PickSubset \/ PickSuperset \/ PickNone
  \/ NoSeeds \/ GenerateSeeds \/ SeedsReady

Spec == Init /\ [][Next]_vars

\* The thread that runs the search is not stopped.
FairSpec == Spec /\ WF_vars(Next)
-----------------------------------------------------------------------------
(* Properties. *)

\* The variables have their types.
TypeOK ==
  /\ deps \subseteq Nodes
  /\ DOMAIN observations \subseteq Nodes
  /\ \A X \in DOMAIN observations : observations[X] \in DependencyKinds \cup NonDependencyKinds
  /\ minimalDeps \subseteq Nodes
  /\ maximalNonDeps \subseteq Nodes
  /\ dependenciesMap \in [Columns -> SUBSET Nodes]
  /\ nonDependenciesMap \in [Columns -> SUBSET Nodes]
  /\ seeds \subseteq Nodes
  /\ pending \subseteq maximalNonDeps
  /\ node \in Nodes \cup {EmptyVertical}
  /\ trace \in Seq(Nodes)
  /\ pc \in {"seed", "observe", "pick", "generate", "done"}

\* Most sets are classified without a look at the partitions: from a map that
\* only keeps the extreme sets, or from the categories of the neighbours.  None
\* is put on the wrong side, and what is called minimal or maximal is.
CategoriesSound ==
  \A X \in DOMAIN observations :
    /\ X \in deps <=> observations[X] \in DependencyKinds
    /\ observations[X] = "MinimalDependency" => \A c \in X : X \ {c} \notin deps
    /\ observations[X] = "MaximalNonDependency" => \A c \in Columns \ X : X \cup {c} \in deps

\* When the walk stops it has found every minimal dependency and nothing else: no
\* order of the seeds, of the random steps or of the hash table lets one escape.
FindsMinimal ==
  pc = "done" => minimalDeps = {X \in deps : \A c \in X : X \ {c} \notin deps}

\* The search ends: no round of seeds is the round before, no walk goes in circles.
WalkEnds == <>(pc = "done")
=============================================================================
