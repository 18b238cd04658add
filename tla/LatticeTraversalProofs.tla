----------------------- MODULE LatticeTraversalProofs -----------------------
(* Proofs about LatticeTraversal: for every number of columns and every      *)
(* family of dependencies, the walk classifies no set wrongly, and when it    *)
(* stops it has found exactly the minimal dependencies.                       *)
EXTENDS LatticeTraversal, FiniteSetTheorems, SequenceTheorems, WellFoundedInduction, TLAPS

\* A dependency none of whose columns can go.
Minimal(X) == X \in deps /\ \A c \in X : X \ {c} \notin deps
\* A non-dependency to which no column can be added.
Maximal(X) == X \notin deps /\ \A c \in Columns \ X : X \cup {c} \in deps

\* The sets returned are minimal dependencies and the sets new seeds escape from
\* are maximal non-dependencies, though both are entered long after the neighbours
\* were seen.
ExtremesSound ==
  /\ \A X \in minimalDeps : X \in deps /\ \A c \in X : X \ {c} \notin deps
  /\ \A X \in maximalNonDeps : X \notin deps /\ \A c \in Columns \ X : X \cup {c} \in deps

\* No minimal dependency is missed.
MissesNone ==
  pc = "done" => \A X \in deps : (\A c \in X : X \ {c} \notin deps) => X \in minimalDeps

ObservationsType ==
  /\ DOMAIN observations \subseteq Nodes
  /\ \A X \in DOMAIN observations : observations[X] \in DependencyKinds \cup NonDependencyKinds

DepsOK == deps \subseteq Nodes /\ UpwardClosed(deps)

MapsSound ==
  /\ \A c \in Columns : dependenciesMap[c] \subseteq deps \cap DOMAIN observations
  /\ \A c \in Columns : nonDependenciesMap[c] \subseteq DOMAIN observations \ deps

NodeGiven == pc \in {"observe", "pick"} => node \in Nodes

\* What PickNextNode relies on: the neighbours were looked at just before.
CandidateFresh ==
  pc = "pick" =>
    /\ node \in DOMAIN observations
    /\ Observed(node, {"CandidateMinimalDependency"}) =>
         \A Y \in Subsets(node) : Y # EmptyVertical /\ ~Observed(Y, DependencyKinds)
    /\ Observed(node, {"CandidateMaximalNonDependency"}) =>
         \A Y \in Supersets(node) : ~Observed(Y, NonDependencyKinds)

\* Where the walk is and what it will come back to.
Awaited == {trace[i] : i \in 1..Len(trace)} \cup (IF pc \in {"observe", "pick"} THEN {node} ELSE {})

\* A non-dependency met is maximal and remembered, or below a larger one met, or
\* a candidate that the walk still comes back to.
NonDependenciesLead ==
  \A X \in DOMAIN observations \ deps :
    \/ X \in maximalNonDeps
    \/ \E Y \in DOMAIN observations \ deps : X \subseteq Y /\ X # Y
    \/ X \in Awaited /\ observations[X] = "CandidateMaximalNonDependency"

\* The first seeds are all met, and single columns are minimal dependencies at once.
SinglesMet ==
  \A c \in Columns :
    \/ {c} \in DOMAIN observations
    \/ {c} \in seeds /\ pc \in {"seed", "observe", "pick"}
    \/ pc = "observe" /\ node = {c}

SinglesKept == \A c \in Columns : {c} \in DOMAIN observations \cap deps => {c} \in minimalDeps

\* Between seeds nothing is left on the trace.
TraceEmpty == pc \in {"seed", "generate", "done"} => trace = <<>>

\* The seeds made so far: below every dependency there is one.
SeedsCover ==
  pc = "generate" => IF pending = maximalNonDeps THEN seeds = {}
                     ELSE \A Z \in deps : \E s \in seeds : s \subseteq Z

SoundInv ==
  /\ TypeOK
  /\ NodeGiven
  /\ DepsOK
  /\ MapsSound
  /\ CategoriesSound
  /\ ExtremesSound
  /\ CandidateFresh

CompleteInv ==
  /\ NonDependenciesLead
  /\ SinglesMet
  /\ SinglesKept
  /\ TraceEmpty
  /\ SeedsCover
  /\ MissesNone


-----------------------------------------------------------------------------
(* The categories and the maps. *)

LEMMA KnownSound ==
  ASSUME DepsOK, ObservationsType, MapsSound, NEW X \in Nodes
  PROVE  /\ KnownDependency(X) => X \in deps /\ \E Y \in DOMAIN observations \cap deps : Y \subseteq X
         /\ KnownNonDependency(X) =>
              X \notin deps /\ \E Y \in DOMAIN observations \ deps : X \subseteq Y
PROOF
<1>1. X \subseteq Columns
  BY DEF Nodes, EmptyVertical
<1>2. ASSUME KnownDependency(X)
      PROVE  X \in deps /\ \E Y \in DOMAIN observations \cap deps : Y \subseteq X
  <2>1. PICK c \in X : \E Y \in dependenciesMap[c] : Y \subseteq X
    BY <1>2 DEF KnownDependency
  <2>2. PICK Y \in dependenciesMap[c] : Y \subseteq X
    BY <2>1
  <2>3. Y \in deps \cap DOMAIN observations
    BY <1>1, <2>2 DEF MapsSound
  <2> QED
    BY <2>2, <2>3 DEF DepsOK, UpwardClosed
<1>3. ASSUME KnownNonDependency(X)
      PROVE  X \notin deps /\ \E Y \in DOMAIN observations \ deps : X \subseteq Y
  <2>1. PICK c \in X : \E Y \in nonDependenciesMap[c] : X \subseteq Y
    BY <1>3 DEF KnownNonDependency
  <2>2. PICK Y \in nonDependenciesMap[c] : X \subseteq Y
    BY <2>1
  <2>3. Y \in DOMAIN observations \ deps
    BY <1>1, <2>2 DEF MapsSound
  <2> QED
    BY <2>2, <2>3 DEF DepsOK, UpwardClosed, ObservationsType
<1> QED
  BY <1>2, <1>3

LEMMA DependencyCategorySound ==
  ASSUME DepsOK, ObservationsType, CategoriesSound, NEW X \in deps
  PROVE  /\ DependencyCategory(X) \in DependencyKinds
         /\ DependencyCategory(X) = "MinimalDependency" => Minimal(X)
         /\ DependencyCategory(X) = "CandidateMinimalDependency" =>
              \A Y \in Subsets(X) : Y # EmptyVertical /\ ~Observed(Y, DependencyKinds)
PROOF
<1>1. DependencyCategory(X) \in DependencyKinds
  BY DEF DependencyCategory, DependencyKinds
<1>2. ASSUME DependencyCategory(X) = "CandidateMinimalDependency", NEW Y \in Subsets(X)
      PROVE  Y # EmptyVertical /\ ~Observed(Y, DependencyKinds)
  <2>1. ~(Cardinality(X) <= 1) /\ ~Observed(Y, DependencyKinds)
    BY <1>2 DEF DependencyCategory
  <2>2. PICK c \in X : Y = X \ {c}
    BY DEF Subsets
  <2>3. Y = EmptyVertical => X = {c}
    BY <2>2 DEF EmptyVertical
  <2> QED
    BY <2>1, <2>3, FS_Singleton
<1>3. ASSUME DependencyCategory(X) = "MinimalDependency", NEW c \in X
      PROVE  X \ {c} \notin deps
  <2>1. CASE Cardinality(X) <= 1
    <3>1. IsFiniteSet(X) /\ X # {}
      BY ColumnsAssumption, FS_Subset DEF DepsOK, Nodes, EmptyVertical
    <3>2. Cardinality(X) \in Nat /\ Cardinality(X) # 0
      BY <3>1, FS_EmptySet, FS_CardinalityType
    <3>4. Cardinality(X) = 1
      BY <2>1, <3>2
    <3>3. X = {c}
      BY <3>1, <3>4, FS_Singleton
    <3> QED
      BY <3>3 DEF DepsOK, Nodes, EmptyVertical
  <2>2. CASE ~(Cardinality(X) <= 1)
    <3>1. X \ {c} \in Subsets(X)
      BY DEF Subsets
    <3>2. X \ {c} \in DOMAIN observations
      BY <1>3, <2>2, <3>1 DEF DependencyCategory, Unchecked
    <3>3. ~Observed(X \ {c}, DependencyKinds)
      BY <1>3, <2>2, <3>1 DEF DependencyCategory
    <3> QED
      BY <3>2, <3>3 DEF Observed, CategoriesSound
  <2> QED
    BY <2>1, <2>2
<1> QED
  BY <1>1, <1>2, <1>3 DEF Minimal

LEMMA NonDependencyCategorySound ==
  ASSUME DepsOK, ObservationsType, CategoriesSound, NEW X \in Nodes \ deps
  PROVE  /\ NonDependencyCategory(X) \in NonDependencyKinds
         /\ NonDependencyCategory(X) = "MaximalNonDependency" => Maximal(X)
         /\ NonDependencyCategory(X) = "CandidateMaximalNonDependency" =>
              \A Y \in Supersets(X) : ~Observed(Y, NonDependencyKinds)
         /\ NonDependencyCategory(X) = "NonDependency" =>
              \E Y \in DOMAIN observations \ deps : X \subseteq Y /\ X # Y
PROOF
<1>1. NonDependencyCategory(X) \in NonDependencyKinds
  BY DEF NonDependencyCategory, NonDependencyKinds
<1>2. ASSUME NonDependencyCategory(X) = "CandidateMaximalNonDependency"
      PROVE  \A Y \in Supersets(X) : ~Observed(Y, NonDependencyKinds)
  BY <1>2 DEF NonDependencyCategory
<1>3. ASSUME NonDependencyCategory(X) = "MaximalNonDependency", NEW c \in Columns \ X
      PROVE  X \cup {c} \in deps
  <2>1. X \cup {c} \in Supersets(X)
    BY DEF Supersets
  <2>2. X \cup {c} \in DOMAIN observations
    BY <1>3, <2>1 DEF NonDependencyCategory, Unchecked
  <2>3. ~Observed(X \cup {c}, NonDependencyKinds)
    BY <1>3, <2>1 DEF NonDependencyCategory
  <2> QED
    BY <2>2, <2>3 DEF Observed, CategoriesSound, ObservationsType
<1>4. ASSUME NonDependencyCategory(X) = "NonDependency"
      PROVE  \E Y \in DOMAIN observations \ deps : X \subseteq Y /\ X # Y
  <2>1. PICK Y \in Supersets(X) : Observed(Y, NonDependencyKinds)
    BY <1>4 DEF NonDependencyCategory
  <2>2. Y \in DOMAIN observations /\ Y \notin deps
    BY <2>1 DEF Observed, CategoriesSound, DependencyKinds, NonDependencyKinds
  <2>3. X \subseteq Y /\ X # Y
    BY <2>1 DEF Supersets
  <2> QED
    BY <2>2, <2>3
<1> QED
  BY <1>1, <1>2, <1>3, <1>4 DEF Maximal

-----------------------------------------------------------------------------
(* The walk and the trace. *)

OnTrace == {trace[i] : i \in 1..Len(trace)}

LEMMA PrefixProperties ==
  ASSUME NEW S, NEW s \in Seq(S), NEW m \in Nat, m <= Len(s)
  PROVE  /\ SubSeq(s, 1, m) \in Seq(S)
         /\ Len(SubSeq(s, 1, m)) = m
         /\ \A i \in 1..m : SubSeq(s, 1, m)[i] = s[i]
PROOF
<1>1. \A i \in 1..m : s[i] \in S
  OBVIOUS
<1>2. m \in Int /\ 1 \in Int
  OBVIOUS
<1>3. SubSeq(s, 1, m) \in Seq(S)
  BY <1>1, <1>2, SubSeqProperties, Zenon
<1>4. Len(SubSeq(s, 1, m)) = m /\ \A i \in 1..m : SubSeq(s, 1, m)[i] = s[i]
  OBVIOUS
<1> QED
  BY <1>3, <1>4

LEMMA GoBackEffect ==
  ASSUME trace \in Seq(Nodes), GoBack
  PROVE  /\ trace' \in Seq(Nodes)
         /\ \/ pc' = "seed" /\ node' = EmptyVertical /\ trace' = <<>>
            \/ pc' = "observe" /\ node' \in Nodes
         /\ OnTrace \subseteq Awaited'
PROOF
<1>1. CASE trace = <<>>
  BY <1>1 DEF GoBack, OnTrace
<1>2. CASE trace # <<>>
  <2> DEFINE n == Len(trace)
  <2>1. n \in Nat \ {0} /\ trace[n] \in Nodes
    BY <1>2
  <2>2. node' = trace[n] /\ trace' = SubSeq(trace, 1, n - 1) /\ pc' = "observe"
    BY <1>2 DEF GoBack, Last, Front
  <2>3. trace' \in Seq(Nodes) /\ Len(trace') = n - 1 /\ \A i \in 1..n - 1 : trace'[i] = trace[i]
    <3>1. n - 1 \in Nat /\ n - 1 <= Len(trace)
      BY <2>1
    <3>2. /\ SubSeq(trace, 1, n - 1) \in Seq(Nodes)
          /\ Len(SubSeq(trace, 1, n - 1)) = n - 1
          /\ \A i \in 1..n - 1 : SubSeq(trace, 1, n - 1)[i] = trace[i]
      BY <3>1, PrefixProperties, Zenon
    <3> QED
      BY <2>2, <3>2, Zenon
  <2>4. ASSUME NEW i \in 1..n
        PROVE  trace[i] \in Awaited'
    <3>1. CASE i = n
      BY <2>2, <3>1 DEF Awaited
    <3>2. CASE i # n
      <4>1. i \in 1..Len(trace') /\ trace'[i] = trace[i]
        BY <2>1, <2>3, <3>2
      <4> QED
        BY <4>1 DEF Awaited
    <3> QED
      BY <3>1, <3>2
  <2> QED
    BY <2>1, <2>2, <2>3, <2>4 DEF OnTrace
<1> QED
  BY <1>1, <1>2

LEMMA GoOnEffect ==
  ASSUME trace \in Seq(Nodes), node \in Nodes, NEW X \in Nodes, GoOn(X)
  PROVE  /\ trace' \in Seq(Nodes)
         /\ pc' = "observe" /\ node' = X
         /\ OnTrace \cup {node, X} \subseteq Awaited'
PROOF
<1>1. trace' = Append(trace, node) /\ pc' = "observe" /\ node' = X
  BY DEF GoOn
<1>2. /\ trace' \in Seq(Nodes) /\ Len(trace') = Len(trace) + 1
      /\ \A i \in 1..Len(trace) : trace'[i] = trace[i]
      /\ trace'[Len(trace) + 1] = node
  BY <1>1
<1>3. node \in Awaited' /\ X \in Awaited'
  BY <1>1, <1>2 DEF Awaited
<1>4. ASSUME NEW i \in 1..Len(trace)
      PROVE  trace[i] \in Awaited'
  <2>1. i \in 1..Len(trace') /\ trace'[i] = trace[i]
    BY <1>2
  <2> QED
    BY <2>1 DEF Awaited
<1> QED
  BY <1>1, <1>2, <1>3, <1>4 DEF OnTrace

-----------------------------------------------------------------------------
(* The categories stay sound. *)

\* What is true of a category.
Fits(X, category) ==
  /\ category \in DependencyKinds \cup NonDependencyKinds
  /\ X \in deps <=> category \in DependencyKinds
  /\ category = "MinimalDependency" => Minimal(X)
  /\ category = "MaximalNonDependency" => Maximal(X)

\* A step that enters only what fits keeps what is known sound.
KeepsSound ==
  /\ deps' = deps
  /\ DOMAIN observations \subseteq DOMAIN observations'
  /\ DOMAIN observations' \subseteq Nodes
  /\ \A X \in DOMAIN observations' :
       \/ X \in DOMAIN observations /\ observations'[X] = observations[X]
       \/ Fits(X, observations'[X])
  /\ minimalDeps \subseteq minimalDeps'
  /\ \A X \in minimalDeps' \ minimalDeps : Minimal(X)
  /\ maximalNonDeps \subseteq maximalNonDeps'
  /\ \A X \in maximalNonDeps' \ maximalNonDeps : X \in Nodes /\ Maximal(X)
  /\ \/ dependenciesMap' = dependenciesMap
     \/ \E X \in deps \cap DOMAIN observations' : dependenciesMap' = AddNewDependency(dependenciesMap, X)
  /\ \/ nonDependenciesMap' = nonDependenciesMap
     \/ \E X \in DOMAIN observations' \ deps :
          nonDependenciesMap' = AddNewNonDependency(nonDependenciesMap, X)

\* The two parts of the type invariant: what is known, and where the walk is.
WalkTypeOK ==
  /\ seeds \subseteq Nodes
  /\ pending \subseteq maximalNonDeps
  /\ node \in Nodes \cup {EmptyVertical}
  /\ trace \in Seq(Nodes)
  /\ pc \in {"seed", "observe", "pick", "generate", "done"}

KnowledgeTypeOK ==
  /\ ObservationsType
  /\ minimalDeps \subseteq Nodes
  /\ maximalNonDeps \subseteq Nodes
  /\ dependenciesMap \in [Columns -> SUBSET Nodes]
  /\ nonDependenciesMap \in [Columns -> SUBSET Nodes]

LEMMA SoundKept ==
  ASSUME KnowledgeTypeOK, DepsOK, MapsSound, CategoriesSound, ExtremesSound, KeepsSound
  PROVE  KnowledgeTypeOK' /\ DepsOK' /\ MapsSound' /\ CategoriesSound' /\ ExtremesSound'
PROOF
<1>1. DepsOK'
  BY DEF DepsOK, UpwardClosed, KeepsSound
<1>2. ASSUME NEW X \in DOMAIN observations'
      PROVE  Fits(X, observations'[X])
  <2>1. CASE X \in DOMAIN observations /\ observations'[X] = observations[X]
    BY <2>1 DEF Fits, Minimal, Maximal, CategoriesSound, KnowledgeTypeOK, ObservationsType,
                DependencyKinds, NonDependencyKinds
  <2> QED
    BY <2>1 DEF KeepsSound
<1>3. ObservationsType'
  BY <1>2 DEF ObservationsType, Fits, KeepsSound, DependencyKinds, NonDependencyKinds, Nodes
<1>4. CategoriesSound'
  BY <1>2 DEF CategoriesSound, Fits, Minimal, Maximal, KeepsSound, DependencyKinds
<1>5. ExtremesSound'
  BY DEF ExtremesSound, Minimal, Maximal, KeepsSound
<1>6. /\ dependenciesMap' \in [Columns -> SUBSET Nodes]
      /\ \A c \in Columns : dependenciesMap'[c] \subseteq deps' \cap DOMAIN observations'
  <2>1. CASE dependenciesMap' = dependenciesMap
    BY <2>1 DEF KnowledgeTypeOK, MapsSound, KeepsSound
  <2>2. ASSUME NEW X \in deps \cap DOMAIN observations',
               dependenciesMap' = AddNewDependency(dependenciesMap, X)
        PROVE  /\ dependenciesMap' \in [Columns -> SUBSET Nodes]
               /\ \A c \in Columns : dependenciesMap'[c] \subseteq deps' \cap DOMAIN observations'
    <3>1. /\ dependenciesMap' = [c \in Columns |-> dependenciesMap'[c]]
          /\ \A c \in Columns : dependenciesMap'[c] \subseteq dependenciesMap[c] \cup {X}
      BY <2>2, Zenon DEF AddNewDependency
    <3> QED
      BY <2>2, <3>1 DEF KnowledgeTypeOK, MapsSound, KeepsSound
  <2> QED
    BY <2>1, <2>2 DEF KeepsSound
<1>7. /\ nonDependenciesMap' \in [Columns -> SUBSET Nodes]
      /\ \A c \in Columns : nonDependenciesMap'[c] \subseteq DOMAIN observations' \ deps'
  <2>1. CASE nonDependenciesMap' = nonDependenciesMap
    BY <2>1 DEF KnowledgeTypeOK, MapsSound, KeepsSound
  <2>2. ASSUME NEW X \in DOMAIN observations' \ deps,
               nonDependenciesMap' = AddNewNonDependency(nonDependenciesMap, X)
        PROVE  /\ nonDependenciesMap' \in [Columns -> SUBSET Nodes]
               /\ \A c \in Columns : nonDependenciesMap'[c] \subseteq DOMAIN observations' \ deps'
    <3>1. /\ nonDependenciesMap' = [c \in Columns |-> nonDependenciesMap'[c]]
          /\ \A c \in Columns : nonDependenciesMap'[c] \subseteq nonDependenciesMap[c] \cup {X}
      BY <2>2, Zenon DEF AddNewNonDependency
    <3> QED
      BY <2>2, <3>1 DEF KnowledgeTypeOK, MapsSound, KeepsSound
  <2> QED
    BY <2>1, <2>2 DEF KeepsSound
<1> QED
  BY <1>1, <1>3, <1>4, <1>5, <1>6, <1>7
     DEF KnowledgeTypeOK, MapsSound, KeepsSound, Minimal, DepsOK

LEMMA TypeParts == DepsOK => (TypeOK <=> KnowledgeTypeOK /\ WalkTypeOK)
PROOF
BY DEF TypeOK, KnowledgeTypeOK, WalkTypeOK, ObservationsType, DepsOK

\* For each action: what it enters fits, and the walk stays well-formed.
LEMMA SoundInvKept ==
  ASSUME SoundInv, KeepsSound, WalkTypeOK', NodeGiven', CandidateFresh'
  PROVE  SoundInv'
PROOF
<1>1. KnowledgeTypeOK' /\ DepsOK' /\ MapsSound' /\ CategoriesSound' /\ ExtremesSound'
  BY SoundKept, TypeParts DEF SoundInv
<1>2. TypeOK'
  BY <1>1 DEF TypeOK, KnowledgeTypeOK, WalkTypeOK, ObservationsType, DepsOK
<1> QED
  BY <1>1, <1>2 DEF SoundInv

LEMMA ClassifyEffect ==
  ASSUME NEW X, NEW category, Classify(X, category)
  PROVE  /\ DOMAIN observations' = DOMAIN observations \cup {X}
         /\ observations'[X] = category
         /\ \A Y \in DOMAIN observations \ {X} : observations'[Y] = observations[Y]
PROOF
BY DEF Classify

\* The walk classifies its node as the neighbours say: what is entered fits.
LEMMA ClassifyDependencySound ==
  ASSUME DepsOK, ObservationsType, CategoriesSound, NEW X \in deps, deps' = deps,
         Classify(X, DependencyCategory(X))
  PROVE  /\ Fits(X, observations'[X])
         /\ \A Y \in DOMAIN observations' :
              \/ Y \in DOMAIN observations /\ observations'[Y] = observations[Y]
              \/ Fits(Y, observations'[Y])
         /\ Observed(X, {"CandidateMinimalDependency"})' =>
              \A Y \in Subsets(X) : Y # EmptyVertical /\ ~Observed(Y, DependencyKinds)'
         /\ ~Observed(X, {"CandidateMaximalNonDependency"})'
PROOF
<1>1. /\ DOMAIN observations' = DOMAIN observations \cup {X}
      /\ observations'[X] = DependencyCategory(X)
      /\ \A Y \in DOMAIN observations \ {X} : observations'[Y] = observations[Y]
  BY ClassifyEffect
<1>2. /\ DependencyCategory(X) \in DependencyKinds
      /\ DependencyCategory(X) = "MinimalDependency" => Minimal(X)
      /\ DependencyCategory(X) = "CandidateMinimalDependency" =>
           \A Y \in Subsets(X) : Y # EmptyVertical /\ ~Observed(Y, DependencyKinds)
  BY DependencyCategorySound
<1>3. Fits(X, observations'[X])
  BY <1>1, <1>2 DEF Fits, DependencyKinds, NonDependencyKinds
<1>4. \A Y \in Subsets(X) : Y # X
  BY DEF Subsets
<1>5. ASSUME observations'[X] = "CandidateMinimalDependency", NEW Y \in Subsets(X)
      PROVE  Y # EmptyVertical /\ ~Observed(Y, DependencyKinds)'
  BY <1>1, <1>2, <1>4, <1>5 DEF Observed, DependencyKinds
<1> QED
  BY <1>1, <1>2, <1>3, <1>5 DEF Observed, DependencyKinds

LEMMA ClassifyNonDependencySound ==
  ASSUME DepsOK, ObservationsType, CategoriesSound, NEW X \in Nodes \ deps, deps' = deps,
         Classify(X, NonDependencyCategory(X))
  PROVE  /\ Fits(X, observations'[X])
         /\ \A Y \in DOMAIN observations' :
              \/ Y \in DOMAIN observations /\ observations'[Y] = observations[Y]
              \/ Fits(Y, observations'[Y])
         /\ Observed(X, {"CandidateMaximalNonDependency"})' =>
              \A Y \in Supersets(X) : ~Observed(Y, NonDependencyKinds)'
         /\ ~Observed(X, {"CandidateMinimalDependency"})'
PROOF
<1>1. /\ DOMAIN observations' = DOMAIN observations \cup {X}
      /\ observations'[X] = NonDependencyCategory(X)
      /\ \A Y \in DOMAIN observations \ {X} : observations'[Y] = observations[Y]
  BY ClassifyEffect
<1>2. /\ NonDependencyCategory(X) \in NonDependencyKinds
      /\ NonDependencyCategory(X) = "MaximalNonDependency" => Maximal(X)
      /\ NonDependencyCategory(X) = "CandidateMaximalNonDependency" =>
           \A Y \in Supersets(X) : ~Observed(Y, NonDependencyKinds)
  BY NonDependencyCategorySound
<1>3. Fits(X, observations'[X])
  BY <1>1, <1>2 DEF Fits, DependencyKinds, NonDependencyKinds
<1>4. \A Y \in Supersets(X) : Y # X
  BY DEF Supersets
<1>5. ASSUME observations'[X] = "CandidateMaximalNonDependency", NEW Y \in Supersets(X)
      PROVE  ~Observed(Y, NonDependencyKinds)'
  BY <1>1, <1>2, <1>4, <1>5 DEF Observed, NonDependencyKinds
<1> QED
  BY <1>1, <1>2, <1>3, <1>5 DEF Observed, NonDependencyKinds

-----------------------------------------------------------------------------
(* Each action keeps SoundInv. *)

LEMMA SoundInit == Init => SoundInv
PROOF
<1> SUFFICES ASSUME Init PROVE SoundInv
  OBVIOUS
<1> USE DEF EmptyVertical
<1>1. DepsOK
  BY DEF Init, DepsOK
<1>2. PICK unique \in SUBSET {c \in Columns : {c} \in deps} :
        /\ minimalDeps = {{c} : c \in unique}
        /\ observations = [X \in minimalDeps |-> "MinimalDependency"]
        /\ dependenciesMap = [c \in Columns |-> minimalDeps \cap {{c}}]
  BY DEF Init
<1>3. minimalDeps \subseteq deps /\ \A X \in minimalDeps : Minimal(X)
  <2>1. ASSUME NEW X \in minimalDeps
        PROVE  X \in deps /\ \A c \in X : X \ {c} \notin deps
    BY <1>1, <1>2 DEF DepsOK, Nodes
  <2> QED
    BY <2>1 DEF Minimal
<1>4. KnowledgeTypeOK
  BY <1>1, <1>2, <1>3 DEF Init, KnowledgeTypeOK, ObservationsType, DependencyKinds, DepsOK
<1>5. WalkTypeOK
  BY DEF Init, WalkTypeOK, Nodes
<1>6. CategoriesSound
  BY <1>2, <1>3 DEF CategoriesSound, Minimal, DependencyKinds
<1>7. ExtremesSound
  BY <1>3 DEF Init, ExtremesSound, Minimal
<1>8. MapsSound
  BY <1>2, <1>3 DEF Init, MapsSound
<1>9. CandidateFresh /\ NodeGiven
  BY DEF Init, CandidateFresh, NodeGiven
<1> QED
  BY <1>1, <1>4, <1>5, <1>6, <1>7, <1>8, <1>9, TypeParts DEF SoundInv

LEMMA SoundPopSeed == SoundInv /\ PopSeed => SoundInv'
PROOF
<1> SUFFICES ASSUME SoundInv, PopSeed PROVE SoundInv'
  OBVIOUS
<1>1. PICK seed \in seeds : node' = seed /\ seeds' = seeds \ {seed}
  BY DEF PopSeed
<1>2. KeepsSound
  BY DEF PopSeed, KeepsSound, SoundInv, TypeOK
<1>3. WalkTypeOK' /\ NodeGiven'
  BY <1>1 DEF PopSeed, WalkTypeOK, NodeGiven, SoundInv, TypeOK
<1>4. CandidateFresh'
  BY DEF PopSeed, CandidateFresh
<1> QED
  BY <1>2, <1>3, <1>4, SoundInvKept

\* The node is classified: by a look at the partitions, by inference or again.
LEMMA SoundObserveDependency ==
  ASSUME SoundInv, pc = "observe", pc' = "pick", UNCHANGED walkVars, node \in deps,
         Classify(node, DependencyCategory(node)),
         minimalDeps' \in {minimalDeps, IF DependencyCategory(node) = "MinimalDependency"
                                        THEN minimalDeps \cup {node} ELSE minimalDeps},
         UNCHANGED <<maximalNonDeps, nonDependenciesMap>>,
         dependenciesMap' \in {dependenciesMap, AddNewDependency(dependenciesMap, node)}
  PROVE  SoundInv'
PROOF
<1>1. DepsOK /\ ObservationsType /\ CategoriesSound /\ deps' = deps /\ node' = node
  BY TypeParts DEF SoundInv, KnowledgeTypeOK, walkVars
<1>2. /\ Fits(node, observations'[node])
      /\ \A Y \in DOMAIN observations' :
           \/ Y \in DOMAIN observations /\ observations'[Y] = observations[Y]
           \/ Fits(Y, observations'[Y])
      /\ Observed(node, {"CandidateMinimalDependency"})' =>
           \A Y \in Subsets(node) : Y # EmptyVertical /\ ~Observed(Y, DependencyKinds)'
      /\ ~Observed(node, {"CandidateMaximalNonDependency"})'
  BY <1>1, ClassifyDependencySound
<1>3. DOMAIN observations' = DOMAIN observations \cup {node}
  BY ClassifyEffect
<1>4. \A X \in minimalDeps' \ minimalDeps : Minimal(X)
  BY <1>1, DependencyCategorySound
<1>5. KeepsSound
  BY <1>1, <1>2, <1>3, <1>4 DEF KeepsSound, DepsOK, ObservationsType
<1>6. WalkTypeOK' /\ NodeGiven'
  BY DEF WalkTypeOK, NodeGiven, walkVars, SoundInv, TypeOK
<1>7. CandidateFresh'
  BY <1>1, <1>2, <1>3 DEF CandidateFresh, Observed, Subsets
<1> QED
  BY <1>5, <1>6, <1>7, SoundInvKept

LEMMA SoundObserveNonDependency ==
  ASSUME SoundInv, pc = "observe", pc' = "pick", UNCHANGED walkVars, node \in Nodes \ deps,
         Classify(node, NonDependencyCategory(node)),
         maximalNonDeps' \in {maximalNonDeps, IF NonDependencyCategory(node) = "MaximalNonDependency"
                                              THEN maximalNonDeps \cup {node} ELSE maximalNonDeps},
         UNCHANGED <<minimalDeps, dependenciesMap>>,
         nonDependenciesMap' \in {nonDependenciesMap, AddNewNonDependency(nonDependenciesMap, node)}
  PROVE  SoundInv'
PROOF
<1>1. DepsOK /\ ObservationsType /\ CategoriesSound /\ deps' = deps /\ node' = node
  BY TypeParts DEF SoundInv, KnowledgeTypeOK, walkVars
<1>2. /\ Fits(node, observations'[node])
      /\ \A Y \in DOMAIN observations' :
           \/ Y \in DOMAIN observations /\ observations'[Y] = observations[Y]
           \/ Fits(Y, observations'[Y])
      /\ Observed(node, {"CandidateMaximalNonDependency"})' =>
           \A Y \in Supersets(node) : ~Observed(Y, NonDependencyKinds)'
      /\ ~Observed(node, {"CandidateMinimalDependency"})'
  BY <1>1, ClassifyNonDependencySound
<1>3. DOMAIN observations' = DOMAIN observations \cup {node}
  BY ClassifyEffect
<1>4. \A X \in maximalNonDeps' \ maximalNonDeps : X \in Nodes /\ Maximal(X)
  BY <1>1, NonDependencyCategorySound
<1>5. KeepsSound
  BY <1>1, <1>2, <1>3, <1>4 DEF KeepsSound, DepsOK, ObservationsType
<1>6. WalkTypeOK' /\ NodeGiven'
  BY DEF WalkTypeOK, NodeGiven, walkVars, SoundInv, TypeOK
<1>7. CandidateFresh'
  BY <1>1, <1>2, <1>3 DEF CandidateFresh, Observed, Supersets
<1> QED
  BY <1>5, <1>6, <1>7, SoundInvKept

LEMMA SoundRecheck == SoundInv /\ Recheck => SoundInv'
PROOF
<1> SUFFICES ASSUME SoundInv, Recheck PROVE SoundInv'
  OBVIOUS
<1>1. /\ pc = "observe" /\ pc' = "pick" /\ UNCHANGED walkVars
      /\ node \in DOMAIN observations
      /\ UNCHANGED <<dependenciesMap, nonDependenciesMap>>
  BY DEF Recheck, mapVars
<1>2. CASE observations[node] = "CandidateMinimalDependency" /\ ClassifyDependency(node)
  <2>1. node \in deps
    BY <1>1, <1>2 DEF SoundInv, CategoriesSound, DependencyKinds
  <2> QED
    BY <1>1, <1>2, <2>1, SoundObserveDependency DEF ClassifyDependency
<1>3. CASE observations[node] = "CandidateMaximalNonDependency" /\ ClassifyNonDependency(node)
  <2>1. node \in Nodes \ deps
    BY <1>1, <1>3 DEF SoundInv, CategoriesSound, DependencyKinds, TypeOK
  <2> QED
    BY <1>1, <1>3, <2>1, SoundObserveNonDependency DEF ClassifyNonDependency
<1>4. CASE /\ observations[node] \notin {"CandidateMinimalDependency", "CandidateMaximalNonDependency"}
           /\ UNCHANGED <<observations, minimalDeps, maximalNonDeps>>
  <2>1. KeepsSound
    BY <1>1, <1>4 DEF KeepsSound, walkVars, SoundInv, TypeOK
  <2>2. WalkTypeOK' /\ NodeGiven'
    BY <1>1, <1>4 DEF WalkTypeOK, NodeGiven, walkVars, SoundInv, TypeOK
  <2>3. CandidateFresh'
    BY <1>1, <1>4 DEF CandidateFresh, Observed, walkVars
  <2> QED
    BY <2>1, <2>2, <2>3, SoundInvKept
<1> QED
  BY <1>2, <1>3, <1>4 DEF Recheck

LEMMA SoundInferNonDependency == SoundInv /\ InferNonDependency => SoundInv'
PROOF
<1> SUFFICES ASSUME SoundInv, InferNonDependency PROVE SoundInv'
  OBVIOUS
<1>1. node \in Nodes
  BY DEF InferNonDependency, SoundInv, NodeGiven
<1>2. node \notin deps
  BY <1>1, KnownSound, TypeParts DEF InferNonDependency, SoundInv, KnowledgeTypeOK
<1> QED
  BY <1>1, <1>2, SoundObserveNonDependency DEF InferNonDependency

LEMMA SoundInferDependency == SoundInv /\ InferDependency => SoundInv'
PROOF
<1> SUFFICES ASSUME SoundInv, InferDependency PROVE SoundInv'
  OBVIOUS
<1>1. node \in Nodes
  BY DEF InferDependency, SoundInv, NodeGiven
<1>2. node \in deps
  BY <1>1, KnownSound, TypeParts DEF InferDependency, SoundInv, KnowledgeTypeOK
<1> QED
  BY <1>2, SoundObserveDependency DEF InferDependency

LEMMA SoundComparePartitions == SoundInv /\ ComparePartitions => SoundInv'
PROOF
<1> SUFFICES ASSUME SoundInv, ComparePartitions PROVE SoundInv'
  OBVIOUS
<1>1. CASE node \in deps
  BY <1>1, SoundObserveDependency DEF ComparePartitions, ClassifyDependency
<1>2. CASE node \notin deps
  <2>1. node \in Nodes
    BY DEF ComparePartitions, SoundInv, NodeGiven
  <2> QED
    BY <1>2, <2>1, SoundObserveNonDependency DEF ComparePartitions, ClassifyNonDependency
<1> QED
  BY <1>1, <1>2

\* A step of PickNextNode from what is known to the next node.
LEMMA SoundPicked ==
  ASSUME SoundInv, pc = "pick", KeepsSound, UNCHANGED <<seeds, pending>>,
         GoBack \/ \E X \in Nodes : GoOn(X)
  PROVE  SoundInv'
PROOF
<1>1. trace \in Seq(Nodes) /\ node \in Nodes
  BY DEF SoundInv, TypeOK, NodeGiven
<1>2. /\ trace' \in Seq(Nodes)
      /\ \/ pc' = "seed" /\ node' = EmptyVertical
         \/ pc' = "observe" /\ node' \in Nodes
  BY <1>1, GoBackEffect, GoOnEffect
<1>3. WalkTypeOK' /\ NodeGiven'
  BY <1>2 DEF KeepsSound, WalkTypeOK, NodeGiven, SoundInv, TypeOK
<1>4. CandidateFresh'
  BY <1>2 DEF CandidateFresh
<1> QED
  BY <1>3, <1>4, SoundInvKept

LEMMA MarkSound ==
  ASSUME SoundInv, deps' = deps, NEW N \in SUBSET Nodes, NEW D \in SUBSET Nodes, Mark(N, D),
         \A X \in N : X \notin deps, \A X \in D : X \in deps
  PROVE  /\ DOMAIN observations' = DOMAIN observations \cup N \cup D
         /\ \A X \in DOMAIN observations' :
              \/ X \in DOMAIN observations /\ observations'[X] = observations[X]
              \/ Fits(X, observations'[X])
PROOF
BY DEF Mark, Fits, DependencyKinds, NonDependencyKinds

LEMMA PickedNeighbours ==
  ASSUME SoundInv, pc = "pick"
  PROVE  /\ node \in Nodes
         /\ Observed(node, {"CandidateMinimalDependency"}) =>
              node \in deps /\ Subsets(node) \subseteq Nodes
         /\ Supersets(node) \subseteq Nodes
PROOF
<1>1. node \in Nodes
  BY DEF SoundInv, NodeGiven
<1>2. Supersets(node) \subseteq Nodes
  BY <1>1 DEF Supersets, Nodes, EmptyVertical
<1>3. ASSUME Observed(node, {"CandidateMinimalDependency"})
      PROVE  node \in deps /\ Subsets(node) \subseteq Nodes
  BY <1>1, <1>3 DEF SoundInv, CandidateFresh, Observed, CategoriesSound, DependencyKinds, Subsets, Nodes
<1> QED
  BY <1>1, <1>2, <1>3

LEMMA SoundPickSubset == SoundInv /\ PickSubset => SoundInv'
PROOF
<1> SUFFICES ASSUME SoundInv, PickSubset PROVE SoundInv'
  OBVIOUS
<1> DEFINE unchecked == Unchecked(Subsets(node))
           pruned == {X \in unchecked : KnownNonDependency(X)}
<1>1. /\ pc = "pick" /\ Observed(node, {"CandidateMinimalDependency"})
      /\ UNCHANGED <<deps, maximalNonDeps, dependenciesMap, nonDependenciesMap, seeds, pending>>
      /\ IF unchecked = {}
         THEN Classify(node, "MinimalDependency") /\ minimalDeps' = minimalDeps \cup {node}
         ELSE Mark(pruned, {}) /\ UNCHANGED minimalDeps
      /\ IF unchecked = pruned THEN GoBack ELSE \E X \in unchecked \ pruned : GoOn(X)
  BY DEF PickSubset, mapVars
<1>2. /\ node \in deps /\ unchecked \subseteq Nodes
      /\ \A Y \in Subsets(node) : ~Observed(Y, DependencyKinds)
  BY <1>1, PickedNeighbours DEF SoundInv, CandidateFresh, Unchecked
<1>3. \A X \in pruned : X \notin deps
  BY <1>2, KnownSound, TypeParts DEF SoundInv, KnowledgeTypeOK
<1>4. KeepsSound
  <2>1. CASE unchecked = {}
    <3>1. ASSUME NEW c \in node
          PROVE  node \ {c} \notin deps
      <4>1. node \ {c} \in Subsets(node)
        BY DEF Subsets
      <4>2. node \ {c} \in DOMAIN observations
        BY <2>1, <4>1 DEF Unchecked
      <4> QED
        BY <1>2, <4>1, <4>2 DEF Observed, SoundInv, CategoriesSound
    <3>2. Fits(node, "MinimalDependency") /\ Minimal(node)
      BY <1>2, <3>1 DEF Minimal, Fits, DependencyKinds
    <3>3. Classify(node, "MinimalDependency") /\ minimalDeps' = minimalDeps \cup {node}
      BY <1>1, <2>1
    <3>4. /\ DOMAIN observations' = DOMAIN observations \cup {node}
          /\ observations'[node] = "MinimalDependency"
          /\ \A Y \in DOMAIN observations \ {node} : observations'[Y] = observations[Y]
      BY <3>3, ClassifyEffect
    <3> QED
      BY <1>1, <1>2, <3>2, <3>3, <3>4, TypeParts
         DEF KeepsSound, SoundInv, DepsOK, KnowledgeTypeOK, ObservationsType
  <2>2. CASE unchecked # {}
    <3>1. Mark(pruned, {}) /\ UNCHANGED minimalDeps
      BY <1>1, <2>2
    <3>2. pruned \in SUBSET Nodes
      BY <1>2
    <3> HIDE DEF unchecked, pruned
    <3>3. /\ DOMAIN observations' = DOMAIN observations \cup pruned \cup {}
          /\ \A X \in DOMAIN observations' :
               \/ X \in DOMAIN observations /\ observations'[X] = observations[X]
               \/ Fits(X, observations'[X])
      <4>1. deps' = deps /\ {} \in SUBSET Nodes /\ \A X \in {} : X \in deps
        BY <1>1
      <4> QED
        BY <1>3, <3>1, <3>2, <4>1, MarkSound
    <3> QED
      BY <1>1, <3>1, <3>2, <3>3, TypeParts DEF KeepsSound, SoundInv, KnowledgeTypeOK, ObservationsType
  <2> QED
    BY <2>1, <2>2
<1>5. GoBack \/ \E X \in Nodes : GoOn(X)
  BY <1>1, <1>2
<1> QED
  BY <1>1, <1>4, <1>5, SoundPicked

LEMMA SoundPickSuperset == SoundInv /\ PickSuperset => SoundInv'
PROOF
<1> SUFFICES ASSUME SoundInv, PickSuperset PROVE SoundInv'
  OBVIOUS
<1> DEFINE unchecked == Unchecked(Supersets(node))
           nonDependencies == {X \in unchecked : KnownNonDependency(X)}
           dependencies == {X \in unchecked : KnownDependency(X)}
           left == unchecked \ (nonDependencies \cup dependencies)
<1>1. /\ pc = "pick" /\ Observed(node, {"CandidateMaximalNonDependency"})
      /\ UNCHANGED <<deps, minimalDeps, dependenciesMap, nonDependenciesMap, seeds, pending>>
      /\ IF left = {} /\ nonDependencies = {}
         THEN /\ observations' = [X \in DOMAIN observations \cup dependencies |->
                                    IF X = node THEN "MaximalNonDependency"
                                    ELSE IF X \in dependencies THEN "Dependency" ELSE observations[X]]
              /\ maximalNonDeps' = maximalNonDeps \cup {node}
         ELSE Mark(nonDependencies, dependencies) /\ UNCHANGED maximalNonDeps
      /\ IF left = {} THEN GoBack ELSE \E X \in left : GoOn(X)
  BY DEF PickSuperset, mapVars
<1>2. /\ node \in Nodes /\ unchecked \subseteq Nodes
      /\ node \in DOMAIN observations
      /\ node \notin deps
      /\ \A Y \in Supersets(node) : ~Observed(Y, NonDependencyKinds)
  BY <1>1, PickedNeighbours
     DEF SoundInv, CandidateFresh, Unchecked, Observed, CategoriesSound, DependencyKinds
<1>3. /\ \A X \in nonDependencies : X \notin deps
      /\ \A X \in dependencies : X \in deps
  BY <1>2, KnownSound, TypeParts DEF SoundInv, KnowledgeTypeOK
<1>4. KeepsSound
  <2>1. CASE left = {} /\ nonDependencies = {}
    <3>1. ASSUME NEW c \in Columns \ node
          PROVE  node \cup {c} \in deps
      <4>1. node \cup {c} \in Supersets(node)
        BY DEF Supersets
      <4>2. CASE node \cup {c} \in unchecked
        BY <1>3, <2>1, <4>2
      <4>3. CASE node \cup {c} \in DOMAIN observations
        BY <1>2, <4>1, <4>3, TypeParts
           DEF Observed, SoundInv, CategoriesSound, KnowledgeTypeOK, ObservationsType
      <4> QED
        BY <4>1, <4>2, <4>3 DEF Unchecked
    <3>2. Fits(node, "MaximalNonDependency") /\ Maximal(node)
      BY <1>2, <3>1 DEF Maximal, Fits, DependencyKinds, NonDependencyKinds
    <3>3. \A X \in dependencies : Fits(X, "Dependency")
      BY <1>3 DEF Fits, DependencyKinds, NonDependencyKinds
    <3>4. dependencies \subseteq Nodes
      BY <1>2
    <3> HIDE DEF unchecked, dependencies, nonDependencies, left
    <3>5. /\ observations' = [X \in DOMAIN observations \cup dependencies |->
                                IF X = node THEN "MaximalNonDependency"
                                ELSE IF X \in dependencies THEN "Dependency" ELSE observations[X]]
          /\ maximalNonDeps' = maximalNonDeps \cup {node}
      BY <1>1, <2>1
    <3>6. /\ DOMAIN observations' = DOMAIN observations \cup dependencies
          /\ \A X \in DOMAIN observations' :
               \/ X \in DOMAIN observations /\ observations'[X] = observations[X]
               \/ Fits(X, observations'[X])
      BY <3>2, <3>3, <3>5
    <3> QED
      BY <1>1, <1>2, <3>2, <3>4, <3>5, <3>6, TypeParts
         DEF KeepsSound, SoundInv, KnowledgeTypeOK, ObservationsType
  <2>2. CASE ~(left = {} /\ nonDependencies = {})
    <3>1. Mark(nonDependencies, dependencies) /\ UNCHANGED maximalNonDeps
      BY <1>1, <2>2
    <3>2. nonDependencies \in SUBSET Nodes /\ dependencies \in SUBSET Nodes
      BY <1>2
    <3> HIDE DEF unchecked, dependencies, nonDependencies, left
    <3>3. /\ DOMAIN observations' = DOMAIN observations \cup nonDependencies \cup dependencies
          /\ \A X \in DOMAIN observations' :
               \/ X \in DOMAIN observations /\ observations'[X] = observations[X]
               \/ Fits(X, observations'[X])
      BY <1>1, <1>3, <3>1, <3>2, MarkSound
    <3> QED
      BY <1>1, <3>1, <3>2, <3>3, TypeParts DEF KeepsSound, SoundInv, KnowledgeTypeOK, ObservationsType
  <2> QED
    BY <2>1, <2>2
<1>5. GoBack \/ \E X \in Nodes : GoOn(X)
  BY <1>1, <1>2
<1> QED
  BY <1>1, <1>4, <1>5, SoundPicked

LEMMA SoundPickNone == SoundInv /\ PickNone => SoundInv'
PROOF
<1> SUFFICES ASSUME SoundInv, PickNone PROVE SoundInv'
  OBVIOUS
<1>1. KeepsSound
  BY DEF PickNone, KeepsSound, SoundInv, TypeOK, mapVars
<1> QED
  BY <1>1, SoundPicked DEF PickNone

\* Making seeds: nothing new is known.
LEMMA EscapeFromType ==
  ASSUME seeds \subseteq Nodes, NEW X
  PROVE  EscapeFrom(X) \subseteq Nodes
PROOF
BY DEF EscapeFrom, Extended, Minimize, Nodes, EmptyVertical

LEMMA SoundGenerating ==
  ASSUME SoundInv, NoSeeds \/ GenerateSeeds \/ SeedsReady
  PROVE  SoundInv'
PROOF
<1>1. KeepsSound
  BY DEF NoSeeds, GenerateSeeds, SeedsReady, KeepsSound, SoundInv, TypeOK, mapVars
<1>2. seeds' \subseteq Nodes /\ pending' \subseteq maximalNonDeps
  BY EscapeFromType DEF NoSeeds, GenerateSeeds, SeedsReady, SoundInv, TypeOK
<1>3. WalkTypeOK' /\ NodeGiven' /\ CandidateFresh'
  BY <1>2 DEF NoSeeds, GenerateSeeds, SeedsReady, WalkTypeOK, NodeGiven, CandidateFresh, SoundInv, TypeOK
<1> QED
  BY <1>1, <1>3, SoundInvKept

\* No step enters a wrong category, in the observations or in the results.
THEOREM SoundInvInvariant == Spec => []SoundInv
PROOF
<1>1. SoundInv /\ [Next]_vars => SoundInv'
  <2> SUFFICES ASSUME SoundInv, [Next]_vars PROVE SoundInv'
    OBVIOUS
  <2>1. CASE UNCHANGED vars
    <3>1. KeepsSound
      BY <2>1 DEF vars, KeepsSound, SoundInv, TypeOK
    <3>2. WalkTypeOK' /\ NodeGiven' /\ CandidateFresh'
      BY <2>1 DEF vars, WalkTypeOK, NodeGiven, CandidateFresh, Observed, Subsets, Supersets, SoundInv, TypeOK
    <3> QED
      BY <3>1, <3>2, SoundInvKept
  <2> QED
    BY <2>1, SoundPopSeed, SoundRecheck, SoundInferNonDependency, SoundInferDependency,
       SoundComparePartitions, SoundPickSubset, SoundPickSuperset, SoundPickNone, SoundGenerating
       DEF Next, InferCategory
<1> QED
  BY <1>1, SoundInit, PTL DEF Spec

\* TypeOK: the variables of the search keep their types.
THEOREM TypeCorrect == Spec => []TypeOK
PROOF
<1>1. SoundInv => TypeOK
  BY DEF SoundInv
<1> QED
  BY <1>1, SoundInvInvariant, PTL

\* CategoriesSound: however a set is classified, by the partitions, by the pruning
\* maps or by its neighbours, its category is right.
THEOREM CategoriesAlwaysSound == Spec => []CategoriesSound
PROOF
<1>1. SoundInv => CategoriesSound
  BY DEF SoundInv
<1> QED
  BY <1>1, SoundInvInvariant, PTL

\* Everything entered as a minimal dependency or as a maximal non-dependency is one
\* (LatticeTraversal::FindLHSs).
THEOREM ExtremesAlwaysSound == Spec => []ExtremesSound
PROOF
<1>1. SoundInv => ExtremesSound
  BY DEF SoundInv
<1> QED
  BY <1>1, SoundInvInvariant, PTL

-----------------------------------------------------------------------------
(* No minimal dependency escapes. *)

LEMMA CompleteInit == Init => CompleteInv
PROOF
<1> SUFFICES ASSUME Init PROVE CompleteInv
  OBVIOUS
<1>1. PICK unique \in SUBSET {c \in Columns : {c} \in deps} :
        /\ minimalDeps = {{c} : c \in unique}
        /\ observations = [X \in minimalDeps |-> "MinimalDependency"]
  BY DEF Init
<1>2. DOMAIN observations = minimalDeps /\ minimalDeps \subseteq deps
  BY <1>1
<1>3. NonDependenciesLead /\ SinglesKept
  BY <1>2 DEF NonDependenciesLead, SinglesKept
<1>4. SinglesMet /\ TraceEmpty /\ SeedsCover /\ MissesNone
  BY DEF Init, SinglesMet, TraceEmpty, SeedsCover, MissesNone
<1> QED
  BY <1>3, <1>4 DEF CompleteInv

\* What a step has to say of the non-dependencies it enters or leaves behind.
LEMMA LeadKept ==
  ASSUME NonDependenciesLead, deps' = deps,
         DOMAIN observations \subseteq DOMAIN observations',
         maximalNonDeps \subseteq maximalNonDeps',
         \A X \in DOMAIN observations' \ deps :
           \/ X \in DOMAIN observations /\ X \notin Awaited
           \/ X \in DOMAIN observations /\ X \in Awaited' /\ observations'[X] = observations[X]
           \/ X \in DOMAIN observations /\ observations[X] # "CandidateMaximalNonDependency"
           \/ X \in maximalNonDeps'
           \/ \E Y \in DOMAIN observations' \ deps : X \subseteq Y /\ X # Y
           \/ X \in Awaited' /\ observations'[X] = "CandidateMaximalNonDependency"
  PROVE  NonDependenciesLead'
PROOF
<1> SUFFICES ASSUME NEW X \in DOMAIN observations' \ deps
             PROVE  \/ X \in maximalNonDeps'
                    \/ \E Y \in DOMAIN observations' \ deps : X \subseteq Y /\ X # Y
                    \/ X \in Awaited' /\ observations'[X] = "CandidateMaximalNonDependency"
  BY DEF NonDependenciesLead
<1>1. X \in DOMAIN observations =>
        \/ X \in maximalNonDeps
        \/ \E Y \in DOMAIN observations \ deps : X \subseteq Y /\ X # Y
        \/ X \in Awaited /\ observations[X] = "CandidateMaximalNonDependency"
  BY DEF NonDependenciesLead
<1> QED
  BY <1>1

LEMMA CompletePopSeed == SoundInv /\ CompleteInv /\ PopSeed => CompleteInv'
PROOF
<1> SUFFICES ASSUME SoundInv, CompleteInv, PopSeed PROVE CompleteInv'
  OBVIOUS
<1>1. PICK seed \in seeds : node' = seed /\ seeds' = seeds \ {seed}
  BY DEF PopSeed
<1>2. /\ pc = "seed" /\ pc' = "observe" /\ trace' = trace
      /\ UNCHANGED <<deps, observations, minimalDeps, maximalNonDeps>>
  BY DEF PopSeed
<1>3. Awaited \subseteq Awaited'
  BY <1>2 DEF Awaited
<1>4. NonDependenciesLead'
  BY <1>2, <1>3, LeadKept DEF CompleteInv
<1>5. SinglesMet'
  BY <1>1, <1>2 DEF SinglesMet, CompleteInv
<1>6. SinglesKept' /\ TraceEmpty' /\ SeedsCover' /\ MissesNone'
  BY <1>2 DEF SinglesKept, TraceEmpty, SeedsCover, MissesNone, CompleteInv
<1> QED
  BY <1>4, <1>5, <1>6 DEF CompleteInv

\* The node is classified: what the step says of the node is enough.
LEMMA CompleteObserve ==
  ASSUME SoundInv, CompleteInv, pc = "observe", pc' = "pick", UNCHANGED walkVars,
         DOMAIN observations' = DOMAIN observations \cup {node},
         \A Y \in DOMAIN observations \ {node} : observations'[Y] = observations[Y],
         minimalDeps \subseteq minimalDeps', maximalNonDeps \subseteq maximalNonDeps',
         node \notin deps =>
           \/ node \in maximalNonDeps'
           \/ \E Y \in DOMAIN observations' \ deps : node \subseteq Y /\ node # Y
           \/ observations'[node] = "CandidateMaximalNonDependency"
           \/ node \in DOMAIN observations /\ observations[node] # "CandidateMaximalNonDependency",
         \A c \in Columns : node = {c} /\ node \in deps => node \in minimalDeps'
  PROVE  CompleteInv'
PROOF
<1>1. deps' = deps /\ seeds' = seeds /\ node' = node /\ trace' = trace
  BY DEF walkVars
<1>2. Awaited' = Awaited /\ node \in Awaited
  BY <1>1 DEF Awaited
<1>3. NonDependenciesLead'
  BY <1>1, <1>2, LeadKept DEF CompleteInv
<1>4. SinglesMet'
  BY <1>1 DEF SinglesMet, CompleteInv
<1>5. SinglesKept'
  BY <1>1 DEF SinglesKept, CompleteInv
<1>6. TraceEmpty' /\ SeedsCover' /\ MissesNone'
  BY <1>1 DEF TraceEmpty, SeedsCover, MissesNone
<1> QED
  BY <1>3, <1>4, <1>5, <1>6 DEF CompleteInv

LEMMA SingleCategory ==
  ASSUME NEW c \in Columns
  PROVE  DependencyCategory({c}) = "MinimalDependency"
PROOF
<1>1. Cardinality({c}) = 1
  BY FS_Singleton
<1> QED
  BY <1>1 DEF DependencyCategory

\* A non-dependency classified by its neighbours leads on.
LEMMA NonDependencyLeads ==
  ASSUME SoundInv, node \in Nodes \ deps, Classify(node, NonDependencyCategory(node))
  PROVE  \/ observations'[node] = "MaximalNonDependency" /\ NonDependencyCategory(node) = "MaximalNonDependency"
         \/ \E Y \in DOMAIN observations' \ deps : node \subseteq Y /\ node # Y
         \/ observations'[node] = "CandidateMaximalNonDependency"
PROOF
<1>1. DOMAIN observations \subseteq DOMAIN observations' /\ observations'[node] = NonDependencyCategory(node)
  BY ClassifyEffect
<1>2. /\ NonDependencyCategory(node) \in NonDependencyKinds
      /\ NonDependencyCategory(node) = "NonDependency" =>
           \E Y \in DOMAIN observations \ deps : node \subseteq Y /\ node # Y
  BY NonDependencyCategorySound, TypeParts DEF SoundInv, KnowledgeTypeOK
<1> QED
  BY <1>1, <1>2 DEF NonDependencyKinds

LEMMA CompleteRecheck == SoundInv /\ CompleteInv /\ Recheck => CompleteInv'
PROOF
<1> SUFFICES ASSUME SoundInv, CompleteInv, Recheck PROVE CompleteInv'
  OBVIOUS
<1>1. pc = "observe" /\ pc' = "pick" /\ UNCHANGED walkVars /\ node \in DOMAIN observations
  BY DEF Recheck
<1>2. \A c \in Columns : node = {c} /\ node \in deps => node \in minimalDeps
  BY <1>1 DEF CompleteInv, SinglesKept
<1>3. CASE observations[node] = "CandidateMinimalDependency" /\ ClassifyDependency(node)
  <2>1. node \in deps
    BY <1>1, <1>3 DEF SoundInv, CategoriesSound, DependencyKinds
  <2>2. Classify(node, DependencyCategory(node))
    BY <1>3 DEF ClassifyDependency
  <2>3. minimalDeps \subseteq minimalDeps' /\ maximalNonDeps' = maximalNonDeps
    BY <1>3 DEF ClassifyDependency
  <2> QED
    BY <1>1, <1>2, <2>1, <2>2, <2>3, ClassifyEffect, CompleteObserve
<1>4. CASE observations[node] = "CandidateMaximalNonDependency" /\ ClassifyNonDependency(node)
  <2>1. node \in Nodes \ deps
    BY <1>1, <1>4 DEF SoundInv, CategoriesSound, DependencyKinds, TypeOK
  <2>2. Classify(node, NonDependencyCategory(node))
    BY <1>4 DEF ClassifyNonDependency
  <2>3. /\ maximalNonDeps \subseteq maximalNonDeps' /\ minimalDeps' = minimalDeps
        /\ NonDependencyCategory(node) = "MaximalNonDependency" => node \in maximalNonDeps'
    BY <1>4 DEF ClassifyNonDependency
  <2> QED
    BY <1>1, <1>2, <2>1, <2>2, <2>3, ClassifyEffect, NonDependencyLeads, CompleteObserve
<1>5. CASE /\ observations[node] \notin {"CandidateMinimalDependency", "CandidateMaximalNonDependency"}
           /\ UNCHANGED <<observations, minimalDeps, maximalNonDeps>>
  <2>1. DOMAIN observations' = DOMAIN observations \cup {node}
    BY <1>1, <1>5
  <2> QED
    BY <1>1, <1>2, <1>5, <2>1, CompleteObserve
<1> QED
  BY <1>3, <1>4, <1>5 DEF Recheck

LEMMA CompleteInferNonDependency == SoundInv /\ CompleteInv /\ InferNonDependency => CompleteInv'
PROOF
<1> SUFFICES ASSUME SoundInv, CompleteInv, InferNonDependency PROVE CompleteInv'
  OBVIOUS
<1>1. /\ pc = "observe" /\ pc' = "pick" /\ UNCHANGED walkVars /\ node \notin DOMAIN observations
      /\ UNCHANGED <<minimalDeps, maximalNonDeps>>
      /\ Classify(node, NonDependencyCategory(node))
  BY DEF InferNonDependency
<1>2. node \in Nodes
  BY DEF InferNonDependency, SoundInv, NodeGiven
<1>3. node \notin deps /\ \E Y \in DOMAIN observations \ deps : node \subseteq Y
  BY <1>2, KnownSound, TypeParts DEF InferNonDependency, SoundInv, KnowledgeTypeOK
<1>4. \E Y \in DOMAIN observations' \ deps : node \subseteq Y /\ node # Y
  BY <1>1, <1>3, ClassifyEffect
<1> QED
  BY <1>1, <1>3, <1>4, ClassifyEffect, CompleteObserve

LEMMA CompleteInferDependency == SoundInv /\ CompleteInv /\ InferDependency => CompleteInv'
PROOF
<1> SUFFICES ASSUME SoundInv, CompleteInv, InferDependency PROVE CompleteInv'
  OBVIOUS
<1>1. /\ pc = "observe" /\ pc' = "pick" /\ UNCHANGED walkVars /\ node \notin DOMAIN observations
      /\ UNCHANGED <<minimalDeps, maximalNonDeps>>
      /\ Classify(node, DependencyCategory(node))
  BY DEF InferDependency
<1>2. node \in Nodes
  BY DEF InferDependency, SoundInv, NodeGiven
<1>3. node \in deps /\ \E Y \in DOMAIN observations \cap deps : Y \subseteq node
  BY <1>2, KnownSound, TypeParts DEF InferDependency, SoundInv, KnowledgeTypeOK
<1>4. ASSUME NEW c \in Columns, node = {c}
      PROVE  FALSE
  <2>1. PICK Y \in DOMAIN observations \cap deps : Y \subseteq node
    BY <1>3
  <2>2. Y # {}
    BY DEF SoundInv, DepsOK, Nodes, EmptyVertical
  <2> QED
    BY <1>1, <1>4, <2>1, <2>2
<1> QED
  BY <1>1, <1>3, <1>4, ClassifyEffect, CompleteObserve

LEMMA CompleteComparePartitions == SoundInv /\ CompleteInv /\ ComparePartitions => CompleteInv'
PROOF
<1> SUFFICES ASSUME SoundInv, CompleteInv, ComparePartitions PROVE CompleteInv'
  OBVIOUS
<1>1. pc = "observe" /\ pc' = "pick" /\ UNCHANGED walkVars
  BY DEF ComparePartitions
<1>2. CASE node \in deps
  <2>1. Classify(node, DependencyCategory(node)) /\ maximalNonDeps' = maximalNonDeps
    BY <1>2 DEF ComparePartitions, ClassifyDependency
  <2>2. /\ minimalDeps \subseteq minimalDeps'
        /\ DependencyCategory(node) = "MinimalDependency" => node \in minimalDeps'
    BY <1>2 DEF ComparePartitions, ClassifyDependency
  <2> QED
    BY <1>1, <1>2, <2>1, <2>2, SingleCategory, ClassifyEffect, CompleteObserve
<1>3. CASE node \notin deps
  <2>1. node \in Nodes
    BY <1>1 DEF SoundInv, NodeGiven
  <2>2. Classify(node, NonDependencyCategory(node)) /\ minimalDeps' = minimalDeps
    BY <1>3 DEF ComparePartitions, ClassifyNonDependency
  <2>3. /\ maximalNonDeps \subseteq maximalNonDeps'
        /\ NonDependencyCategory(node) = "MaximalNonDependency" => node \in maximalNonDeps'
    BY <1>3 DEF ComparePartitions, ClassifyNonDependency
  <2> QED
    BY <1>1, <1>3, <2>1, <2>2, <2>3, ClassifyEffect, NonDependencyLeads, CompleteObserve
<1> QED
  BY <1>2, <1>3

\* A step of PickNextNode: the node is dealt with or stays on the trace.
LEMMA CompletePicked ==
  ASSUME SoundInv, CompleteInv, pc = "pick", UNCHANGED <<deps, seeds>>,
         GoBack \/ \E X \in Nodes : GoOn(X),
         DOMAIN observations \subseteq DOMAIN observations',
         \A X \in DOMAIN observations \ {node} : observations'[X] = observations[X],
         minimalDeps \subseteq minimalDeps', maximalNonDeps \subseteq maximalNonDeps',
         \/ observations[node] # "CandidateMaximalNonDependency"
         \/ node \in maximalNonDeps'
         \/ \E Y \in DOMAIN observations' \ deps : node \subseteq Y /\ node # Y
         \/ observations'[node] = observations[node] /\ \E X \in Nodes : GoOn(X),
         \A X \in DOMAIN observations' \ DOMAIN observations :
           /\ X \notin deps => \E Y \in DOMAIN observations' \ deps : X \subseteq Y /\ X # Y
           /\ X \in deps => \A c \in Columns : X # {c}
  PROVE  CompleteInv'
PROOF
<1>1. node \in DOMAIN observations /\ node \in Nodes /\ trace \in Seq(Nodes)
  BY DEF SoundInv, CandidateFresh, NodeGiven, TypeOK
<1>2. /\ OnTrace \subseteq Awaited'
      /\ (\E X \in Nodes : GoOn(X)) => node \in Awaited'
      /\ pc' = "observe" \/ (pc' = "seed" /\ trace' = <<>>)
  BY <1>1, GoBackEffect, GoOnEffect
<1>3. Awaited = OnTrace \cup {node}
  BY DEF Awaited, OnTrace
<1>4. NonDependenciesLead'
  BY <1>1, <1>2, <1>3, LeadKept DEF CompleteInv
<1>5. SinglesMet'
  BY <1>2 DEF SinglesMet, CompleteInv
<1>6. SinglesKept'
  BY DEF SinglesKept, CompleteInv
<1>7. TraceEmpty' /\ SeedsCover' /\ MissesNone'
  BY <1>2 DEF TraceEmpty, SeedsCover, MissesNone
<1> QED
  BY <1>4, <1>5, <1>6, <1>7 DEF CompleteInv

\* Whatever PickNextNode marks as a non-dependency was not met before and is below
\* one that was.
LEMMA PrunedLead ==
  ASSUME SoundInv, NEW X \in Nodes, X \notin DOMAIN observations, KnownNonDependency(X)
  PROVE  \E Y \in DOMAIN observations \ deps : X \subseteq Y /\ X # Y
PROOF
BY KnownSound, TypeParts DEF SoundInv, KnowledgeTypeOK

LEMMA CompletePickSubset == SoundInv /\ CompleteInv /\ PickSubset => CompleteInv'
PROOF
<1> SUFFICES ASSUME SoundInv, CompleteInv, PickSubset PROVE CompleteInv'
  OBVIOUS
<1> DEFINE unchecked == Unchecked(Subsets(node))
           pruned == {X \in unchecked : KnownNonDependency(X)}
<1>1. /\ pc = "pick" /\ Observed(node, {"CandidateMinimalDependency"})
      /\ UNCHANGED <<deps, maximalNonDeps, seeds>>
      /\ IF unchecked = {}
         THEN Classify(node, "MinimalDependency") /\ minimalDeps' = minimalDeps \cup {node}
         ELSE Mark(pruned, {}) /\ UNCHANGED minimalDeps
      /\ IF unchecked = pruned THEN GoBack ELSE \E X \in unchecked \ pruned : GoOn(X)
  BY DEF PickSubset, mapVars
<1>2. node \in deps /\ unchecked \subseteq Nodes /\ node \in DOMAIN observations
  BY <1>1, PickedNeighbours DEF Unchecked, Observed
<1>3. \A X \in pruned :
        X \notin deps /\ \E Y \in DOMAIN observations \ deps : X \subseteq Y /\ X # Y
  BY <1>2, PrunedLead, KnownSound, TypeParts DEF Unchecked, SoundInv, KnowledgeTypeOK
<1>4. observations[node] # "CandidateMaximalNonDependency"
  BY <1>1 DEF Observed
<1>5. GoBack \/ \E X \in Nodes : GoOn(X)
  BY <1>1, <1>2
<1>6. \A X \in pruned : X \notin DOMAIN observations
  BY DEF Unchecked
<1>7. /\ DOMAIN observations \subseteq DOMAIN observations'
      /\ DOMAIN observations' \ DOMAIN observations \subseteq pruned
      /\ \A X \in DOMAIN observations \ {node} : observations'[X] = observations[X]
      /\ minimalDeps \subseteq minimalDeps'
  <2> HIDE DEF unchecked, pruned
  <2>1. CASE unchecked = {}
    BY <1>1, <1>2, <2>1, ClassifyEffect
  <2>2. CASE unchecked # {}
    BY <1>1, <1>6, <2>2 DEF Mark
  <2> QED
    BY <2>1, <2>2
<1> HIDE DEF unchecked, pruned
<1> QED
  BY <1>1, <1>3, <1>4, <1>5, <1>7, CompletePicked

LEMMA CompletePickSuperset == SoundInv /\ CompleteInv /\ PickSuperset => CompleteInv'
PROOF
<1> SUFFICES ASSUME SoundInv, CompleteInv, PickSuperset PROVE CompleteInv'
  OBVIOUS
<1> DEFINE unchecked == Unchecked(Supersets(node))
           nonDependencies == {X \in unchecked : KnownNonDependency(X)}
           dependencies == {X \in unchecked : KnownDependency(X)}
           left == unchecked \ (nonDependencies \cup dependencies)
<1>1. /\ pc = "pick" /\ Observed(node, {"CandidateMaximalNonDependency"})
      /\ UNCHANGED <<deps, minimalDeps, seeds>>
      /\ IF left = {} /\ nonDependencies = {}
         THEN /\ observations' = [X \in DOMAIN observations \cup dependencies |->
                                    IF X = node THEN "MaximalNonDependency"
                                    ELSE IF X \in dependencies THEN "Dependency" ELSE observations[X]]
              /\ maximalNonDeps' = maximalNonDeps \cup {node}
         ELSE Mark(nonDependencies, dependencies) /\ UNCHANGED maximalNonDeps
      /\ IF left = {} THEN GoBack ELSE \E X \in left : GoOn(X)
  BY DEF PickSuperset, mapVars
<1>2. node \in Nodes /\ unchecked \subseteq Nodes /\ node \in DOMAIN observations
  BY <1>1, PickedNeighbours DEF Unchecked, Observed
<1>3. \A X \in nonDependencies :
        /\ X \notin deps /\ node \subseteq X /\ node # X
        /\ \E Y \in DOMAIN observations \ deps : X \subseteq Y /\ X # Y
  <2>1. \A X \in unchecked : node \subseteq X /\ node # X
    BY <1>2 DEF Unchecked, Supersets
  <2> QED
    BY <1>2, <2>1, PrunedLead, KnownSound, TypeParts DEF Unchecked, SoundInv, KnowledgeTypeOK
<1>4. \A X \in dependencies : X \in deps /\ \A c \in Columns : X # {c}
  <2>1. \A X \in dependencies : X \in deps
    BY <1>2, KnownSound, TypeParts DEF SoundInv, KnowledgeTypeOK
  <2>2. ASSUME NEW X \in dependencies, NEW c \in Columns, X = {c}
        PROVE  FALSE
    <3>1. PICK d \in Columns \ node : X = node \cup {d}
      BY DEF Unchecked, Supersets
    <3>2. node # {}
      BY <1>2 DEF Nodes, EmptyVertical
    <3> QED
      BY <2>2, <3>1, <3>2
  <2> QED
    BY <2>1, <2>2
<1>5. GoBack \/ \E X \in Nodes : GoOn(X)
  BY <1>1, <1>2
<1>6. \A X \in nonDependencies \cup dependencies : X \notin DOMAIN observations
  BY DEF Unchecked
<1>7. /\ DOMAIN observations \subseteq DOMAIN observations'
      /\ DOMAIN observations' \ DOMAIN observations \subseteq nonDependencies \cup dependencies
      /\ \A X \in DOMAIN observations \ {node} : observations'[X] = observations[X]
      /\ maximalNonDeps \subseteq maximalNonDeps'
      /\ \/ node \in maximalNonDeps'
         \/ nonDependencies # {} /\ nonDependencies \subseteq DOMAIN observations'
         \/ observations'[node] = observations[node] /\ \E X \in Nodes : GoOn(X)
  <2>0. left # {} => \E X \in Nodes : GoOn(X)
    BY <1>1, <1>2
  <2> HIDE DEF unchecked, nonDependencies, dependencies, left
  <2>1. CASE left = {} /\ nonDependencies = {}
    BY <1>1, <1>2, <1>6, <2>1
  <2>2. CASE ~(left = {} /\ nonDependencies = {})
    <3>1. Mark(nonDependencies, dependencies) /\ UNCHANGED maximalNonDeps
      BY <1>1, <2>2
    <3> QED
      BY <1>2, <1>6, <2>0, <2>2, <3>1 DEF Mark
  <2> QED
    BY <2>1, <2>2
<1>8. \A X \in DOMAIN observations' \ DOMAIN observations :
        /\ X \notin deps => \E Y \in DOMAIN observations' \ deps : X \subseteq Y /\ X # Y
        /\ X \in deps => \A c \in Columns : X # {c}
  BY <1>3, <1>4, <1>7
<1>9. \/ node \in maximalNonDeps'
      \/ \E Y \in DOMAIN observations' \ deps : node \subseteq Y /\ node # Y
      \/ observations'[node] = observations[node] /\ \E X \in Nodes : GoOn(X)
  BY <1>3, <1>7
<1> HIDE DEF unchecked, nonDependencies, dependencies, left
<1> QED
  BY <1>1, <1>5, <1>7, <1>8, <1>9, CompletePicked

LEMMA CompletePickNone == SoundInv /\ CompleteInv /\ PickNone => CompleteInv'
PROOF
<1> SUFFICES ASSUME SoundInv, CompleteInv, PickNone PROVE CompleteInv'
  OBVIOUS
<1>1. /\ pc = "pick" /\ GoBack
      /\ UNCHANGED <<deps, observations, minimalDeps, maximalNonDeps, seeds>>
  BY DEF PickNone
<1>2. node \in DOMAIN observations /\ observations[node] # "CandidateMaximalNonDependency"
  BY <1>1 DEF PickNone, Observed, SoundInv, CandidateFresh
<1> QED
  BY <1>1, <1>2, CompletePicked

-----------------------------------------------------------------------------
(* The seeds. *)

\* Among finitely many sets of columns one has fewest columns.
LEMMA SmallestSet ==
  ASSUME NEW F, F # {}, \A X \in F : X \subseteq Columns
  PROVE  \E X \in F : \A Y \in F : ~(Y \subseteq X /\ Y # X)
PROOF
<1> DEFINE T == {Cardinality(X) : X \in F}
<1>1. \A X \in F : IsFiniteSet(X) /\ Cardinality(X) \in Nat
  BY ColumnsAssumption, FS_Subset, FS_CardinalityType
<1>2. T \subseteq Nat /\ T # {}
  BY <1>1
<1>3. PICK n \in T : \A m \in T : <<m, n>> \notin OpToRel(<, Nat)
  BY <1>2, NatLessThanWellFounded, WFMin
<1>4. PICK X \in F : n = Cardinality(X)
  OBVIOUS
<1>5. ASSUME NEW Y \in F, Y \subseteq X, Y # X
      PROVE  FALSE
  <2>1. Cardinality(Y) \in Nat /\ Cardinality(X) \in Nat
    BY <1>1
  <2>2. Cardinality(Y) <= Cardinality(X) /\ Cardinality(Y) # Cardinality(X)
    BY <1>1, <1>5, FS_Subset
  <2>3. Cardinality(Y) < Cardinality(X)
    BY <2>1, <2>2
  <2>4. <<Cardinality(Y), n>> \in OpToRel(<, Nat)
    BY <1>4, <2>1, <2>3 DEF OpToRel
  <2> QED
    BY <1>3, <2>4
<1> QED
  BY <1>5

\* Above every minimal element: Minimize loses nothing.
LEMMA MinimizeKeeps ==
  ASSUME NEW F, \A X \in F : X \subseteq Columns, NEW Z \in F
  PROVE  \E X \in Minimize(F) : X \subseteq Z
PROOF
<1> DEFINE below == {X \in F : X \subseteq Z}
<1>1. PICK X \in below : \A Y \in below : ~(Y \subseteq X /\ Y # X)
  <2>1. below # {} /\ \A X \in below : X \subseteq Columns
    OBVIOUS
  <2> HIDE DEF below
  <2> QED
    BY <2>1, SmallestSet
<1>2. \A Y \in F : Y \subseteq X => Y \in below
  BY <1>1
<1> QED
  BY <1>1, <1>2 DEF Minimize

LEMMA CompleteNoSeeds == SoundInv /\ CompleteInv /\ NoSeeds => CompleteInv'
PROOF
<1> SUFFICES ASSUME SoundInv, CompleteInv, NoSeeds PROVE CompleteInv'
  OBVIOUS
<1>1. /\ pc = "seed" /\ pc' = "generate" /\ seeds = {} /\ seeds' = {} /\ pending' = maximalNonDeps /\ trace' = trace
      /\ UNCHANGED <<deps, observations, minimalDeps, maximalNonDeps>>
  BY DEF NoSeeds
<1>2. Awaited \subseteq Awaited'
  BY <1>1 DEF Awaited
<1>3. NonDependenciesLead'
  BY <1>1, <1>2, LeadKept DEF CompleteInv
<1>4. SinglesMet'
  BY <1>1 DEF SinglesMet, CompleteInv
<1>5. SinglesKept' /\ TraceEmpty' /\ SeedsCover' /\ MissesNone'
  BY <1>1 DEF SinglesKept, TraceEmpty, SeedsCover, MissesNone, CompleteInv
<1> QED
  BY <1>3, <1>4, <1>5 DEF CompleteInv

\* Escaping from one more non-dependency keeps a seed below every dependency.
LEMMA EscapeCovers ==
  ASSUME DepsOK, seeds \subseteq Nodes, NEW X, X \subseteq Columns, X \notin deps, NEW Z \in deps,
         seeds = {} \/ \E s \in seeds : s \subseteq Z
  PROVE  \E s \in EscapeFrom(X) : s \subseteq Z
PROOF
<1>1. PICK c \in Columns \ X : c \in Z
  <2>1. ~(Z \subseteq X)
    <3>1. Z # {} /\ Z \in Nodes
      BY DEF DepsOK, Nodes, EmptyVertical
    <3>2. Z \subseteq X => X \in Nodes
      BY <3>1 DEF Nodes, EmptyVertical
    <3> QED
      BY <3>1, <3>2 DEF DepsOK, UpwardClosed
  <2> QED
    BY <2>1 DEF DepsOK, Nodes
<1>2. CASE seeds = {}
  <2>1. {c} \in EscapeFrom(X)
    BY <1>2 DEF EscapeFrom
  <2> QED
    BY <1>1, <2>1
<1>3. CASE seeds # {}
  <2>1. PICK s \in seeds : s \subseteq Z
    BY <1>3
  <2>2. s \cup {c} \in Extended(X) /\ s \cup {c} \subseteq Z
    BY <1>1, <2>1 DEF Extended
  <2>3. \A Y \in Extended(X) : Y \subseteq Columns
    BY DEF Nodes, Extended
  <2>4. PICK Y \in Minimize(Extended(X)) : Y \subseteq s \cup {c}
    BY <2>2, <2>3, MinimizeKeeps
  <2> QED
    BY <1>3, <2>2, <2>4 DEF EscapeFrom
<1> QED
  BY <1>2, <1>3

LEMMA CompleteGenerateSeeds == SoundInv /\ CompleteInv /\ GenerateSeeds => CompleteInv'
PROOF
<1> SUFFICES ASSUME SoundInv, CompleteInv, GenerateSeeds PROVE CompleteInv'
  OBVIOUS
<1>1. PICK X \in pending : seeds' = EscapeFrom(X) /\ pending' = pending \ {X}
  BY DEF GenerateSeeds
<1>2. /\ pc = "generate" /\ pc' = "generate" /\ trace' = trace /\ node' = node
      /\ UNCHANGED <<deps, observations, minimalDeps, maximalNonDeps>>
  BY DEF GenerateSeeds
<1>3. NonDependenciesLead'
  <2>1. Awaited' = Awaited
    BY <1>2 DEF Awaited
  <2> QED
    BY <1>2, <2>1, LeadKept DEF CompleteInv
<1>4. SinglesMet'
  BY <1>2 DEF SinglesMet, CompleteInv
<1>5. SinglesKept' /\ TraceEmpty' /\ MissesNone'
  BY <1>2 DEF SinglesKept, TraceEmpty, MissesNone, CompleteInv
<1>6. SeedsCover'
  <2>1. X \in Nodes /\ X \notin deps /\ X \subseteq Columns
    BY DEF SoundInv, TypeOK, ExtremesSound, Nodes
  <2>2. ASSUME NEW Z \in deps
        PROVE  \E s \in EscapeFrom(X) : s \subseteq Z
    <3>1. seeds = {} \/ \E s \in seeds : s \subseteq Z
      BY <1>2 DEF CompleteInv, SeedsCover
    <3>2. DepsOK /\ seeds \subseteq Nodes
      BY DEF SoundInv, TypeOK
    <3> QED
      BY <2>1, <3>1, <3>2, EscapeCovers
  <2>3. pending' # maximalNonDeps'
    BY <1>1, <1>2 DEF SoundInv, TypeOK
  <2> QED
    BY <1>1, <1>2, <2>2, <2>3 DEF SeedsCover
<1> QED
  BY <1>3, <1>4, <1>5, <1>6 DEF CompleteInv

LEMMA NothingBelowMinimal ==
  ASSUME DepsOK, NEW X \in deps, \A c \in X : X \ {c} \notin deps, NEW Y \in deps, Y \subseteq X
  PROVE  Y = X
PROOF
<1>1. Y # {} /\ X \in Nodes
  BY DEF DepsOK, Nodes, EmptyVertical
<1>2. ASSUME NEW c \in X \ Y
      PROVE  FALSE
  <2>1. Y \subseteq X \ {c}
    OBVIOUS
  <2>2. X \ {c} \in Nodes
    BY <1>1, <2>1 DEF Nodes, EmptyVertical
  <2> QED
    BY <2>1, <2>2 DEF DepsOK, UpwardClosed
<1> QED
  BY <1>2

\* Without a maximal non-dependency every single column was found to be a dependency.
LEMMA AllSinglesFound ==
  ASSUME SoundInv, CompleteInv, pc = "generate", maximalNonDeps = {}, NEW c \in Columns
  PROVE  {c} \in deps \cap minimalDeps
PROOF
<1>1. Awaited = {}
  BY DEF CompleteInv, TraceEmpty, Awaited
<1>2. DOMAIN observations \subseteq deps
  <2> SUFFICES ASSUME NEW U, U = DOMAIN observations \ deps, U # {} PROVE FALSE
    OBVIOUS
  <2> DEFINE F == {Columns \ X : X \in U}
  <2>1. F # {} /\ \A W \in F : W \subseteq Columns
    OBVIOUS
  <2>2. PICK W \in F : \A V \in F : ~(V \subseteq W /\ V # W)
    <3> HIDE DEF F
    <3> QED
      BY <2>1, SmallestSet
  <2>3. PICK X \in U : W = Columns \ X
    OBVIOUS
  <2>4. PICK Y \in U : X \subseteq Y /\ X # Y
    BY <1>1 DEF CompleteInv, NonDependenciesLead
  <2>5. Columns \ Y \in F
    OBVIOUS
  <2>6. X \subseteq Columns /\ Y \subseteq Columns
    BY DEF SoundInv, TypeOK, Nodes
  <2> QED
    BY <2>2, <2>3, <2>4, <2>5, <2>6
<1>3. {c} \in DOMAIN observations
  BY DEF CompleteInv, SinglesMet
<1> QED
  BY <1>2, <1>3 DEF CompleteInv, SinglesKept

LEMMA CompleteSeedsReady == SoundInv /\ CompleteInv /\ SeedsReady => CompleteInv'
PROOF
<1> SUFFICES ASSUME SoundInv, CompleteInv, SeedsReady PROVE CompleteInv'
  OBVIOUS
<1>1. /\ pc = "generate" /\ pending = {} /\ trace' = trace /\ trace = <<>>
      /\ pc' \in {"done", "seed"} /\ seeds' = seeds \ minimalDeps
      /\ pc' = "done" => seeds' = {}
      /\ UNCHANGED <<deps, observations, minimalDeps, maximalNonDeps>>
  BY DEF SeedsReady, CompleteInv, TraceEmpty
<1>2. NonDependenciesLead'
  <2>1. Awaited = {}
    BY <1>1 DEF Awaited
  <2> QED
    BY <1>1, <2>1, LeadKept DEF CompleteInv
<1>3. SinglesMet'
  BY <1>1 DEF SinglesMet, CompleteInv
<1>4. SinglesKept' /\ TraceEmpty' /\ SeedsCover'
  BY <1>1 DEF SinglesKept, TraceEmpty, SeedsCover, CompleteInv
<1>5. ASSUME pc' = "done", NEW X \in deps, \A c \in X : X \ {c} \notin deps
      PROVE  X \in minimalDeps
  <2>1. DepsOK /\ X # {} /\ X \subseteq Columns
    BY DEF SoundInv, DepsOK, Nodes, EmptyVertical
  <2>2. CASE maximalNonDeps = {}
    <3>1. PICK c \in X : TRUE
      BY <2>1
    <3>2. {c} \in deps \cap minimalDeps
      BY <1>1, <2>1, <2>2, AllSinglesFound
    <3> QED
      BY <1>5, <2>1, <3>2, NothingBelowMinimal
  <2>3. CASE maximalNonDeps # {}
    <3>1. PICK s \in seeds : s \subseteq X
      BY <1>1, <2>3 DEF CompleteInv, SeedsCover
    <3>2. s \in minimalDeps /\ s \in deps
      BY <1>1, <1>5 DEF SoundInv, ExtremesSound
    <3> QED
      BY <1>5, <2>1, <3>1, <3>2, NothingBelowMinimal
  <2> QED
    BY <2>2, <2>3
<1>6. MissesNone'
  BY <1>1, <1>5 DEF MissesNone
<1> QED
  BY <1>2, <1>3, <1>4, <1>6 DEF CompleteInv

\* Whatever order the seeds, the random steps and the hash table take, a walk that
\* stops has found every minimal dependency and nothing else: FindLHSs returns
\* exactly these.
THEOREM FindsMinimalDependencies == Spec => []FindsMinimal
PROOF
<1>1. SoundInv /\ CompleteInv /\ [Next]_vars => CompleteInv'
  <2> SUFFICES ASSUME SoundInv, CompleteInv, [Next]_vars PROVE CompleteInv'
    OBVIOUS
  <2>1. CASE UNCHANGED vars
    <3>1. Awaited' = Awaited
      BY <2>1 DEF vars, Awaited
    <3> QED
      BY <2>1, <3>1 DEF vars, CompleteInv, NonDependenciesLead, SinglesMet, SinglesKept,
                        TraceEmpty, SeedsCover, MissesNone
  <2> QED
    BY <2>1, CompletePopSeed, CompleteRecheck, CompleteInferNonDependency, CompleteInferDependency,
       CompleteComparePartitions, CompletePickSubset, CompletePickSuperset, CompletePickNone,
       CompleteNoSeeds, CompleteGenerateSeeds, CompleteSeedsReady
       DEF Next, InferCategory
<1>2. SoundInv /\ CompleteInv => FindsMinimal
  BY DEF SoundInv, CompleteInv, MissesNone, ExtremesSound, FindsMinimal
<1> QED
  BY <1>1, <1>2, CompleteInit, SoundInvInvariant, PTL DEF Spec
=============================================================================
