-------------------------- MODULE SearchSpaceProofs --------------------------
(* Proofs about SearchSpace: for every finite set of columns, every family of *)
(* dependencies and whatever the estimates are, Pyro registers the minimal    *)
(* dependencies of at most max_lhs columns, each of them once, nothing else,  *)
(* and none is missing when the search has ended.                             *)
EXTENDS SearchSpace, FiniteSetTheorems, SequenceTheorems, WellFoundedInduction, TLAPS

-----------------------------------------------------------------------------
(* The invariant. *)

Small(X) == Cardinality(X) <= maxLhs

SpaceType == [scope : SUBSET Verticals, pads : SUBSET Verticals, deferred : SUBSET Verticals]
FrameType == [node : Verticals, exact : BOOLEAN, queue : SUBSET Verticals, rest : SUBSET Verticals,
              known : BOOLEAN]
OuterType == [space : SpaceType, pad : Verticals, peak : Verticals, alleged : SUBSET Verticals]
TrickleSteps == {"trickle", "descend"}

\* The types of what the argument reads, and that a relation has finitely many
\* columns.
TypeInv ==
  /\ IsFiniteSet(SpaceColumns)
  /\ exactSets \subseteq Verticals /\ ClosedUpwards(exactSets)
  /\ maxLhs \in Nat \ {0}
  /\ found \in [Verticals -> Nat]
  /\ DOMAIN global \subseteq Verticals /\ DOMAIN local \subseteq Verticals
  /\ space \in SpaceType /\ outer \in Seq(OuterType)
  /\ pad \in Verticals /\ candidate \in Verticals
  /\ frames \in Seq(FrameType)
  /\ stage \in {"poll", "ascend", "done"} \cup TrickleSteps

\* What the two maps of visitees say is true.  Below a dependency of the global
\* one, be it minimal or a main peak, all that is minimal was found; and what was
\* found is minimal, was found once and is in the map.
LocalSound ==
  \A X \in DOMAIN local : IF X \in exactSets THEN local[X] = VerticalInfo(TRUE, FALSE)
                                         ELSE local[X] = NonDependency
GlobalSound ==
  \A X \in DOMAIN global : IF X \in exactSets THEN global[X] = MinimalDependency
                                          ELSE global[X] = MaximalNonDependency
FoundBelow ==
  \A X \in DOMAIN global \cap exactSets, Y \in Verticals :
    Minimal(Y) /\ Y \subseteq X => found[Y] = 1
FoundRight ==
  \A X \in Verticals : found[X] # 0 =>
    found[X] = 1 /\ Minimal(X) /\ Small(X) /\ X \in DOMAIN global
KnowledgeInv == LocalSound /\ GlobalSound /\ FoundBelow /\ FoundRight

\* The alleged dependencies are dependencies below the main peak, none of them
\* below another, and those said to be extremal are minimal.
TrickleInv == stage \in TrickleSteps =>
  /\ candidate \in exactSets
  /\ \A X \in DOMAIN peaks : X \subseteq candidate /\ peaks[X] \in BOOLEAN
  /\ \A X \in DOMAIN alleged : /\ X \subseteq candidate /\ X \in exactSets
                               /\ alleged[X] \in BOOLEAN /\ (alleged[X] => Minimal(X))
  /\ \A X, Y \in DOMAIN alleged : X \subseteq Y => X = Y
  /\ candidate \in DOMAIN peaks \/ DOMAIN alleged # {}

\* A frame of TrickleDownFrom has no alleged dependency below it; a set with one
\* column less that is a dependency all the same is still to be tried, was
\* excluded by an estimate, or is being tried now.
Tried(i) == IF i < Len(frames) THEN {frames[i + 1].node} ELSE {}
FrameInv(f, tried) ==
  /\ f.node \subseteq candidate /\ SubsetDeps(f.node) = {}
  /\ \A P \in f.queue \cup f.rest : P \subseteq f.node
  /\ \A P \in f.rest : Exact(P) => P \notin exactSets
  /\ \A P, Q \in f.rest : Exact(P) => Exact(Q)
  /\ f.known => \A c \in f.node :
       f.node \ {c} \in exactSets => f.node \ {c} \in f.queue \cup f.rest \cup tried
FramesInv == stage = "descend" =>
  /\ frames # <<>>
  /\ \A i \in 1..Len(frames) : FrameInv(frames[i], Tried(i))

\* A space has, or holds in its hand, a launch pad below everything in its scope
\* that is still to be found.
InHand == IF stage \in {"ascend"} \cup TrickleSteps THEN {pad} ELSE {}
InScopeOf(sp, X) == sp.scope = {} \/ \E S \in sp.scope : X \subseteq S
Covered(sp, extra) ==
  \A Y \in Verticals : Minimal(Y) /\ Small(Y) /\ InScopeOf(sp, Y) /\ found[Y] = 0
     => \E p \in Index(sp) \cup extra : p \subseteq Y
PadsInv ==
  /\ Small(pad) /\ Small(candidate)
  /\ Covered(space, InHand) /\ \A p \in Index(space) : Small(p)
  /\ \A i \in 1..Len(outer) :
     /\ Covered(outer[i].space, {outer[i].pad})
     /\ \A p \in Index(outer[i].space) \cup {outer[i].pad} : Small(p)

\* A space that waits for a nested one: what is minimal below its peak is one of
\* its alleged dependencies or in the scope of the nested space.
ScopeBelow(i) == IF i = Len(outer) THEN space.scope ELSE outer[i + 1].space.scope
Complete(A, peak, scope) ==
  /\ \A X \in A : X \in exactSets /\ X \subseteq peak
  /\ \A X, Y \in A : X \subseteq Y => X = Y
  /\ \A Y \in SUBSET peak : Minimal(Y) => Y \in A \/ \E S \in scope : Y \subseteq S
OuterInv ==
  /\ outer = <<>> => space.scope = {}
  /\ outer # <<>> => outer[1].space.scope = {}
  /\ \A i \in 1..Len(outer) :
     /\ Small(outer[i].peak) /\ outer[i].peak \in exactSets
     /\ Complete(outer[i].alleged, outer[i].peak, ScopeBelow(i))

\* Where the empty set is a dependency, nothing else is ever looked at.
EmptyInv == {} \in exactSets =>
  /\ pad = {} /\ candidate = {} /\ outer = <<>>
  /\ Exact({}) /\ Index(space) \subseteq {{}} /\ DOMAIN global \subseteq {{}}

DoneInv == stage = "done" => outer = <<>> /\ Index(space) = {}

SearchInv == /\ TypeInv /\ KnowledgeInv /\ TrickleInv /\ FramesInv
             /\ PadsInv /\ OuterInv /\ EmptyInv /\ DoneInv

-----------------------------------------------------------------------------
(* Finite sets of columns. *)

\* A set of columns is finite, and a smaller one has no more columns.
LEMMA SubsetSmaller ==
  ASSUME IsFiniteSet(SpaceColumns), NEW X \in Verticals, NEW Y \in SUBSET X
  PROVE  /\ Y \in Verticals /\ IsFiniteSet(X)
         /\ Cardinality(X) \in Nat /\ Cardinality(Y) \in Nat
         /\ Cardinality(Y) <= Cardinality(X)
         /\ Cardinality(Y) = Cardinality(X) => Y = X
PROOF
<1>1. Y \in Verticals
  BY DEF Verticals
<1>2. IsFiniteSet(X) /\ IsFiniteSet(Y)
  BY <1>1, FS_Subset DEF Verticals
<1> QED
  BY <1>1, <1>2, FS_Subset, FS_CardinalityType

\* Among sets of columns one has no other below it.
LEMMA SmallestSet ==
  ASSUME IsFiniteSet(SpaceColumns), NEW F \in SUBSET Verticals, F # {}
  PROVE  \E X \in F : \A Y \in F : Y \subseteq X => Y = X
PROOF
<1> DEFINE T == {Cardinality(X) : X \in F}
<1>1. \A X \in F : IsFiniteSet(X) /\ Cardinality(X) \in Nat
  BY SubsetSmaller
<1>2. T \subseteq Nat /\ T # {}
  BY <1>1
<1>3. PICK n \in T : \A m \in T : <<m, n>> \notin OpToRel(<, Nat)
  BY <1>2, NatLessThanWellFounded, WFMin
<1>4. PICK X \in F : n = Cardinality(X)
  OBVIOUS
<1>5. ASSUME NEW Y \in F, Y \subseteq X, Y # X
      PROVE  FALSE
  <2>1. Cardinality(Y) \in Nat /\ Cardinality(X) \in Nat
    BY <1>1
  <2>2. Cardinality(Y) < Cardinality(X)
    BY <1>5, <2>1, SubsetSmaller
  <2>3. <<Cardinality(Y), n>> \in OpToRel(<, Nat)
    BY <1>4, <2>1, <2>2 DEF OpToRel
  <2> QED
    BY <1>3, <2>3
<1> QED
  BY <1>5

\* Every dependency has a minimal one below it.
LEMMA MinimalBelow ==
  ASSUME IsFiniteSet(SpaceColumns), exactSets \subseteq Verticals, NEW X \in exactSets
  PROVE  \E Y \in Verticals : Minimal(Y) /\ Y \subseteq X
PROOF
<1> DEFINE F == {Y \in exactSets : Y \subseteq X}
<1>1. F # {} /\ F \in SUBSET Verticals
  OBVIOUS
<1>2. PICK Y \in F : \A Z \in F : Z \subseteq Y => Z = Y
  <2> HIDE DEF F
  <2> QED
    BY <1>1, SmallestSet
<1>3. Minimal(Y)
  BY <1>2 DEF Minimal
<1> QED
  BY <1>1, <1>2, <1>3

\* Whatever meets all sets of a family has a least hitting set inside it.
LEMMA HittingSetInside ==
  ASSUME IsFiniteSet(SpaceColumns), NEW sets \in SUBSET Verticals, NEW H \in Verticals,
         \A S \in sets : H \cap S # {}
  PROVE  \E G \in HittingSets(sets) : G \subseteq H
PROOF
<1> DEFINE F == {G \in SUBSET H : \A S \in sets : G \cap S # {}}
<1>1. H \in F /\ F \in SUBSET Verticals
  BY DEF Verticals
<1>2. PICK G \in F : \A K \in F : K \subseteq G => K = G
  <2> HIDE DEF F
  <2> QED
    BY <1>1, SmallestSet
<1>3. \A c \in G : ~(\A S \in sets : (G \ {c}) \cap S # {})
  <2> SUFFICES ASSUME NEW c \in G, \A S \in sets : (G \ {c}) \cap S # {} PROVE FALSE
    OBVIOUS
  <2>1. G \ {c} \in F
    BY <1>2
  <2> QED
    BY <1>2, <2>1
<1>4. G \subseteq UNION sets
  <2> SUFFICES ASSUME NEW c \in G, c \notin UNION sets PROVE FALSE
    OBVIOUS
  <2>1. \A S \in sets : (G \ {c}) \cap S # {}
    BY <1>2
  <2> QED
    BY <1>3, <2>1
<1>5. G \in HittingSets(sets)
  BY <1>2, <1>3, <1>4 DEF HittingSets
<1> QED
  BY <1>2, <1>5

\* What is minimal below a peak and not alleged is below what is left of the peak
\* outside all alleged dependencies.
LEMMA Duality ==
  ASSUME IsFiniteSet(SpaceColumns), NEW peak \in Verticals,
         NEW A \in SUBSET exactSets, \A X \in A : X \subseteq peak,
         NEW Y \in Verticals, Y \subseteq peak, Minimal(Y), Y \notin A, Y # {}
  PROVE  \E H \in HittingSets(A) : Y \subseteq peak \ H /\ peak \ H # {}
PROOF
<1>1. \A X \in A : (peak \ Y) \cap X # {}
  BY DEF Minimal
<1>2. A \in SUBSET Verticals /\ peak \ Y \in Verticals
  BY DEF Verticals
<1>3. PICK H \in HittingSets(A) : H \subseteq peak \ Y
  BY <1>1, <1>2, HittingSetInside
<1> QED
  BY <1>3

\* A dependency is minimal when nothing with one column less is one.
LEMMA MinimalByParents ==
  ASSUME exactSets \subseteq Verticals, ClosedUpwards(exactSets), NEW X \in exactSets,
         \A c \in X : X \ {c} \notin exactSets
  PROVE  Minimal(X)
PROOF
<1> SUFFICES ASSUME NEW Y \in exactSets, Y \subseteq X, Y # X PROVE FALSE
  BY DEF Minimal
<1>1. PICK c \in X : c \notin Y
  OBVIOUS
<1>2. X \ {c} \in Verticals /\ Y \subseteq X \ {c}
  BY <1>1 DEF Verticals
<1> QED
  BY <1>1, <1>2 DEF ClosedUpwards

-----------------------------------------------------------------------------
(* What the maps say. *)

LEMMA Visitees ==
  ASSUME TypeInv, KnowledgeInv, NEW X \in Verticals
  PROVE  /\ IsImpliedByMinDep(X, global) <=> \E Y \in DOMAIN global \cap exactSets : Y \subseteq X
         /\ ~IsImpliedByMinDep(X, local)
         /\ NonDependencyKnown(X) => X \notin exactSets
PROOF
<1> USE DEF VerticalInfo, MinimalDependency, NonDependency, MaximalNonDependency
<1>1. /\ \A Y \in DOMAIN global : global[Y] = MinimalDependency <=> Y \in exactSets
      /\ \A Y \in DOMAIN global : ~global[Y].dependency => Y \notin exactSets
  BY DEF KnowledgeInv, GlobalSound
<1>2. /\ \A Y \in DOMAIN local : local[Y] # MinimalDependency
      /\ \A Y \in DOMAIN local : ~local[Y].dependency => Y \notin exactSets
  BY DEF KnowledgeInv, LocalSound
<1>3. \A Y \in Verticals : X \subseteq Y /\ Y \notin exactSets => X \notin exactSets
  BY DEF TypeInv, ClosedUpwards
<1>4. NonDependencyKnown(X) => X \notin exactSets
  BY <1>1, <1>2, <1>3 DEF NonDependencyKnown, IsKnownNonDependency, TypeInv
<1> QED
  BY <1>1, <1>2, <1>4 DEF IsImpliedByMinDep

\* What is minimal and above a pruned set was found.
LEMMA PrunedFound ==
  ASSUME TypeInv, KnowledgeInv, NEW X \in Verticals, Pruned(X),
         NEW Y \in Verticals, Minimal(Y), X \subseteq Y
  PROVE  found[Y] = 1
PROOF
<1>1. PICK Z \in DOMAIN global \cap exactSets : Z \subseteq X
  BY Visitees DEF Pruned
<1>2. Z = Y
  BY <1>1 DEF Minimal
<1> QED
  BY <1>1, <1>2 DEF KnowledgeInv, FoundBelow

\* More non-dependencies in the local map.
LEMMA LocalGrows ==
  ASSUME TypeInv, LocalSound, UNCHANGED exactSets, NEW sets \in SUBSET (Verticals \ exactSets),
         local' = PutAll(local, sets, NonDependency)
  PROVE  LocalSound' /\ DOMAIN local' \subseteq Verticals
BY DEF PutAll, LocalSound, TypeInv, NonDependency

\* A dependency, or not, in the local map.
LEMMA LocalVisited ==
  ASSUME TypeInv, LocalSound, UNCHANGED exactSets,
         local' = Put(local, candidate, VerticalInfo(candidate \in exactSets, FALSE))
  PROVE  LocalSound' /\ DOMAIN local' \subseteq Verticals
PROOF
<1>1. IF candidate \in exactSets THEN VerticalInfo(candidate \in exactSets, FALSE) = VerticalInfo(TRUE, FALSE)
                            ELSE VerticalInfo(candidate \in exactSets, FALSE) = NonDependency
  <2>1. CASE candidate \in exactSets
    <3>1. (candidate \in exactSets) = TRUE
      BY <2>1
    <3>2. VerticalInfo(candidate \in exactSets, FALSE) = VerticalInfo(TRUE, FALSE)
      BY ONLY <3>1
    <3> QED
      BY <2>1, <3>2
  <2>2. CASE candidate \notin exactSets
    <3>1. (candidate \in exactSets) = FALSE
      BY <2>2
    <3>2. VerticalInfo(candidate \in exactSets, FALSE) = VerticalInfo(FALSE, FALSE)
      BY ONLY <3>1
    <3> QED
      BY <2>2, <3>2 DEF NonDependency
  <2> QED
    BY <2>1, <2>2
<1>2. /\ DOMAIN local' = DOMAIN local \cup {candidate}
      /\ local'[candidate] = VerticalInfo(candidate \in exactSets, FALSE)
      /\ \A X \in DOMAIN local : X # candidate => local'[X] = local[X]
  BY DEF Put
<1> QED
  BY <1>1, <1>2 DEF LocalSound, TypeInv, NonDependency

\* The properties are about constants of a search.
LEMMA FixedStays ==
  ASSUME UNCHANGED fixed
  PROVE  /\ \A X : (Minimal(X)' <=> Minimal(X)) /\ (Small(X)' <=> Small(X))
         /\ \A X : Exact(X)' <=> Exact(X)
BY DEF fixed, Minimal, Small, Exact

\* A step outside of TrickleDown: the knowledge holds on, the other spaces wait,
\* and this one still has a launch pad below everything in its scope.
LEMMA FrontStep ==
  ASSUME SearchInv, UNCHANGED <<fixed, found, outer, frames>>,
         KnowledgeInv', DOMAIN global' \subseteq Verticals, DOMAIN local' \subseteq Verticals,
         space' \in SpaceType, space'.scope = space.scope,
         pad' \in Verticals, candidate' \in Verticals, Small(pad'), Small(candidate'),
         \A p \in Index(space') : Small(p),
         stage' \in {"poll", "ascend"},
         Covered(space, InHand) => Covered(space', InHand'),
         {} \in exactSets => /\ pad' = {} /\ candidate' = {}
                        /\ Index(space') \subseteq {{}} /\ DOMAIN global' \subseteq {{}}
  PROVE  SearchInv'
PROOF
<1>1. /\ \A X : (Minimal(X)' <=> Minimal(X)) /\ (Small(X)' <=> Small(X))
      /\ \A X : Exact(X)' <=> Exact(X)
      /\ UNCHANGED <<exactSets, maxLhs, found, outer, frames>>
  BY FixedStays DEF fixed
<1>2. TypeInv'
  BY <1>1 DEF SearchInv, TypeInv, ClosedUpwards, TrickleSteps
<1>3. TrickleInv' /\ FramesInv' /\ DoneInv'
  BY DEF TrickleInv, FramesInv, DoneInv, TrickleSteps
<1>4. PadsInv'
  <2>1. Covered(space, InHand)'
    BY <1>1 DEF SearchInv, PadsInv, Covered, InScopeOf, Index
  <2>2. Small(pad)' /\ Small(candidate)' /\ \A p \in Index(space)' : Small(p)'
    BY <1>1 DEF Small, Index
  <2>3. \A i \in 1..Len(outer') :
          /\ Covered(outer[i].space, {outer[i].pad})'
          /\ \A p \in (Index(outer[i].space) \cup {outer[i].pad})' : Small(p)'
    <3> SUFFICES ASSUME NEW i \in 1..Len(outer)
                 PROVE  /\ Covered(outer[i].space, {outer[i].pad})'
                        /\ \A p \in (Index(outer[i].space) \cup {outer[i].pad})' : Small(p)'
      BY <1>1
    <3>1. /\ Covered(outer[i].space, {outer[i].pad})
          /\ \A p \in Index(outer[i].space) \cup {outer[i].pad} : Small(p)
      BY DEF SearchInv, PadsInv
    <3>2. Covered(outer[i].space, {outer[i].pad})'
      BY <1>1, <3>1 DEF Covered, InScopeOf, Index
    <3>3. \A p \in (Index(outer[i].space) \cup {outer[i].pad})' : Small(p)'
      BY <1>1, <3>1 DEF Index
    <3> QED
      BY <3>2, <3>3
  <2> QED
    BY <2>1, <2>2, <2>3 DEF PadsInv
<1>5. OuterInv'
  BY <1>1 DEF SearchInv, OuterInv, ScopeBelow, Complete, Small
<1>6. EmptyInv'
  BY <1>1 DEF SearchInv, EmptyInv, Index
<1> QED
  BY <1>2, <1>3, <1>4, <1>5, <1>6 DEF SearchInv

LEMMA KnowledgeStays ==
  ASSUME KnowledgeInv, UNCHANGED <<fixed, found, global>>, LocalSound'
  PROVE  KnowledgeInv'
BY FixedStays DEF KnowledgeInv, GlobalSound, FoundBelow, FoundRight, fixed

-----------------------------------------------------------------------------
(* Launch pads. *)

\* A launch pad that is taken was one of the space, which keeps all others.
LEMMA TakenSpace ==
  ASSUME space \in SpaceType, NEW p \in Ready
  PROVE  /\ Taken(p) \in SpaceType /\ Taken(p).scope = space.scope
         /\ p \in Index(space) /\ Index(Taken(p)) \subseteq Index(space)
         /\ Index(space) \subseteq Index(Taken(p)) \cup {p}
         /\ p \in Verticals
BY DEF SpaceType, Ready, Taken, Index

LEMMA DropKeeps == SearchInv /\ DropLaunchPad => SearchInv'
PROOF
<1> SUFFICES ASSUME SearchInv, DropLaunchPad PROVE SearchInv'
  OBVIOUS
<1>1. PICK p \in Ready : Pruned(p) /\ space' = Taken(p)
  BY DEF DropLaunchPad
<1>2. /\ UNCHANGED <<fixed, found, global, local, outer, pad, candidate, frames, stage>>
      /\ stage = "poll"
  BY DEF DropLaunchPad, descentVars
<1>3. TypeInv /\ KnowledgeInv /\ PadsInv /\ EmptyInv
  BY DEF SearchInv
<1>4. /\ Taken(p) \in SpaceType /\ Taken(p).scope = space.scope
      /\ Index(Taken(p)) \subseteq Index(space)
      /\ Index(space) \subseteq Index(Taken(p)) \cup {p}
      /\ p \in Verticals
  BY <1>3, TakenSpace DEF TypeInv
<1>5. Covered(space, InHand) => Covered(space', InHand')
  <2> SUFFICES ASSUME Covered(space, InHand),
                      NEW Y \in Verticals, Minimal(Y), Small(Y), InScopeOf(space', Y), found[Y] = 0
               PROVE  \E q \in Index(space') \cup InHand' : q \subseteq Y
    BY DEF Covered
  <2>1. PICK q \in Index(space) : q \subseteq Y
    BY <1>1, <1>2, <1>4 DEF Covered, InScopeOf, InHand, TrickleSteps
  <2>2. q # p
    BY <1>1, <1>3, <1>4, <2>1, PrunedFound
  <2> QED
    BY <1>1, <1>4, <2>1, <2>2
<1>6. KnowledgeInv'
  BY <1>2, <1>3, KnowledgeStays DEF KnowledgeInv, LocalSound, fixed
<1> QED
  BY <1>1, <1>2, <1>3, <1>4, <1>5, <1>6, FrontStep DEF TypeInv, PadsInv, EmptyInv

LEMMA TakeKeeps == SearchInv /\ TakeLaunchPad => SearchInv'
PROOF
<1> SUFFICES ASSUME SearchInv, TakeLaunchPad PROVE SearchInv'
  OBVIOUS
<1>1. PICK p \in Ready : space' = Taken(p) /\ pad' = p /\ candidate' = p
  BY DEF TakeLaunchPad
<1>2. /\ UNCHANGED <<fixed, found, global, local, outer, frames>>
      /\ stage = "poll" /\ stage' = "ascend"
  BY DEF TakeLaunchPad, descentVars
<1>3. TypeInv /\ KnowledgeInv /\ PadsInv /\ EmptyInv
  BY DEF SearchInv
<1>4. /\ Taken(p) \in SpaceType /\ Taken(p).scope = space.scope
      /\ p \in Index(space) /\ Index(Taken(p)) \subseteq Index(space)
      /\ Index(space) \subseteq Index(Taken(p)) \cup {p}
      /\ p \in Verticals
  BY <1>3, TakenSpace DEF TypeInv
<1>5. Covered(space, InHand) => Covered(space', InHand')
  BY <1>1, <1>2, <1>4 DEF Covered, InScopeOf, InHand, TrickleSteps
<1>6. KnowledgeInv'
  BY <1>2, <1>3, KnowledgeStays DEF KnowledgeInv, LocalSound, fixed
<1> QED
  BY <1>1, <1>2, <1>3, <1>4, <1>5, <1>6, FrontStep DEF TypeInv, PadsInv, EmptyInv

\* What is still to be found above a launch pad lies outside of every set that
\* prunes the pad, so that one of the pads escaped to is below it.
LEMMA EscapesCover ==
  ASSUME SearchInv, NEW p \in Ready,
         NEW Y \in Verticals, Minimal(Y), Small(Y), InScopeOf(space, Y), found[Y] = 0,
         p \subseteq Y, ~\E q \in Index(Taken(p)) : q \subseteq Y
  PROVE  \E q \in Escapes(p) : q \subseteq Y
PROOF
<1> DEFINE family == {SpaceColumns \ X : X \in PruningSupersets(p)}
<1>1. TypeInv /\ KnowledgeInv
  BY DEF SearchInv
<1>2. p \in Verticals
  BY <1>1, TakenSpace DEF TypeInv
<1>3. ASSUME NEW X \in PruningSupersets(p) PROVE X \in Verticals /\ ~(Y \subseteq X)
  <2>1. X \in Verticals /\ (X \in DOMAIN global \/ X \in DOMAIN local)
    BY <1>1, <1>3 DEF PruningSupersets, TypeInv
  <2>2. CASE X \in exactSets /\ X \in DOMAIN global
    BY <1>1, <2>1, <2>2 DEF KnowledgeInv, FoundBelow
  <2>3. CASE X \notin exactSets
    BY <1>1, <2>1, <2>3 DEF TypeInv, ClosedUpwards, Minimal
  <2>4. CASE X \in exactSets /\ X \notin DOMAIN global
    <3>1. X \in DOMAIN local /\ (~local[X].dependency \/ local[X].extremal)
      BY <1>3, <2>4 DEF PruningSupersets
    <3>2. local[X] = VerticalInfo(TRUE, FALSE)
      BY <1>1, <2>4, <3>1 DEF KnowledgeInv, LocalSound
    <3> QED
      BY <3>1, <3>2 DEF VerticalInfo
  <2> QED
    BY <2>1, <2>2, <2>3, <2>4
<1>4. \A S \in family : Y \cap S # {}
  BY <1>3 DEF Verticals
<1>5. family \in SUBSET Verticals
  BY DEF Verticals
<1>6. PICK H \in HittingSets(family) : H \subseteq Y
  <2> HIDE DEF family
  <2> QED
    BY <1>1, <1>4, <1>5, HittingSetInside DEF TypeInv
<1>7. H \in Verticals /\ p \cup H \in Verticals /\ p \cup H \subseteq Y
  BY <1>2, <1>6 DEF Verticals
<1>8. InScope(H)
  BY <1>6 DEF InScope, InScopeOf
<1>9. ~IsImpliedByMinDep(p \cup H, global)
  BY <1>1, <1>7, PrunedFound DEF Pruned
<1>10. Cardinality(p \cup H) <= maxLhs
  <2>1. Cardinality(p \cup H) <= Cardinality(Y) /\ Cardinality(p \cup H) \in Nat
        /\ Cardinality(Y) \in Nat
    BY <1>1, <1>7, SubsetSmaller DEF TypeInv
  <2> QED
    BY <1>1, <2>1 DEF Small, TypeInv
<1>11. ~\E q \in Index(Taken(p)) : q \subseteq p \cup H
  BY <1>7
<1>12. p \cup H \in Escapes(p)
  BY <1>6, <1>8, <1>9, <1>10, <1>11 DEF Escapes
<1> QED
  BY <1>7, <1>12

\* The empty launch pad is not escaped from when it is a dependency.
LEMMA NoEscapeFromEmpty ==
  ASSUME SearchInv, {} \in exactSets, NEW p \in Ready, ~Pruned(p)
  PROVE  PruningSupersets(p) = {}
PROOF
<1>1. TypeInv /\ KnowledgeInv /\ EmptyInv
  BY DEF SearchInv
<1>2. p = {}
  BY <1>1, TakenSpace DEF TypeInv, EmptyInv
<1>3. \A X \in Verticals : X \in exactSets
  BY <1>1 DEF TypeInv, ClosedUpwards
<1>4. {} \in Verticals
  BY DEF Verticals
<1>5. DOMAIN global = {}
  <2>1. ~\E Y \in DOMAIN global \cap exactSets : Y \subseteq p
    BY <1>1, <1>2, <1>4, Visitees DEF Pruned
  <2>2. \A Y \in DOMAIN global : Y = {}
    BY <1>1 DEF EmptyInv
  <2> QED
    BY <1>2, <2>1, <2>2
<1>6. ASSUME NEW X \in DOMAIN local PROVE local[X].dependency /\ ~local[X].extremal
  <2>1. local[X] = VerticalInfo(TRUE, FALSE)
    BY <1>1, <1>3 DEF TypeInv, KnowledgeInv, LocalSound
  <2> QED
    BY <2>1 DEF VerticalInfo
<1> QED
  BY <1>5, <1>6 DEF PruningSupersets

LEMMA EscapeKeeps == SearchInv /\ EscapeLaunchPad => SearchInv'
PROOF
<1> SUFFICES ASSUME SearchInv, EscapeLaunchPad PROVE SearchInv'
  OBVIOUS
<1>1. PICK p \in Ready : /\ ~Pruned(p) /\ PruningSupersets(p) # {}
                         /\ space' = [Taken(p) EXCEPT !.pads = @ \cup Escapes(p)]
  BY DEF EscapeLaunchPad
<1>2. /\ UNCHANGED <<fixed, found, global, local, outer, pad, candidate, frames, stage>>
      /\ stage = "poll"
  BY DEF EscapeLaunchPad, descentVars
<1>3. TypeInv /\ KnowledgeInv /\ PadsInv /\ EmptyInv
  BY DEF SearchInv
<1>4. /\ Taken(p) \in SpaceType /\ Taken(p).scope = space.scope
      /\ Index(Taken(p)) \subseteq Index(space)
      /\ Index(space) \subseteq Index(Taken(p)) \cup {p}
      /\ p \in Verticals
  BY <1>3, TakenSpace DEF TypeInv
<1>5. \A q \in Escapes(p) : q \in Verticals /\ Small(q)
  <2>1. \A H \in HittingSets({SpaceColumns \ X : X \in PruningSupersets(p)}) : H \in Verticals
    BY DEF HittingSets, Verticals
  <2> QED
    BY <1>4, <2>1 DEF Escapes, Small, Verticals
<1>6. /\ space' \in SpaceType /\ space'.scope = space.scope
      /\ Index(space') = Index(Taken(p)) \cup Escapes(p)
  BY <1>1, <1>4, <1>5 DEF SpaceType, Index
<1>7. Covered(space, InHand) => Covered(space', InHand')
  <2> SUFFICES ASSUME Covered(space, InHand),
                      NEW Y \in Verticals, Minimal(Y), Small(Y), InScopeOf(space', Y), found[Y] = 0
               PROVE  \E q \in Index(space') \cup InHand' : q \subseteq Y
    BY DEF Covered
  <2>1. InScopeOf(space, Y)
    BY <1>6 DEF InScopeOf
  <2>2. PICK q \in Index(space) : q \subseteq Y
    BY <1>2, <2>1 DEF Covered, InHand, TrickleSteps
  <2>3. CASE q = p
    BY <1>6, <2>1, <2>2, <2>3, EscapesCover
  <2>4. CASE q # p
    BY <1>4, <1>6, <2>2, <2>4
  <2> QED
    BY <2>3, <2>4
<1>8. KnowledgeInv'
  BY <1>2, <1>3, KnowledgeStays DEF KnowledgeInv, LocalSound, fixed
<1>9. {} \notin exactSets
  BY <1>1, NoEscapeFromEmpty
<1>10. /\ \A q \in Index(space') : Small(q)
       /\ Small(pad') /\ Small(candidate')
  BY <1>2, <1>3, <1>4, <1>5, <1>6 DEF PadsInv
<1> QED
  BY <1>2, <1>3, <1>6, <1>7, <1>8, <1>9, <1>10, FrontStep DEF TypeInv

LEMMA FinishKeeps == SearchInv /\ Finish => SearchInv'
PROOF
<1> SUFFICES ASSUME SearchInv, Finish PROVE SearchInv'
  OBVIOUS
<1>1. /\ UNCHANGED <<strategy, exactSets, maxLhs, found, global, local, space, outer, pad, candidate>>
      /\ UNCHANGED <<peaks, alleged, nons, frames>>
      /\ stage = "poll" /\ stage' = "done" /\ Ready = {} /\ outer = <<>>
  BY DEF Finish, fixed, descentVars
<1>2. /\ \A X : (Minimal(X)' <=> Minimal(X)) /\ (Small(X)' <=> Small(X))
      /\ \A X : Exact(X)' <=> Exact(X)
  BY <1>1, FixedStays DEF fixed
<1>3. TypeInv'
  BY <1>1 DEF SearchInv, TypeInv, ClosedUpwards, TrickleSteps
<1>4. KnowledgeInv'
  BY <1>1, KnowledgeStays DEF SearchInv, KnowledgeInv, LocalSound, fixed
<1>5. TrickleInv' /\ FramesInv'
  BY <1>1 DEF TrickleInv, FramesInv, TrickleSteps
<1>6. DoneInv'
  BY <1>1 DEF DoneInv, Ready, Index
<1>7. PadsInv'
  <2>1. InHand = {} /\ InHand' = {}
    BY <1>1 DEF InHand, TrickleSteps
  <2>2. Covered(space, InHand)'
    BY <1>1, <1>2, <2>1 DEF SearchInv, PadsInv, Covered, InScopeOf, Index
  <2>3. outer' = <<>>
    BY <1>1
  <2> QED
    BY <1>1, <1>2, <2>2, <2>3 DEF SearchInv, PadsInv, Index
<1>8. OuterInv' /\ EmptyInv'
  BY <1>1, <1>2 DEF SearchInv, OuterInv, EmptyInv, Index
<1> QED
  BY <1>3, <1>4, <1>5, <1>6, <1>7, <1>8 DEF SearchInv

-----------------------------------------------------------------------------
(* Ascend. *)

\* A step into or within TrickleDown: no space changes.
LEMMA DescentStep ==
  ASSUME SearchInv, UNCHANGED <<fixed, found, global, space, outer, pad, candidate>>,
         stage \in {"ascend"} \cup TrickleSteps, stage' \in TrickleSteps,
         LocalSound', DOMAIN local' \subseteq Verticals,
         frames' \in Seq(FrameType), TrickleInv', FramesInv'
  PROVE  SearchInv'
PROOF
<1>1. /\ \A X : (Minimal(X)' <=> Minimal(X)) /\ (Small(X)' <=> Small(X))
      /\ \A X : Exact(X)' <=> Exact(X)
      /\ UNCHANGED <<exactSets, maxLhs, found, global, space, outer, pad, candidate>>
  BY FixedStays DEF fixed
<1>2. TypeInv'
  BY <1>1 DEF SearchInv, TypeInv, ClosedUpwards, TrickleSteps
<1>3. KnowledgeInv'
  BY KnowledgeStays DEF SearchInv
<1>4. PadsInv'
  <2>1. InHand' = InHand
    BY <1>1 DEF InHand
  <2>2. Covered(space, InHand)'
    BY <1>1, <2>1 DEF SearchInv, PadsInv, Covered, InScopeOf, Index
  <2>3. Small(pad)' /\ Small(candidate)' /\ \A p \in Index(space)' : Small(p)'
    BY <1>1 DEF SearchInv, PadsInv, Index, Small
  <2>4. ASSUME NEW i \in 1..Len(outer)
        PROVE  /\ Covered(outer[i].space, {outer[i].pad})'
               /\ \A p \in (Index(outer[i].space) \cup {outer[i].pad})' : Small(p)'
    <3>1. /\ Covered(outer[i].space, {outer[i].pad})
          /\ \A p \in Index(outer[i].space) \cup {outer[i].pad} : Small(p)
      BY DEF SearchInv, PadsInv
    <3>2. Covered(outer[i].space, {outer[i].pad})'
      BY <1>1, <3>1 DEF Covered, InScopeOf, Index
    <3>3. \A p \in (Index(outer[i].space) \cup {outer[i].pad})' : Small(p)'
      BY <1>1, <3>1 DEF Index
    <3> QED
      BY <3>2, <3>3
  <2> QED
    BY <1>1, <2>2, <2>3, <2>4 DEF PadsInv
<1>5. OuterInv'
  BY <1>1 DEF SearchInv, OuterInv, ScopeBelow, Complete, Small
<1>6. EmptyInv' /\ DoneInv'
  BY <1>1 DEF SearchInv, EmptyInv, DoneInv, Index, TrickleSteps
<1> QED
  BY <1>2, <1>3, <1>4, <1>5, <1>6 DEF SearchInv

\* A climb goes to sets of one column more, while that is no more than max_lhs.
LEMMA ExtensionSmall ==
  ASSUME TypeInv, NEW X \in Extensions
  PROVE  X \in Verticals /\ Small(X)
PROOF
<1>1. PICK c \in SpaceColumns \ candidate : X = candidate \cup {c}
  BY DEF Extensions
<1>2. ~(Cardinality(candidate) >= maxLhs)
  BY DEF Extensions
<1>3. IsFiniteSet(candidate) /\ Cardinality(candidate) \in Nat
  BY SubsetSmaller DEF TypeInv
<1>4. Cardinality(X) = Cardinality(candidate) + 1
  BY <1>1, <1>3, FS_AddElement
<1> QED
  BY <1>1, <1>2, <1>3, <1>4 DEF TypeInv, Small, Verticals

LEMMA AscendKeeps == SearchInv /\ Ascend => SearchInv'
PROOF
<1> SUFFICES ASSUME SearchInv, Ascend PROVE SearchInv'
  OBVIOUS
<1>0. TypeInv /\ KnowledgeInv /\ PadsInv /\ EmptyInv
  BY DEF SearchInv
<1>1. /\ UNCHANGED <<fixed, found, outer, pad, frames>>
      /\ stage = "ascend" /\ UNCHANGED exactSets
  BY DEF Ascend, fixed
<1> DEFINE climbed == Put(local, candidate, VerticalInfo(candidate \in exactSets, FALSE))
<1>2. PICK guess \in Guesses({candidate}) :
        LET checked == guess # {} \/ Exact(candidate)
            visited == IF checked THEN climbed ELSE local
        IN \/ /\ candidate \in exactSets
              /\ local' = visited /\ BeginTrickleDown
              /\ UNCHANGED <<global, space, candidate>>
           \/ /\ ~(candidate \in exactSets /\ checked)
              /\ local' = visited /\ candidate' \in Extensions
              /\ UNCHANGED <<global, space, stage>>
           \/ /\ candidate \notin exactSets
              /\ global' = IF Depth = 0 THEN Put(global, candidate, MaximalNonDependency)
                                        ELSE global
              /\ local' = IF Depth = 0 THEN visited ELSE Put(visited, candidate, NonDependency)
              /\ DeferLaunchPad /\ UNCHANGED candidate
  BY DEF Ascend
<1>3. ASSUME local' \in {climbed, local}
      PROVE  LocalSound' /\ DOMAIN local' \subseteq Verticals
  <2>1. CASE local' = climbed
    BY <1>0, <1>1, <2>1, LocalVisited DEF KnowledgeInv
  <2>2. CASE local' = local
    BY <1>0, <1>1, <2>2 DEF KnowledgeInv, LocalSound, TypeInv
  <2> QED
    BY <1>3, <2>1, <2>2
<1>4. CASE /\ candidate \in exactSets
           /\ local' \in {climbed, local} /\ BeginTrickleDown
           /\ UNCHANGED <<global, space, candidate>>
  <2>1. TrickleInv'
    BY <1>1, <1>4 DEF BeginTrickleDown, TrickleInv, EmptyMap
  <2>2. stage' = "trickle"
    BY <1>4 DEF BeginTrickleDown
  <2>3. FramesInv'
    BY <2>2 DEF FramesInv
  <2>4. frames' \in Seq(FrameType)
    BY <1>0, <1>1 DEF TypeInv
  <2> QED
    BY <1>1, <1>3, <1>4, <2>1, <2>2, <2>3, <2>4, DescentStep DEF TrickleSteps
<1>5. CASE /\ ~(candidate \in exactSets /\ Exact(candidate))
           /\ local' \in {climbed, local} /\ candidate' \in Extensions
           /\ UNCHANGED <<global, space, stage>>
  <2>1. candidate' \in Verticals /\ Small(candidate')
    BY <1>0, <1>5, ExtensionSmall
  <2>2. {} \notin exactSets
    BY <1>0, <1>5 DEF EmptyInv
  <2>3. KnowledgeInv'
    BY <1>0, <1>1, <1>3, <1>5, KnowledgeStays
  <2>4. InHand' = InHand
    BY <1>1, <1>5 DEF InHand
  <2> QED
    BY <1>0, <1>1, <1>3, <1>5, <2>1, <2>2, <2>3, <2>4, FrontStep DEF TypeInv, PadsInv
<1>6. CASE /\ candidate \notin exactSets
           /\ global' \in {Put(global, candidate, MaximalNonDependency), global}
           /\ \/ local' \in {climbed, local}
              \/ \E visited \in {climbed, local} : local' = Put(visited, candidate, NonDependency)
           /\ DeferLaunchPad /\ UNCHANGED candidate
  <2>1. LocalSound' /\ DOMAIN local' \subseteq Verticals
    <3>1. ASSUME NEW visited \in {climbed, local},
                 local' = Put(visited, candidate, NonDependency)
          PROVE  LocalSound' /\ DOMAIN local' \subseteq Verticals
      <4>1. local' = PutAll(local, {candidate}, NonDependency)
        BY <3>1 DEF Put, PutAll
      <4> QED
        BY <1>0, <1>1, <1>6, <4>1, LocalGrows DEF KnowledgeInv, TypeInv
    <3> QED
      BY <1>3, <1>6, <3>1
  <2>2. /\ DOMAIN global' \subseteq DOMAIN global \cup {candidate}
        /\ DOMAIN global \subseteq DOMAIN global'
        /\ \A X \in DOMAIN global' : X # candidate => global'[X] = global[X]
        /\ candidate \in DOMAIN global' => \/ global'[candidate] = MaximalNonDependency
                                           \/ global' = global
    BY <1>6 DEF Put
  <2>3. KnowledgeInv'
    BY <1>0, <1>1, <1>6, <2>1, <2>2, FixedStays
    DEF KnowledgeInv, GlobalSound, FoundBelow, FoundRight, fixed, TypeInv
  <2>4. {} \notin exactSets
    BY <1>0, <1>6 DEF EmptyInv
  <2>5. /\ space' \in SpaceType /\ space'.scope = space.scope /\ stage' = "poll"
        /\ Index(space') = Index(space) \cup {pad}
    BY <1>0, <1>6 DEF DeferLaunchPad, TypeInv, SpaceType, Index
  <2>6. Covered(space, InHand) => Covered(space', InHand')
    BY <1>1, <2>5 DEF Covered, InHand, InScopeOf, TrickleSteps
  <2> QED
    BY <1>0, <1>1, <1>6, <2>1, <2>2, <2>3, <2>4, <2>5, <2>6, FrontStep DEF TypeInv, PadsInv
<1> QED
  BY <1>2, <1>4, <1>5, <1>6

-----------------------------------------------------------------------------
(* The frames of TrickleDownFrom. *)

\* The sets with one column less are all exact, or none is.
LEMMA ParentsAlike ==
  ASSUME TypeInv, NEW X \in Verticals, Cardinality(X) > 1, NEW c \in X, NEW d \in X,
         Exact(X \ {c})
  PROVE  Exact(X \ {d})
PROOF
<1>1. IsFiniteSet(X) /\ Cardinality(X) \in Nat
  BY SubsetSmaller DEF TypeInv
<1>2. /\ Cardinality(X \ {c}) = Cardinality(X) - 1
      /\ Cardinality(X \ {d}) = Cardinality(X) - 1
  BY <1>1, FS_RemoveElement
<1>3. X \ {c} # {}
  BY <1>1, <1>2, FS_EmptySet
<1> QED
  BY <1>2, <1>3 DEF Exact

LEMMA Guessed ==
  ASSUME NEW sets, NEW guess \in Guesses(sets)
  PROVE  guess \subseteq sets /\ \A P \in sets \ guess : Exact(P) => P \notin exactSets
BY DEF Guesses

LEMMA NewFrame ==
  ASSUME TypeInv, KnowledgeInv, EmptyInv, NEW X \in Verticals, X \subseteq candidate,
         NEW exact \in BOOLEAN, SubsetDeps(X) = {}, NEW f \in NewFrames(X, exact)
  PROVE  f \in FrameType /\ f.node = X /\ FrameInv(f, {})
PROOF
<1> DEFINE parents == IF Cardinality(X) > 1 THEN {X \ {c} : c \in X} ELSE {}
           unknown == {P \in parents : ~NonDependencyKnown(P)}
           tried == unknown \ nons
<1>1. PICK guess \in Guesses(tried) :
        f = [node |-> X, exact |-> exact, queue |-> guess, rest |-> tried \ guess,
             known |-> unknown \cap nons = {}]
  BY DEF NewFrames
<1>2. guess \subseteq tried /\ \A P \in tried \ guess : Exact(P) => P \notin exactSets
  <2> HIDE DEF tried
  <2> QED
    BY <1>1, Guessed
<1>3. \A P \in tried : P \in Verticals /\ P \subseteq X /\ Cardinality(X) > 1
                       /\ \E c \in X : P = X \ {c}
  BY DEF Verticals
<1>4. /\ f.node = X /\ f.exact = exact /\ f.queue = guess /\ f.rest = tried \ guess
      /\ f.known <=> unknown \cap nons = {}
      /\ f.known \in BOOLEAN
  <2> HIDE DEF tried, unknown
  <2> QED
    BY <1>1
<1>5. f \in FrameType
  <2>1. guess \in SUBSET Verticals /\ tried \ guess \in SUBSET Verticals
    BY <1>2, <1>3
  <2>2. (unknown \cap nons = {}) \in BOOLEAN
    OBVIOUS
  <2> HIDE DEF tried, unknown
  <2> QED
    BY <1>1, <2>1, <2>2 DEF FrameType
<1>6. \A P, Q \in f.rest : Exact(P) => Exact(Q)
  BY <1>3, <1>4, ParentsAlike
<1>7. ASSUME f.known, NEW c \in X, X \ {c} \in exactSets
      PROVE  X \ {c} \in f.queue \cup f.rest
  <2>1. Cardinality(X) > 1
    <3>1. IsFiniteSet(X) /\ Cardinality(X) \in Nat /\ Cardinality(X \ {c}) = Cardinality(X) - 1
          /\ IsFiniteSet(X \ {c}) /\ Cardinality(X \ {c}) \in Nat
      BY SubsetSmaller, FS_RemoveElement DEF TypeInv
    <3>2. X \ {c} # {}
      BY <1>7 DEF EmptyInv
    <3>3. Cardinality(X \ {c}) # 0
      BY <3>1, <3>2, FS_EmptySet
    <3> QED
      BY <3>1, <3>3
  <2>2. ~NonDependencyKnown(X \ {c})
    BY <1>7, Visitees DEF TypeInv
  <2>3. X \ {c} \in unknown
    BY <2>1, <2>2
  <2>4. X \ {c} \in tried
    BY <1>4, <1>7, <2>3
  <2> QED
    BY <1>4, <2>4
<1>8. \A P \in f.queue \cup f.rest : P \subseteq f.node
  BY <1>2, <1>3, <1>4
<1>9. \A P \in f.rest : Exact(P) => P \notin exactSets
  BY <1>2, <1>4
<1> HIDE DEF parents, unknown, tried
<1> QED
  BY <1>4, <1>5, <1>6, <1>7, <1>8, <1>9 DEF FrameInv

LEMMA FrontFrames ==
  ASSUME NEW S, NEW s \in Seq(S), s # <<>>
  PROVE  /\ Len(s) \in Nat /\ Len(s) > 0
         /\ Front(s) \in Seq(S) /\ Len(Front(s)) = Len(s) - 1
         /\ \A i \in 1..(Len(s) - 1) : Front(s)[i] = s[i]
PROOF
<1>1. Len(s) \in Nat /\ Len(s) > 0
  OBVIOUS
<1> DEFINE k == Len(s) - 1
<1>2. k \in Int /\ 1 \in Int /\ k >= 0 /\ \A i \in 1..k : s[i] \in S
  BY <1>1
<1> HIDE DEF k
<1>3. /\ SubSeq(s, 1, k) \in Seq(S)
      /\ Len(SubSeq(s, 1, k)) = IF 1 <= k THEN k - 1 + 1 ELSE 0
      /\ \A i \in 1..(k - 1 + 1) : SubSeq(s, 1, k)[i] = s[1 + i - 1]
  BY <1>2, SubSeqProperties
<1>4. Len(SubSeq(s, 1, k)) = k /\ \A i \in 1..k : SubSeq(s, 1, k)[i] = s[i]
  BY <1>2, <1>3
<1> QED
  BY <1>1, <1>3, <1>4 DEF Front, k

\* One frame on top of a changed one.
LEMMA PushFrame ==
  ASSUME NEW s \in Seq(FrameType), s # <<>>, NEW e \in FrameType, NEW f \in FrameType
  PROVE  LET t == Append(Front(s) \o <<e>>, f)
         IN /\ t \in Seq(FrameType) /\ Len(t) = Len(s) + 1
            /\ \A i \in 1..(Len(s) - 1) : t[i] = s[i]
            /\ t[Len(s)] = e /\ t[Len(s) + 1] = f
PROOF
<1>1. Len(s) \in Nat /\ Len(s) > 0
  OBVIOUS
<1>2. /\ Front(s) \in Seq(FrameType) /\ Len(Front(s)) = Len(s) - 1
      /\ \A i \in 1..(Len(s) - 1) : Front(s)[i] = s[i]
  BY FrontFrames
<1>3. /\ Front(s) \o <<e>> \in Seq(FrameType) /\ Len(Front(s) \o <<e>>) = Len(s)
      /\ \A i \in 1..(Len(s) - 1) : (Front(s) \o <<e>>)[i] = s[i]
      /\ (Front(s) \o <<e>>)[Len(s)] = e
  <2> DEFINE u == Front(s)
  <2>1. <<e>> \in Seq(FrameType) /\ Len(<<e>>) = 1 /\ <<e>>[1] = e
    OBVIOUS
  <2>2. u \in Seq(FrameType) /\ Len(u) = Len(s) - 1
    BY <1>2
  <2>3. u \o <<e>> \in Seq(FrameType) /\ Len(u \o <<e>>) = Len(s)
    BY <1>1, <2>1, <2>2
  <2>4. /\ \A i \in 1..Len(u) : (u \o <<e>>)[i] = u[i]
        /\ (u \o <<e>>)[Len(u) + 1] = e
    BY <2>1, <2>2
  <2> QED
    BY <1>1, <1>2, <2>2, <2>3, <2>4
<1> QED
  BY <1>1, <1>3

\* The last frame is gone, and the one before it has changed.
LEMMA PopFrame ==
  ASSUME NEW s \in Seq(FrameType), Len(s) > 1,
         NEW e \in FrameType
  PROVE  LET t == [Front(s) EXCEPT ![Len(s) - 1] = e]
         IN /\ t \in Seq(FrameType) /\ Len(t) = Len(s) - 1
            /\ \A i \in 1..(Len(s) - 2) : t[i] = s[i]
            /\ t[Len(s) - 1] = e
PROOF
<1>1. Len(s) \in Nat
  OBVIOUS
<1>2. /\ Front(s) \in Seq(FrameType) /\ Len(Front(s)) = Len(s) - 1
      /\ \A i \in 1..(Len(s) - 1) : Front(s)[i] = s[i]
  BY FrontFrames
<1> QED
  BY <1>1, <1>2

LEMMA EscapePeakKeeps == SearchInv /\ EscapePeak => SearchInv'
PROOF
<1> SUFFICES ASSUME SearchInv, EscapePeak PROVE SearchInv'
  OBVIOUS
<1>1. /\ UNCHANGED <<fixed, found, global, local, space, outer, pad, candidate, alleged, frames, stage>>
      /\ stage = "trickle" /\ UNCHANGED exactSets
  BY DEF EscapePeak, fixed
<1>2. TypeInv /\ TrickleInv /\ KnowledgeInv
  BY DEF SearchInv
<1>3. PICK peak \in LowestPeaks :
        /\ SubsetDeps(peak) # {}
        /\ \E kept : /\ \A X \in kept : X \subseteq peak
                     /\ peaks' = [X \in (DOMAIN peaks \ {peak}) \cup kept |->
                                    IF X \in kept THEN Exact(X) ELSE peaks[X]]
  <2>1. PICK peak \in LowestPeaks :
          /\ SubsetDeps(peak) # {}
          /\ LET escaped == {peak \ h : h \in HittingSets(SubsetDeps(peak))} \ (nons \cup {{}})
             IN \E likely \in Guesses(escaped) :
                  LET kept == {X \in likely : ~NonDependencyKnown(X)}
                  IN peaks' = [X \in (DOMAIN peaks \ {peak}) \cup kept |->
                                 IF X \in kept THEN Exact(X) ELSE peaks[X]]
    BY DEF EscapePeak
  <2> DEFINE escaped == {peak \ h : h \in HittingSets(SubsetDeps(peak))} \ (nons \cup {{}})
  <2>2. \A X \in escaped : X \subseteq peak
    OBVIOUS
  <2>3. PICK likely \in Guesses(escaped) :
          LET kept == {X \in likely : ~NonDependencyKnown(X)}
          IN peaks' = [X \in (DOMAIN peaks \ {peak}) \cup kept |->
                         IF X \in kept THEN Exact(X) ELSE peaks[X]]
    BY <2>1
  <2>4. likely \subseteq escaped
    <3> HIDE DEF escaped
    <3> QED
      BY <2>3, Guessed
  <2> DEFINE kept == {X \in likely : ~NonDependencyKnown(X)}
  <2>5. \A X \in kept : X \subseteq peak
    BY <2>2, <2>4
  <2>6. peaks' = [X \in (DOMAIN peaks \ {peak}) \cup kept |->
                    IF X \in kept THEN Exact(X) ELSE peaks[X]]
    BY <2>3
  <2> HIDE DEF kept, escaped
  <2> QED
    BY <2>1, <2>5, <2>6
<1>4. \A X \in DOMAIN peaks : X \subseteq candidate /\ peaks[X] \in BOOLEAN
  BY <1>1, <1>2 DEF TrickleInv, TrickleSteps
<1>5. \A X \in DOMAIN peaks' : X \subseteq candidate /\ peaks'[X] \in BOOLEAN
  BY <1>3, <1>4 DEF LowestPeaks, Exact
<1>6. DOMAIN alleged # {}
  BY <1>3 DEF SubsetDeps
<1>7. TrickleInv'
  BY <1>1, <1>2, <1>5, <1>6 DEF TrickleInv, Minimal
<1>8. FramesInv'
  BY <1>1 DEF FramesInv
<1> QED
  BY <1>1, <1>2, <1>7, <1>8, DescentStep DEF TypeInv, KnowledgeInv, LocalSound, TrickleSteps

LEMMA DescendKeeps == SearchInv /\ DescendPeak => SearchInv'
PROOF
<1> SUFFICES ASSUME SearchInv, DescendPeak PROVE SearchInv'
  OBVIOUS
<1>1. /\ UNCHANGED <<fixed, found, global, local, space, outer, pad, candidate, peaks, alleged>>
      /\ stage = "trickle" /\ stage' = "descend" /\ UNCHANGED <<strategy, exactSets>>
  BY DEF DescendPeak, fixed
<1>2. TypeInv /\ TrickleInv /\ KnowledgeInv /\ EmptyInv
  BY DEF SearchInv
<1>3. PICK peak \in LowestPeaks : /\ SubsetDeps(peak) = {}
                                  /\ \E f \in NewFrames(peak, peaks[peak]) : frames' = <<f>>
  BY DEF DescendPeak
<1>4. peak \subseteq candidate /\ peaks[peak] \in BOOLEAN /\ peak \in Verticals
  BY <1>1, <1>2, <1>3 DEF LowestPeaks, TrickleInv, TrickleSteps, TypeInv, Verticals
<1>5. PICK f \in NewFrames(peak, peaks[peak]) : frames' = <<f>>
  BY <1>3
<1>6. f \in FrameType /\ FrameInv(f, {})
  BY <1>2, <1>3, <1>4, <1>5, NewFrame
<1>7. frames' \in Seq(FrameType) /\ Len(frames') = 1 /\ frames'[1] = f
  BY <1>5, <1>6
<1>8. FrameInv(f, {})'
  BY <1>1, <1>6 DEF FrameInv, SubsetDeps, Exact
<1>9. FramesInv'
  <2>1. \A i \in 1..Len(frames') : i = 1 /\ Tried(i)' = {}
    BY <1>7 DEF Tried
  <2> QED
    BY <1>7, <1>8, <2>1 DEF FramesInv, FrameInv
<1>10. TrickleInv'
  BY <1>1, <1>2 DEF TrickleInv, TrickleSteps, Minimal
<1> QED
  BY <1>1, <1>2, <1>7, <1>9, <1>10, DescentStep DEF TypeInv, KnowledgeInv, LocalSound, TrickleSteps

LEMMA TryParentKeeps == SearchInv /\ TryParent => SearchInv'
PROOF
<1> SUFFICES ASSUME SearchInv, TryParent PROVE SearchInv'
  OBVIOUS
<1>1. /\ UNCHANGED <<fixed, found, global, local, space, outer, pad, candidate, peaks, alleged, stage>>
      /\ stage = "descend" /\ UNCHANGED <<strategy, exactSets>>
  BY DEF TryParent, fixed
<1>2. TypeInv /\ TrickleInv /\ KnowledgeInv /\ EmptyInv /\ FramesInv
  BY DEF SearchInv
<1> DEFINE n == Len(frames)
           top == frames[n]
<1>3. /\ frames \in Seq(FrameType) /\ frames # <<>> /\ n \in Nat /\ n > 0
      /\ top \in FrameType /\ \A i \in 1..n : FrameInv(frames[i], Tried(i))
  BY <1>1, <1>2 DEF TypeInv, FramesInv
<1>4. PICK P \in top.queue : \E f \in NewFrames(P, Exact(P)) :
        frames' = Append(Front(frames) \o <<[top EXCEPT !.queue = @ \ {P}]>>, f)
  BY DEF TryParent, Last
<1>5. PICK f \in NewFrames(P, Exact(P)) :
        frames' = Append(Front(frames) \o <<[top EXCEPT !.queue = @ \ {P}]>>, f)
  BY <1>4
<1> DEFINE e == [top EXCEPT !.queue = @ \ {P}]
<1>6. FrameInv(top, {})
  <2>1. Tried(n) = {} /\ n \in 1..n
    BY <1>3 DEF Tried
  <2>2. FrameInv(frames[n], Tried(n))
    BY <1>3, <2>1
  <2> QED
    BY <2>1, <2>2
<1>7. P \in Verticals /\ P \subseteq candidate /\ SubsetDeps(P) = {}
  <2>1. P \subseteq top.node /\ top.node \subseteq candidate /\ SubsetDeps(top.node) = {}
    BY <1>4, <1>6 DEF FrameInv
  <2>2. SubsetDeps(P) = {}
    BY <2>1 DEF SubsetDeps
  <2> QED
    BY <1>2, <2>1, <2>2 DEF TypeInv, Verticals
<1>8. f \in FrameType /\ f.node = P /\ FrameInv(f, {})
  BY <1>2, <1>5, <1>7, NewFrame DEF Exact
<1>9. /\ e \in FrameType /\ e.node = top.node /\ e.rest = top.rest
      /\ e.queue = top.queue \ {P} /\ e.known = top.known
  BY <1>3 DEF FrameType
<1>10. /\ frames' \in Seq(FrameType) /\ Len(frames') = n + 1
       /\ \A i \in 1..(n - 1) : frames'[i] = frames[i]
       /\ frames'[n] = e /\ frames'[n + 1] = f
  <2>1. frames' = Append(Front(frames) \o <<e>>, f)
    BY <1>5
  <2>2. frames \in Seq(FrameType) /\ frames # <<>> /\ e \in FrameType /\ f \in FrameType
    BY <1>3, <1>8, <1>9
  <2>3. n = Len(frames)
    OBVIOUS
  <2> HIDE DEF e, n
  <2> QED
    BY <2>1, <2>2, <2>3, PushFrame
<1>11. FrameInv(e, {P})
  BY <1>6, <1>9 DEF FrameInv
<1>12. ASSUME NEW i \in 1..(n + 1) PROVE FrameInv(frames[i], Tried(i))'
  <2>1. CASE i \in 1..(n - 1)
    <3>1. frames'[i] = frames[i] /\ frames'[i + 1].node = frames[i + 1].node
      <4>1. CASE i + 1 = n
        BY <1>9, <1>10, <2>1, <4>1
      <4>2. CASE i + 1 # n
        BY <1>3, <1>10, <2>1, <4>2
      <4> QED
        BY <4>1, <4>2
    <3>2. Tried(i)' = Tried(i)
      BY <1>3, <1>10, <2>1, <3>1 DEF Tried
    <3>3. FrameInv(frames[i], Tried(i))
      BY <1>3, <2>1
    <3> QED
      BY <1>1, <3>1, <3>2, <3>3 DEF FrameInv, SubsetDeps, Exact
  <2>2. CASE i = n
    <3>1. frames'[i] = e /\ frames'[i + 1] = f
      BY <1>3, <1>10, <2>2
    <3>2. Tried(i)' = {P}
      BY <1>3, <1>8, <1>10, <2>2, <3>1 DEF Tried
    <3> QED
      BY <1>1, <1>11, <3>1, <3>2 DEF FrameInv, SubsetDeps, Exact
  <2>3. CASE i = n + 1
    <3>1. frames'[i] = f
      BY <1>3, <1>10, <2>3
    <3>2. Tried(i)' = {}
      BY <1>3, <1>10, <2>3 DEF Tried
    <3> QED
      BY <1>1, <1>8, <3>1, <3>2 DEF FrameInv, SubsetDeps, Exact
  <2> QED
    BY <1>3, <2>1, <2>2, <2>3
<1>13. FramesInv'
  <2>1. frames' # <<>> /\ Len(frames') = n + 1
    BY <1>3, <1>10
  <2> QED
    BY <1>12, <2>1 DEF FramesInv
<1>14. TrickleInv'
  BY <1>1, <1>2 DEF TrickleInv, TrickleSteps, Minimal
<1> QED
  BY <1>1, <1>2, <1>10, <1>13, <1>14, DescentStep DEF TypeInv, KnowledgeInv, LocalSound, TrickleSteps

\* A dependency is extremal when nothing below it was tried or excluded on the
\* strength of an estimate, the set that the loop leaves out included.
LEMMA ExtremalIsMinimal ==
  ASSUME TypeInv, NEW f \in FrameType, FrameInv(f, {}), f.queue = {}, f.node \in exactSets, f.known,
         NEW leftOut \in LeftOut(f.rest), \A P \in f.rest \ leftOut : Exact(P)
  PROVE  Minimal(f.node)
PROOF
<1> SUFFICES ASSUME NEW c \in f.node, f.node \ {c} \in exactSets PROVE FALSE
  BY MinimalByParents DEF TypeInv
<1>1. f.node \ {c} \in f.rest
  BY DEF FrameInv
<1>2. \A Q \in f.rest : ~Exact(Q)
  BY <1>1 DEF FrameInv
<1>3. f.rest \subseteq leftOut
  BY <1>2
<1>4. PICK Q : leftOut = {Q} /\ ~(Cardinality(f.rest) < 2)
  BY <1>1, <1>3 DEF LeftOut
<1>5. f.rest = {f.node \ {c}}
  BY <1>1, <1>3, <1>4
<1>6. Cardinality(f.rest) = 1
  BY <1>5, FS_Singleton
<1> QED
  BY <1>4, <1>6

\* A frame whose candidate is no dependency leaves its caller with what is still
\* to be tried.
LEMMA ResumedFrame ==
  ASSUME TypeInv, NEW f \in FrameType, NEW X \in Verticals, X \notin exactSets, FrameInv(f, {X})
  PROVE  /\ Resumed(f) \in FrameType /\ Resumed(f).node = f.node
         /\ FrameInv(Resumed(f), {})
PROOF
<1> DEFINE r == Resumed(f)
<1>1. /\ r \in FrameType /\ r.node = f.node /\ r.known = f.known
      /\ \/ r.queue = f.queue /\ r.rest = f.rest
         \/ r.queue = {} /\ r.rest = {} /\ f.node \notin exactSets
  BY DEF Resumed, FrameType
<1>2. ASSUME f.known, NEW c \in f.node, f.node \ {c} \in exactSets
      PROVE  f.node \ {c} \in r.queue \cup r.rest
  <2>1. f.node \in exactSets
    BY <1>2 DEF TypeInv, ClosedUpwards, FrameType
  <2>2. f.node \ {c} \in f.queue \cup f.rest
    BY <1>2 DEF FrameInv
  <2> QED
    BY <1>1, <2>1, <2>2
<1> HIDE DEF r
<1>3. FrameInv(r, {})
  BY <1>1, <1>2 DEF FrameInv
<1> QED
  BY <1>1, <1>3 DEF r

\* The dependency a descent ends at takes the place of the alleged ones above.
LEMMA AllegeMore ==
  ASSUME TypeInv, TrickleInv, stage \in TrickleSteps, NEW X \in exactSets, X \subseteq candidate,
         SubsetDeps(X) = {}, NEW extremal \in BOOLEAN, extremal => Minimal(X),
         UNCHANGED <<strategy, exactSets, candidate, peaks>>, stage' = "trickle",
         alleged' = Put(Without(alleged, {Y \in DOMAIN alleged : X \subseteq Y}), X, extremal)
  PROVE  TrickleInv'
PROOF
<1>1. /\ DOMAIN alleged' = {Y \in DOMAIN alleged : ~(X \subseteq Y)} \cup {X}
      /\ alleged'[X] = extremal
      /\ \A Y \in DOMAIN alleged : ~(X \subseteq Y) => alleged'[Y] = alleged[Y]
  BY DEF Put, Without
<1>2. /\ \A Y \in DOMAIN alleged : /\ Y \subseteq candidate /\ Y \in exactSets
                                   /\ alleged[Y] \in BOOLEAN /\ (alleged[Y] => Minimal(Y))
      /\ \A Y, Z \in DOMAIN alleged : Y \subseteq Z => Y = Z
      /\ candidate \in exactSets
      /\ \A Y \in DOMAIN peaks : Y \subseteq candidate /\ peaks[Y] \in BOOLEAN
  BY DEF TrickleInv
<1>3. \A Y \in DOMAIN alleged : ~(Y \subseteq X)
  BY DEF SubsetDeps
<1>4. \A Y, Z \in DOMAIN alleged' : Y \subseteq Z => Y = Z
  BY <1>1, <1>2, <1>3
<1>5. \A Y \in DOMAIN alleged' : /\ Y \subseteq candidate /\ Y \in exactSets
                                 /\ alleged'[Y] \in BOOLEAN /\ (alleged'[Y] => Minimal(Y))
  BY <1>1, <1>2
<1> QED
  BY <1>1, <1>2, <1>4, <1>5 DEF TrickleInv, Minimal

LEMMA EvaluateKeeps == SearchInv /\ Evaluate => SearchInv'
PROOF
<1> SUFFICES ASSUME SearchInv, Evaluate PROVE SearchInv'
  OBVIOUS
<1> DEFINE n == Len(frames)
           top == frames[n]
<1>1. /\ UNCHANGED <<fixed, found, global, space, outer, pad, candidate>>
      /\ UNCHANGED <<strategy, exactSets, maxLhs>>
      /\ stage = "descend" /\ top.queue = {}
  BY DEF Evaluate, fixed, Last
<1>2. TypeInv /\ KnowledgeInv /\ TrickleInv /\ FramesInv
  BY DEF SearchInv
<1>3. /\ frames \in Seq(FrameType) /\ frames # <<>> /\ n \in Nat /\ n > 0
      /\ top \in FrameType /\ \A i \in 1..n : FrameInv(frames[i], Tried(i))
  BY <1>1, <1>2 DEF TypeInv, FramesInv
<1>4. FrameInv(top, {})
  <2>1. Tried(n) = {} /\ n \in 1..n
    BY <1>3 DEF Tried
  <2>2. FrameInv(frames[n], Tried(n))
    BY <1>3, <2>1
  <2> QED
    BY <2>1, <2>2
<1>5. PICK leftOut \in LeftOut(top.rest) :
        LET excluded == top.rest \ leftOut
            computed == {P \in excluded : Exact(P)}
            doubtful == excluded \ computed
            visited == PutAll(local, computed, NonDependency)
        IN IF top.node \in exactSets
           THEN /\ alleged' = Put(Without(alleged, {Y \in DOMAIN alleged : top.node \subseteq Y}),
                                  top.node, IsExtremal(top, doubtful))
                /\ local' = visited
                /\ frames' = <<>>
                /\ stage' = "trickle"
                /\ UNCHANGED peaks
           ELSE /\ local' = Put(visited, top.node, NonDependency)
                /\ IF n = 1
                   THEN peaks' = Without(peaks, {top.node}) /\ frames' = <<>> /\ stage' = "trickle"
                   ELSE /\ frames' = [Front(frames) EXCEPT ![n - 1] = Resumed(@)]
                        /\ UNCHANGED <<peaks, stage>>
                /\ UNCHANGED alleged
  BY DEF Evaluate, Last
<1> DEFINE computed == {P \in top.rest \ leftOut : Exact(P)}
           doubtful == (top.rest \ leftOut) \ computed
<1>6. computed \subseteq Verticals \ exactSets
  BY <1>3, <1>4 DEF FrameInv, FrameType
<1>7. top.node \in Verticals /\ top.node \subseteq candidate /\ SubsetDeps(top.node) = {}
  BY <1>3, <1>4 DEF FrameInv, FrameType
<1>8. CASE top.node \in exactSets
  <2>1. /\ alleged' = Put(Without(alleged, {Y \in DOMAIN alleged : top.node \subseteq Y}),
                          top.node, IsExtremal(top, doubtful))
        /\ local' = PutAll(local, computed, NonDependency)
        /\ frames' = <<>> /\ stage' = "trickle" /\ UNCHANGED peaks
    BY <1>5, <1>8
  <2> HIDE DEF computed
  <2>2. LocalSound' /\ DOMAIN local' \subseteq Verticals
    BY <1>1, <1>2, <1>6, <2>1, LocalGrows DEF KnowledgeInv
  <2>3. IsExtremal(top, doubtful) \in BOOLEAN
    BY <1>3 DEF IsExtremal, FrameType
  <2>4. IsExtremal(top, doubtful) => Minimal(top.node)
    <3> SUFFICES ASSUME IsExtremal(top, doubtful) PROVE Minimal(top.node)
      OBVIOUS
    <3>1. top.known /\ \A P \in top.rest \ leftOut : Exact(P)
      BY DEF IsExtremal, computed
    <3> HIDE DEF top
    <3> QED
      BY <1>1, <1>2, <1>3, <1>4, <1>5, <1>8, <3>1, ExtremalIsMinimal
  <2>5. TrickleInv'
    <3> DEFINE extremal == IsExtremal(top, doubtful)
               X == top.node
    <3>1. /\ alleged' = Put(Without(alleged, {Y \in DOMAIN alleged : X \subseteq Y}), X, extremal)
          /\ extremal \in BOOLEAN /\ (extremal => Minimal(X))
          /\ X \in exactSets /\ X \subseteq candidate /\ SubsetDeps(X) = {}
      BY <1>7, <1>8, <2>1, <2>3, <2>4
    <3> HIDE DEF extremal, X
    <3> QED
      BY <1>1, <1>2, <2>1, <3>1, AllegeMore DEF TrickleSteps
  <2>6. FramesInv'
    BY <2>1 DEF FramesInv
  <2>7. frames' \in Seq(FrameType)
    BY <2>1
  <2> QED
    BY <1>1, <2>1, <2>2, <2>5, <2>6, <2>7, DescentStep DEF TrickleSteps
<1>9. CASE top.node \notin exactSets
  <2>1. /\ local' = Put(PutAll(local, computed, NonDependency), top.node, NonDependency)
        /\ IF n = 1
           THEN peaks' = Without(peaks, {top.node}) /\ frames' = <<>> /\ stage' = "trickle"
           ELSE /\ frames' = [Front(frames) EXCEPT ![n - 1] = Resumed(@)]
                /\ UNCHANGED <<peaks, stage>>
        /\ UNCHANGED alleged
    BY <1>5, <1>9
  <2>2. LocalSound' /\ DOMAIN local' \subseteq Verticals
    <3> HIDE DEF computed, top
    <3>1. local' = PutAll(local, computed \cup {top.node}, NonDependency)
      BY <2>1 DEF Put, PutAll
    <3> QED
      BY <1>1, <1>2, <1>6, <1>7, <1>9, <3>1, LocalGrows DEF KnowledgeInv
  <2>3. UNCHANGED <<strategy, exactSets, candidate, alleged>>
    BY <1>1, <2>1
  <2>4. CASE n = 1
    <3>1. peaks' = Without(peaks, {top.node}) /\ frames' = <<>> /\ stage' = "trickle"
      BY <2>1, <2>4
    <3>2. /\ DOMAIN peaks' = DOMAIN peaks \ {top.node}
          /\ \A X \in DOMAIN peaks' : peaks'[X] = peaks[X]
      BY <3>1 DEF Without
    <3>3. candidate # top.node
      BY <1>1, <1>2, <1>9 DEF TrickleInv, TrickleSteps
    <3>4. TrickleInv'
      BY <1>1, <1>2, <2>1, <3>2, <3>3 DEF TrickleInv, TrickleSteps, Minimal
    <3>5. FramesInv'
      BY <3>1 DEF FramesInv
    <3>6. frames' \in Seq(FrameType)
      BY <3>1
    <3> QED
      BY <1>1, <2>2, <3>1, <3>4, <3>5, <3>6, DescentStep DEF TrickleSteps
  <2>5. CASE n # 1
    <3> DEFINE caller == frames[n - 1]
    <3>1. /\ frames' = [Front(frames) EXCEPT ![n - 1] = Resumed(@)]
          /\ UNCHANGED <<peaks, alleged, stage>>
      BY <2>1, <2>5
    <3>2. n > 1 /\ n - 1 \in 1..n /\ caller \in FrameType
      <4>1. n \in Nat /\ n > 0 /\ frames \in Seq(FrameType)
        BY <1>3
      <4>2. n > 1 /\ n - 1 \in 1..n
        <5> HIDE DEF n, top, caller
        <5> QED
          BY <2>5, <4>1
      <4> QED
        BY <4>1, <4>2
    <3>3. Front(frames)[n - 1] = caller
      BY <1>3, <3>2, FrontFrames
    <3>4. FrameInv(caller, {top.node})
      <4>1. Tried(n - 1) = {top.node}
        BY <1>3, <3>2 DEF Tried
      <4>2. FrameInv(frames[n - 1], Tried(n - 1))
        BY <1>3, <3>2
      <4> QED
        BY <4>1, <4>2
    <3> DEFINE e == Resumed(caller)
    <3>5. e \in FrameType /\ e.node = caller.node /\ FrameInv(e, {})
      <4> HIDE DEF caller
      <4> QED
        BY <1>2, <1>7, <1>9, <3>2, <3>4, ResumedFrame
    <3>6. frames' = [Front(frames) EXCEPT ![n - 1] = e]
      BY <3>1, <3>3
    <3>7. /\ frames' \in Seq(FrameType) /\ Len(frames') = n - 1
          /\ \A i \in 1..(n - 2) : frames'[i] = frames[i]
          /\ frames'[n - 1] = e
      <4> HIDE DEF e
      <4> QED
        BY <1>3, <3>2, <3>5, <3>6, PopFrame
    <3>8. ASSUME NEW i \in 1..(n - 1) PROVE FrameInv(frames[i], Tried(i))'
      <4>1. CASE i = n - 1
        <5>1. frames'[i] = e /\ Tried(i)' = {}
          BY <1>3, <3>7, <4>1 DEF Tried
        <5> HIDE DEF e, caller, top, computed
        <5> QED
          BY <2>3, <3>5, <5>1 DEF FrameInv, SubsetDeps, Exact
      <4>2. CASE i # n - 1
        <5>1. i \in 1..(n - 2) /\ i + 1 \in 1..(n - 1)
          BY <1>3, <4>2
        <5>2. frames'[i] = frames[i] /\ frames'[i + 1].node = frames[i + 1].node
          <6>1. CASE i + 1 = n - 1
            BY <3>5, <3>7, <5>1, <6>1
          <6>2. CASE i + 1 # n - 1
            BY <1>3, <3>7, <5>1, <6>2
          <6> QED
            BY <6>1, <6>2
        <5>3. Tried(i)' = Tried(i)
          BY <1>3, <3>7, <5>1, <5>2 DEF Tried
        <5>4. FrameInv(frames[i], Tried(i))
          BY <1>3, <5>1
        <5> HIDE DEF e, caller, top, computed
        <5> QED
          BY <2>3, <5>2, <5>3, <5>4 DEF FrameInv, SubsetDeps, Exact
      <4> QED
        BY <4>1, <4>2
    <3>9. FramesInv'
      <4>1. frames' # <<>> /\ Len(frames') = n - 1
        BY <3>2, <3>7
      <4> QED
        BY <3>8, <4>1 DEF FramesInv
    <3>10. TrickleInv'
      BY <1>1, <1>2, <3>1 DEF TrickleInv, TrickleSteps, Minimal
    <3> QED
      BY <1>1, <2>2, <3>1, <3>7, <3>9, <3>10, DescentStep DEF TrickleSteps
  <2> QED
    BY <2>4, <2>5
<1> QED
  BY <1>8, <1>9

-----------------------------------------------------------------------------
(* What is registered. *)

\* Minimal dependencies that were not found yet are registered, and main peaks
\* below which nothing is missing then.
LEMMA RegisterKeeps ==
  ASSUME TypeInv, KnowledgeInv, UNCHANGED fixed, LocalSound',
         NEW sets \in SUBSET Verticals, NEW more \in SUBSET exactSets,
         \A X \in sets : Minimal(X) /\ Small(X) /\ found[X] = 0,
         \A X \in more, Y \in Verticals : Minimal(Y) /\ Y \subseteq X => found[Y] = 1 \/ Y \in sets,
         found' = Registered(sets),
         global' = PutAll(global, sets \cup more, MinimalDependency)
  PROVE  /\ KnowledgeInv' /\ found' \in [Verticals -> Nat] /\ DOMAIN global' \subseteq Verticals
         /\ \A Y \in Verticals : found'[Y] = 0 => found[Y] = 0 /\ Y \notin sets
PROOF
<1>1. /\ \A X : (Minimal(X)' <=> Minimal(X)) /\ (Small(X)' <=> Small(X))
      /\ UNCHANGED exactSets
  BY FixedStays DEF fixed
<1>2. \A Y \in Verticals : found'[Y] = IF Y \in sets THEN 1 ELSE found[Y]
  BY DEF Registered, TypeInv
<1>3. found' \in [Verticals -> Nat]
  BY <1>2 DEF Registered, TypeInv
<1>4. /\ DOMAIN global' = DOMAIN global \cup sets \cup more
      /\ \A X \in DOMAIN global' :
           global'[X] = IF X \in sets \cup more THEN MinimalDependency ELSE global[X]
  BY DEF PutAll
<1>5. DOMAIN global' \subseteq Verticals
  BY <1>4 DEF TypeInv
<1>6. sets \cup more \subseteq exactSets
  BY DEF Minimal
<1>7. GlobalSound'
  BY <1>1, <1>4, <1>6 DEF KnowledgeInv, GlobalSound, MinimalDependency, MaximalNonDependency
<1>8. FoundBelow'
  <2> SUFFICES ASSUME NEW X \in DOMAIN global', X \in exactSets,
                      NEW Y \in Verticals, Minimal(Y), Y \subseteq X
               PROVE  found'[Y] = 1
    BY <1>1 DEF FoundBelow
  <2>1. CASE X \in DOMAIN global
    BY <1>2, <2>1 DEF KnowledgeInv, FoundBelow
  <2>2. CASE X \in sets
    <3>1. Y = X
      BY <2>2 DEF Minimal
    <3> QED
      BY <1>2, <2>2, <3>1
  <2>3. CASE X \in more
    BY <1>2, <2>3
  <2> QED
    BY <1>4, <2>1, <2>2, <2>3
<1>9. FoundRight'
  BY <1>1, <1>2, <1>4 DEF KnowledgeInv, FoundRight
<1>10. KnowledgeInv'
  BY <1>7, <1>8, <1>9 DEF KnowledgeInv
<1>11. \A Y \in Verticals : found'[Y] = 0 => found[Y] = 0 /\ Y \notin sets
  BY <1>2
<1> QED
  BY <1>3, <1>5, <1>10, <1>11

\* No peak is left: what is minimal below the main peak is alleged, or lies below
\* one of the sets that turned out to be dependencies.
LEMMA ConcludeComplete ==
  ASSUME SearchInv, stage = "trickle", peaks = EmptyMap,
         NEW scope, scope = {X \in MaximalNonDeps : ~NonDependencyKnown(X)} \cap exactSets
  PROVE  /\ Complete(DOMAIN alleged, candidate, scope)
         /\ DOMAIN alleged \subseteq Verticals
         /\ scope \subseteq Verticals /\ ({} \in exactSets => scope = {})
PROOF
<1>1. TypeInv /\ KnowledgeInv /\ TrickleInv /\ EmptyInv
  BY DEF SearchInv
<1>2. /\ DOMAIN alleged # {}
      /\ \A X \in DOMAIN alleged : X \subseteq candidate /\ X \in exactSets
      /\ \A X, Y \in DOMAIN alleged : X \subseteq Y => X = Y
  BY <1>1 DEF TrickleInv, TrickleSteps, EmptyMap
<1>3. candidate \in Verticals /\ DOMAIN alleged \in SUBSET exactSets /\ exactSets \subseteq Verticals
  BY <1>1, <1>2 DEF TypeInv
<1>4. ASSUME {} \in exactSets PROVE scope = {} /\ {} \in DOMAIN alleged
  <2>1. candidate = {}
    BY <1>1, <1>4 DEF EmptyInv
  <2>2. MaximalNonDeps = {}
    BY <2>1 DEF MaximalNonDeps
  <2> QED
    BY <1>2, <2>1, <2>2
<1>5. ASSUME NEW Y \in SUBSET candidate, Minimal(Y), Y \notin DOMAIN alleged
      PROVE  \E S \in scope : Y \subseteq S
  <2>1. Y \in Verticals /\ Y \in exactSets /\ Y # {}
    BY <1>3, <1>4, <1>5 DEF Verticals, Minimal
  <2>2. PICK H \in HittingSets(DOMAIN alleged) : Y \subseteq candidate \ H /\ candidate \ H # {}
    <3> DEFINE A == DOMAIN alleged
    <3>1. /\ IsFiniteSet(SpaceColumns) /\ A \in SUBSET exactSets /\ \A X \in A : X \subseteq candidate
          /\ Y \notin A
      BY <1>1, <1>2, <1>3, <1>5 DEF TypeInv
    <3> HIDE DEF A
    <3>2. \E H \in HittingSets(A) : Y \subseteq candidate \ H /\ candidate \ H # {}
      BY <1>3, <1>5, <2>1, <3>1, Duality
    <3> QED
      BY <3>2 DEF A
  <2>3. candidate \ H \in MaximalNonDeps /\ candidate \ H \in Verticals
    BY <1>3, <2>2 DEF MaximalNonDeps, Verticals
  <2>4. candidate \ H \in exactSets
    BY <1>1, <2>1, <2>2, <2>3 DEF TypeInv, ClosedUpwards
  <2>5. ~NonDependencyKnown(candidate \ H)
    BY <1>1, <2>3, <2>4, Visitees
  <2> QED
    BY <2>2, <2>3, <2>4, <2>5
<1>6. Complete(DOMAIN alleged, candidate, scope)
  BY <1>2, <1>5 DEF Complete
<1>7. scope \subseteq Verticals
  BY <1>3
<1> QED
  BY <1>2, <1>3, <1>4, <1>6, <1>7

\* A step back to the launch pads, of this space or of another one.
LEMMA BackStep ==
  ASSUME SearchInv, UNCHANGED <<fixed, pad, candidate, frames>>, stage' = "poll",
         KnowledgeInv', found' \in [Verticals -> Nat],
         DOMAIN global' \subseteq Verticals, DOMAIN local' \subseteq Verticals,
         space' \in SpaceType, outer' \in Seq(OuterType),
         PadsInv', OuterInv', EmptyInv'
  PROVE  SearchInv'
PROOF
<1>1. TypeInv'
  BY DEF SearchInv, TypeInv, ClosedUpwards, fixed
<1>2. TrickleInv' /\ FramesInv' /\ DoneInv'
  BY DEF TrickleInv, FramesInv, DoneInv, TrickleSteps
<1> QED
  BY <1>1, <1>2 DEF SearchInv

\* Everything alleged is minimal when nothing below the peak is in doubt.
LEMMA AllMinimal ==
  ASSUME IsFiniteSet(SpaceColumns), exactSets \subseteq Verticals, NEW peak, NEW A,
         Complete(A, peak, {}), NEW X \in A
  PROVE  Minimal(X)
PROOF
<1>1. /\ X \in exactSets /\ X \subseteq peak /\ \A Z \in A : Z \subseteq X => Z = X
      /\ \A Y \in SUBSET peak : Minimal(Y) => Y \in A
  BY DEF Complete
<1>2. PICK Y \in Verticals : Minimal(Y) /\ Y \subseteq X
  BY <1>1, MinimalBelow
<1>3. Y \in A
  BY <1>1, <1>2
<1> QED
  BY <1>1, <1>2, <1>3

\* What is below a small set is small.
LEMMA SmallBelow ==
  ASSUME TypeInv, NEW X \in Verticals, Small(X), NEW Y \in SUBSET X
  PROVE  Y \in Verticals /\ Small(Y)
PROOF
<1>1. /\ Y \in Verticals /\ Cardinality(Y) <= Cardinality(X)
      /\ Cardinality(X) \in Nat /\ Cardinality(Y) \in Nat
  BY SubsetSmaller DEF TypeInv
<1> QED
  BY <1>1 DEF Small, TypeInv

\* The end of TrickleDown where no estimate was wrong.
LEMMA ConcludeDone ==
  ASSUME SearchInv, Conclude,
         {X \in MaximalNonDeps : ~NonDependencyKnown(X)} \cap exactSets = {}
  PROVE  SearchInv'
PROOF
<1> DEFINE A == DOMAIN alleged
           new == {X \in A : X \notin DOMAIN global}
           more == IF Depth = 0 THEN {candidate} ELSE {}
           unchecked == {X \in MaximalNonDeps : ~NonDependencyKnown(X)}
<1>1. /\ UNCHANGED <<fixed, pad, candidate, frames, outer>>
      /\ UNCHANGED <<exactSets, maxLhs>>
      /\ stage = "trickle" /\ peaks = EmptyMap /\ stage' = "poll"
      /\ local' = PutAll(local, unchecked \ exactSets, NonDependency)
      /\ found' = Registered(new)
      /\ global' = PutAll(global, new \cup more, MinimalDependency)
      /\ space' = [space EXCEPT !.pads = @ \cup {pad}]
  BY DEF Conclude, ReturnLaunchPad, fixed
<1>2. TypeInv /\ KnowledgeInv /\ TrickleInv /\ PadsInv /\ OuterInv /\ EmptyInv
  BY DEF SearchInv
<1>3. Complete(A, candidate, {}) /\ A \subseteq Verticals
  BY <1>1, ConcludeComplete
<1>4. LocalSound' /\ DOMAIN local' \subseteq Verticals
  <2>1. unchecked \ exactSets \subseteq Verticals \ exactSets
    BY <1>2 DEF MaximalNonDeps, TypeInv, Verticals
  <2> HIDE DEF unchecked
  <2> QED
    BY <1>1, <1>2, <2>1, LocalGrows DEF KnowledgeInv
<1>5. candidate \in exactSets /\ candidate \in Verticals
  BY <1>1, <1>2 DEF TrickleInv, TrickleSteps, TypeInv
<1>6. ASSUME NEW X \in new PROVE Minimal(X) /\ Small(X) /\ found[X] = 0
  <2>1. Minimal(X)
    BY <1>2, <1>3, AllMinimal DEF TypeInv
  <2>2. X \subseteq candidate /\ X \in Verticals
    BY <1>3 DEF Complete
  <2>3. Small(X)
    BY <1>2, <1>5, <2>2, SmallBelow DEF PadsInv
  <2>4. found[X] = 0
    BY <1>2, <2>2 DEF KnowledgeInv, FoundRight
  <2> QED
    BY <2>1, <2>3, <2>4
<1>7. ASSUME NEW X \in more, NEW Y \in Verticals, Minimal(Y), Y \subseteq X
      PROVE  found[Y] = 1 \/ Y \in new
  <2>1. Y \in A /\ Y \in exactSets
    BY <1>3, <1>7 DEF Complete, Minimal
  <2> QED
    BY <1>2, <1>7, <2>1 DEF KnowledgeInv, FoundBelow
<1>8. new \in SUBSET Verticals /\ more \in SUBSET exactSets
  BY <1>3, <1>5
<1>9. /\ KnowledgeInv' /\ found' \in [Verticals -> Nat] /\ DOMAIN global' \subseteq Verticals
      /\ \A Y \in Verticals : found'[Y] = 0 => found[Y] = 0
  <2> HIDE DEF new, more
  <2> QED
    BY <1>1, <1>2, <1>4, <1>6, <1>7, <1>8, RegisterKeeps
<1>10. /\ space' \in SpaceType /\ space'.scope = space.scope
       /\ Index(space') = Index(space) \cup {pad}
  BY <1>1, <1>2 DEF TypeInv, SpaceType, Index
<1>11. /\ \A X : (Minimal(X)' <=> Minimal(X)) /\ (Small(X)' <=> Small(X))
       /\ \A X : Exact(X)' <=> Exact(X)
  BY <1>1, FixedStays
<1>12. PadsInv'
  <2>1. Covered(space, InHand)'
    <3>1. InHand = {pad}
      BY <1>1 DEF InHand, TrickleSteps
    <3> QED
      BY <1>2, <1>9, <1>10, <1>11, <3>1 DEF PadsInv, Covered, InScopeOf
  <2>2. Small(pad)' /\ Small(candidate)' /\ \A p \in Index(space)' : Small(p)'
    BY <1>1, <1>2, <1>10, <1>11 DEF PadsInv, Index, Small
  <2>3. ASSUME NEW i \in 1..Len(outer)
        PROVE  /\ Covered(outer[i].space, {outer[i].pad})'
               /\ \A p \in (Index(outer[i].space) \cup {outer[i].pad})' : Small(p)'
    <3>1. /\ Covered(outer[i].space, {outer[i].pad})
          /\ \A p \in Index(outer[i].space) \cup {outer[i].pad} : Small(p)
      BY <1>2 DEF PadsInv
    <3>2. Covered(outer[i].space, {outer[i].pad})'
      BY <1>1, <1>9, <1>11, <3>1 DEF Covered, InScopeOf, Index
    <3>3. \A p \in (Index(outer[i].space) \cup {outer[i].pad})' : Small(p)'
      BY <1>1, <1>11, <3>1 DEF Index
    <3> QED
      BY <3>2, <3>3
  <2> QED
    BY <1>1, <2>1, <2>2, <2>3 DEF PadsInv
<1>13. OuterInv'
  BY <1>1, <1>2, <1>10, <1>11 DEF OuterInv, ScopeBelow, Complete, Small
<1>14. EmptyInv'
  <2> SUFFICES ASSUME {} \in exactSets
               PROVE  /\ pad' = {} /\ candidate' = {} /\ outer' = <<>>
                      /\ Exact({})' /\ Index(space') \subseteq {{}}
                      /\ DOMAIN global' \subseteq {{}}
    BY <1>1 DEF EmptyInv, Index
  <2>1. /\ pad = {} /\ candidate = {} /\ outer = <<>> /\ Exact({})
        /\ Index(space) \subseteq {{}} /\ DOMAIN global \subseteq {{}}
    BY <1>2 DEF EmptyInv
  <2>2. A \subseteq {{}}
    BY <1>3, <2>1 DEF Complete
  <2>3. DOMAIN global' = DOMAIN global \cup new \cup more
    BY <1>1 DEF PutAll
  <2> QED
    BY <1>1, <1>10, <1>11, <2>1, <2>2, <2>3
<1> QED
  BY <1>1, <1>2, <1>4, <1>9, <1>10, <1>12, <1>13, <1>14, BackStep DEF TypeInv

\* The end of TrickleDown where estimates were wrong: a space is nested in this one.
LEMMA ConcludeNested ==
  ASSUME SearchInv, Conclude,
         {X \in MaximalNonDeps : ~NonDependencyKnown(X)} \cap exactSets # {}
  PROVE  SearchInv'
PROOF
<1> DEFINE A == DOMAIN alleged
           certain == {X \in {Y \in A : Y \notin DOMAIN global} : alleged[X]}
           unchecked == {X \in MaximalNonDeps : ~NonDependencyKnown(X)}
           scope == unchecked \cap exactSets
           level == [space |-> space, pad |-> pad, peak |-> candidate, alleged |-> A]
           n == Len(outer)
<1>1. /\ UNCHANGED <<fixed, pad, candidate, frames>>
      /\ UNCHANGED <<exactSets, maxLhs>>
      /\ stage = "trickle" /\ peaks = EmptyMap /\ stage' = "poll"
      /\ local' = PutAll(local, unchecked \ exactSets, NonDependency)
      /\ found' = Registered(certain)
      /\ global' = PutAll(global, certain, MinimalDependency)
      /\ outer' = Append(outer, level)
      /\ space' = [scope |-> scope, pads |-> {{c} : c \in UNION scope}, deferred |-> {}]
  BY DEF Conclude, RegisterAll, fixed
<1>2. TypeInv /\ KnowledgeInv /\ TrickleInv /\ PadsInv /\ OuterInv /\ EmptyInv
  BY DEF SearchInv
<1>3. /\ Complete(A, candidate, scope) /\ A \subseteq Verticals
      /\ scope \subseteq Verticals /\ {} \notin exactSets
  BY <1>1, ConcludeComplete
<1>4. LocalSound' /\ DOMAIN local' \subseteq Verticals
  <2>1. unchecked \ exactSets \subseteq Verticals \ exactSets
    BY <1>2 DEF MaximalNonDeps, TypeInv, Verticals
  <2> HIDE DEF unchecked
  <2> QED
    BY <1>1, <1>2, <2>1, LocalGrows DEF KnowledgeInv
<1>5. candidate \in exactSets /\ candidate \in Verticals
  BY <1>1, <1>2 DEF TrickleInv, TrickleSteps, TypeInv
<1>6. ASSUME NEW X \in certain PROVE Minimal(X) /\ Small(X) /\ found[X] = 0
  <2>1. Minimal(X)
    BY <1>1, <1>2 DEF TrickleInv, TrickleSteps
  <2>2. X \subseteq candidate /\ X \in Verticals
    BY <1>3 DEF Complete
  <2>3. Small(X)
    BY <1>2, <1>5, <2>2, SmallBelow DEF PadsInv
  <2>4. found[X] = 0
    BY <1>2, <2>2 DEF KnowledgeInv, FoundRight
  <2> QED
    BY <2>1, <2>3, <2>4
<1>7. certain \in SUBSET Verticals
  BY <1>3
<1>8. /\ KnowledgeInv' /\ found' \in [Verticals -> Nat] /\ DOMAIN global' \subseteq Verticals
      /\ \A Y \in Verticals : found'[Y] = 0 => found[Y] = 0
  <2> HIDE DEF certain
  <2> DEFINE more == {}
  <2>1. /\ more \in SUBSET exactSets /\ certain \cup more = certain
        /\ \A X \in more, Y \in Verticals : Minimal(Y) /\ Y \subseteq X => found[Y] = 1 \/ Y \in certain
    OBVIOUS
  <2>2. global' = PutAll(global, certain \cup more, MinimalDependency)
    BY <1>1, <2>1
  <2> HIDE DEF more
  <2> QED
    BY <1>1, <1>2, <1>4, <1>6, <1>7, <2>1, <2>2, RegisterKeeps
<1>9. \A p \in {{c} : c \in UNION scope} : p \in Verticals /\ Small(p)
  <2> SUFFICES ASSUME NEW c \in UNION scope PROVE {c} \in Verticals /\ Small({c})
    OBVIOUS
  <2>1. c \in SpaceColumns
    <3> HIDE DEF scope
    <3> QED
      BY <1>3 DEF Verticals
  <2>2. Cardinality({c}) = 1
    BY FS_Singleton
  <2>3. Small({c})
    BY <1>2, <2>2 DEF Small, TypeInv
  <2> QED
    BY <2>1, <2>3 DEF Verticals
<1>10. /\ space' \in SpaceType /\ space'.scope = scope
       /\ Index(space') = {{c} : c \in UNION scope}
  <2> HIDE DEF scope
  <2> QED
    BY <1>1, <1>3, <1>9 DEF SpaceType, Index
<1>11. /\ \A X : (Minimal(X)' <=> Minimal(X)) /\ (Small(X)' <=> Small(X))
       /\ \A X : Exact(X)' <=> Exact(X)
  BY <1>1, FixedStays
<1>12. level \in OuterType
  BY <1>2, <1>3 DEF OuterType, TypeInv
<1>13. /\ outer' \in Seq(OuterType) /\ Len(outer') = n + 1 /\ n \in Nat
       /\ \A i \in 1..n : outer'[i] = outer[i]
       /\ outer'[n + 1] = level /\ outer' # <<>>
  <2> HIDE DEF level
  <2>1. outer \in Seq(OuterType)
    BY <1>2 DEF TypeInv
  <2> QED
    BY <1>1, <1>12, <2>1
<1>14. PadsInv'
  <2>1. Covered(space, InHand)'
    <3> SUFFICES ASSUME NEW Y \in Verticals, Minimal(Y), InScopeOf(space', Y)
                 PROVE  \E p \in Index(space') : p \subseteq Y
      BY <1>11 DEF Covered, InScopeOf, Index
    <3>1. PICK S \in scope : Y \subseteq S
      BY <1>10 DEF InScopeOf
    <3>2. PICK c \in Y : TRUE
      BY <1>3 DEF Minimal
    <3>3. {c} \in Index(space') /\ {c} \subseteq Y
      BY <1>10, <3>1, <3>2
    <3> QED
      BY <3>3
  <2>2. Small(pad)' /\ Small(candidate)' /\ \A p \in Index(space)' : Small(p)'
    BY <1>1, <1>2, <1>9, <1>10, <1>11 DEF PadsInv, Index, Small
  <2>3. ASSUME NEW i \in 1..(n + 1)
        PROVE  /\ Covered(outer'[i].space, {outer'[i].pad})
               /\ \A p \in Index(outer'[i].space) \cup {outer'[i].pad} : Small(p)
    <3>1. CASE i \in 1..n
      BY <1>2, <1>13, <3>1 DEF PadsInv
    <3>2. CASE i = n + 1
      <4>1. outer'[i].space = space /\ outer'[i].pad = pad
        BY <1>13, <3>2
      <4>2. InHand = {pad}
        BY <1>1 DEF InHand, TrickleSteps
      <4> QED
        BY <1>2, <4>1, <4>2 DEF PadsInv
    <3> QED
      BY <1>13, <3>1, <3>2
  <2>4. ASSUME NEW i \in 1..(n + 1)
        PROVE  /\ Covered(outer[i].space, {outer[i].pad})'
               /\ \A p \in (Index(outer[i].space) \cup {outer[i].pad})' : Small(p)'
    <3>1. Covered(outer[i].space, {outer[i].pad})'
      BY <1>8, <1>11, <2>3 DEF Covered, InScopeOf, Index
    <3>2. \A p \in (Index(outer[i].space) \cup {outer[i].pad})' : Small(p)'
      BY <1>11, <2>3 DEF Index
    <3> QED
      BY <3>1, <3>2
  <2> QED
    BY <1>13, <2>1, <2>2, <2>4 DEF PadsInv
<1>15. OuterInv'
  <2>1. outer'[1].space.scope = {}
    <3>1. CASE n = 0
      <4>1. outer = <<>>
        BY <1>2, <3>1 DEF TypeInv
      <4>2. outer'[1].space = space
        BY <1>13, <3>1
      <4> QED
        BY <1>2, <4>1, <4>2 DEF OuterInv
    <3>2. CASE n # 0
      <4>1. outer # <<>> /\ 1 \in 1..n
        BY <1>13, <3>2
      <4> QED
        BY <1>2, <1>13, <4>1 DEF OuterInv
    <3> QED
      BY <3>1, <3>2
  <2>2. ASSUME NEW i \in 1..(n + 1)
        PROVE  /\ Small(outer'[i].peak) /\ outer'[i].peak \in exactSets
               /\ Complete(outer'[i].alleged, outer'[i].peak, ScopeBelow(i)')
    <3>1. CASE i \in 1..n
      <4>1. ScopeBelow(i)' = outer'[i + 1].space.scope
        BY <1>13, <3>1 DEF ScopeBelow
      <4>2. ScopeBelow(i)' = ScopeBelow(i)
        <5>1. CASE i = n
          BY <1>13, <4>1, <5>1 DEF ScopeBelow
        <5>2. CASE i # n
          <6>1. i + 1 \in 1..n
            BY <1>13, <3>1, <5>2
          <6> QED
            BY <1>13, <4>1, <5>2, <6>1 DEF ScopeBelow
        <5> QED
          BY <5>1, <5>2
      <4> QED
        BY <1>2, <1>13, <3>1, <4>2 DEF OuterInv
    <3>2. CASE i = n + 1
      <4>1. ScopeBelow(i)' = scope
        BY <1>10, <1>13, <3>2 DEF ScopeBelow
      <4>2. outer'[i].peak = candidate /\ outer'[i].alleged = A
        BY <1>13, <3>2
      <4> HIDE DEF scope, A
      <4> QED
        BY <1>2, <1>3, <1>5, <4>1, <4>2 DEF PadsInv
    <3> QED
      BY <1>13, <3>1, <3>2
  <2>3. ASSUME NEW i \in 1..(n + 1)
        PROVE  /\ Small(outer[i].peak)' /\ outer'[i].peak \in exactSets'
               /\ Complete(outer[i].alleged, outer[i].peak, ScopeBelow(i))'
    <3>1. Complete(outer[i].alleged, outer[i].peak, ScopeBelow(i))'
      BY <1>1, <1>11, <2>2 DEF Complete
    <3> QED
      BY <1>1, <1>11, <2>2, <3>1 DEF Small
  <2> QED
    BY <1>13, <2>1, <2>3 DEF OuterInv
<1>16. EmptyInv'
  BY <1>1, <1>3 DEF EmptyInv
<1> QED
  BY <1>1, <1>4, <1>8, <1>10, <1>13, <1>14, <1>15, <1>16, BackStep

LEMMA ConcludeKeeps == SearchInv /\ Conclude => SearchInv'
BY ConcludeDone, ConcludeNested

\* A nested space has nothing left: all below the peak it was opened for is found,
\* or is one of the alleged dependencies that stand.
LEMMA LeaveFinds ==
  ASSUME SearchInv, stage = "poll", Ready = {}, NEW peak \in Verticals, Small(peak), NEW A,
         A \subseteq Verticals, Complete(A, peak, space.scope)
  PROVE  /\ \A X \in RightAfterAll(A) : Minimal(X) /\ Small(X) /\ found[X] = 0
         /\ \A Y \in Verticals : Minimal(Y) /\ Y \subseteq peak
              => found[Y] = 1 \/ Y \in RightAfterAll(A)
PROOF
<1>1. TypeInv /\ KnowledgeInv /\ PadsInv
  BY DEF SearchInv
<1>2. /\ \A X \in A : X \in exactSets /\ X \subseteq peak
      /\ \A X, Y \in A : X \subseteq Y => X = Y
      /\ \A Y \in SUBSET peak : Minimal(Y) => Y \in A \/ \E S \in space.scope : Y \subseteq S
  BY DEF Complete
<1>3. Index(space) = {} /\ InHand = {}
  BY DEF Ready, Index, InHand, TrickleSteps
<1>4. ASSUME NEW Y \in Verticals, Minimal(Y), Y \subseteq peak, Y \notin A
      PROVE  found[Y] = 1
  <2>1. InScopeOf(space, Y)
    BY <1>2, <1>4 DEF InScopeOf
  <2>2. Small(Y)
    BY <1>1, <1>4, SmallBelow
  <2>3. found[Y] # 0
    BY <1>1, <1>3, <1>4, <2>1, <2>2 DEF PadsInv, Covered
  <2> QED
    BY <1>1, <2>3 DEF KnowledgeInv, FoundRight
<1>5. \A X \in A : X \in RightAfterAll(A) <=> ~\E Z \in DOMAIN global \cap exactSets : Z \subseteq X
  BY <1>1, Visitees DEF RightAfterAll
<1>6. ASSUME NEW X \in RightAfterAll(A) PROVE Minimal(X) /\ Small(X) /\ found[X] = 0
  <2>1. X \in A /\ X \in Verticals /\ X \in exactSets /\ X \subseteq peak
    BY <1>2 DEF RightAfterAll
  <2>2. PICK Y \in Verticals : Minimal(Y) /\ Y \subseteq X
    BY <1>1, <2>1, MinimalBelow DEF TypeInv
  <2>3. Y \in A
    <3> SUFFICES ASSUME Y \notin A PROVE FALSE
      OBVIOUS
    <3>1. found[Y] = 1 /\ Y \in exactSets
      BY <1>4, <2>1, <2>2 DEF Minimal
    <3>2. Y \in DOMAIN global
      BY <1>1, <3>1 DEF KnowledgeInv, FoundRight
    <3> QED
      BY <1>5, <2>1, <2>2, <3>1, <3>2
  <2>4. Minimal(X)
    BY <1>2, <2>1, <2>2, <2>3
  <2>5. Small(X)
    BY <1>1, <2>1, SmallBelow
  <2>6. found[X] = 0
    BY <1>1, <1>5, <2>1 DEF KnowledgeInv, FoundRight
  <2> QED
    BY <2>4, <2>5, <2>6
<1>7. ASSUME NEW Y \in Verticals, Minimal(Y), Y \subseteq peak, Y \notin RightAfterAll(A)
      PROVE  found[Y] = 1
  <2>1. CASE Y \notin A
    BY <1>4, <1>7, <2>1
  <2>2. CASE Y \in A
    <3>1. PICK Z \in DOMAIN global \cap exactSets : Z \subseteq Y
      BY <1>5, <1>7, <2>2
    <3> QED
      BY <1>1, <1>7, <3>1 DEF Minimal, KnowledgeInv, FoundBelow
  <2> QED
    BY <2>1, <2>2
<1> QED
  BY <1>6, <1>7

LEMMA LeaveKeeps == SearchInv /\ LeaveNested => SearchInv'
PROOF
<1> SUFFICES ASSUME SearchInv, LeaveNested PROVE SearchInv'
  OBVIOUS
<1> DEFINE n == Len(outer)
           back == outer[n]
           sets == RightAfterAll(back.alleged)
           more == IF n - 1 = 0 THEN {back.peak} ELSE {}
<1>1. /\ UNCHANGED <<fixed, local, pad, candidate, frames>>
      /\ UNCHANGED <<exactSets, maxLhs>>
      /\ stage = "poll" /\ stage' = "poll" /\ Ready = {} /\ outer # <<>>
      /\ found' = Registered(sets)
      /\ global' = PutAll(global, IF n - 1 = 0 THEN sets \cup {back.peak} ELSE sets,
                          MinimalDependency)
      /\ space' = [back.space EXCEPT !.pads = @ \cup {back.pad}]
      /\ outer' = Front(outer)
  BY DEF LeaveNested, ReturnLaunchPad, Depth, Last, fixed, descentVars
<1>2. TypeInv /\ KnowledgeInv /\ PadsInv /\ OuterInv /\ EmptyInv
  BY DEF SearchInv
<1>3. /\ outer \in Seq(OuterType) /\ n \in Nat /\ n > 0 /\ n \in 1..n
  BY <1>1, <1>2 DEF TypeInv
<1>4. /\ back \in OuterType
      /\ Small(back.peak) /\ back.peak \in exactSets
      /\ Complete(back.alleged, back.peak, space.scope)
      /\ Covered(back.space, {back.pad})
      /\ \A p \in Index(back.space) \cup {back.pad} : Small(p)
  <2>1. ScopeBelow(n) = space.scope
    BY DEF ScopeBelow
  <2>2. back \in OuterType
    BY <1>3
  <2> QED
    BY <1>2, <1>3, <2>1, <2>2 DEF OuterInv, PadsInv
<1>5. /\ back.alleged \subseteq Verticals /\ back.peak \in Verticals /\ back.space \in SpaceType
      /\ back.pad \in Verticals
  BY <1>4 DEF OuterType
<1> HIDE DEF back
<1>6. /\ \A X \in sets : Minimal(X) /\ Small(X) /\ found[X] = 0
      /\ \A Y \in Verticals : Minimal(Y) /\ Y \subseteq back.peak => found[Y] = 1 \/ Y \in sets
  BY <1>1, <1>4, <1>5, LeaveFinds
<1>7. /\ sets \in SUBSET Verticals /\ more \in SUBSET exactSets
      /\ \A X \in more : X = back.peak
      /\ global' = PutAll(global, sets \cup more, MinimalDependency)
  <2>1. sets \in SUBSET Verticals /\ more \in SUBSET exactSets /\ \A X \in more : X = back.peak
    BY <1>4, <1>5 DEF RightAfterAll
  <2>2. sets \cup more = IF n - 1 = 0 THEN sets \cup {back.peak} ELSE sets
    OBVIOUS
  <2> QED
    BY <1>1, <2>1, <2>2
<1>8. LocalSound' /\ DOMAIN local' \subseteq Verticals
  BY <1>1, <1>2 DEF KnowledgeInv, LocalSound, TypeInv
<1>9. /\ KnowledgeInv' /\ found' \in [Verticals -> Nat] /\ DOMAIN global' \subseteq Verticals
      /\ \A Y \in Verticals : found'[Y] = 0 => found[Y] = 0
  <2>1. \A X \in more, Y \in Verticals : Minimal(Y) /\ Y \subseteq X => found[Y] = 1 \/ Y \in sets
    BY <1>6, <1>7
  <2> HIDE DEF sets, more
  <2> QED
    BY <1>1, <1>2, <1>6, <1>7, <1>8, <2>1, RegisterKeeps
<1>10. /\ space' \in SpaceType /\ space'.scope = back.space.scope
       /\ Index(space') = Index(back.space) \cup {back.pad}
  BY <1>1, <1>5 DEF SpaceType, Index
<1>11. /\ \A X : (Minimal(X)' <=> Minimal(X)) /\ (Small(X)' <=> Small(X))
       /\ \A X : Exact(X)' <=> Exact(X)
  BY <1>1, FixedStays
<1>12. /\ outer' \in Seq(OuterType) /\ Len(outer') = n - 1
       /\ \A i \in 1..(n - 1) : outer'[i] = outer[i]
  BY <1>1, <1>3, FrontFrames
<1>13. PadsInv'
  <2>1. Covered(space, InHand)'
    BY <1>4, <1>9, <1>10, <1>11 DEF Covered, InScopeOf
  <2>2. Small(pad)' /\ Small(candidate)' /\ \A p \in Index(space)' : Small(p)'
    BY <1>1, <1>2, <1>4, <1>10, <1>11 DEF PadsInv, Index, Small
  <2>3. ASSUME NEW i \in 1..(n - 1)
        PROVE  /\ Covered(outer[i].space, {outer[i].pad})'
               /\ \A p \in (Index(outer[i].space) \cup {outer[i].pad})' : Small(p)'
    <3>1. /\ Covered(outer'[i].space, {outer'[i].pad})
          /\ \A p \in Index(outer'[i].space) \cup {outer'[i].pad} : Small(p)
      <4>1. i \in 1..n /\ outer'[i] = outer[i]
        BY <1>3, <1>12
      <4> QED
        BY <1>2, <4>1 DEF PadsInv
    <3>2. Covered(outer[i].space, {outer[i].pad})'
      BY <1>9, <1>11, <3>1 DEF Covered, InScopeOf, Index
    <3>3. \A p \in (Index(outer[i].space) \cup {outer[i].pad})' : Small(p)'
      BY <1>11, <3>1 DEF Index
    <3> QED
      BY <3>2, <3>3
  <2> QED
    BY <1>12, <2>1, <2>2, <2>3 DEF PadsInv
<1>14. OuterInv'
  <2>1. outer' = <<>> => space'.scope = {}
    <3> SUFFICES ASSUME outer' = <<>> PROVE space'.scope = {}
      OBVIOUS
    <3>1. n = 1
      <4>1. n - 1 = 0
        BY <1>12
      <4> QED
        BY <1>3, <4>1
    <3>2. outer[1].space.scope = {}
      BY <1>1, <1>2 DEF OuterInv
    <3> QED
      BY <1>10, <3>1, <3>2 DEF back
  <2>2. outer' # <<>> => outer'[1].space.scope = {}
    <3> SUFFICES ASSUME outer' # <<>> PROVE outer'[1].space.scope = {}
      OBVIOUS
    <3>1. Len(outer') # 0
      BY <1>12
    <3>2. 1 \in 1..(n - 1)
      BY <1>3, <1>12, <3>1
    <3> QED
      BY <1>1, <1>2, <1>12, <3>2 DEF OuterInv
  <2>3. ASSUME NEW i \in 1..(n - 1)
        PROVE  /\ Small(outer'[i].peak) /\ outer'[i].peak \in exactSets
               /\ Complete(outer'[i].alleged, outer'[i].peak, ScopeBelow(i)')
    <3>1. i \in 1..n /\ outer'[i] = outer[i] /\ ScopeBelow(i) = outer[i + 1].space.scope
      BY <1>3, <1>12 DEF ScopeBelow
    <3>2. ScopeBelow(i)' = ScopeBelow(i)
      <4>1. CASE i = n - 1
        <5>1. ScopeBelow(i)' = back.space.scope
          BY <1>10, <1>12, <4>1 DEF ScopeBelow
        <5>2. i + 1 = n
          BY <1>3, <4>1
        <5> QED
          BY <3>1, <5>1, <5>2 DEF back
      <4>2. CASE i # n - 1
        <5>1. i + 1 \in 1..(n - 1)
          BY <1>3, <4>2
        <5> QED
          BY <1>12, <3>1, <4>2, <5>1 DEF ScopeBelow
      <4> QED
        BY <4>1, <4>2
    <3> QED
      BY <1>2, <3>1, <3>2 DEF OuterInv
  <2>4. ASSUME NEW i \in 1..(n - 1)
        PROVE  /\ Small(outer[i].peak)' /\ outer'[i].peak \in exactSets'
               /\ Complete(outer[i].alleged, outer[i].peak, ScopeBelow(i))'
    <3>1. Complete(outer[i].alleged, outer[i].peak, ScopeBelow(i))'
      BY <1>1, <1>11, <2>3 DEF Complete
    <3> QED
      BY <1>1, <1>11, <2>3, <3>1 DEF Small
  <2> QED
    BY <1>12, <2>1, <2>2, <2>4 DEF OuterInv
<1>15. EmptyInv'
  BY <1>1, <1>2 DEF EmptyInv
<1> QED
  BY <1>1, <1>8, <1>9, <1>10, <1>12, <1>13, <1>14, <1>15, BackStep

-----------------------------------------------------------------------------
(* The search. *)

LEMMA SearchStart == SpaceInit => SearchInv
PROOF
<1> SUFFICES ASSUME SpaceInit PROVE SearchInv
  OBVIOUS
<1>1. /\ exactSets \subseteq Verticals /\ ClosedUpwards(exactSets)
      /\ strategy = "key" => {} \notin exactSets
      /\ strategy \in {"fd", "key"}
      /\ found = [X \in Verticals |-> 0] /\ global = EmptyMap /\ local = EmptyMap
      /\ space = [scope |-> {}, pads |-> InitialPads, deferred |-> {}]
      /\ outer = <<>> /\ pad = {} /\ candidate = {} /\ frames = <<>> /\ stage = "poll"
  BY DEF SpaceInit
<1>2. maxLhs \in Nat \ {0}
  BY FS_CardinalityType, SpaceColumnsAssumption DEF SpaceInit
<1>3. {} \in Verticals /\ Cardinality({}) = 0 /\ \A c \in SpaceColumns : {c} \in Verticals /\ Cardinality({c}) = 1
  BY FS_EmptySet, FS_Singleton DEF Verticals
<1>4. DOMAIN global = {} /\ DOMAIN local = {}
  BY <1>1 DEF EmptyMap
<1>5. \A p \in InitialPads : p \in Verticals /\ Small(p)
  <2> SUFFICES ASSUME NEW p \in InitialPads PROVE p \in Verticals /\ Small(p)
    OBVIOUS
  <2>1. p = {} \/ \E c \in SpaceColumns : p = {c}
    BY DEF InitialPads
  <2>2. p \in Verticals /\ Cardinality(p) \in {0, 1}
    BY <1>3, <2>1
  <2> QED
    BY <1>2, <2>2 DEF Small
<1>6. TypeInv
  BY <1>1, <1>2, <1>3, <1>4, <1>5, SpaceColumnsAssumption DEF TypeInv, SpaceType
<1>7. KnowledgeInv
  BY <1>1, <1>4 DEF KnowledgeInv, LocalSound, GlobalSound, FoundBelow, FoundRight
<1>8. TrickleInv /\ FramesInv /\ DoneInv
  BY <1>1 DEF TrickleInv, FramesInv, DoneInv, TrickleSteps
<1>9. Index(space) = InitialPads
  BY <1>1 DEF Index
<1>10. PadsInv
  <2>1. Covered(space, InHand)
    <3> SUFFICES ASSUME NEW Y \in Verticals, Minimal(Y) PROVE \E p \in InitialPads : p \subseteq Y
      BY <1>9 DEF Covered
    <3>1. CASE strategy = "fd"
      BY <3>1 DEF InitialPads
    <3>2. CASE strategy = "key"
      <4>1. PICK c \in Y : TRUE
        BY <1>1, <3>2 DEF Minimal
      <4>2. {c} \in InitialPads
        <5>1. c \in SpaceColumns
          BY <4>1 DEF Verticals
        <5>2. InitialPads = {{d} : d \in SpaceColumns}
          BY <3>2 DEF InitialPads
        <5> QED
          BY <5>1, <5>2
      <4> QED
        BY <4>1, <4>2
    <3> QED
      BY <1>1, <3>1, <3>2
  <2>2. Small(pad) /\ Small(candidate)
    BY <1>1, <1>2, <1>3 DEF Small
  <2>3. 1..Len(outer) = {}
    BY <1>1
  <2> QED
    BY <1>5, <1>9, <2>1, <2>2, <2>3 DEF PadsInv
<1>11. OuterInv
  BY <1>1 DEF OuterInv
<1>12. EmptyInv
  BY <1>1, <1>4, <1>9 DEF EmptyInv, Exact, InitialPads
<1> QED
  BY <1>6, <1>7, <1>8, <1>10, <1>11, <1>12 DEF SearchInv

LEMMA SearchStep == SearchInv /\ [SpaceNext]_spaceVars => SearchInv'
PROOF
<1> SUFFICES ASSUME SearchInv, [SpaceNext]_spaceVars PROVE SearchInv'
  OBVIOUS
<1>1. CASE DropLaunchPad \/ EscapeLaunchPad \/ TakeLaunchPad \/ Finish
  BY <1>1, DropKeeps, EscapeKeeps, TakeKeeps, FinishKeeps
<1>2. CASE Ascend
  BY <1>2, AscendKeeps
<1>3. CASE EscapePeak \/ DescendPeak \/ TryParent \/ Evaluate \/ Conclude
  BY <1>3, EscapePeakKeeps, DescendKeeps, TryParentKeeps, EvaluateKeeps, ConcludeKeeps
<1>4. CASE LeaveNested
  BY <1>4, LeaveKeeps
<1>5. CASE UNCHANGED spaceVars
  <2>1. /\ UNCHANGED <<fixed, found, global, local, space, outer, pad, candidate, frames, stage>>
        /\ UNCHANGED <<peaks, alleged, exactSets>>
    BY <1>5 DEF spaceVars, fixed
  <2>2. /\ \A X : (Minimal(X)' <=> Minimal(X)) /\ (Small(X)' <=> Small(X))
        /\ \A X : Exact(X)' <=> Exact(X)
    BY <2>1, FixedStays
  <2>3. TypeInv'
    BY <2>1 DEF SearchInv, TypeInv, ClosedUpwards, fixed
  <2>4. KnowledgeInv'
    BY <2>1, KnowledgeStays DEF SearchInv, KnowledgeInv, LocalSound
  <2>5. TrickleInv' /\ DoneInv'
    BY <2>1, <2>2 DEF SearchInv, TrickleInv, DoneInv, Index
  <2>6. FramesInv'
    BY <2>1, <2>2 DEF SearchInv, FramesInv, FrameInv, Tried, SubsetDeps
  <2>7. PadsInv'
    BY <2>1, <2>2 DEF SearchInv, PadsInv, Covered, InScopeOf, InHand, Index
  <2>8. OuterInv' /\ EmptyInv'
    BY <2>1, <2>2 DEF SearchInv, OuterInv, ScopeBelow, Complete, EmptyInv, Index
  <2> QED
    BY <2>3, <2>4, <2>5, <2>6, <2>7, <2>8 DEF SearchInv
<1> QED
  BY <1>1, <1>2, <1>3, <1>4, <1>5 DEF SpaceNext

\* At the end no launch pad is left, so that nothing is left to be found.
LEMMA SearchFinds == SearchInv => FoundOnceEach
PROOF
<1> SUFFICES ASSUME SearchInv PROVE FoundOnceEach
  OBVIOUS
<1>1. TypeInv /\ KnowledgeInv /\ PadsInv /\ OuterInv /\ DoneInv
  BY DEF SearchInv
<1>2. \A X \in Verticals : found[X] <= IF Minimal(X) /\ Cardinality(X) <= maxLhs THEN 1 ELSE 0
  <2> SUFFICES ASSUME NEW X \in Verticals
               PROVE  found[X] <= IF Minimal(X) /\ Cardinality(X) <= maxLhs THEN 1 ELSE 0
    OBVIOUS
  <2>1. found[X] \in Nat
    BY <1>1 DEF TypeInv
  <2>2. found[X] # 0 => found[X] = 1 /\ Minimal(X) /\ Cardinality(X) <= maxLhs
    BY <1>1 DEF KnowledgeInv, FoundRight, Small
  <2> QED
    BY <2>1, <2>2
<1>3. ASSUME stage = "done", NEW X \in Verticals, Minimal(X), Cardinality(X) <= maxLhs
      PROVE  found[X] = 1
  <2>1. Index(space) = {} /\ InHand = {} /\ space.scope = {}
    BY <1>1, <1>3 DEF DoneInv, OuterInv, InHand, TrickleSteps
  <2>2. found[X] # 0
    BY <1>1, <1>3, <2>1 DEF PadsInv, Covered, InScopeOf, Small
  <2> QED
    BY <1>1, <2>2 DEF KnowledgeInv, FoundRight
<1> QED
  BY <1>2, <1>3 DEF FoundOnceEach

\* For every finite set of columns, whatever the dependencies and the estimates
\* are: what Pyro registers is a minimal dependency of at most max_lhs columns and
\* was registered once, and when its search has ended none is missing
\* (SearchSpace::Discover).
THEOREM FindsEachOnce == SpaceSpec => []FoundOnceEach
PROOF
<1>1. SpaceInit => SearchInv
  BY SearchStart
<1> QED
  BY <1>1, SearchStep, SearchFinds, PTL DEF SpaceSpec

=============================================================================
