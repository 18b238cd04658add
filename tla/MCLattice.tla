------------------------------ MODULE MCLattice ------------------------------
(***************************************************************************)
(* What works on relations and on the lattice of their sets of columns, for *)
(* TLC: the discovery algorithms, the partition storage, DFD's walk, Pyro's *)
(* search space, or the map the two keep sets of columns in.  One of them   *)
(* runs, the others are at rest.                                            *)
(***************************************************************************)
EXTENDS MCDiscovery, PartitionStorage, LatticeTraversal, SearchSpace

CONSTANT Dimension

VARIABLES running, trie, size, promised

\* Up to four rows for the storage, taken from four.
StorageRows == <<{}, {}, {}, {<<1, 1, 1, 0>>, <<1, 2, 2, 0>>, <<2, 3, 1, 1>>, <<3, 3, 2, 1>>}>>

Trie == INSTANCE VerticalMap

trieVars == <<trie, size, promised>>

RelationAtRest == RelationInit /\ width = 1 /\ nullEqNull

WalkAtRest ==
  /\ deps = {} /\ observations = <<>> /\ minimalDeps = {} /\ maximalNonDeps = {}
  /\ dependenciesMap = [c \in Columns |-> {}] /\ nonDependenciesMap = [c \in Columns |-> {}]
  /\ seeds = {} /\ pending = {} /\ node = EmptyVertical /\ trace = <<>> /\ pc = "done"

SearchAtRest ==
  /\ strategy = "fd" /\ exactSets = {} /\ maxLhs = 0 /\ found = [X \in Verticals |-> 0]
  /\ global = {} /\ local = {} /\ space = {} /\ outer = <<>> /\ pad = {} /\ candidate = {}
  /\ peaks = {} /\ alleged = {} /\ nons = {} /\ frames = <<>> /\ stage = "done"

\* Families up to the names of the columns: the first columns are in more sets.
Sorted(cols, family) ==
  \A c, d \in cols : c < d => Cardinality({X \in family : c \in X}) >= Cardinality({X \in family : d \in X})

\* Relations of the storage up to the order of their rows; the first may come twice.
Field(r, c) == CHOOSE f \in DOMAIN dictionary \cup {Empty} : Identifier(dictionary, f) = columns[c][r]
Place(r) == 10 * Field(r, 1) + Field(r, 2)
RowsAscend == \A r \in Rows \ {1} : Place(r - 1) < Place(r) \/ (r = 2 /\ Place(r - 1) = Place(r))

MCInit ==
  /\ running \in {"discovery", "storage", "walk", "search", "map"}
  /\ CASE running = "discovery" -> DiscoveryInit
       [] running = "storage" -> RelationInit /\ width = WideCols /\ FitInit
       [] OTHER -> RelationAtRest /\ FitInit
  /\ CallInit
  /\ IF running = "walk" THEN Init /\ Sorted(Columns, deps) ELSE WalkAtRest
  /\ IF running = "search" THEN SpaceInit /\ Sorted(SpaceColumns, exactSets) ELSE SearchAtRest
  /\ Trie!MapInit

OthersRest(which) ==
  /\ running = which
  /\ UNCHANGED running
  /\ which \notin {"discovery", "storage"} => UNCHANGED relationVars
  /\ which # "discovery" => UNCHANGED fitVars
  /\ which # "storage" => UNCHANGED callVars
  /\ which # "walk" => UNCHANGED vars
  /\ which # "search" => UNCHANGED spaceVars
  /\ which # "map" => UNCHANGED trieVars

MCNext ==
  \/ OthersRest("discovery") /\ DiscoveryNext
  \/ OthersRest("storage") /\ StorageNext /\ RowsAscend'
  \/ OthersRest("walk") /\ Next
  \/ OthersRest("search") /\ SpaceNext
  \/ OthersRest("map") /\ Trie!MapNext

allVars == <<running, relationVars, fitVars, callVars, vars, spaceVars, trieVars>>

\* Both searches go on as long as they can.
MCSpec ==
  /\ MCInit /\ [][MCNext]_allVars
  /\ WF_allVars(OthersRest("walk") /\ Next) /\ WF_allVars(OthersRest("search") /\ SpaceNext)

\* The properties of the algorithms and of the map, as their modules state them,
\* where they run.
Mining == running = "discovery"
LevelwiseIsMinimal == Mining => LevelwiseFindsMinimal
FdMineIsCover == Mining => FdMineCoversMinimal
DifferencesAreMinimal == Mining => DifferencesGiveMinimal
NegativeCoverIsInverted == Mining => NegativeCoverInverted
HyfdIsComplete == Mining => HyfdMissesNone
TyposAreMended == Mining => TyposMendDependencies
TrieIsMap == running = "map" => Trie!TrieIsMap

\* Both searches end, whatever order and estimates they go by: WalkEnds and
\* SearchEnds (LatticeTraversal::FindLHSs, SearchSpace::Discover).
WalksEnd == <>(pc = "done" /\ stage = "done")
=============================================================================
