-------------------------- MODULE PartitionStorage --------------------------
(***************************************************************************)
(* The partitions of column sets that DFD and Pyro ask for, kept and built *)
(* from each other (PartitionStorage and util::PLICache, GetOrCreateFor).  *)
(*                                                                         *)
(* A call holds getting_pli_mutex_ to its end, so calls of several threads *)
(* follow one another; the indexes they are answered with are used after   *)
(* the mutex is let go, while later calls change the storage.              *)
(***************************************************************************)
EXTENDS RelationData

CONSTANTS
  Offered,               \* Offered[w]: the rows a data set of w columns may have
  NaryIntersectionSize,  \* so many operands are intersected at once
  Tossing,               \* whether a new index is kept by the toss of a coin
  MaxCached              \* bound: no call is made when so many indexes are kept

VARIABLES
  cache,     \* index_: the index kept for a set of columns
  wanted,    \* vertical: the columns of the call
  operands,  \* the columns of the indexes still to intersect
  joined,    \* current_vertical
  current,   \* variant_intersection_pli, in the end the answer
  call       \* how far the call has come

callVars == <<cache, wanted, operands, joined, current, call>>
storageVars == <<relationVars, callVars>>

ColumnSets == (SUBSET Cols) \ {{}}

CallInit ==
  /\ cache = <<>>
  /\ wanted = {}
  /\ operands = {}
  /\ joined = {}
  /\ current = {}
  /\ call = "closed"

StorageInit == RelationInit /\ CallInit

-----------------------------------------------------------------------------

\* Always kept by DFD, by the toss of a coin by Pyro.
CachingProcess(X, pli) ==
  \/ cache' = [Y \in DOMAIN cache \cup {X} |-> IF Y = X THEN pli ELSE cache[Y]]
  \/ Tossing /\ cache' = cache

\* The storage starts with the indexes of the columns.
Open ==
  /\ call = "closed" /\ Built
  /\ cache' = [X \in {{c} : c \in Cols} |-> plis[CHOOSE c \in X : TRUE]]
  /\ call' = "ready"
  /\ UNCHANGED <<relationVars, wanted, operands, joined, current>>

SubsetEntries == {X \in DOMAIN cache : X \subseteq wanted'}

\* Mutant of SmallerRank: of equally large indexes, that of fewer columns.
SmallerRankNarrow(X, Y) ==
  \/ PliSize(cache[X]) < PliSize(cache[Y])
  \/ PliSize(cache[X]) = PliSize(cache[Y]) /\ Cardinality(X) < Cardinality(Y)

\* Of equally large indexes, that of more columns.
SmallerRank(X, Y) ==
  \/ PliSize(cache[X]) < PliSize(cache[Y])
  \/ PliSize(cache[X]) = PliSize(cache[Y]) /\ Cardinality(X) > Cardinality(Y)

\* The index is there.
Serve(X) ==
  /\ X \in DOMAIN cache
  /\ joined' = X
  /\ current' = cache[X]
  /\ UNCHANGED <<relationVars, cache, wanted, operands, call>>

\* The cover of the columns begins with the smallest index of some of them.
BeginCover(X) ==
  /\ X \notin DOMAIN cache
  /\ wanted' = X
  /\ \E base \in SubsetEntries :
       /\ ~\E Y \in SubsetEntries : SmallerRank(Y, base)
       /\ operands' = {base}
  /\ joined' = {} /\ current' = {}
  /\ call' = "cover"
  /\ UNCHANGED <<relationVars, cache>>

GetOrCreateFor(X) ==
  /\ call = "ready"
  /\ Cardinality(DOMAIN cache) < MaxCached
  /\ Serve(X) \/ BeginCover(X)

Covered == UNION operands
AddedArity(X) == Cardinality(X \ Covered)
Ranks == {X \in DOMAIN cache : X \subseteq wanted /\ AddedArity(X) >= 2}

BetterRank(X, Y) ==
  \/ AddedArity(X) > AddedArity(Y)
  \/ AddedArity(X) = AddedArity(Y) /\ PliSize(cache[X]) < PliSize(cache[Y])

\* The index that adds most columns joins the cover, at least two of them.
ExtendCover ==
  /\ call = "cover"
  /\ \E best \in Ranks :
       /\ ~\E Y \in Ranks : BetterRank(Y, best)
       /\ operands' = operands \cup {best}
  /\ UNCHANGED <<relationVars, cache, wanted, joined, current, call>>

AllOperands == operands \cup {{c} : c \in wanted \ Covered}

\* The operands are taken in ascending order of their sizes.
Smallest(keys) == {X \in keys : \A Y \in keys : PliSize(cache[X]) <= PliSize(cache[Y])}

\* Many operands: the smallest is probed against all other columns at once.
IntersectAll ==
  /\ Cardinality(AllOperands) >= NaryIntersectionSize
  /\ \E base \in Smallest(AllOperands) : current' = ProbeAll(cache[base], wanted \ base)
  /\ joined' = wanted
  /\ CachingProcess(wanted, current')
  /\ wanted' = {} /\ operands' = {}
  /\ call' = "ready"

\* Few: they are intersected one after the other.
BeginJoin ==
  /\ Cardinality(AllOperands) < NaryIntersectionSize
  /\ \E base \in Smallest(AllOperands) :
       /\ joined' = base
       /\ current' = cache[base]
       /\ operands' = AllOperands \ {base}
  /\ call' = "join"
  /\ UNCHANGED <<cache, wanted>>

\* No index adds two columns: single columns make the cover complete.
CompleteCover ==
  /\ call = "cover" /\ Ranks = {}
  /\ IntersectAll \/ BeginJoin
  /\ UNCHANGED relationVars

\* The next operand is intersected, and what comes out may be kept.
Join ==
  /\ call = "join"
  /\ \E next \in Smallest(operands) :
       /\ joined' = joined \cup next
       /\ current' = Intersect(current, cache[next])
       /\ operands' = operands \ {next}
  /\ CachingProcess(joined', current')
  /\ IF operands' = {} THEN call' = "ready" /\ wanted' = {} ELSE UNCHANGED <<call, wanted>>
  /\ UNCHANGED relationVars

StorageStep ==
  \/ \E X \in ColumnSets : GetOrCreateFor(X)
  \/ ExtendCover
  \/ CompleteCover
  \/ Join

ReadStep ==
  /\ (\E row \in Offered[width] : ReadRow(row)) \/ (NumRows > 0 /\ BuildPlis)
  /\ UNCHANGED callVars

StorageNext == ReadStep \/ Open \/ StorageStep

StorageSpec == StorageInit /\ [][StorageNext]_storageVars

-----------------------------------------------------------------------------
(* FdG1Strategy: the error of a dependency, counted in pairs of rows. *)

\* Mutant of ViolationsIn: rows that are alone on the right agree.
ViolationsInSingletons(pli, A) ==
  Nep(pli) - MapThenSumSet(LAMBDA g : Nep({{r \in g : Tuple(r)[A] = v} : v \in {Tuple(r)[A] : r \in g}}), pli)

\* From the index of the left-hand side, probed against the column A.
ViolationsIn(pli, A) ==
  Nep(pli) - MapThenSumSet(LAMBDA g : Nep({{r \in g : Tuple(r)[A] = v} :
                                            v \in {Tuple(r)[A] : r \in g} \ {Singleton}}), pli)

\* The joint index is used when it is kept.
Violations(A) ==
  IF joined \cup {A} \in DOMAIN cache THEN Nep(current) - Nep(cache[joined \cup {A}])
  ELSE ViolationsIn(current, A)

-----------------------------------------------------------------------------

StorageTypeOK ==
  /\ RelationTypeOK
  /\ DOMAIN cache \subseteq ColumnSets
  /\ \A X \in DOMAIN cache : cache[X] \subseteq SUBSET Rows
  /\ wanted \in SUBSET Cols /\ joined \in SUBSET Cols
  /\ operands \subseteq DOMAIN cache
  /\ current \subseteq SUBSET Rows
  /\ call \in {"closed", "ready", "cover", "join"}

\* Whichever indexes it is built from, in whatever order, the index kept for a set
\* of columns, and the one a call is answered with, is the partition of the rows by
\* these columns; and the operands of a call make up the columns it is for, no more
\* and no less (GetOrCreateFor, PositionListIndex::Intersect and ProbeAll).
PartitionsExact ==
  /\ \A X \in DOMAIN cache : cache[X] = Partition(X)
  /\ joined # {} => current = Partition(joined)
  /\ call = "join" => joined \cup UNION operands = wanted

\* No index an earlier call was answered with is replaced: it would be freed while
\* other threads still use it outside the mutex (LatticeTraversal::FindLHSs and
\* FdG1Strategy::CalculateError keep raw pointers).  What a call puts is not kept
\* yet, or it is what the same call has put just before: an operand that adds nothing
\* to those already joined, which takes eight columns, is intersected all the same.
NoIndexReplaced ==
  call = "join" => \A next \in Smallest(operands) :
    joined \cup next \in DOMAIN cache => next \subseteq joined

\* The error of a dependency is the number of pairs of rows that violate it, whether
\* the joint index is kept, which is how DFD decides as well, or the column is probed
\* (FdG1Strategy::CalculateError, LatticeTraversal::FindLHSs).
ErrorsExact ==
  call = "ready" /\ joined # {} =>
    \A A \in Cols \ joined : Violations(A) = Cardinality(ViolatingPairs(joined, A))
=============================================================================
