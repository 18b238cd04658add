-------------------------------- MODULE TypoMiner --------------------------------
(***************************************************************************)
(* Typos by a dependency that nearly holds (TypoMiner): one algorithm       *)
(* finds the dependencies that hold, another those that hold but for an     *)
(* error; of the latter only, the clusters of rows that break them are      *)
(* looked at for values that may be typos of the most frequent one.         *)
(*                                                                         *)
(* Both algorithms are taken to find what they promise.  The fields are     *)
(* numbers, and their identifiers stand for them.                           *)
(***************************************************************************)
EXTENDS RelationData

CONSTANTS
  Errors,   \* numbers of violating pairs that the approximate algorithm allows
  Radii     \* values of radius_; -1 for none

ASSUME ErrorsAssumption == Errors \subseteq Nat

\* ExecuteInternal: what only the approximate algorithm finds.
ApproxFds(e) == MinimalIn(AllFds(e)) \ MinimalFds

\* The clusters of the column on the right.
Probing(A) == ProbingTable(plis[A])

\* Mutant of FindClustersWithTypos: rows that are alone with their values are taken
\* to have the same one.
FindClustersOfMixed(X, A) ==
  IF X = {} THEN {Rows} ELSE {g \in PliOf(X) : \E r, s \in g : Probing(A)[r] # Probing(A)[s]}

\* Clusters with different values on the right; rows with no cluster there have
\* values of their own.
FindClustersWithTypos(X, A) ==
  IF X = {} THEN {Rows}
  ELSE {g \in PliOf(X) : \/ \E r, s \in g : Probing(A)[r] # Probing(A)[s]
                         \/ \A r \in g : Probing(A)[r] = Singleton}

\* CreateFrequencyMap: how many rows of the cluster have the value of row r.
Frequency(A, cluster, r) ==
  LET value == Probing(A)[r]
  IN  IF value = Singleton THEN 1 ELSE Cardinality({s \in cluster : Probing(A)[s] = value})

\* SortCluster: the rows with rarer values first, in line order where equal.
SortCluster(A, cluster) ==
  LET Less(r, s) ==
        LET m == Frequency(A, cluster, r)
            n == Frequency(A, cluster, s)
        IN  m < n \/ (m = n /\ r < s)
      Place(r) == Cardinality({s \in cluster : Less(s, r)}) + 1
  IN  [i \in 1..Cardinality(cluster) |-> CHOOSE r \in cluster : Place(r) = i]

\* SquashCluster: runs of rows with the same value become one element.
SquashCluster(A, sorted) ==
  LET Joins(i) == Probing(A)[sorted[i]] # Singleton /\ Probing(A)[sorted[i]] = Probing(A)[sorted[i - 1]]
      Add(squashed, i) ==
        IF i > 1 /\ Joins(i) THEN [squashed EXCEPT ![Len(squashed)].amount = @ + 1]
        ELSE Append(squashed, [row |-> sorted[i], amount |-> 1])
  IN  FoldLeft(Add, <<>>, [i \in DOMAIN sorted |-> i])

\* GetMostFrequentValueIndex: the first row with the most frequent value.
MostFrequent(A, sorted) ==
  LET rows == Range(sorted)
      best == Max({Frequency(A, rows, r) : r \in rows})
  IN  sorted[Min({i \in DOMAIN sorted : Frequency(A, rows, sorted[i]) = best})]

IsNull(A, r) == columns[A][r] = NullId

Distance(v, w) == IF v < w THEN w - v ELSE v - w
ValuesAreClose(A, r, s, radius) == radius = -1 \/ Distance(columns[A][r], columns[A][s]) < radius

\* The rows of the cluster whose values are close to the most frequent one, unless
\* they are too large a part of all rows.  Where no value is frequent, or it is
\* none, all rows or no row is a typo.
FindLinesWithTypos(A, sorted, radius, ratio) ==
  LET frequent == MostFrequent(A, sorted)
      typos == {r \in Range(sorted) : /\ Probing(A)[r] # Probing(A)[frequent] /\ ~IsNull(A, r)
                                      /\ ValuesAreClose(A, frequent, r, radius)}
  IN  IF Probing(A)[frequent] = Singleton \/ IsNull(A, frequent)
      THEN IF ratio[1] = ratio[2] THEN Range(sorted) ELSE {}
      ELSE IF Cardinality(typos) * ratio[2] > ratio[1] * NumRows THEN {} ELSE typos

\* The default ratio: two rows of all.
DefaultRatio == IF NumRows <= 1 THEN <<1, 1>> ELSE <<2, NumRows>>

-----------------------------------------------------------------------------

\* The rows that agree on X, where some of them differ on A.
Broken(X, A) == {g \in Partition(X) : \E r, s \in g : r < s /\ ~AgreeOn({A}, r, s)}

\* What is left of a cluster without its typos, if all distances and ratios are
\* allowed, agrees on A but for nulls, and has a value no rarer than any that is a
\* typo.  Nothing is left if no value is frequent.
Mended(A, cluster) ==
  LET typos == FindLinesWithTypos(A, SortCluster(A, cluster), -1, <<1, 1>>)
      left == cluster \ typos
  IN  /\ \A r, s \in left : IsNull(A, r) \/ IsNull(A, s) \/ AgreeOn({A}, r, s)
      /\ \A r \in typos, s \in left : ~IsNull(A, s) => Frequency(A, cluster, r) <= Frequency(A, cluster, s)

\* Squashing keeps every row of the cluster, and no two neighbours with one value.
SquashedWell(A, cluster) ==
  LET squashed == SquashCluster(A, SortCluster(A, cluster))
  IN  /\ FoldLeft(LAMBDA n, s : n + s.amount, 0, squashed) = Cardinality(cluster)
      /\ \A i \in 2..Len(squashed) :
           squashed[i - 1].row # squashed[i].row /\ ~AgreeOn({A}, squashed[i - 1].row, squashed[i].row)

\* A dependency only the approximate algorithm finds has clusters that break it, and
\* those are the clusters with typos; without the typos found, each is mended, and no
\* smaller radius or ratio finds others (TypoMiner::ExecuteInternal,
\* FindClustersWithTypos, FindLinesWithTypos, SquashCluster).
TyposMendDependencies ==
  Built => \A e \in Errors : \A fd \in ApproxFds(e) :
    LET clusters == FindClustersWithTypos(fd[1], fd[2])
        Lines(g, radius, ratio) == FindLinesWithTypos(fd[2], SortCluster(fd[2], g), radius, ratio)
    IN  /\ clusters = Broken(fd[1], fd[2]) /\ clusters # {}
        /\ \A g \in clusters :
             /\ Mended(fd[2], g) /\ SquashedWell(fd[2], g)
             /\ \A radius \in Radii : Lines(g, radius, DefaultRatio) \subseteq Lines(g, -1, <<1, 1>>)
=============================================================================
