------------------------------- MODULE MetricFd -------------------------------
(***************************************************************************)
(* Verification of a metric dependency (MetricVerifier::VerifyMetricFD):   *)
(* rows that agree on the left-hand side are a cluster, and the right-hand *)
(* sides of a cluster must be no further apart than the parameter.  Every  *)
(* cluster is verified by one of three algorithms, and for one that is not *)
(* well the distance of each of its rows to the furthest other is kept     *)
(* (HighlightCalculator, PointsCalculator).                                *)
(*                                                                         *)
(* The right-hand side is a column of numbers, a column of strings or      *)
(* several columns of numbers.  A row is the sequence of its coordinates;  *)
(* strings are points of a line, as a^n is for the edit distance.          *)
(* Distances and the parameter are squared, so that they are integers.     *)
(***************************************************************************)
EXTENDS Integers, SequencesExt

CONSTANTS
  Clusters,    \* Clusters[kind]: the clusters there may be, sequences of rows
  Parameters,  \* parameter_, squared
  MaxClusters  \* bound: MaxClusters[kind] clusters of the left-hand side

VARIABLES
  kind,        \* "numbers", "strings" or "points"
  algo,        \* algo_
  nullIsFar,   \* dist_from_null_is_infinity_
  parameter,
  verified,    \* the clusters verified
  holds,       \* metric_fd_holds_
  highlights,  \* highlights_: of a cluster, the furthest row of each row and how far it is
  phase        \* "verify", "done" or "refused"

metricVars == <<kind, algo, nullIsFar, parameter, verified, holds, highlights, phase>>

\* An empty field, and one with nothing in it.
Null == -1
Blank == -2

Infinity == 1000

\* Numbers have no algorithm: that of an earlier run is still there.
MetricInit ==
  /\ kind \in {"numbers", "strings", "points"}
  /\ algo \in {"brute", "approx"} \cup (IF kind = "points" THEN {"calipers"} ELSE {})
  /\ nullIsFar \in BOOLEAN
  /\ parameter \in Parameters
  /\ verified = <<>> /\ holds = TRUE /\ highlights = <<>>
  /\ phase = "verify"

-----------------------------------------------------------------------------
(* PointsCalculator. *)

IsValue(coordinate) == coordinate >= 0

HasValues(row) == \E j \in DOMAIN row : IsValue(row[j])

\* GetCoordinate throws.
Mixed(row) == HasValues(row) /\ \E j \in DOMAIN row : ~IsValue(row[j])

HasNulls(row) == ~HasValues(row) /\ \E j \in DOMAIN row : row[j] = Null

\* The rows with points, in order.
PointRows(cluster) == SelectSeq([i \in DOMAIN cluster |-> i], LAMBDA i : HasValues(cluster[i]))

Points(cluster) == [k \in DOMAIN PointRows(cluster) |-> cluster[PointRows(cluster)[k]]]

\* CalculateMultidimensionalPoints, which returns at a null that is far away.
SeenBeforeNull(cluster) ==
  {i \in DOMAIN cluster : nullIsFar => \A h \in 1..(i - 1) : ~HasNulls(cluster[h])}

DistFromNull == IF nullIsFar THEN Infinity ELSE 0

\* CheckMFDFailIfHasNulls
FailsByNulls(cluster) == nullIsFar /\ \E i \in DOMAIN cluster : HasNulls(cluster[i])

Dist(a, b) ==
  LET sum[j \in 0..Len(a)] == IF j = 0 THEN 0 ELSE sum[j - 1] + (a[j] - b[j]) * (a[j] - b[j])
  IN  sum[Len(a)]

-----------------------------------------------------------------------------
(* HighlightCalculator: from a row to the furthest one and its distance. *)

\* Mutant: the first distance a row was seen at stays.
UpdateOnce(map, row, furthest, dist) ==
  IF row \in DOMAIN map THEN map ELSE (row :> <<furthest, dist>>) @@ map

\* UpdateHighlightMap
Update(map, row, furthest, dist) ==
  IF row \in DOMAIN map /\ map[row][2] >= dist THEN map
  ELSE (row :> <<furthest, dist>>) @@ map

\* BruteCalculateHighlights: each pair once, for both of its rows.
BruteHighlights(cluster) ==
  LET rows == PointRows(cluster)
      D(i, j) == Dist(cluster[rows[i]], cluster[rows[j]])
      Later(i) == (i + 1)..Len(rows)
      map[i \in 0..Len(rows)] ==
        IF i = 0 THEN <<>>
        ELSE LET dist == Max({D(i, j) : j \in Later(i)})
                 furthest == IF dist = 0 THEN i ELSE Min({j \in Later(i) : D(i, j) = dist})
                 pairs == FoldLeft(LAMBDA m, j : Update(m, rows[j], rows[i], D(i, j)),
                                   map[i - 1], [k \in 1..(Len(rows) - i) |-> i + k])
             IN  Update(pairs, rows[i], rows[furthest], dist)
  IN  CASE Len(rows) = 0 -> <<>>
        [] Len(rows) = 1 -> rows[1] :> <<rows[1], 0>>
        [] Len(rows) > 1 -> map[Len(rows) - 1]

\* CalculateOneDimensionalHighlights: the furthest is the first smallest or the
\* last greatest.
NumberHighlights(cluster) ==
  LET rows == ToSet(PointRows(cluster))
      min == Min({i \in rows : \A j \in rows : cluster[i][1] <= cluster[j][1]})
      max == Max({i \in rows : \A j \in rows : cluster[i][1] >= cluster[j][1]})
      D(i, j) == Dist(cluster[i], cluster[j])
  IN  [i \in rows |-> IF D(i, max) > D(i, min) THEN <<max, D(i, max)>> ELSE <<min, D(i, min)>>]

Highlights(cluster) ==
  LET nulls == {i \in DOMAIN cluster : HasNulls(cluster[i])}
      blanks == {i \in DOMAIN cluster : ~HasValues(cluster[i])} \ nulls
  IN  [i \in nulls |-> <<i, DistFromNull>>] @@ [i \in blanks |-> <<i, 0>>]
        @@ (IF kind = "numbers" THEN NumberHighlights(cluster) ELSE BruteHighlights(cluster))

-----------------------------------------------------------------------------
(* convex_hull.cpp. *)

CrossProduct(p0, p1, p2) ==
  (p1[1] - p0[1]) * (p2[2] - p0[2]) - (p1[2] - p0[2]) * (p2[1] - p0[1])

\* The last points, down to `from`, are dropped until the chain turns left to p.
Extend(chain, from, p) ==
  LET kept == Max({k \in 0..Len(chain) :
                     k < from \/ CrossProduct(chain[k - 1], chain[k], p) > 0})
  IN  Append(SubSeq(chain, 1, kept), p)

\* From left to right along the bottom and back along the top.
CalculateConvexHull(points) ==
  LET all == ToSet(points)
      Before(p, q) == p[1] < q[1] \/ (p[1] = q[1] /\ p[2] < q[2])
      sorted == [i \in 1..Cardinality(all) |->
                   CHOOSE p \in all : Cardinality({q \in all : Before(q, p)}) = i - 1]
      lower == FoldLeft(LAMBDA chain, p : Extend(chain, 2, p), <<>>, sorted)
      both == FoldLeft(LAMBDA chain, p : Extend(chain, Len(lower) + 1, p), lower,
                       Tail(Reverse(sorted)))
  IN  IF Len(sorted) < 3 THEN sorted ELSE Front(both)

Following(hull, p) == (p % Len(hull)) + 1

\* How far the corner c is from the edge after the corner p.
Area(hull, p, c) == CrossProduct(hull[p], hull[Following(hull, p)], hull[c])

\* The pairs found with the corner q from the edge after p on: q moves on for as long
\* as that takes it further from the edge, then p does, which is a pair unless q has
\* come round.  q0 is where q began.
RECURSIVE Rotate(_, _, _, _)
Rotate(hull, q0, p, q) ==
  LET next == Following(hull, q)
      a == Area(hull, p, next)
      b == Area(hull, p, q)
      on == IF a = b THEN next ELSE q
      pair == IF a > b THEN <<p, next>> ELSE <<Following(hull, p), on>>
      ends == IF a > b THEN p = q0 \/ next = 1 ELSE on = 1
  IN  IF ends THEN {} ELSE {pair} \cup Rotate(hull, q0, pair[1], pair[2])

GetAntipodalPairs(hull) ==
  LET n == Len(hull)
      q0 == Min({q \in 1..n : Area(hull, n, Following(hull, q)) <= Area(hull, n, q)})
  IN  IF n <= 1 THEN {}
      ELSE IF n = 2 THEN {<<1, 2>>}
      ELSE IF q0 = 1 THEN {}
      ELSE {<<1, q0>>} \cup Rotate(hull, q0, 1, q0)

-----------------------------------------------------------------------------
(* Verification of a cluster's points. *)

CompareNumericValues(points) ==
  LET Look(seen, p) ==
        LET max == IF p[1] > seen.max[1] THEN p ELSE seen.max
            min == IF p[1] <= seen.max[1] /\ p[1] < seen.min[1] THEN p ELSE seen.min
        IN  [max |-> max, min |-> min, near |-> seen.near /\ Dist(max, min) <= parameter]
  IN  Len(points) < 2
        \/ FoldLeft(Look, [max |-> points[1], min |-> points[1], near |-> TRUE], Tail(points)).near

BruteVerifyCluster(points) ==
  \A i, j \in DOMAIN points : i < j => Dist(points[i], points[j]) <= parameter

\* dist_func(points[0], p) * 2 <= parameter_
ApproxVerifyCluster(points) ==
  \A j \in DOMAIN points \ {1} : 4 * Dist(points[1], points[j]) <= parameter

CalipersCompareNumericValues(points) ==
  LET hull == CalculateConvexHull(points)
  IN  \A pair \in GetAntipodalPairs(hull) : Dist(hull[pair[1]], hull[pair[2]]) <= parameter

Verifies(points) ==
  CASE kind = "numbers" -> CompareNumericValues(points)
    [] kind # "numbers" /\ algo = "brute" -> BruteVerifyCluster(points)
    [] kind # "numbers" /\ algo = "approx" -> ApproxVerifyCluster(points)
    [] kind # "numbers" /\ algo = "calipers" -> CalipersCompareNumericValues(points)

\* The approximation makes no highlights.
Highlighting == kind = "numbers" \/ algo # "approx"

\* The rows whose points are calculated: all of them for highlights, which the
\* calipers come to when the cluster fails.
RowsRead(cluster, well) ==
  IF kind = "points" /\ (algo = "approx" \/ (algo = "calipers" /\ well))
    THEN SeenBeforeNull(cluster) ELSE DOMAIN cluster

\* cluster_func of the next cluster.  A row of values and nulls throws.  The
\* approximation stops at the first cluster that fails.
VerifyCluster(cluster) ==
  /\ phase = "verify" /\ Len(verified) < MaxClusters[kind]
  /\ LET well == ~FailsByNulls(cluster) /\ Verifies(Points(cluster))
     IN  IF \E i \in RowsRead(cluster, well) : Mixed(cluster[i])
           THEN phase' = "refused" /\ UNCHANGED <<verified, holds, highlights>>
           ELSE /\ verified' = Append(verified, cluster)
                /\ holds' = (holds /\ well)
                /\ highlights' = IF well \/ ~Highlighting THEN highlights
                                 ELSE Append(highlights, Highlights(cluster))
                /\ phase' = IF ~well /\ algo = "approx" THEN "done" ELSE "verify"
  /\ UNCHANGED <<kind, algo, nullIsFar, parameter>>

\* There is no other cluster.
Finish ==
  /\ phase = "verify"
  /\ phase' = "done"
  /\ UNCHANGED <<kind, algo, nullIsFar, parameter, verified, holds, highlights>>

MetricNext == Finish \/ \E cluster \in Clusters[kind] : VerifyCluster(cluster)

MetricSpec == MetricInit /\ [][MetricNext]_metricVars

-----------------------------------------------------------------------------
(* Clusters and distances themselves. *)

ValueRows(cluster) == {i \in DOMAIN cluster : HasValues(cluster[i])}

Within(cluster, bound) ==
  \A i, j \in ValueRows(cluster) : Dist(cluster[i], cluster[j]) <= bound

Satisfies(cluster) == ~FailsByNulls(cluster) /\ Within(cluster, parameter)

\* The verdict on numbers and of the brute force is right; the approximation accepts
\* nothing wrong and refuses nothing whose distances are at most half the parameter;
\* the calipers refuse nothing that holds (VerifyMetricFD).
VerdictRight ==
  LET all == \A k \in DOMAIN verified : Satisfies(verified[k])
  IN  CASE kind = "numbers" \/ algo = "brute" -> holds <=> all
        [] kind # "numbers" /\ algo = "approx" ->
             /\ holds => all
             /\ ~holds => \E k \in DOMAIN verified :
                            FailsByNulls(verified[k]) \/ ~Within(verified[k], parameter \div 4)
        [] algo = "calipers" -> all => holds

\* A highlighted cluster has every row, with the furthest other and its distance,
\* and the clusters that fail are those highlighted, in order.
HighlightsRight ==
  LET failing == SelectSeq(verified, LAMBDA c : ~Satisfies(c))
  IN  Highlighting /\ algo # "calipers" =>
        /\ Len(highlights) = Len(failing)
        /\ \A k \in DOMAIN failing :
             LET c == failing[k]
                 h == highlights[k]
             IN  /\ DOMAIN h = DOMAIN c
                 /\ \A i \in DOMAIN c :
                      h[i][2] = IF i \in ValueRows(c)
                                  THEN Max({Dist(c[i], c[j]) : j \in ValueRows(c)})
                                  ELSE IF HasNulls(c[i]) THEN DistFromNull ELSE 0
                 /\ \A i \in ValueRows(c) : Dist(c[i], c[h[i][1]]) = h[i][2]

\* The verdict and the highlights are right of the clusters verified so far.
MetricVerdicts == VerdictRight /\ HighlightsRight

\* convex_hull.h says that the pairs left out are less likely to form the diameter of
\* the convex hull, enums.h that comparing the pairs does for comparing all points:
\* the calipers' verdict is right.
CalipersExact ==
  algo = "calipers" => (holds <=> \A k \in DOMAIN verified : Satisfies(verified[k]))

=============================================================================
