---------------------------- MODULE AprioriProofs ----------------------------
(* Proofs about Apriori: whatever file is read and in whatever order its      *)
(* transactions are counted, the frequent sets are found with their supports, *)
(* and the rules are those that hold, none with up to three items on the      *)
(* right missing.                                                             *)
EXTENDS Apriori, FiniteSetTheorems, SequenceTheorems, WellFoundedInduction, TLAPS

AprioriSpec == AprioriInit /\ [][AprioriNext]_aprioriVars

-----------------------------------------------------------------------------
(* The invariant. *)

\* What was read: finitely many transactions of items that were met.
DataInv ==
  /\ universe \in Nat
  /\ IsFiniteSet(DOMAIN transactions)
  /\ \A tid \in DOMAIN transactions : transactions[tid] \subseteq ItemIds
  /\ minsup \in Nat \X (Nat \ {0}) /\ minconf \in Nat \X (Nat \ {0})
  /\ stage \in {"read", "count", "rules", "grow", "done", "refused"}
  /\ stage = "read" => tree = <<>>
  /\ stage \in {"read", "count"} => rules = {}

FrequentOf(sizes) == {X \in Frequent : Cardinality(X) \in sizes}

\* A pass: the candidates are sets of a size, among them all the frequent ones;
\* those that are smaller are in the tree.
CandidatesInv ==
  /\ levelNum \in Nat /\ levelNum >= 2
  /\ \A c \in candidates : c \subseteq ItemIds /\ Cardinality(c) = levelNum - 1
  /\ FrequentOf({levelNum - 1}) \subseteq candidates
  /\ tree = [X \in FrequentOf(1..levelNum - 2) |-> Support(X)]

Counted == DOMAIN transactions \ uncounted

\* A candidate was counted for the transactions come to so far that have its items,
\* and no leaf remembers one that is still to come.
CountsInv ==
  /\ uncounted \subseteq DOMAIN transactions
  /\ count = [c \in candidates |-> Cardinality({tid \in Counted : c \subseteq transactions[tid]})]
  /\ Leaves = {LeafOf(c, candidates, levelNum) : c \in candidates}
  /\ \A leaf \in Leaves : lastVisited[leaf] \in {-1} \cup {AsInt(tid) : tid \in Counted}

\* The rules of a set that can be told to be there: few items on the right, and
\* the set occurs.
Due == {r \in UNION {SplitsOf(X) : X \in Frequent} : Holds(r)}
DueOf(X) == {r \in SplitsOf(X) : Holds(r) /\ Support(X) > 0 /\ Cardinality(r.rhs) <= LongestRight}

\* The rules of the sets that are done with.
RulesInv ==
  /\ tree = [X \in Frequent |-> Support(X)]
  /\ path \subseteq Frequent /\ \A X \in path : Cardinality(X) >= 2
  /\ stage = "done" => path = {}
  /\ rules \subseteq Due
  /\ \A X \in Frequent : X \in path \/ (stage = "grow" /\ X = itemset) \/ DueOf(X) \subseteq rules

\* The right-hand sides of a size that a set has rules for.
RightOf(X, size) ==
  {R \in (SUBSET X) \ {{}, X} : Cardinality(R) = size /\ Support(X) > 0 /\ Confident(X, R)}

\* While the right-hand sides of a set grow: those of the levels that are done are
\* all there.
GrowInv ==
  /\ itemset \in Frequent /\ Cardinality(itemset) >= 2
  /\ rightSides \subseteq (SUBSET itemset) \ {{}, itemset}
  /\ RulesOf(itemset, rightSides) \subseteq rules
  /\ ruleLevel \in Nat /\ ruleLevel >= 2
  /\ \A size \in 1..LongestRight : size < ruleLevel => RightOf(itemset, size) \subseteq rightSides

AprioriInv ==
  /\ DataInv
  /\ IdsFitInt /\ stage = "count" => CandidatesInv /\ CountsInv
  /\ IdsFitInt /\ stage \in {"rules", "grow", "done"} => RulesInv
  /\ IdsFitInt /\ stage = "grow" => GrowInv

-----------------------------------------------------------------------------
(* Finite sets of numbers. *)

LEMMA SmallestNumber ==
  ASSUME NEW S, S \subseteq Nat, S # {}
  PROVE  \E x \in S : \A y \in S : x <= y
PROOF
<1>1. PICK x \in S : \A y \in S : <<y, x>> \notin OpToRel(<, Nat)
  BY NatLessThanWellFounded, WFMin
<1>2. ASSUME NEW y \in S
      PROVE  x <= y
  <2>1. x \in Nat /\ y \in Nat
    OBVIOUS
  <2>2. y < x => <<y, x>> \in OpToRel(<, Nat)
    BY <2>1 DEF OpToRel
  <2>3. ~(y < x)
    BY <1>1, <1>2, <2>2
  <2> QED
    BY <2>1, <2>3
<1> QED
  BY <1>2

LEMMA MinOf ==
  ASSUME NEW S, S \subseteq Nat, S # {}
  PROVE  Min(S) \in S /\ \A y \in S : Min(S) <= y
PROOF
<1>1. \E x \in S : \A y \in S : x <= y
  BY SmallestNumber
<1> QED
  BY <1>1 DEF Min

\* Some element has the fewest above it, which is none.
LEMMA MaxOf ==
  ASSUME NEW S, S \subseteq Nat, IsFiniteSet(S), S # {}
  PROVE  Max(S) \in S /\ \A y \in S : y <= Max(S)
PROOF
<1> DEFINE Above(x) == {y \in S : x < y}
           sizes == {Cardinality(Above(x)) : x \in S}
<1>1. \A x \in S : IsFiniteSet(Above(x)) /\ Cardinality(Above(x)) \in Nat
  BY FS_Subset, FS_CardinalityType
<1>2. PICK n \in sizes : \A m \in sizes : n <= m
  <2>1. sizes \subseteq Nat /\ sizes # {}
    BY <1>1
  <2> QED
    BY <2>1, SmallestNumber
<1>3. PICK x \in S : n = Cardinality(Above(x))
  BY <1>2
<1>4. ASSUME NEW y \in S, x < y
      PROVE  FALSE
  <2>0. x \in Int /\ y \in Int /\ ~(y < y) /\ \A z \in S : z \in Int /\ (y < z => x < z)
    BY <1>4
  <2>1. Above(y) \subseteq Above(x) /\ y \in Above(x) /\ y \notin Above(y)
    BY <1>4, <2>0
  <2>2. Cardinality(Above(y)) < Cardinality(Above(x))
    BY <1>1, <2>1, FS_Subset
  <2>3. n <= Cardinality(Above(y))
    BY <1>2
  <2> QED
    BY <1>1, <1>3, <2>2, <2>3
<1>5. \A y \in S : y <= x
  BY <1>4
<1> QED
  BY <1>5 DEF Max

\* There are initial parts of every size.
Initial(P, c) == P \subseteq c /\ \A x \in P, y \in c \ P : x < y

LEMMA InitialParts ==
  ASSUME NEW c, c \subseteq Nat, IsFiniteSet(c)
  PROVE  \A l \in 0..Cardinality(c) : \E P \in SUBSET c : Initial(P, c) /\ Cardinality(P) = l
PROOF
<1>0. Cardinality(c) \in Nat
  BY FS_CardinalityType
<1> DEFINE Lacking == {l \in 0..Cardinality(c) : ~\E P \in SUBSET c : Initial(P, c) /\ Cardinality(P) = l}
<1> SUFFICES ASSUME Lacking # {} PROVE FALSE
  OBVIOUS
<1>1. PICK l \in Lacking : \A m \in Lacking : l <= m
  <2>1. Lacking \subseteq Nat
    BY <1>0
  <2> QED
    BY <2>1, SmallestNumber
<1>2. l \in Nat /\ l <= Cardinality(c)
  BY <1>0
<1>3. l # 0
  BY FS_EmptySet DEF Initial
<1>4. PICK P \in SUBSET c : Initial(P, c) /\ Cardinality(P) = l - 1
  <2>1. l - 1 \in 0..Cardinality(c) /\ l - 1 \notin Lacking
    BY <1>0, <1>1, <1>2, <1>3
  <2> QED
    BY <2>1
<1>5. IsFiniteSet(P)
  BY FS_Subset
<1>6. c \ P # {}
  <2>1. P # c
    BY <1>0, <1>2, <1>4
  <2> QED
    BY <2>1
<1>7. PICK x \in c \ P : \A y \in c \ P : x <= y
  <2>1. c \ P \subseteq Nat
    OBVIOUS
  <2> QED
    BY <1>6, <2>1, SmallestNumber
<1>8. Cardinality(P \cup {x}) = l
  <2>1. Cardinality(P \cup {x}) = Cardinality(P) + 1
    BY <1>5, <1>7, FS_AddElement
  <2> QED
    BY <1>2, <1>4, <2>1
<1>9. Initial(P \cup {x}, c)
  <2>1. ASSUME NEW u \in P \cup {x}, NEW v \in c \ (P \cup {x})
        PROVE  u < v
    <3>1. CASE u = x
      BY <1>7, <3>1
    <3>2. CASE u \in P
      BY <1>4, <3>2 DEF Initial
    <3> QED
      BY <3>1, <3>2
  <2> QED
    BY <1>7, <2>1 DEF Initial
<1> QED
  BY <1>1, <1>7, <1>8, <1>9

Rank(c, x) == Cardinality({y \in c : y < x})

\* The next element after an initial part has its size as its rank, and no other has.
LEMMA RankOf ==
  ASSUME NEW c, c \subseteq Nat, IsFiniteSet(c), NEW i \in 1..Cardinality(c)
  PROVE  \E x \in c : Rank(c, x) = i - 1 /\ \A y \in c : Rank(c, y) = i - 1 => y = x
PROOF
<1>0. Cardinality(c) \in Nat /\ i \in Nat /\ 1 <= i /\ i <= Cardinality(c)
  BY FS_CardinalityType
<1>1. PICK P \in SUBSET c : Initial(P, c) /\ Cardinality(P) = i - 1
  <2>1. i - 1 \in 0..Cardinality(c)
    BY <1>0
  <2> QED
    BY <2>1, InitialParts
<1>2. c \ P # {}
  <2>1. P # c
    BY <1>0, <1>1
  <2> QED
    BY <2>1
<1>3. PICK x \in c \ P : \A y \in c \ P : x <= y
  <2>1. c \ P \subseteq Nat
    OBVIOUS
  <2> QED
    BY <1>2, <2>1, SmallestNumber
<1>4. {y \in c : y < x} = P
  <2>1. \A y \in P : y < x
    BY <1>1, <1>3 DEF Initial
  <2>2. \A y \in c \ P : ~(y < x)
    BY <1>3
  <2> QED
    BY <2>1, <2>2
<1>5. Rank(c, x) = i - 1
  BY <1>1, <1>4 DEF Rank
<1>6. ASSUME NEW u \in c, NEW v \in c, u < v
      PROVE  Rank(c, u) # Rank(c, v)
  <2>1. IsFiniteSet({y \in c : y < v})
    BY FS_Subset
  <2>0. u \in Int /\ v \in Int /\ ~(u < u) /\ \A z \in c : z < u => z < v
    BY <1>6
  <2>2. {y \in c : y < u} \subseteq {y \in c : y < v} /\ u \in {y \in c : y < v} /\ u \notin {y \in c : y < u}
    BY <1>6, <2>0
  <2> QED
    BY <2>1, <2>2, FS_Subset DEF Rank
<1>7. \A y \in c : Rank(c, y) = i - 1 => y = x
  <2> SUFFICES ASSUME NEW y \in c, Rank(c, y) = i - 1, y # x PROVE FALSE
    BY <1>3
  <2>1. y < x \/ x < y
    BY <1>3
  <2> QED
    BY <1>3, <1>5, <1>6, <2>1
<1> QED
  BY <1>3, <1>5, <1>7

-----------------------------------------------------------------------------
(* The hash tree. *)

LEMMA HashesType ==
  ASSUME NEW c, c \subseteq Nat, IsFiniteSet(c), NEW degree \in Nat \ {0}
  PROVE  /\ Hashes(c, degree) \in Seq(Int)
         /\ Len(Hashes(c, degree)) = Cardinality(c)
         /\ \A i \in 1..Cardinality(c), x \in c :
              Rank(c, x) = i - 1 => Hashes(c, degree)[i] = x % degree
PROOF
<1> DEFINE Item(i) == CHOOSE x \in c : Cardinality({y \in c : y < x}) = i - 1
<1>1. Cardinality(c) \in Nat
  BY FS_CardinalityType
<1>2. \A i \in 1..Cardinality(c), x \in c : Rank(c, x) = i - 1 => Item(i) = x
  <2> SUFFICES ASSUME NEW i \in 1..Cardinality(c), NEW x \in c, Rank(c, x) = i - 1
               PROVE  Item(i) = x
    OBVIOUS
  <2>1. \A y \in c : Rank(c, y) = i - 1 => y = x
    BY RankOf
  <2> QED
    BY <2>1 DEF Rank
<1>3. \A i \in 1..Cardinality(c) : Item(i) \in c
  <2> SUFFICES ASSUME NEW i \in 1..Cardinality(c) PROVE Item(i) \in c
    OBVIOUS
  <2>1. \E x \in c : Rank(c, x) = i - 1
    BY RankOf
  <2> QED
    BY <2>1 DEF Rank
<1>4. Hashes(c, degree) = [i \in 1..Cardinality(c) |-> Item(i) % degree]
  BY DEF Hashes
<1> HIDE DEF Item
<1>5. \A i \in 1..Cardinality(c) : Item(i) % degree \in Int
  <2>1. \A a \in Nat : a % degree \in Int
    OBVIOUS
  <2> QED
    BY <1>3, <2>1
<1>6. Hashes(c, degree) \in [1..Cardinality(c) -> Int]
  BY <1>4, <1>5
<1>7. Hashes(c, degree) \in Seq(Int) /\ Len(Hashes(c, degree)) = Cardinality(c)
  BY <1>1, <1>6
<1>8. \A i \in 1..Cardinality(c), x \in c : Rank(c, x) = i - 1 => Hashes(c, degree)[i] = x % degree
  BY <1>2, <1>4
<1> QED
  BY <1>7, <1>8

\* The first items of a set have the first of its hashes.
LEMMA FirstHashes ==
  ASSUME NEW c, c \subseteq Nat, IsFiniteSet(c), NEW degree \in Nat \ {0},
         NEW l \in 0..Cardinality(c)
  PROVE  \E S \in SUBSET c : Hashes(S, degree) = SubSeq(Hashes(c, degree), 1, l)
PROOF
<1>0. Cardinality(c) \in Nat /\ l \in Nat /\ l <= Cardinality(c)
  BY FS_CardinalityType
<1>1. PICK S \in SUBSET c : Initial(S, c) /\ Cardinality(S) = l
  BY InitialParts
<1>2. IsFiniteSet(S) /\ S \subseteq Nat
  BY FS_Subset
<1> DEFINE part == Hashes(S, degree)
           whole == Hashes(c, degree)
<1>3. part \in Seq(Int) /\ Len(part) = l
  BY <1>1, <1>2, HashesType
<1>4. whole \in Seq(Int) /\ Len(whole) = Cardinality(c)
  BY HashesType
<1>5. SubSeq(whole, 1, l) \in Seq(Int) /\ Len(SubSeq(whole, 1, l)) = l
      /\ \A i \in 1..l : SubSeq(whole, 1, l)[i] = whole[i]
  BY <1>0, <1>4
<1>6. ASSUME NEW i \in 1..l
      PROVE  part[i] = whole[i]
  <2>1. i \in 1..Cardinality(S) /\ i \in 1..Cardinality(c)
    BY <1>0, <1>1
  <2>2. PICK x \in S : Rank(S, x) = i - 1
    BY <1>2, <2>1, RankOf
  <2>3. {y \in c : y < x} = {y \in S : y < x}
    <3>1. \A y \in c \ S : x < y /\ x \in Int /\ y \in Int
      BY <1>1, <1>2 DEF Initial
    <3>2. \A y \in c \ S : ~(y < x)
      BY <3>1
    <3> QED
      BY <3>2
  <2>4. x \in c /\ Rank(c, x) = i - 1
    BY <2>2, <2>3 DEF Rank
  <2>5. part[i] = x % degree
    BY <1>2, <2>1, <2>2, HashesType
  <2>6. whole[i] = x % degree
    BY <2>1, <2>4, HashesType
  <2> QED
    BY <2>5, <2>6
<1> HIDE DEF part, whole
<1>7. part = SubSeq(whole, 1, l)
  BY <1>0, <1>3, <1>5, <1>6
<1> QED
  BY <1>7 DEF part, whole

\* A transaction leads to the leaf of each candidate that it has all items of.
LEMMA LeafReached ==
  ASSUME NEW c, c \subseteq Nat, IsFiniteSet(c), NEW cands, NEW degree \in Nat \ {0},
         NEW items, c \subseteq items
  PROVE  \E S \in SUBSET items : Hashes(S, degree) = LeafOf(c, cands, degree)
PROOF
<1> DEFINE hashes == Hashes(c, degree)
           Crowded(l) == Cardinality({d \in cands : SubSeq(Hashes(d, degree), 1, l) = SubSeq(hashes, 1, l)})
                           > Threshold(cands, degree)
           depths == {l \in 0..Len(hashes) : l = Len(hashes) \/ ~Crowded(l)}
<1>1. Len(hashes) = Cardinality(c) /\ Cardinality(c) \in Nat
  BY HashesType, FS_CardinalityType
<1>2. depths \subseteq 0..Cardinality(c)
  BY <1>1
<1>3. Cardinality(c) \in depths
  BY <1>1
<1>4. Min(depths) \in 0..Cardinality(c)
  <2>1. depths \subseteq Nat /\ depths # {}
    BY <1>1, <1>2, <1>3
  <2>2. Min(depths) \in depths
    BY <2>1, MinOf
  <2> QED
    BY <1>2, <2>2
<1>5. PICK l \in 0..Cardinality(c) : LeafOf(c, cands, degree) = SubSeq(Hashes(c, degree), 1, l)
  BY <1>4 DEF LeafOf
<1>6. \E S \in SUBSET c : Hashes(S, degree) = SubSeq(Hashes(c, degree), 1, l)
  BY <1>5, FirstHashes
<1> QED
  BY <1>5, <1>6

-----------------------------------------------------------------------------
(* Supports. *)

LEMMA ItemsFinite ==
  ASSUME DataInv
  PROVE  /\ ItemIds \subseteq Nat /\ IsFiniteSet(ItemIds)
         /\ \A X \in SUBSET ItemIds : X \subseteq Nat /\ IsFiniteSet(X) /\ Cardinality(X) \in Nat
PROOF
<1>1. ItemIds \subseteq Nat /\ IsFiniteSet(ItemIds)
  <2>1. universe \in Nat /\ 0 \in Int /\ universe - 1 \in Int
    BY DEF DataInv
  <2>2. IsFiniteSet(0..universe - 1)
    BY <2>1, FS_Interval
  <2> QED
    BY <2>1, <2>2 DEF ItemIds
<1> QED
  BY <1>1, FS_Subset, FS_CardinalityType

LEMMA SupportFalls ==
  ASSUME DataInv
  PROVE  /\ \A X : Support(X) \in Nat
         /\ \A X, Y : X \subseteq Y => Support(Y) <= Support(X)
PROOF
<1> DEFINE Having(X) == {tid \in DOMAIN transactions : X \subseteq transactions[tid]}
<1>1. \A X : IsFiniteSet(Having(X)) /\ Cardinality(Having(X)) \in Nat
  BY FS_Subset, FS_CardinalityType DEF DataInv
<1>2. ASSUME NEW X, NEW Y, X \subseteq Y
      PROVE  Cardinality(Having(Y)) <= Cardinality(Having(X))
  <2>1. Having(Y) \subseteq Having(X)
    BY <1>2
  <2> QED
    BY <1>1, <2>1, FS_Subset
<1> QED
  BY <1>1, <1>2 DEF Support

LEMMA Ratios ==
  ASSUME NEW f \in Nat \X (Nat \ {0}), NEW a \in Nat, NEW b \in Nat, NEW w \in Nat, a <= b
  PROVE  /\ AtLeast(a, w, f) => AtLeast(b, w, f)
         /\ AtLeast(w, b, f) => AtLeast(w, a, f)
PROOF
<1>1. f[1] \in Nat /\ f[2] \in Nat
  OBVIOUS
<1>2. \A m \in Nat : a * m <= b * m /\ m * a <= m * b /\ a * m \in Nat /\ b * m \in Nat /\ w * m \in Nat
                     /\ m * a \in Nat /\ m * b \in Nat /\ m * w \in Nat
  OBVIOUS
<1>3. /\ a * f[2] <= b * f[2] /\ f[1] * a <= f[1] * b
      /\ a * f[2] \in Nat /\ b * f[2] \in Nat /\ w * f[2] \in Nat
      /\ f[1] * a \in Nat /\ f[1] * b \in Nat /\ f[1] * w \in Nat
  BY <1>1, <1>2
<1> QED
  BY <1>3 DEF AtLeast

\* What is in a frequent set is frequent.
LEMMA FrequentFalls ==
  ASSUME DataInv, NEW X \in Frequent, NEW Y, Y \subseteq X, Y # {}
  PROVE  Y \in Frequent
PROOF
<1>1. NumTransactions \in Nat
  BY FS_CardinalityType DEF DataInv, NumTransactions
<1>2. Support(X) \in Nat /\ Support(Y) \in Nat /\ Support(X) <= Support(Y)
  BY SupportFalls
<1>3. X \in (SUBSET ItemIds) \ {{}} /\ AtLeast(Support(X), NumTransactions, minsup)
  BY DEF Frequent
<1>4. minsup \in Nat \X (Nat \ {0})
  BY DEF DataInv
<1>5. AtLeast(Support(Y), NumTransactions, minsup)
  BY <1>1, <1>2, <1>3, <1>4, Ratios
<1> QED
  BY <1>3, <1>5 DEF Frequent

LEMMA Sizes ==
  ASSUME DataInv, NEW X, X \subseteq ItemIds, X # {}
  PROVE  /\ Max(X) \in X /\ \A y \in X : y <= Max(X)
         /\ Cardinality(X) \in Nat \ {0}
         /\ Max(X) \in Nat
         /\ \A i \in X : Cardinality(X \ {i}) = Cardinality(X) - 1
PROOF
<1>1. X \subseteq Nat /\ IsFiniteSet(X) /\ Cardinality(X) \in Nat
  BY ItemsFinite
<1>2. Max(X) \in X /\ \A y \in X : y <= Max(X)
  BY <1>1, MaxOf
<1>3. Cardinality(X) # 0
  BY <1>1, FS_EmptySet
<1>4. \A i \in X : Cardinality(X \ {i}) = Cardinality(X) - 1
  BY <1>1, FS_RemoveElement
<1> QED
  BY <1>1, <1>2, <1>3, <1>4

Second(X) == Max(Parent(X))

\* A set of at least two items is joined from the two that lack one of its largest.
LEMMA JoinedFrom ==
  ASSUME DataInv, NEW X, X \subseteq ItemIds, Cardinality(X) >= 2
  PROVE  /\ Max(X) \in X /\ Second(X) \in X /\ Second(X) # Max(X)
         /\ Parent(X \ {Second(X)}) = Parent(Parent(X))
         /\ \A nodes : Parent(X) \in nodes /\ X \ {Second(X)} \in nodes => X \in Joined(nodes)
PROOF
<1>0. X # {}
  BY FS_EmptySet
<1> DEFINE m == Max(X)
           P == Parent(X)
           n == Max(P)
           Q == X \ {n}
<1>1. m \in X /\ (\A y \in X : y <= m) /\ m \in Nat /\ Cardinality(P) = Cardinality(X) - 1 /\ Cardinality(X) \in Nat
      /\ P = X \ {m}
  BY <1>0, Sizes DEF Parent
<1>2. P # {}
  <2>1. Cardinality(P) # 0
    BY <1>1
  <2> QED
    BY <2>1, FS_EmptySet
<1>3. n \in P /\ (\A y \in P : y <= n) /\ n \in Nat
  BY <1>1, <1>2, Sizes
<1>5. Max(Q) = m
  <2>1. m \in Q /\ Q # {} /\ Q \subseteq ItemIds
    BY <1>1, <1>3
  <2>2. Max(Q) \in Q /\ (\A y \in Q : y <= Max(Q)) /\ Max(Q) \in Nat
    BY <2>1, Sizes
  <2>3. Max(Q) <= m /\ m <= Max(Q)
    BY <1>1, <2>1, <2>2
  <2> QED
    BY <1>1, <2>2, <2>3
<1>6. Parent(P) = P \ {n} /\ Parent(Q) = Q \ {m}
  BY <1>5 DEF Parent
<1>7. Max(P) < Max(Q)
  <2>1. n <= m /\ n # m
    BY <1>1, <1>3
  <2> QED
    BY <1>1, <1>3, <1>5, <2>1
<1>8. P \cup {Max(Q)} = X /\ Parent(Q) = Parent(P)
  BY <1>1, <1>5, <1>6
<1>9. ASSUME NEW nodes, P \in nodes, Q \in nodes
      PROVE  X \in Joined(nodes)
  <2> HIDE DEF P, Q
  <2>1. <<P, Q>> \in {p \in nodes \X nodes : Parent(p[1]) = Parent(p[2]) /\ Max(p[1]) < Max(p[2])}
    BY <1>7, <1>8, <1>9
  <2> QED
    BY <1>8, <2>1 DEF Joined
<1> QED
  BY <1>1, <1>3, <1>8, <1>9 DEF Second

\* What is joined of sets of a size has one item more.
LEMMA JoinedAre ==
  ASSUME DataInv, NEW nodes, NEW size \in Nat \ {0},
         \A P \in nodes : P \subseteq ItemIds /\ Cardinality(P) = size,
         NEW X \in Joined(nodes)
  PROVE  X \subseteq ItemIds /\ Cardinality(X) = size + 1
PROOF
<1>1. PICK s \in nodes \X nodes : /\ Parent(s[1]) = Parent(s[2]) /\ Max(s[1]) < Max(s[2])
                                  /\ X = s[1] \cup {Max(s[2])}
  BY DEF Joined
<1> DEFINE P == s[1]
           Q == s[2]
<1>2. P \in nodes /\ Q \in nodes
  OBVIOUS
<1>3. P # {} /\ Q # {}
  <2>1. Cardinality(P) # 0 /\ Cardinality(Q) # 0
    BY <1>2
  <2> QED
    BY <2>1, FS_EmptySet
<1>4. Max(Q) \in Q /\ Max(Q) \in Nat /\ Max(P) \in Nat /\ \A y \in P : y <= Max(P)
  BY <1>2, <1>3, Sizes
<1>5. Max(Q) \notin P
  BY <1>1, <1>4
<1>6. IsFiniteSet(P)
  BY <1>2, ItemsFinite
<1>7. Cardinality(P \cup {Max(Q)}) = size + 1
  BY <1>2, <1>5, <1>6, FS_AddElement
<1> QED
  BY <1>1, <1>2, <1>4, <1>7

-----------------------------------------------------------------------------
(* Reading. *)

LEMMA ReadKeeps ==
  ASSUME AprioriInv, NEW fresh, Learn(fresh), Fits(fresh), fresh \in Nat, stage = "read",
         IsFiniteSet(DOMAIN transactions'),
         \A tid \in DOMAIN transactions' : transactions'[tid] \subseteq ItemIds'
  PROVE  AprioriInv'
PROOF
<1>1. /\ universe' = universe + fresh
      /\ UNCHANGED <<minsup, minconf, tree, rules, stage>>
  BY DEF Learn, ruleVars
<1>2. DataInv'
  BY <1>1 DEF AprioriInv, DataInv
<1> QED
  BY <1>1, <1>2 DEF AprioriInv

LEMMA MetKnown ==
  ASSUME DataInv, NEW known \in SUBSET ItemIds, NEW fresh \in Nat, universe' = universe + fresh
  PROVE  Met(known, fresh) \subseteq ItemIds' /\ ItemIds \subseteq ItemIds'
PROOF
<1>1. universe \in Nat
  BY DEF DataInv
<1> QED
  BY <1>1 DEF Met, ItemIds

LEMMA InvReadPair ==
  ASSUME AprioriInv, NEW tid, NEW known \in SUBSET ItemIds, NEW fresh \in Nat,
         ReadPair(tid, known, fresh)
  PROVE  AprioriInv'
PROOF
<1>1. /\ Fits(fresh) /\ Learn(fresh) /\ stage = "read" /\ universe' = universe + fresh
      /\ transactions' = [t \in DOMAIN transactions \cup {tid} |->
                            ItemsOf(t) \cup (IF t = tid THEN Met(known, fresh) ELSE {})]
  BY DEF ReadPair, Fits, Learn
<1>2. DataInv
  BY DEF AprioriInv
<1>3. Met(known, fresh) \subseteq ItemIds' /\ ItemIds \subseteq ItemIds'
  BY <1>1, <1>2, MetKnown
<1>4. \A t : ItemsOf(t) \subseteq ItemIds
  BY <1>2 DEF DataInv, ItemsOf
<1>5. DOMAIN transactions' = DOMAIN transactions \cup {tid}
  BY <1>1
<1>6. IsFiniteSet(DOMAIN transactions')
  BY <1>2, <1>5, FS_AddElement DEF DataInv
<1>7. \A t \in DOMAIN transactions' : transactions'[t] \subseteq ItemIds'
  BY <1>1, <1>3, <1>4
<1> QED
  BY <1>1, <1>6, <1>7, ReadKeeps

LEMMA InvReadRow ==
  ASSUME AprioriInv, NEW tid, NEW known \in SUBSET ItemIds, NEW fresh \in Nat,
         ReadRow(tid, known, fresh)
  PROVE  AprioriInv'
PROOF
<1>1. /\ Fits(fresh) /\ Learn(fresh) /\ stage = "read" /\ universe' = universe + fresh
      /\ transactions' = [t \in DOMAIN transactions \cup {tid} |->
                            IF t \in DOMAIN transactions THEN transactions[t] ELSE Met(known, fresh)]
  BY DEF ReadRow, Fits, Learn
<1>2. DataInv
  BY DEF AprioriInv
<1>3. Met(known, fresh) \subseteq ItemIds' /\ ItemIds \subseteq ItemIds'
  BY <1>1, <1>2, MetKnown
<1>4. \A t \in DOMAIN transactions : transactions[t] \subseteq ItemIds
  BY <1>2 DEF DataInv
<1>5. DOMAIN transactions' = DOMAIN transactions \cup {tid}
  BY <1>1
<1>6. IsFiniteSet(DOMAIN transactions')
  BY <1>2, <1>5, FS_AddElement DEF DataInv
<1>7. \A t \in DOMAIN transactions' : transactions'[t] \subseteq ItemIds'
  BY <1>1, <1>3, <1>4
<1> QED
  BY <1>1, <1>6, <1>7, ReadKeeps

LEMMA InvRefuseEmpty == AprioriInv /\ RefuseEmpty => AprioriInv'
PROOF
<1> SUFFICES ASSUME AprioriInv, RefuseEmpty PROVE AprioriInv'
  OBVIOUS
<1>1. stage' = "refused" /\ UNCHANGED <<universe, transactions, minsup, minconf, tree, rules>>
  BY DEF RefuseEmpty, dataVars, ruleVars
<1>2. DataInv'
  BY <1>1 DEF AprioriInv, DataInv, ItemIds
<1> QED
  BY <1>1, <1>2 DEF AprioriInv

-----------------------------------------------------------------------------
(* Passes. *)

\* What the file and the thresholds say stays when they do.
LEMMA DataStays ==
  ASSUME AprioriInv, UNCHANGED <<dataVars, minsup, minconf>>
  PROVE  /\ ItemIds' = ItemIds /\ Frequent' = Frequent /\ NumTransactions' = NumTransactions
         /\ \A X : Support(X)' = Support(X) /\ SplitsOf(X)' = SplitsOf(X)
         /\ \A sizes : FrequentOf(sizes)' = FrequentOf(sizes)
         /\ \A r : Holds(r)' = Holds(r)
         /\ IdsFitInt' = IdsFitInt
         /\ Due' = Due /\ \A X : DueOf(X)' = DueOf(X)
PROOF
<1>1. UNCHANGED <<universe, transactions, minsup, minconf>>
  BY DEF dataVars
<1>2. ItemIds' = ItemIds /\ NumTransactions' = NumTransactions /\ IdsFitInt' = IdsFitInt
  BY <1>1 DEF ItemIds, NumTransactions, IdsFitInt, AsInt
<1>3. \A X : Support(X)' = Support(X)
  BY <1>1 DEF Support
<1>4. Frequent' = Frequent
  BY <1>1, <1>2, <1>3 DEF Frequent, AtLeast
<1>5. \A X : SplitsOf(X)' = SplitsOf(X)
  BY DEF SplitsOf
<1>6. \A sizes : FrequentOf(sizes)' = FrequentOf(sizes)
  BY <1>4 DEF FrequentOf
<1>7. \A r : Holds(r)' = Holds(r)
  BY <1>1 DEF Holds, Support, AtLeast
<1>8. Due' = Due /\ \A X : DueOf(X)' = DueOf(X)
  BY <1>1, <1>4 DEF Due, DueOf, SplitsOf, Holds, Support, AtLeast, LongestRight
<1> QED
  BY <1>2, <1>3, <1>4, <1>5, <1>6, <1>7, <1>8

LEMMA DataInvStays ==
  ASSUME AprioriInv, UNCHANGED <<dataVars, minsup, minconf>>, UNCHANGED rules \/ stage' \in {"rules", "grow"},
         stage' \in {"count", "rules", "grow", "done"}, stage' = "count" => stage \in {"read", "count"}
  PROVE  DataInv'
PROOF
<1>1. ItemIds' = ItemIds
  BY DataStays
<1> QED
  BY <1>1 DEF AprioriInv, DataInv, dataVars

LEMMA PassStarts ==
  ASSUME AprioriInv, UNCHANGED <<dataVars, minsup, minconf>>, NEW cands, NEW level \in Nat,
         StartPass(cands, level), level >= 2,
         \A c \in cands : c \subseteq ItemIds /\ Cardinality(c) = level - 1,
         FrequentOf({level - 1}) \subseteq cands,
         tree' = [X \in FrequentOf(1..level - 2) |-> Support(X)]
  PROVE  CandidatesInv' /\ CountsInv'
PROOF
<1>1. /\ candidates' = cands /\ levelNum' = level /\ count' = [c \in cands |-> 0]
      /\ lastVisited' = [leaf \in {LeafOf(c, cands, level) : c \in cands} |-> -1]
      /\ uncounted' = DOMAIN transactions /\ transactions' = transactions
  BY DEF StartPass, dataVars
<1>2. /\ ItemIds' = ItemIds
      /\ \A X : Support(X)' = Support(X)
      /\ \A sizes : FrequentOf(sizes)' = FrequentOf(sizes)
  BY DataStays
<1>3. CandidatesInv'
  BY <1>1, <1>2 DEF CandidatesInv
<1>4. Counted' = {}
  BY <1>1 DEF Counted
<1>5. Cardinality({}) = 0
  BY FS_EmptySet
<1>6. count' = [c \in candidates' |-> Cardinality({tid \in Counted' : c \subseteq transactions'[tid]})]
  <2>1. \A c : {tid \in Counted' : c \subseteq transactions'[tid]} = {}
    BY <1>4
  <2>2. \A c : Cardinality({tid \in Counted' : c \subseteq transactions'[tid]}) = 0
    BY <1>5, <2>1
  <2> QED
    BY <1>1, <2>2
<1>7. Leaves' = {LeafOf(c, candidates', levelNum') : c \in candidates'}
  BY <1>1 DEF Leaves
<1>8. \A leaf \in Leaves' : lastVisited'[leaf] = -1
  BY <1>1 DEF Leaves
<1>9. CountsInv'
  BY <1>1, <1>6, <1>7, <1>8 DEF CountsInv
<1> QED
  BY <1>3, <1>9

\* A single item has no rules.
LEMMA SingleHasNone ==
  ASSUME DataInv, NEW X \in Frequent, ~(Cardinality(X) >= 2)
  PROVE  DueOf(X) = {}
PROOF
<1>1. X \subseteq ItemIds /\ X # {}
  BY DEF Frequent
<1>2. Cardinality(X) = 1 /\ IsFiniteSet(X)
  BY <1>1, Sizes, ItemsFinite
<1>3. PICK i : X = {i}
  BY <1>2, FS_Singleton
<1>4. (SUBSET X) \ {{}, X} = {}
  BY <1>3
<1> QED
  BY <1>4 DEF DueOf, SplitsOf

LEMMA RulesStart ==
  ASSUME AprioriInv, UNCHANGED <<dataVars, minsup, minconf>>, StartRules, rules = {},
         tree' = [X \in Frequent |-> Support(X)]
  PROVE  RulesInv' /\ stage' = "rules" /\ UNCHANGED rules
PROOF
<1>1. stage' = "rules" /\ path' = {X \in DOMAIN tree' : Cardinality(X) >= 2} /\ rules' = rules
  BY DEF StartRules
<1>2. /\ Frequent' = Frequent /\ Due' = Due
      /\ \A X : Support(X)' = Support(X) /\ DueOf(X)' = DueOf(X)
  BY DataStays
<1>3. DataInv
  BY DEF AprioriInv
<1>4. \A X \in Frequent : X \in path' \/ DueOf(X) = {}
  BY <1>1, <1>3, SingleHasNone
<1> QED
  BY <1>1, <1>2, <1>4 DEF RulesInv

LEMMA InvStartFrequent == AprioriInv /\ StartFrequent => AprioriInv'
PROOF
<1> SUFFICES ASSUME AprioriInv, StartFrequent PROVE AprioriInv'
  OBVIOUS
<1> DEFINE singles == {{i} : i \in ItemIds}
<1>1. /\ stage = "read" /\ StartPass(singles, 2) /\ UNCHANGED <<dataVars, minsup, minconf>> /\ tree' = tree
      /\ IF universe > 0 THEN stage' = "count" /\ UNCHANGED ruleVars ELSE StartRules
  BY DEF StartFrequent
<1>2. DataInv /\ tree = <<>> /\ rules = {} /\ universe \in Nat
  BY <1>1 DEF AprioriInv, DataInv
<1>3. \A c \in singles : c \subseteq ItemIds /\ Cardinality(c) = 2 - 1
  BY FS_Singleton
<1>4. FrequentOf({2 - 1}) \subseteq singles
  <2> SUFFICES ASSUME NEW X \in FrequentOf({1}) PROVE X \in singles
    OBVIOUS
  <2>1. X \subseteq ItemIds /\ Cardinality(X) = 1
    BY DEF FrequentOf, Frequent
  <2>2. IsFiniteSet(X)
    BY <1>2, <2>1, ItemsFinite
  <2>3. PICK i : X = {i}
    BY <2>1, <2>2, FS_Singleton
  <2> QED
    BY <2>1, <2>3
<1>5. FrequentOf(1..2 - 2) = {}
  BY DEF FrequentOf
<1>6. tree' = [X \in FrequentOf(1..2 - 2) |-> Support(X)]
  BY <1>1, <1>2, <1>5
<1>7. CASE universe > 0
  <2>1. stage' = "count" /\ rules' = rules
    BY <1>1, <1>7 DEF ruleVars
  <2>2. CandidatesInv' /\ CountsInv'
    BY <1>1, <1>3, <1>4, <1>6, PassStarts
  <2>3. DataInv'
    BY <1>1, <2>1, DataInvStays
  <2> QED
    BY <2>1, <2>2, <2>3 DEF AprioriInv
<1>8. CASE ~(universe > 0)
  <2>1. Frequent = {}
    BY <1>2, <1>8 DEF Frequent, ItemIds
  <2>2. tree' = [X \in Frequent |-> Support(X)]
    BY <1>1, <1>2, <2>1
  <2>3. RulesInv' /\ stage' = "rules" /\ UNCHANGED rules
    BY <1>1, <1>2, <1>8, <2>2, RulesStart
  <2>4. DataInv'
    BY <1>1, <2>3, DataInvStays
  <2> QED
    BY <2>3, <2>4 DEF AprioriInv
<1> QED
  BY <1>7, <1>8

\* Every leaf of a candidate that the transaction has is visited: none of them
\* remembers the transaction.
LEMMA AllVisited ==
  ASSUME DataInv, CandidatesInv, CountsInv, IdsFitInt, NEW tid \in uncounted, NEW c \in candidates,
         c \subseteq transactions[tid]
  PROVE  LeafOf(c, candidates, levelNum) \in Visited(tid)
PROOF
<1> DEFINE leaf == LeafOf(c, candidates, levelNum)
<1>1. leaf \in Leaves
  BY DEF CountsInv
<1>2. c \subseteq ItemIds /\ levelNum \in Nat \ {0}
  BY DEF CandidatesInv
<1>3. c \subseteq Nat /\ IsFiniteSet(c)
  BY <1>2, ItemsFinite
<1>4. \E S \in SUBSET transactions[tid] : Hashes(S, levelNum) = leaf
  BY <1>2, <1>3, LeafReached
<1>5. leaf \in Reached(transactions[tid])
  BY <1>1, <1>4 DEF Reached
<1>6. lastVisited[leaf] # AsInt(tid)
  <2>1. tid \in DOMAIN transactions
    BY DEF CountsInv
  <2>2. lastVisited[leaf] \in {-1} \cup {AsInt(s) : s \in Counted}
    BY <1>1 DEF CountsInv
  <2>3. AsInt(tid) # -1
    BY <2>1 DEF IdsFitInt
  <2>4. \A s \in Counted : AsInt(s) # AsInt(tid)
    BY <2>1 DEF Counted, IdsFitInt
  <2> QED
    BY <2>2, <2>3, <2>4
<1> QED
  BY <1>5, <1>6 DEF Visited

LEMMA InvCountTransaction ==
  ASSUME AprioriInv, NEW tid \in uncounted, CountTransaction(tid)
  PROVE  AprioriInv'
PROOF
<1> DEFINE visited == Visited(tid)
           Having(c) == {t \in Counted : c \subseteq transactions[t]}
           HavingNow(c) == {t \in Counted' : c \subseteq transactions[t]}
<1>1. /\ stage = "count" /\ stage' = "count"
      /\ count' = [c \in candidates |->
                     IF LeafOf(c, candidates, levelNum) \in visited /\ c \subseteq transactions[tid]
                     THEN count[c] + 1 ELSE count[c]]
      /\ lastVisited' = [leaf \in Leaves |-> IF leaf \in visited THEN AsInt(tid) ELSE lastVisited[leaf]]
      /\ uncounted' = uncounted \ {tid}
      /\ UNCHANGED <<dataVars, minsup, minconf, tree, candidates, levelNum, rules>>
  BY DEF CountTransaction, ruleVars
<1>2. /\ DataInv
      /\ IdsFitInt' = IdsFitInt /\ ItemIds' = ItemIds
      /\ \A X : Support(X)' = Support(X)
      /\ \A sizes : FrequentOf(sizes)' = FrequentOf(sizes)
  BY <1>1, DataStays DEF AprioriInv
<1>3. DataInv'
  BY <1>1, DataInvStays
<1> SUFFICES ASSUME IdsFitInt PROVE CandidatesInv' /\ CountsInv'
  BY <1>1, <1>2, <1>3 DEF AprioriInv
<1>4. CandidatesInv /\ CountsInv
  BY <1>1 DEF AprioriInv
<1>5. CandidatesInv'
  BY <1>1, <1>2, <1>4 DEF CandidatesInv
<1>6. tid \in DOMAIN transactions /\ tid \notin Counted /\ Counted' = Counted \cup {tid}
      /\ transactions' = transactions /\ uncounted' \subseteq DOMAIN transactions'
  BY <1>1, <1>4 DEF Counted, CountsInv, dataVars
<1>7. ASSUME NEW c \in candidates
      PROVE  count'[c] = Cardinality(HavingNow(c))
  <2>1. count[c] = Cardinality(Having(c))
    BY <1>4 DEF CountsInv
  <2>2. IsFiniteSet(Having(c)) /\ tid \notin Having(c)
    BY <1>2, <1>6, FS_Subset DEF DataInv, Counted
  <2>3. CASE c \subseteq transactions[tid]
    <3>1. LeafOf(c, candidates, levelNum) \in visited
      BY <1>2, <1>4, <2>3, AllVisited
    <3>2. count'[c] = count[c] + 1
      BY <1>1, <2>3, <3>1
    <3>3. HavingNow(c) = Having(c) \cup {tid}
      BY <1>6, <2>3
    <3> QED
      BY <2>1, <2>2, <3>2, <3>3, FS_AddElement
  <2>4. CASE ~(c \subseteq transactions[tid])
    <3>1. count'[c] = count[c]
      BY <1>1, <2>4
    <3>2. HavingNow(c) = Having(c)
      BY <1>6, <2>4
    <3> QED
      BY <2>1, <3>1, <3>2
  <2> QED
    BY <2>3, <2>4
<1>8. count' = [c \in candidates' |-> Cardinality({t \in Counted' : c \subseteq transactions'[t]})]
  BY <1>1, <1>6, <1>7
<1>9. Leaves' = Leaves
  BY <1>1 DEF Leaves
<1>10. Leaves' = {LeafOf(c, candidates', levelNum') : c \in candidates'}
  BY <1>1, <1>4, <1>9 DEF CountsInv
<1>11. \A leaf \in Leaves' : lastVisited'[leaf] \in {-1} \cup {AsInt(t) : t \in Counted'}
  <2> SUFFICES ASSUME NEW leaf \in Leaves
               PROVE  lastVisited'[leaf] \in {-1} \cup {AsInt(t) : t \in Counted'}
    BY <1>9
  <2>1. lastVisited'[leaf] = AsInt(tid) \/ lastVisited'[leaf] = lastVisited[leaf]
    BY <1>1
  <2>2. lastVisited[leaf] \in {-1} \cup {AsInt(t) : t \in Counted}
    BY <1>4 DEF CountsInv
  <2> QED
    BY <1>6, <2>1, <2>2
<1>12. CountsInv'
  BY <1>6, <1>8, <1>10, <1>11 DEF CountsInv, AsInt
<1> QED
  BY <1>5, <1>12

\* Without frequent sets of a size there are no larger ones.
LEMMA NoLarger ==
  ASSUME DataInv, NEW size \in Nat, size >= 2, FrequentOf({size}) = {}
  PROVE  Frequent = FrequentOf(1..size - 1)
PROOF
<1> DEFINE larger == {n \in Nat : n >= size /\ \E X \in Frequent : Cardinality(X) = n}
<1>1. larger = {}
  <2> SUFFICES ASSUME larger # {} PROVE FALSE
    OBVIOUS
  <2>1. PICK n \in larger : \A m \in larger : n <= m
    BY SmallestNumber
  <2>2. PICK X \in Frequent : Cardinality(X) = n
    BY <2>1
  <2>3. n # size
    BY <2>2 DEF FrequentOf
  <2>4. X \subseteq ItemIds /\ X # {}
    BY DEF Frequent
  <2>5. Max(X) \in X /\ Cardinality(X \ {Max(X)}) = n - 1
    BY <2>2, <2>4, Sizes
  <2>6. X \ {Max(X)} # {}
    <3>1. n - 1 # 0
      BY <2>1, <2>3
    <3> QED
      BY <2>5, <3>1, FS_EmptySet
  <2>7. X \ {Max(X)} \in Frequent
    BY <2>6, FrequentFalls
  <2>8. n - 1 \in larger
    BY <2>1, <2>3, <2>5, <2>7
  <2> QED
    BY <2>1, <2>8
<1>2. ASSUME NEW X \in Frequent
      PROVE  Cardinality(X) \in 1..size - 1
  <2>1. X \subseteq ItemIds /\ X # {}
    BY DEF Frequent
  <2>2. Cardinality(X) \in Nat \ {0}
    BY <2>1, Sizes
  <2>3. ~(Cardinality(X) >= size)
    BY <1>1, <2>2
  <2> QED
    BY <2>2, <2>3
<1> QED
  BY <1>2 DEF FrequentOf

LEMMA InvFinishPass == AprioriInv /\ FinishPass => AprioriInv'
PROOF
<1> SUFFICES ASSUME AprioriInv, FinishPass PROVE AprioriInv'
  OBVIOUS
<1> DEFINE kept == {c \in candidates : AtLeast(count[c], NumTransactions, minsup)}
           next == {X \in Joined(kept) : ~CanBePruned(X, DOMAIN tree')}
<1>1. /\ stage = "count" /\ uncounted = {}
      /\ tree' = [X \in kept \cup DOMAIN tree |-> IF X \in kept THEN count[X] ELSE tree[X]]
      /\ StartPass(next, levelNum + 1)
      /\ UNCHANGED <<dataVars, minsup, minconf>>
      /\ IF candidates' # {} THEN UNCHANGED <<stage, ruleVars>> ELSE StartRules
  BY DEF FinishPass
<1>2. DataInv /\ rules = {} /\ IdsFitInt' = IdsFitInt
  BY <1>1, DataStays DEF AprioriInv, DataInv
<1>3. candidates' = next
  BY <1>1 DEF StartPass
<1>4. stage' \in {"count", "rules"} /\ rules' = rules /\ DataInv'
  BY <1>1, DataInvStays DEF ruleVars, StartRules
<1> SUFFICES ASSUME IdsFitInt
             PROVE  (stage' = "count" => CandidatesInv' /\ CountsInv') /\ (stage' = "rules" => RulesInv')
  BY <1>2, <1>4 DEF AprioriInv
<1>5. CandidatesInv /\ CountsInv
  BY <1>1 DEF AprioriInv
<1>6. levelNum \in Nat /\ levelNum >= 2
  BY <1>5 DEF CandidatesInv
<1>7. \A c \in candidates : count[c] = Support(c)
  <2>1. Counted = DOMAIN transactions
    BY <1>1 DEF Counted
  <2> QED
    BY <1>5, <2>1 DEF CountsInv, Support
<1>8. kept = FrequentOf({levelNum - 1})
  <2>1. ASSUME NEW c \in kept
        PROVE  c \in FrequentOf({levelNum - 1})
    <3>1. c \subseteq ItemIds /\ Cardinality(c) = levelNum - 1 /\ AtLeast(Support(c), NumTransactions, minsup)
      BY <1>5, <1>7 DEF CandidatesInv
    <3>2. c # {}
      <4>1. Cardinality(c) # 0
        BY <1>6, <3>1
      <4> QED
        BY <4>1, FS_EmptySet
    <3> QED
      BY <3>1, <3>2 DEF FrequentOf, Frequent
  <2>2. ASSUME NEW c \in FrequentOf({levelNum - 1})
        PROVE  c \in kept
    <3>1. c \in candidates /\ AtLeast(Support(c), NumTransactions, minsup)
      BY <1>5 DEF CandidatesInv, FrequentOf, Frequent
    <3> QED
      BY <1>7, <3>1
  <2> QED
    BY <2>1, <2>2
<1>9. DOMAIN tree = FrequentOf(1..levelNum - 2) /\ \A X \in DOMAIN tree : tree[X] = Support(X)
  BY <1>5 DEF CandidatesInv
<1>10. FrequentOf({levelNum - 1}) \cup FrequentOf(1..levelNum - 2) = FrequentOf(1..levelNum - 1)
  <2>1. {levelNum - 1} \cup 1..levelNum - 2 = 1..levelNum - 1
    BY <1>6
  <2> QED
    BY <2>1 DEF FrequentOf
<1>11. \A X \in kept : count[X] = Support(X)
  BY <1>7
<1> HIDE DEF kept
<1>12. tree' = [X \in FrequentOf(1..levelNum - 1) |-> Support(X)]
  BY <1>1, <1>8, <1>9, <1>10, <1>11
<1>13. DOMAIN tree' = FrequentOf(1..levelNum - 1)
  BY <1>12
<1>14. \A c \in next : c \subseteq ItemIds /\ Cardinality(c) = (levelNum + 1) - 1
  <2>1. \A P \in kept : P \subseteq ItemIds /\ Cardinality(P) = levelNum - 1
    BY <1>8 DEF FrequentOf, Frequent
  <2>2. levelNum - 1 \in Nat \ {0} /\ (levelNum - 1) + 1 = (levelNum + 1) - 1
    BY <1>6
  <2> SUFFICES ASSUME NEW c \in next PROVE c \subseteq ItemIds /\ Cardinality(c) = (levelNum + 1) - 1
    OBVIOUS
  <2>3. c \in Joined(kept)
    OBVIOUS
  <2>4. c \subseteq ItemIds /\ Cardinality(c) = (levelNum - 1) + 1
    BY <1>2, <2>1, <2>2, <2>3, JoinedAre
  <2> QED
    BY <2>2, <2>4
<1>15. FrequentOf({levelNum}) \subseteq next
  <2> SUFFICES ASSUME NEW X \in FrequentOf({levelNum}) PROVE X \in next
    OBVIOUS
  <2>1. X \in Frequent /\ X \subseteq ItemIds /\ X # {} /\ Cardinality(X) = levelNum
    BY DEF FrequentOf, Frequent
  <2>2. ASSUME NEW i \in X
        PROVE  X \ {i} \in FrequentOf({levelNum - 1})
    <3>1. Cardinality(X \ {i}) = levelNum - 1
      BY <1>2, <2>1, Sizes
    <3>2. X \ {i} # {}
      <4>1. Cardinality(X \ {i}) # 0
        BY <1>6, <3>1
      <4> QED
        BY <4>1, FS_EmptySet
    <3>3. X \ {i} \in Frequent
      BY <1>2, <2>1, <3>2, FrequentFalls
    <3> QED
      BY <3>1, <3>3 DEF FrequentOf
  <2>3. X \in Joined(kept)
    <3>1. Max(X) \in X /\ Second(X) \in X
          /\ (Parent(X) \in kept /\ X \ {Second(X)} \in kept => X \in Joined(kept))
      BY <1>2, <1>6, <2>1, JoinedFrom
    <3> QED
      BY <1>8, <2>2, <3>1 DEF Parent
  <2>4. ~CanBePruned(X, DOMAIN tree')
    BY <1>10, <1>13, <2>2 DEF CanBePruned
  <2> QED
    BY <2>3, <2>4
<1>16. stage' = "count" => CandidatesInv' /\ CountsInv'
  <2>1. levelNum + 1 \in Nat /\ levelNum + 1 >= 2 /\ (levelNum + 1) - 1 = levelNum
        /\ (levelNum + 1) - 2 = levelNum - 1
    BY <1>6
  <2> HIDE DEF next
  <2> QED
    BY <1>1, <1>12, <1>14, <1>15, <2>1, PassStarts
<1>17. stage' = "rules" => RulesInv'
  <2> SUFFICES ASSUME stage' = "rules" PROVE RulesInv'
    OBVIOUS
  <2>1. candidates' = {} /\ StartRules
    BY <1>1
  <2>2. FrequentOf({levelNum}) = {}
    BY <1>3, <1>15, <2>1
  <2>3. Frequent = FrequentOf(1..levelNum - 1)
    BY <1>2, <1>6, <2>2, NoLarger
  <2> QED
    BY <1>1, <1>2, <1>12, <2>1, <2>3, RulesStart
<1> QED
  BY <1>16, <1>17

-----------------------------------------------------------------------------
(* Rules. *)

\* What Confident compares are supports; a rule it lets pass holds.
LEMMA ConfidentRule ==
  ASSUME DataInv, RulesInv, NEW X \in Frequent, NEW R \in (SUBSET X) \ {{}, X}
  PROVE  /\ Confident(X, R) <=> Holds([lhs |-> X \ R, rhs |-> R])
         /\ [lhs |-> X \ R, rhs |-> R] \in SplitsOf(X)
         /\ Support(X \ R) \in Nat /\ Support(X) \in Nat
         /\ Confident(X, R) <=> Support(X \ R) > 0 /\ AtLeast(Support(X), Support(X \ R), minconf)
PROOF
<1>1. X \ R \in Frequent
  BY FrequentFalls
<1>2. tree[X \ R] = Support(X \ R) /\ tree[X] = Support(X)
  BY <1>1 DEF RulesInv
<1>3. (X \ R) \cup R = X
  OBVIOUS
<1>4. Support(X \ R) \in Nat /\ Support(X) \in Nat
  BY SupportFalls
<1>5. [lhs |-> X \ R, rhs |-> R] \in SplitsOf(X)
  BY DEF SplitsOf
<1> QED
  BY <1>2, <1>3, <1>4, <1>5 DEF Confident, Holds

\* With fewer items on the right a rule is as confident.
LEMMA FewerRight ==
  ASSUME DataInv, RulesInv, NEW X \in Frequent, NEW R \in (SUBSET X) \ {{}, X}, Confident(X, R), Support(X) > 0,
         NEW S, S \subseteq R, S # {}
  PROVE  S \in (SUBSET X) \ {{}, X} /\ Confident(X, S)
PROOF
<1>1. S \in (SUBSET X) \ {{}, X}
  OBVIOUS
<1>2. Support(X \ R) > 0 /\ AtLeast(Support(X), Support(X \ R), minconf) /\ Support(X \ R) \in Nat
      /\ Support(X) \in Nat
  BY ConfidentRule
<1>3. Support(X \ S) \in Nat /\ Support(X \ S) <= Support(X \ R) /\ Support(X) <= Support(X \ S)
  <2>1. X \ R \subseteq X \ S /\ X \ S \subseteq X
    OBVIOUS
  <2> QED
    BY <2>1, SupportFalls
<1>4. minconf \in Nat \X (Nat \ {0})
  BY DEF DataInv
<1>5. AtLeast(Support(X), Support(X \ S), minconf)
  BY <1>2, <1>3, <1>4, Ratios
<1>6. Support(X \ S) > 0
  BY <1>2, <1>3
<1> QED
  BY <1>1, <1>5, <1>6, ConfidentRule

LEMMA RightOfIs ==
  ASSUME NEW X, NEW size, NEW R
  PROVE  R \in RightOf(X, size) <=> R \in (SUBSET X) \ {{}, X} /\ Cardinality(R) = size
                                    /\ Support(X) > 0 /\ Confident(X, R)
BY DEF RightOf

\* The sides one item shorter.
LEMMA ShorterRight ==
  ASSUME DataInv, RulesInv, NEW X \in Frequent, NEW size \in Nat, size >= 2,
         NEW R \in RightOf(X, size), NEW i \in R
  PROVE  R \ {i} \in RightOf(X, size - 1)
PROOF
<1>1. R \in (SUBSET X) \ {{}, X} /\ Cardinality(R) = size /\ Support(X) > 0 /\ Confident(X, R)
  BY DEF RightOf
<1>2. X \subseteq ItemIds
  BY DEF Frequent
<1>3. Cardinality(R \ {i}) = size - 1
  BY <1>1, <1>2, Sizes
<1>4. R \ {i} # {}
  <2>1. Cardinality(R \ {i}) # 0
    BY <1>3
  <2> QED
    BY <2>1, FS_EmptySet
<1>5. R \ {i} \in (SUBSET X) \ {{}, X} /\ Confident(X, R \ {i})
  BY <1>1, <1>4, FewerRight
<1> QED
  BY <1>1, <1>3, <1>5 DEF RightOf

\* No sides of a size: none of the next.
LEMMA NoLongerRight ==
  ASSUME DataInv, RulesInv, NEW X \in Frequent, NEW size \in Nat, size >= 2, RightOf(X, size - 1) = {}
  PROVE  RightOf(X, size) = {}
PROOF
<1> SUFFICES ASSUME NEW R \in RightOf(X, size) PROVE FALSE
  OBVIOUS
<1>1. R # {}
  BY DEF RightOf
<1>2. PICK i \in R : TRUE
  BY <1>1
<1> QED
  BY ShorterRight

\* What a set has to have is among the rules once its short sides are.
LEMMA ShortSides ==
  ASSUME DataInv, RulesInv, NEW X \in Frequent, NEW sides, NEW known, RulesOf(X, sides) \subseteq known,
         \A size \in 1..LongestRight : RightOf(X, size) \subseteq sides
  PROVE  DueOf(X) \subseteq known
PROOF
<1> SUFFICES ASSUME NEW r \in DueOf(X) PROVE r \in known
  OBVIOUS
<1>1. PICK R \in (SUBSET X) \ {{}, X} : r = [lhs |-> X \ R, rhs |-> R]
  BY DEF DueOf, SplitsOf
<1>2. Confident(X, R) /\ Support(X) > 0 /\ Cardinality(R) <= LongestRight
  BY <1>1, ConfidentRule DEF DueOf
<1>3. Cardinality(R) \in Nat \ {0}
  <2>1. X \subseteq ItemIds
    BY DEF Frequent
  <2> QED
    BY <2>1, Sizes
<1>4. Cardinality(R) \in 1..LongestRight
  BY <1>2, <1>3 DEF LongestRight
<1>5. R \in sides
  BY <1>2, <1>4 DEF RightOf
<1> QED
  BY <1>1, <1>5 DEF RulesOf

LEMMA SoundSides ==
  ASSUME DataInv, RulesInv, NEW X \in Frequent, NEW sides,
         \A R \in sides : R \in (SUBSET X) \ {{}, X} /\ Confident(X, R)
  PROVE  RulesOf(X, sides) \subseteq Due
PROOF
<1> SUFFICES ASSUME NEW R \in sides PROVE [lhs |-> X \ R, rhs |-> R] \in Due
  BY DEF RulesOf
<1>1. R \in (SUBSET X) \ {{}, X} /\ Confident(X, R)
  OBVIOUS
<1> QED
  BY <1>1, ConfidentRule DEF Due

\* Making rules leaves the tree alone.
LEMMA RulesStay ==
  ASSUME AprioriInv, UNCHANGED <<dataVars, minsup, minconf, tree>>, IdsFitInt
  PROVE  /\ Frequent' = Frequent /\ Due' = Due /\ IdsFitInt' = IdsFitInt
         /\ \A X : Support(X)' = Support(X) /\ DueOf(X)' = DueOf(X)
         /\ \A X, size : RightOf(X, size)' = RightOf(X, size)
         /\ \A X, sides : RulesOf(X, sides)' = RulesOf(X, sides)
PROOF
<1>1. /\ Frequent' = Frequent /\ Due' = Due /\ IdsFitInt' = IdsFitInt
      /\ \A X : Support(X)' = Support(X) /\ DueOf(X)' = DueOf(X)
  BY DataStays
<1>2. \A X, R : Confident(X, R)' = Confident(X, R)
  BY DEF Confident, AtLeast
<1>3. \A X, size : RightOf(X, size)' = RightOf(X, size)
  BY <1>1, <1>2 DEF RightOf
<1>4. \A X, sides : RulesOf(X, sides)' = RulesOf(X, sides)
  BY DEF RulesOf
<1> QED
  BY <1>1, <1>3, <1>4

\* A smallest set of the path.
LEMMA SomeSmallest ==
  ASSUME DataInv, path # {}, path \subseteq Frequent
  PROVE  \E Y \in path : \A Z \in path : Cardinality(Y) <= Cardinality(Z)
PROOF
<1> DEFINE sizes == {Cardinality(Y) : Y \in path}
<1>1. \A Y \in path : Cardinality(Y) \in Nat
  BY ItemsFinite DEF Frequent
<1>2. PICK n \in sizes : \A k \in sizes : n <= k
  <2>1. sizes \subseteq Nat /\ sizes # {}
    BY <1>1
  <2> QED
    BY <2>1, SmallestNumber
<1> QED
  BY <1>2

LEMMA InvStartItemset == AprioriInv /\ StartItemset => AprioriInv'
PROOF
<1> SUFFICES ASSUME AprioriInv, StartItemset PROVE AprioriInv'
  OBVIOUS
<1> DEFINE X == CHOOSE Y \in path : \A Z \in path : Cardinality(Y) <= Cardinality(Z)
           singles == {{i} : i \in {j \in X : Confident(X, {j})}}
<1>1. /\ stage = "rules" /\ path # {} /\ path' = path \ {X}
      /\ itemset' = X /\ rightSides' = singles /\ ruleLevel' = 2
      /\ rules' = rules \cup RulesOf(X, singles)
      /\ stage' = IF singles = {} THEN "rules" ELSE "grow"
      /\ UNCHANGED <<dataVars, minsup, minconf, tree>>
  BY DEF StartItemset
<1>2. DataInv'
  BY <1>1, DataInvStays
<1>3. DataInv
  BY DEF AprioriInv
<1>4. IdsFitInt' = IdsFitInt
  BY <1>1, DataStays
<1> SUFFICES ASSUME IdsFitInt PROVE RulesInv' /\ (stage' = "grow" => GrowInv')
  BY <1>1, <1>2, <1>4 DEF AprioriInv
<1>5. RulesInv
  BY <1>1 DEF AprioriInv
<1>6. /\ Frequent' = Frequent /\ Due' = Due
      /\ \A Y : Support(Y)' = Support(Y) /\ DueOf(Y)' = DueOf(Y)
      /\ \A Y, size : RightOf(Y, size)' = RightOf(Y, size)
      /\ \A Y, sides : RulesOf(Y, sides)' = RulesOf(Y, sides)
  BY <1>1, RulesStay
<1>7. X \in path
  BY <1>1, <1>3, <1>5, SomeSmallest DEF RulesInv
<1>8. X \in Frequent /\ Cardinality(X) >= 2
  BY <1>5, <1>7 DEF RulesInv
<1> HIDE DEF X
<1>9. \A R \in singles : R \in (SUBSET X) \ {{}, X} /\ Confident(X, R)
  <2> SUFFICES ASSUME NEW i \in X, Confident(X, {i}) PROVE {i} \in (SUBSET X) \ {{}, X}
    OBVIOUS
  <2>1. Cardinality({i}) = 1
    BY FS_Singleton
  <2> QED
    BY <1>8, <2>1
<1>10. RightOf(X, 1) \subseteq singles
  <2> SUFFICES ASSUME NEW R \in RightOf(X, 1) PROVE R \in singles
    OBVIOUS
  <2>1. R \in (SUBSET X) \ {{}, X} /\ Cardinality(R) = 1 /\ Confident(X, R)
    BY DEF RightOf
  <2>2. IsFiniteSet(R)
    BY <1>3, <1>8, <2>1, ItemsFinite DEF Frequent
  <2>3. PICK i : R = {i}
    BY <2>1, <2>2, FS_Singleton
  <2> QED
    BY <2>1, <2>3
<1>11. RulesOf(X, singles) \subseteq Due
  BY <1>3, <1>5, <1>8, <1>9, SoundSides
<1>12. stage' = "rules" => DueOf(X) \subseteq rules'
  <2> SUFFICES ASSUME singles = {} PROVE DueOf(X) \subseteq rules'
    BY <1>1
  <2>1. RightOf(X, 1) = {}
    BY <1>10
  <2>2. RightOf(X, 2) = {}
    <3>1. 2 - 1 = 1 /\ 2 \in Nat /\ 2 >= 2
      OBVIOUS
    <3> QED
      BY <1>3, <1>5, <1>8, <2>1, <3>1, NoLongerRight
  <2>3. RightOf(X, 3) = {}
    <3>1. 3 - 1 = 2 /\ 3 \in Nat /\ 3 >= 2
      OBVIOUS
    <3> QED
      BY <1>3, <1>5, <1>8, <2>2, <3>1, NoLongerRight
  <2>4. \A size \in 1..LongestRight : RightOf(X, size) \subseteq singles
    BY <2>1, <2>2, <2>3 DEF LongestRight
  <2> HIDE DEF singles
  <2>5. RulesOf(X, singles) \subseteq rules'
    BY <1>1
  <2> QED
    BY <1>3, <1>5, <1>8, <2>4, <2>5, ShortSides
<1>13. RulesInv'
  <2>1. tree' = [Y \in Frequent' |-> Support(Y)']
    BY <1>1, <1>5, <1>6 DEF RulesInv
  <2>2. path' \subseteq Frequent' /\ (\A Y \in path' : Cardinality(Y) >= 2) /\ stage' # "done"
    BY <1>1, <1>5, <1>6 DEF RulesInv
  <2>3. rules' \subseteq Due'
    BY <1>1, <1>5, <1>6, <1>11 DEF RulesInv
  <2>4. ASSUME NEW Y \in Frequent
        PROVE  Y \in path' \/ (stage' = "grow" /\ Y = itemset') \/ DueOf(Y) \subseteq rules'
    <3>1. CASE Y = X
      BY <1>1, <1>12, <3>1
    <3>2. CASE Y # X
      <4>1. Y \in path \/ DueOf(Y) \subseteq rules
        BY <1>1, <1>5 DEF RulesInv
      <4> QED
        BY <1>1, <3>2, <4>1
    <3> QED
      BY <3>1, <3>2
  <2> QED
    BY <1>6, <2>1, <2>2, <2>3, <2>4 DEF RulesInv
<1>14. GrowInv'
  <2>1. \A size \in 1..LongestRight : size < 2 => size = 1
    BY DEF LongestRight
  <2>2. rightSides' \subseteq (SUBSET X) \ {{}, X}
    BY <1>1, <1>9
  <2> HIDE DEF singles
  <2> QED
    BY <1>1, <1>6, <1>8, <1>10, <2>1, <2>2 DEF GrowInv
<1> QED
  BY <1>13, <1>14

\* A set whose shorter sides are all there is merged, among the children of the set
\* without its two largest items.
LEMMA Merged ==
  ASSUME DataInv, RulesInv, GrowInv, NEW size \in 2..LongestRight, size <= ruleLevel,
         NEW R \in RightOf(itemset, size)
  PROVE  /\ R \in MergeRules(Parent(Parent(R)))
         /\ Cardinality(Parent(Parent(R))) = size - 2
         /\ Parent(Parent(R)) \in rightSides \cup {{}}
PROOF
<1>1. size \in Nat /\ size >= 2 /\ size - 1 \in 1..LongestRight /\ size - 1 < ruleLevel /\ ruleLevel \in Nat
  BY DEF LongestRight, GrowInv
<1>2. itemset \in Frequent
  BY DEF GrowInv
<1>3. R \in (SUBSET itemset) \ {{}, itemset} /\ Cardinality(R) = size /\ Confident(itemset, R)
  BY DEF RightOf
<1>4. R \subseteq ItemIds
  BY <1>2, <1>3 DEF Frequent
<1>5. /\ Max(R) \in R /\ Second(R) \in R /\ Second(R) # Max(R)
      /\ Parent(R \ {Second(R)}) = Parent(Parent(R))
      /\ \A nodes : Parent(R) \in nodes /\ R \ {Second(R)} \in nodes => R \in Joined(nodes)
  BY <1>1, <1>3, <1>4, JoinedFrom
<1>6. Parent(R) = R \ {Max(R)} /\ Parent(Parent(R)) = Parent(R) \ {Second(R)}
  BY DEF Parent, Second
<1>7. RightOf(itemset, size - 1) \subseteq rightSides
  BY <1>1 DEF GrowInv
<1>8. Parent(R) \in RightOf(itemset, size - 1) /\ R \ {Second(R)} \in RightOf(itemset, size - 1)
  BY <1>1, <1>2, <1>5, <1>6, ShorterRight
<1>9. R \in Joined({S \in rightSides : Parent(S) = Parent(Parent(R))})
  BY <1>5, <1>7, <1>8
<1>10. R \in MergeRules(Parent(Parent(R)))
  BY <1>3, <1>9 DEF MergeRules
<1>11. Cardinality(Parent(R)) = size - 1 /\ Second(R) \in Parent(R)
  BY <1>5, <1>6, <1>8 DEF RightOf
<1>12. Cardinality(Parent(Parent(R))) = size - 2
  <2>1. Parent(R) \subseteq ItemIds /\ Parent(R) # {}
    BY <1>4, <1>6, <1>11
  <2>2. Cardinality(Parent(R) \ {Second(R)}) = Cardinality(Parent(R)) - 1
    BY <1>11, <2>1, Sizes
  <2> QED
    BY <1>1, <1>6, <1>11, <2>2
<1>13. Parent(Parent(R)) \in rightSides \cup {{}}
  <2>1. CASE size = 2
    <3>1. Cardinality(Parent(Parent(R))) = 0 /\ IsFiniteSet(Parent(Parent(R)))
      <4>1. Parent(Parent(R)) \in SUBSET ItemIds
        BY <1>4, <1>6
      <4> QED
        BY <1>12, <2>1, <4>1, ItemsFinite
    <3> QED
      BY <3>1, FS_EmptySet
  <2>2. CASE size # 2
    <3>1. size - 1 \in Nat /\ size - 1 >= 2 /\ (size - 1) - 1 = size - 2
          /\ size - 2 \in 1..LongestRight /\ size - 2 < ruleLevel
      BY <1>1, <2>2 DEF LongestRight
    <3> DEFINE fewer == size - 1
    <3>2. fewer \in Nat /\ fewer >= 2 /\ Parent(R) \in RightOf(itemset, fewer)
      BY <1>8, <3>1
    <3> HIDE DEF fewer
    <3>3. Parent(R) \ {Second(R)} \in RightOf(itemset, fewer - 1)
      BY <1>2, <1>11, <3>2, ShorterRight
    <3>4. Parent(Parent(R)) \in RightOf(itemset, size - 2)
      BY <1>6, <3>1, <3>3 DEF fewer
    <3> QED
      BY <3>1, <3>4 DEF GrowInv
  <2> QED
    BY <2>1, <2>2
<1> QED
  BY <1>10, <1>12, <1>13

LEMMA InvGenerateRuleLevel == AprioriInv /\ GenerateRuleLevel => AprioriInv'
PROOF
<1> SUFFICES ASSUME AprioriInv, GenerateRuleLevel PROVE AprioriInv'
  OBVIOUS
<1> DEFINE nodes == {R \in rightSides \cup {{}} : Cardinality(R) = ruleLevel - 2}
           last == CHOOSE R \in nodes : \A S \in nodes \ {R} : Before(S, R)
           merged == UNION {MergeRules(R) : R \in nodes}
<1>1. /\ stage = "grow"
      /\ rightSides' = rightSides \cup merged
      /\ rules' = rules \cup RulesOf(itemset, merged)
      /\ IF MergeRules(last) # {} THEN ruleLevel' = ruleLevel + 1 /\ UNCHANGED stage
         ELSE stage' = "rules" /\ UNCHANGED ruleLevel
      /\ UNCHANGED <<dataVars, minsup, minconf, tree, path, itemset>>
  BY DEF GenerateRuleLevel
<1>2. DataInv' /\ stage' \in {"grow", "rules"}
  BY <1>1, DataInvStays
<1>3. DataInv
  BY DEF AprioriInv
<1>4. IdsFitInt' = IdsFitInt
  BY <1>1, DataStays
<1> SUFFICES ASSUME IdsFitInt PROVE RulesInv' /\ (stage' = "grow" => GrowInv')
  BY <1>2, <1>4 DEF AprioriInv
<1>5. RulesInv /\ GrowInv
  BY <1>1 DEF AprioriInv
<1>6. /\ Frequent' = Frequent /\ Due' = Due
      /\ \A Y : Support(Y)' = Support(Y) /\ DueOf(Y)' = DueOf(Y)
      /\ \A Y, size : RightOf(Y, size)' = RightOf(Y, size)
      /\ \A Y, sides : RulesOf(Y, sides)' = RulesOf(Y, sides)
  BY <1>1, RulesStay
<1>7. itemset \in Frequent /\ rightSides \subseteq (SUBSET itemset) \ {{}, itemset}
      /\ ruleLevel \in Nat /\ ruleLevel >= 2 /\ RulesOf(itemset, rightSides) \subseteq rules
  BY <1>5 DEF GrowInv
<1>8. \A R \in merged : R \in (SUBSET itemset) \ {{}, itemset} /\ Confident(itemset, R)
  <2> SUFFICES ASSUME NEW node \in nodes, NEW R \in MergeRules(node)
               PROVE  R \in (SUBSET itemset) \ {{}, itemset} /\ Confident(itemset, R)
    OBVIOUS
  <2>1. R \in Joined({S \in rightSides : Parent(S) = node}) /\ R # itemset /\ Confident(itemset, R)
    BY DEF MergeRules
  <2>2. PICK s \in rightSides \X rightSides : R = s[1] \cup {Max(s[2])}
    BY <2>1 DEF Joined
  <2>3. s[1] \subseteq itemset /\ s[1] # {} /\ s[2] \subseteq itemset /\ s[2] # {}
    BY <1>7, <2>2
  <2>4. Max(s[2]) \in s[2]
    <3>1. s[2] \subseteq ItemIds
      BY <1>7, <2>3 DEF Frequent
    <3> QED
      BY <1>3, <2>3, <3>1, Sizes
  <2> QED
    BY <2>1, <2>2, <2>3, <2>4
<1>9. RulesOf(itemset, merged) \subseteq Due
  BY <1>3, <1>5, <1>7, <1>8, SoundSides
<1>10. RulesOf(itemset, rightSides') \subseteq rules'
  BY <1>1, <1>7 DEF RulesOf
<1>11. \A size \in 2..LongestRight : size = ruleLevel => RightOf(itemset, size) \subseteq merged
  <2> SUFFICES ASSUME NEW size \in 2..LongestRight, size = ruleLevel, NEW R \in RightOf(itemset, size)
               PROVE  R \in merged
    OBVIOUS
  <2>0. size <= ruleLevel
    BY <1>7
  <2>1. R \in MergeRules(Parent(Parent(R))) /\ Parent(Parent(R)) \in nodes
    BY <1>3, <1>5, <2>0, Merged
  <2> QED
    BY <2>1
<1>12. \A size \in 1..LongestRight : size <= ruleLevel => RightOf(itemset, size) \subseteq rightSides'
  <2> SUFFICES ASSUME NEW size \in 1..LongestRight, size <= ruleLevel
               PROVE  RightOf(itemset, size) \subseteq rightSides'
    OBVIOUS
  <2>1. CASE size < ruleLevel
    BY <1>1, <1>5, <2>1 DEF GrowInv
  <2>2. CASE size = ruleLevel
    <3>1. size \in 2..LongestRight
      BY <1>7, <2>2 DEF LongestRight
    <3> QED
      BY <1>1, <1>11, <2>2, <3>1
  <2> QED
    BY <1>7, <2>1, <2>2 DEF LongestRight
<1>13. stage' = "rules" => \A size \in 1..LongestRight : RightOf(itemset, size) \subseteq rightSides'
  <2> SUFFICES ASSUME MergeRules(last) = {}, NEW size \in 1..LongestRight, ~(size <= ruleLevel)
               PROVE  RightOf(itemset, size) = {}
    BY <1>1, <1>12
  <2>1. size = 3 /\ ruleLevel = 2
    BY <1>7 DEF LongestRight
  <2>2. nodes = {{}}
    <3>1. ASSUME NEW R \in rightSides
          PROVE  Cardinality(R) # 0
      <4>1. R \subseteq ItemIds /\ R # {}
        BY <1>7 DEF Frequent
      <4> QED
        BY <1>3, <4>1, Sizes
    <3>2. ruleLevel - 2 = 0 /\ Cardinality({}) = 0
      BY <2>1, FS_EmptySet
    <3> QED
      BY <3>1, <3>2
  <2>3. last = {}
    <3> HIDE DEF nodes
    <3>1. {} \in nodes /\ nodes \ {{}} = {}
      BY <2>2
    <3>2. last \in nodes
      BY <3>1
    <3> QED
      BY <2>2, <3>2
  <2>4. merged = {}
    BY <2>2, <2>3
  <2>5. RightOf(itemset, 2) = {}
    BY <1>11, <2>1, <2>4 DEF LongestRight
  <2>6. 3 \in Nat /\ 3 >= 2 /\ 3 - 1 = 2
    OBVIOUS
  <2> QED
    BY <1>3, <1>5, <1>7, <2>1, <2>5, <2>6, NoLongerRight
<1> HIDE DEF merged, nodes, last
<1>14. stage' = "rules" => DueOf(itemset) \subseteq rules'
  BY <1>3, <1>5, <1>7, <1>10, <1>13, ShortSides
<1>15. RulesInv'
  <2>1. tree' = [Y \in Frequent' |-> Support(Y)']
    BY <1>1, <1>5, <1>6 DEF RulesInv
  <2>2. path' \subseteq Frequent' /\ (\A Y \in path' : Cardinality(Y) >= 2) /\ stage' # "done"
    BY <1>1, <1>2, <1>5, <1>6 DEF RulesInv
  <2>3. rules' \subseteq Due'
    BY <1>1, <1>5, <1>6, <1>9 DEF RulesInv
  <2>4. ASSUME NEW Y \in Frequent
        PROVE  Y \in path' \/ (stage' = "grow" /\ Y = itemset') \/ DueOf(Y) \subseteq rules'
    <3>1. Y \in path \/ Y = itemset \/ DueOf(Y) \subseteq rules
      BY <1>5 DEF RulesInv
    <3> QED
      BY <1>1, <1>2, <1>14, <3>1
  <2> QED
    BY <1>6, <2>1, <2>2, <2>3, <2>4 DEF RulesInv
<1>16. stage' = "grow" => GrowInv'
  <2> SUFFICES ASSUME stage' = "grow" PROVE GrowInv'
    OBVIOUS
  <2>1. ruleLevel' = ruleLevel + 1
    BY <1>1, <1>2
  <2>2. rightSides' \subseteq (SUBSET itemset) \ {{}, itemset}
    BY <1>1, <1>7, <1>8
  <2>3. \A size \in 1..LongestRight : size < ruleLevel' => RightOf(itemset, size) \subseteq rightSides'
    BY <1>7, <1>12, <2>1 DEF LongestRight
  <2>4. ruleLevel' \in Nat /\ ruleLevel' >= 2
    BY <1>7, <2>1
  <2> QED
    BY <1>1, <1>5, <1>6, <1>10, <2>2, <2>3, <2>4 DEF GrowInv, LongestRight
<1> QED
  BY <1>15, <1>16

LEMMA InvFinish == AprioriInv /\ FinishRules => AprioriInv'
PROOF
<1> SUFFICES ASSUME AprioriInv, FinishRules PROVE AprioriInv'
  OBVIOUS
<1>1. /\ stage = "rules" /\ path = {} /\ stage' = "done"
      /\ UNCHANGED <<dataVars, minsup, minconf, tree, rules, path>>
  BY DEF FinishRules, ruleVars
<1>2. DataInv' /\ IdsFitInt' = IdsFitInt
  BY <1>1, DataInvStays, DataStays
<1> SUFFICES ASSUME IdsFitInt PROVE RulesInv'
  BY <1>1, <1>2 DEF AprioriInv
<1>3. /\ Frequent' = Frequent /\ Due' = Due
      /\ \A Y : Support(Y)' = Support(Y) /\ DueOf(Y)' = DueOf(Y)
  BY <1>1, RulesStay
<1>4. RulesInv
  BY <1>1 DEF AprioriInv
<1> QED
  BY <1>1, <1>3, <1>4 DEF RulesInv

-----------------------------------------------------------------------------
(* The theorem. *)

LEMMA InvStart == AprioriInit => AprioriInv
PROOF
<1> SUFFICES ASSUME AprioriInit PROVE AprioriInv
  OBVIOUS
<1>1. DOMAIN transactions = {}
  BY DEF AprioriInit
<1> QED
  BY <1>1, FS_EmptySet, FractionsAssumption DEF AprioriInit, AprioriInv, DataInv

LEMMA InvStutter == AprioriInv /\ UNCHANGED aprioriVars => AprioriInv'
PROOF
<1> SUFFICES ASSUME AprioriInv, UNCHANGED aprioriVars PROVE AprioriInv'
  OBVIOUS
<1>1. UNCHANGED <<dataVars, minsup, minconf, tree, candidates, levelNum, count, lastVisited, uncounted,
                  path, itemset, rightSides, ruleLevel, rules, stage>>
  BY DEF aprioriVars, searchVars, ruleVars
<1>2. UNCHANGED <<universe, transactions>>
  BY <1>1 DEF dataVars
<1>3. DataInv'
  BY <1>1, <1>2 DEF AprioriInv, DataInv, ItemIds
<1>4. /\ ItemIds' = ItemIds /\ Frequent' = Frequent /\ Due' = Due /\ IdsFitInt' = IdsFitInt
      /\ \A X : Support(X)' = Support(X) /\ DueOf(X)' = DueOf(X)
      /\ \A sizes : FrequentOf(sizes)' = FrequentOf(sizes)
  BY <1>1, DataStays
<1> SUFFICES ASSUME IdsFitInt
             PROVE  /\ stage = "count" => CandidatesInv' /\ CountsInv'
                    /\ stage \in {"rules", "grow", "done"} => RulesInv'
                    /\ stage = "grow" => GrowInv'
  BY <1>1, <1>3, <1>4 DEF AprioriInv
<1>5. stage = "count" => CandidatesInv' /\ CountsInv'
  <2> SUFFICES ASSUME stage = "count" PROVE CandidatesInv' /\ CountsInv'
    OBVIOUS
  <2>1. CandidatesInv /\ CountsInv
    BY DEF AprioriInv
  <2>2. CandidatesInv'
    BY <1>1, <1>4, <2>1 DEF CandidatesInv
  <2>3. CountsInv'
    BY <1>1, <1>2, <2>1 DEF CountsInv, Counted, Leaves, AsInt
  <2> QED
    BY <2>2, <2>3
<1>6. stage \in {"rules", "grow", "done"} => RulesInv'
  BY <1>1, <1>4 DEF AprioriInv, RulesInv
<1>7. stage = "grow" => GrowInv'
  <2>1. /\ \A X, size : RightOf(X, size)' = RightOf(X, size)
        /\ \A X, sides : RulesOf(X, sides)' = RulesOf(X, sides)
    BY <1>1, RulesStay
  <2> QED
    BY <1>1, <1>4, <2>1 DEF AprioriInv, GrowInv, LongestRight
<1> QED
  BY <1>5, <1>6, <1>7

LEMMA InvStep == AprioriInv /\ [AprioriNext]_aprioriVars => AprioriInv'
PROOF
<1> SUFFICES ASSUME AprioriInv, [AprioriNext]_aprioriVars PROVE AprioriInv'
  OBVIOUS
<1>1. CASE UNCHANGED aprioriVars
  BY <1>1, InvStutter
<1>2. ASSUME NEW tid, NEW known \in SUBSET ItemIds, NEW fresh \in 0..MaxSize[Kind],
             ReadPair(tid, known, fresh) \/ ReadRow(tid, known, fresh)
      PROVE  AprioriInv'
  <2>1. fresh \in Nat
    OBVIOUS
  <2> QED
    BY <1>2, <2>1, InvReadPair, InvReadRow
<1>3. CASE StartFrequent
  BY <1>3, InvStartFrequent
<1>4. CASE RefuseEmpty
  BY <1>4, InvRefuseEmpty
<1>5. ASSUME NEW tid \in uncounted, CountTransaction(tid)
      PROVE  AprioriInv'
  BY <1>5, InvCountTransaction
<1>6. CASE FinishPass
  BY <1>6, InvFinishPass
<1>7. CASE StartItemset
  BY <1>7, InvStartItemset
<1>8. CASE GenerateRuleLevel
  BY <1>8, InvGenerateRuleLevel
<1>9. CASE FinishRules
  BY <1>9, InvFinish
<1> QED
  BY <1>1, <1>2, <1>3, <1>4, <1>5, <1>6, <1>7, <1>8, <1>9 DEF AprioriNext

LEMMA InvMines == AprioriInv => MinesExactly
PROOF
<1> SUFFICES ASSUME AprioriInv, stage = "done", IdsFitInt
             PROVE  /\ tree = [X \in Frequent |-> Support(X)] /\ rules \subseteq Due
                    /\ \A r \in Due : Support(r.lhs \cup r.rhs) > 0 /\ Cardinality(r.rhs) <= LongestRight => r \in rules
  BY DEF MinesExactly, Due
<1>1. RulesInv
  BY DEF AprioriInv
<1>2. ASSUME NEW r \in Due, Support(r.lhs \cup r.rhs) > 0, Cardinality(r.rhs) <= LongestRight
      PROVE  r \in rules
  <2>1. PICK X \in Frequent : r \in SplitsOf(X) /\ Holds(r)
    BY DEF Due
  <2>2. r.lhs \cup r.rhs = X
    BY <2>1 DEF SplitsOf
  <2>3. r \in DueOf(X)
    BY <1>2, <2>1, <2>2 DEF DueOf
  <2>4. DueOf(X) \subseteq rules
    BY <1>1 DEF RulesInv
  <2> QED
    BY <2>3, <2>4
<1> QED
  BY <1>1, <1>2 DEF RulesInv

\* For every number of transactions and items, every minsup and minconf, and whatever
\* order the transactions are counted in, the miner ends with the frequent sets and
\* their supports, and with the rules that hold, none with up to three items on the
\* right missing (Apriori::FindFrequent, ARAlgorithm::GenerateRulesFrom).
THEOREM RulesMinedExactly == AprioriSpec => []MinesExactly
PROOF
<1>1. AprioriInit => AprioriInv
  BY InvStart
<1>2. AprioriInv /\ [AprioriNext]_aprioriVars => AprioriInv'
  BY InvStep
<1>3. AprioriInv => MinesExactly
  BY InvMines
<1> QED
  BY <1>1, <1>2, <1>3, PTL DEF AprioriSpec

=============================================================================
