-------------------------------- MODULE Apriori --------------------------------
(***************************************************************************)
(* Association rules by Apriori (Apriori, ARAlgorithm): the transactions   *)
(* are read from a file of pairs or of rows; frequent sets of items are    *)
(* found level by level, the candidates of a level being counted through   *)
(* a tree that hashes their items (CandidateHashTree); rules are then made *)
(* of each frequent set, right-hand sides growing item by item.            *)
(*                                                                         *)
(* Items are their identifiers, given in order of appearance; a node of    *)
(* the tree of frequent sets is the set of its items, its parent the same  *)
(* set without the largest.  Supports are counts of transactions.          *)
(***************************************************************************)
EXTENDS Integers, Sequences, FiniteSetsExt, TLC

CONSTANTS
  Ids,          \* identifiers a file may give to transactions
  IntWidth,     \* the width of an int, narrower than a size_t
  Fractions,    \* values of minsup and minconf: numerator and denominator
  MaxRows,      \* bound: MaxRows[Kind] rows are read
  MaxSize       \* bound: rows and items are at most MaxSize[Kind] together

ASSUME FractionsAssumption == Fractions \subseteq Nat \X (Nat \ {0})

VARIABLES
  format,        \* input_format_: "singular" or "tabular"
  hasTid,        \* first_column_tid_ of a tabular file
  rows,          \* the number of rows read
  universe,      \* the size of item_universe_
  transactions,  \* transactions_: the items of each identifier
  minsup, minconf,
  tree,          \* root_: the count of each frequent set found
  candidates,    \* candidates_ of the level
  levelNum,      \* level_num_
  count,         \* transaction_count of each candidate
  lastVisited,   \* last_visited_transaction_id of each leaf of the hash tree
  uncounted,     \* transactions PerformCounting has yet to come to
  path,          \* frequent sets GenerateAllRules has yet to come to
  itemset,       \* the one rules are made of
  rightSides,    \* the rules made of it, as nodes of a tree
  ruleLevel,     \* level_number of GenerateRuleLevel
  rules,         \* ar_collection_
  stage          \* "read", "count", "rules", "grow", "done" or "refused"

dataVars == <<format, hasTid, rows, universe, transactions>>
searchVars == <<candidates, levelNum, count, lastVisited, uncounted>>
ruleVars == <<path, itemset, rightSides, ruleLevel, rules>>
aprioriVars == <<dataVars, minsup, minconf, tree, searchVars, ruleVars, stage>>

ItemIds == 0..universe - 1

AprioriInit ==
  /\ format \in {"singular", "tabular"} /\ hasTid \in BOOLEAN
  /\ (format = "singular" => hasTid)
  /\ rows = 0 /\ universe = 0 /\ transactions = <<>>
  /\ minsup \in Fractions /\ minconf \in Fractions
  /\ tree = <<>> /\ candidates = {} /\ levelNum = 1
  /\ count = <<>> /\ lastVisited = <<>> /\ uncounted = {}
  /\ path = {} /\ itemset = {} /\ rightSides = {} /\ ruleLevel = 0 /\ rules = {}
  /\ stage = "read"

-----------------------------------------------------------------------------
(* FitInternal. *)

ItemsOf(tid) == IF tid \in DOMAIN transactions THEN transactions[tid] ELSE {}

\* A row with these items met before, and new ones.
Met(known, fresh) == known \cup universe..universe + fresh - 1

\* A file holds pairs, rows with an identifier, or rows that are numbered.
Kind == IF format = "singular" THEN "pairs" ELSE IF hasTid THEN "named" ELSE "numbered"

Fits(fresh) ==
  /\ stage = "read" /\ rows < MaxRows[Kind]
  /\ rows + 1 + universe + fresh <= MaxSize[Kind]

Learn(fresh) ==
  /\ rows' = rows + 1 /\ universe' = universe + fresh
  /\ UNCHANGED <<format, hasTid, minsup, minconf, tree, searchVars, ruleVars, stage>>

\* A pair adds its item to the transaction.
ReadPair(tid, known, fresh) ==
  /\ format = "singular" /\ Cardinality(known) + fresh = 1 /\ Fits(fresh)
  /\ transactions' =
       [t \in DOMAIN transactions \cup {tid} |->
          ItemsOf(t) \cup (IF t = tid THEN Met(known, fresh) ELSE {})]
  /\ Learn(fresh)

\* A row is a transaction, unless there is one of its identifier already; without
\* identifiers the rows are numbered.
ReadRow(tid, known, fresh) ==
  /\ format = "tabular" /\ Fits(fresh)
  /\ transactions' =
       [t \in DOMAIN transactions \cup {tid} |->
          IF t \in DOMAIN transactions THEN transactions[t] ELSE Met(known, fresh)]
  /\ Learn(fresh)

-----------------------------------------------------------------------------
(* CandidateHashTree: a node is the hashes on the way to it. *)

\* Identifiers are size_t; leaves remember them as int.
AsInt(tid) ==
  LET low == tid % 2^IntWidth IN IF low < 2^(IntWidth - 1) THEN low ELSE low - 2^IntWidth

Threshold(cands, degree) == Cardinality(cands) \div degree + 1

\* The hash of the items, from the smallest up.
Hashes(items, degree) ==
  LET Item(i) == CHOOSE x \in items : Cardinality({y \in items : y < x}) = i - 1
  IN  [i \in 1..Cardinality(items) |-> Item(i) % degree]

\* The node a candidate is kept in: as high as there are not too many with the
\* same hashes, or no items left to tell them apart by.
LeafOf(c, cands, degree) ==
  LET hashes == Hashes(c, degree)
      Crowded(l) == Cardinality({d \in cands : SubSeq(Hashes(d, degree), 1, l) = SubSeq(hashes, 1, l)})
                      > Threshold(cands, degree)
  IN  SubSeq(hashes, 1, Min({l \in 0..Len(hashes) : l = Len(hashes) \/ ~Crowded(l)}))

Leaves == DOMAIN lastVisited

\* FindAndVisitLeaves: the leaves some items of the transaction lead to.
Reached(items) == {leaf \in Leaves : \E S \in SUBSET items : Hashes(S, levelNum) = leaf}

\* Mutant of Visited: a leaf that was reached for any transaction is left alone.
VisitedOnce(tid) == {leaf \in Reached(transactions[tid]) : lastVisited[leaf] = -1}

\* VisitLeaf: a leaf reached in several ways is visited once.
Visited(tid) == {leaf \in Reached(transactions[tid]) : lastVisited[leaf] # AsInt(tid)}

\* The tree is built for the candidates of a level; nothing is counted yet.
StartPass(cands, level) ==
  /\ candidates' = cands
  /\ levelNum' = level
  /\ count' = [c \in cands |-> 0]
  /\ lastVisited' = [leaf \in {LeafOf(c, cands, level) : c \in cands} |-> -1]
  /\ uncounted' = DOMAIN transactions

\* PerformCounting comes to the transactions in the order of a hash table.
CountTransaction(tid) ==
  /\ stage = "count" /\ tid \in uncounted
  /\ LET visited == Visited(tid)
     IN /\ count' = [c \in candidates |->
                       IF LeafOf(c, candidates, levelNum) \in visited /\ c \subseteq transactions[tid]
                       THEN count[c] + 1 ELSE count[c]]
        /\ lastVisited' = [leaf \in Leaves |-> IF leaf \in visited THEN AsInt(tid) ELSE lastVisited[leaf]]
  /\ uncounted' = uncounted \ {tid}
  /\ UNCHANGED <<dataVars, minsup, minconf, tree, candidates, levelNum, ruleVars, stage>>

-----------------------------------------------------------------------------
(* FindFrequent. *)

NumTransactions == Cardinality(DOMAIN transactions)

AtLeast(part, whole, fraction) == part * fraction[2] >= fraction[1] * whole

StartRules ==
  /\ stage' = "rules"
  /\ path' = {X \in DOMAIN tree' : Cardinality(X) >= 2}
  /\ UNCHANGED <<itemset, rightSides, ruleLevel, rules>>

\* Execute: all items are the candidates of the first level.
StartFrequent ==
  /\ stage = "read" /\ NumTransactions > 0
  /\ StartPass({{i} : i \in ItemIds}, 2)
  /\ UNCHANGED <<dataVars, minsup, minconf, tree>>
  /\ IF universe > 0 THEN stage' = "count" /\ UNCHANGED ruleVars ELSE StartRules

\* A file without transactions is refused.
RefuseEmpty ==
  /\ stage = "read" /\ NumTransactions = 0
  /\ stage' = "refused"
  /\ UNCHANGED <<dataVars, minsup, minconf, tree, searchVars, ruleVars>>

\* The last item is not left out: without it the set is known to be frequent.
CanBePruned(X, frequent) == \E i \in X \ {Max(X)} : X \ {i} \notin frequent

Parent(X) == X \ {Max(X)}

\* Siblings are joined two by two.
Joined(nodes) ==
  {s[1] \cup {Max(s[2])} :
     s \in {p \in nodes \X nodes : Parent(p[1]) = Parent(p[2]) /\ Max(p[1]) < Max(p[2])}}

\* The infrequent candidates are pruned, the others become nodes, and the next
\* level is generated from them.
FinishPass ==
  /\ stage = "count" /\ uncounted = {}
  /\ LET kept == {c \in candidates : AtLeast(count[c], NumTransactions, minsup)}
     IN /\ tree' = [X \in kept \cup DOMAIN tree |-> IF X \in kept THEN count[X] ELSE tree[X]]
        /\ StartPass({X \in Joined(kept) : ~CanBePruned(X, DOMAIN tree')}, levelNum + 1)
  /\ UNCHANGED <<dataVars, minsup, minconf>>
  /\ IF candidates' # {} THEN UNCHANGED <<stage, ruleVars>> ELSE StartRules

-----------------------------------------------------------------------------
(* GenerateAllRules.  No number is at least a quotient of zeros. *)

Confident(X, rhs) == tree[X \ rhs] > 0 /\ AtLeast(tree[X], tree[X \ rhs], minconf)

RulesOf(X, sides) == {[lhs |-> X \ rhs, rhs |-> rhs] : rhs \in sides}

\* Frequent sets come by size; rules with one item on the right are made first.
StartItemset ==
  /\ stage = "rules" /\ path # {}
  /\ LET X == CHOOSE Y \in path : \A Z \in path : Cardinality(Y) <= Cardinality(Z)
         singles == {{i} : i \in {j \in X : Confident(X, {j})}}
     IN /\ path' = path \ {X}
        /\ itemset' = X /\ rightSides' = singles /\ ruleLevel' = 2
        /\ rules' = rules \cup RulesOf(X, singles)
        /\ stage' = IF singles = {} THEN "rules" ELSE "grow"
  /\ UNCHANGED <<dataVars, minsup, minconf, tree, searchVars>>

\* MergeRules: children of a node are merged two by two; one side would be empty
\* if all items went to the right.
MergeRules(node) ==
  {rhs \in Joined({R \in rightSides : Parent(R) = node}) : rhs # itemset /\ Confident(itemset, rhs)}

\* The order in which nodes of a size are visited.
Before(R, S) == R # S /\ Min((R \ S) \cup (S \ R)) \in R

\* All nodes of a size are merged; whether there is another level is what the
\* merge of the last of them says.
GenerateRuleLevel ==
  /\ stage = "grow"
  /\ LET nodes == {R \in rightSides \cup {{}} : Cardinality(R) = ruleLevel - 2}
         last == CHOOSE R \in nodes : \A S \in nodes \ {R} : Before(S, R)
         merged == UNION {MergeRules(R) : R \in nodes}
     IN /\ rightSides' = rightSides \cup merged
        /\ rules' = rules \cup RulesOf(itemset, merged)
        /\ IF MergeRules(last) # {} THEN ruleLevel' = ruleLevel + 1 /\ UNCHANGED stage
           ELSE stage' = "rules" /\ UNCHANGED ruleLevel
  /\ UNCHANGED <<dataVars, minsup, minconf, tree, searchVars, path, itemset>>

FinishRules ==
  /\ stage = "rules" /\ path = {}
  /\ stage' = "done"
  /\ UNCHANGED <<dataVars, minsup, minconf, tree, searchVars, ruleVars>>

AprioriNext ==
  \/ \E tid \in IF hasTid THEN Ids ELSE {rows}, known \in SUBSET ItemIds, fresh \in 0..MaxSize[Kind] :
       ReadPair(tid, known, fresh) \/ ReadRow(tid, known, fresh)
  \/ StartFrequent \/ RefuseEmpty
  \/ \E tid \in uncounted : CountTransaction(tid)
  \/ FinishPass \/ StartItemset \/ GenerateRuleLevel \/ FinishRules

-----------------------------------------------------------------------------

Support(X) == Cardinality({tid \in DOMAIN transactions : X \subseteq transactions[tid]})

Frequent == {X \in (SUBSET ItemIds) \ {{}} : AtLeast(Support(X), NumTransactions, minsup)}

\* The identifiers differ as int, and from the one no leaf was visited for.
IdsFitInt ==
  /\ \A tid \in DOMAIN transactions : AsInt(tid) # -1
  /\ \A s, t \in DOMAIN transactions : AsInt(s) = AsInt(t) => s = t

\* No rule has more items on the right: the last node of the first level of rules
\* has nothing to merge, and what it says ends the growth (ARAlgorithm::GenerateRuleLevel).
LongestRight == 3

SplitsOf(X) == {[lhs |-> X \ rhs, rhs |-> rhs] : rhs \in (SUBSET X) \ {{}, X}}

Holds(r) ==
  /\ Support(r.lhs) > 0
  /\ AtLeast(Support(r.lhs \cup r.rhs), Support(r.lhs), minconf)

\* Whatever order the transactions are counted in and whatever leaves the hash tree
\* keeps the candidates in, the frequent sets are found with their supports; rules
\* have minsup and minconf, and none is missing of a set that occurs at all, up to
\* three items on the right (Apriori::FindFrequent, ARAlgorithm::GenerateRulesFrom).
MinesExactly ==
  stage = "done" /\ IdsFitInt =>
    LET due == {r \in UNION {SplitsOf(X) : X \in Frequent} : Holds(r)}
    IN /\ tree = [X \in Frequent |-> Support(X)]
       /\ rules \subseteq due
       /\ \A r \in due : Support(r.lhs \cup r.rhs) > 0 /\ Cardinality(r.rhs) <= LongestRight => r \in rules
=============================================================================
