----------------------------- MODULE MCAlgorithms -----------------------------
(***************************************************************************)
(* The loops of AgreeSetFactory, the options of the metric verifier and    *)
(* what it does with them, the miner of association rules or the one of    *)
(* conditional dependencies, for TLC: one of them runs, the others are at  *)
(* rest.                                                                   *)
(***************************************************************************)
EXTENDS AgreeSetThreads, MCMetricVerifier, Apriori, CTane

CONSTANTS Clusters, Parameters, MaxClusters

VARIABLES running,
          kind, algo, nullIsFar, parameter, verified, holds, highlights, verdict

Metric == INSTANCE MetricFd WITH phase <- verdict

metricVars == <<kind, algo, nullIsFar, parameter, verified, holds, highlights, verdict>>
allVars == <<running, vars, primitiveVars, metricVars, aprioriVars, ctaneVars>>

LoopsAtRest == BarrierInit /\ task = "agree sets"
MetricAtRest ==
  /\ Metric!MetricInit
  /\ kind = "numbers" /\ algo = "brute" /\ ~nullIsFar
  /\ parameter = CHOOSE p \in Parameters : TRUE
RulesAtRest == AprioriInit /\ format = "singular" /\ minsup = <<1, 2>> /\ minconf = <<1, 2>>
CfdsAtRest == CTaneInit /\ minSup = 1 /\ minConf = <<1, 1>> /\ maxLhs = Width

\* Left-hand sides are kept short under one support and confidence only.
MCConfig == maxLhs = 1 => minSup = 1 /\ minConf = <<1, 1>>

\* Patterns of different columns never meet in a check: those of some columns go
\* first.  Bound: sorts leave the order alone where every pattern has the support.
MCOrder ==
  /\ phase = "check" => \A xa \in unchecked \ unchecked' : DOMAIN xa = CHOOSE X \in {DOMAIN p : p \in unchecked} : TRUE
  /\ minSup = 1 => inOrder'

MCInit ==
  /\ running \in {"loops", "options", "metric", "rules", "cfds"}
  /\ IF running = "loops" THEN BarrierInit ELSE LoopsAtRest
  /\ PrimitiveInit
  /\ IF running = "metric" THEN Metric!MetricInit ELSE MetricAtRest
  /\ IF running = "rules" THEN AprioriInit ELSE RulesAtRest
  /\ IF running = "cfds" THEN CTaneInit /\ MCConfig ELSE CfdsAtRest

OthersRest(which) ==
  /\ running = which
  /\ UNCHANGED running
  /\ which # "loops" => UNCHANGED vars
  /\ which # "options" => UNCHANGED primitiveVars
  /\ which # "metric" => UNCHANGED metricVars
  /\ which # "rules" => UNCHANGED aprioriVars
  /\ which # "cfds" => UNCHANGED ctaneVars

MCNext ==
  \/ OthersRest("loops") /\ BarrierNext
  \/ OthersRest("options") /\ PrimitiveNext
  \/ OthersRest("metric") /\ Metric!MetricNext
  \/ OthersRest("rules") /\ AprioriNext
  \/ OthersRest("cfds") /\ CTaneNext /\ MCOrder

\* Of the threads of a loop, and in a call of the options, something that can go on
\* does: no more is asked of the scheduler than that.
MCSpec ==
  /\ MCInit /\ [][MCNext]_allVars
  /\ WF_allVars(OthersRest("loops") /\ BarrierNext)
  /\ WF_allVars(OthersRest("options") /\ Working)

\* The calipers alone, on points of the grid.
CalipersSpec ==
  /\ MCInit /\ running = "metric" /\ algo = "calipers"
  /\ [][OthersRest("metric") /\ Metric!MetricNext]_allVars

\* Null and Blank of MetricFd.  Clusters of numbers and of strings: three values, in any order, or two fields of
\* which one is a null or empty.
MCNull == -1
MCBlank == -2
MCFields == {MCNull, MCBlank, 0, 3}
MCNumbers ==
  [1..3 -> {<<0>>, <<1>>, <<3>>}]
    \cup {c \in [1..2 -> {<<f>> : f \in MCFields}] : \E i \in 1..2 : c[i][1] < 0}
MCStrings == [1..3 -> {<<0>>, <<1>>, <<3>>}] \cup {<<<<0>>, <<f>>>> : f \in MCFields}

\* Clusters of points: two to four of the grid, in its order, and rows that are not
\* points, before and after one.
MCGrid == (0..2) \X (0..2)
MCPlace(p) == 3 * p[1] + p[2]
MCOthers ==
  {<<f, g>> : f \in {MCNull, MCBlank}, g \in {MCNull, MCBlank, 1}}
MCPlane ==
  UNION {{c \in [1..n -> MCGrid] : \A i \in 1..(n - 1) : MCPlace(c[i]) <= MCPlace(c[i + 1])} :
           n \in 2..4}
    \cup {<<p, q>> : p \in MCGrid, q \in MCOthers}
    \cup {<<q, p, r>> : p \in {<<0, 0>>, <<1, 2>>}, q \in MCOthers, r \in MCOthers}
MCClusters == [numbers |-> MCNumbers, strings |-> MCStrings, points |-> MCPlane]
MCMaxClusters == [numbers |-> 2, strings |-> 2, points |-> 1]

\* The rows, and the rows and items together, of each kind of file.
MCRows == [pairs |-> 3, named |-> 2, numbered |-> 3]
MCSize == [pairs |-> 5, named |-> 5, numbered |-> 6]

\* The last identifier of a transaction is the int -1.
MCIds == {0, 1, 7}

MCFractions == {<<0, 1>>, <<1, 2>>}
MCConfs == {<<1, 1>>, <<2, 3>>}

\* The properties of MetricFd, where it runs.
MetricVerdicts == running = "metric" => Metric!MetricVerdicts
CalipersExact == running = "metric" => Metric!CalipersExact
=============================================================================
