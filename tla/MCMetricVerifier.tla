--------------------------- MODULE MCMetricVerifier ---------------------------
(* An instance of MetricVerifier for TLC: datasets for every metric and one   *)
(* that cannot be loaded, arguments of which some are refused.                *)
EXTENDS MetricVerifier

MCDatasets == {<<"number", "number", "string">>, <<>>}

\* Two datasets whose first columns have different types.
RefitDatasets == {<<"number">>, <<"string">>}

\* What callers set themselves: a value that asks for other options, the argument
\* that is missing below and one that only two numeric columns take.
MCValues(o) ==
  CASE o = "metric" -> {"levenshtein"}
    [] o = "metric_algorithm" -> {"brute", "calipers"}
    [] OTHER -> {}

\* The arguments of a call, of which those that are not named are missing.
Arguments(metric, rhs, algo, parameter) ==
  [o \in MetricOptions |->
     CASE o = "metric" -> metric
       [] o = "rhs_indices" -> rhs
       [] o = "metric_algorithm" -> algo
       [] o = "parameter" -> parameter
       [] o = "lhs_indices" -> {1}
       [] OTHER -> NoValue]

MCKeywordArgs ==
  {Arguments("euclidean", {1, 2}, "calipers", 1), Arguments("cosine", {3}, NoValue, 1)}

\* Arguments that <<"number">> takes.
RefitKeywordArgs == {Arguments("euclidean", {1}, "brute", 1)}
=============================================================================
