---------------------------- MODULE MetricVerifier ----------------------------
(***************************************************************************)
(* The options of the metric dependency verifier, the deepest tree of      *)
(* options in the library: metric makes rhs_indices available, and the     *)
(* indices and the metric make the algorithm and the q-gram length so.     *)
(* A dataset is the sequence of the types of its columns, of which         *)
(* "number" and "string" can be compared.                                  *)
(***************************************************************************)
EXTENDS Primitive, Sequences, FiniteSets, Integers

MetricFitOptions == {"equal_nulls"}
MetricExecuteOptions == {"dist_from_null_is_infinity", "parameter", "lhs_indices", "metric"}
MetricOptions ==
  MetricFitOptions \cup MetricExecuteOptions
    \cup {"rhs_indices", "metric_algorithm", "q"}

MetricDefault ==
  [o \in MetricOptions |->
     CASE o = "equal_nulls" -> TRUE
       [] o = "dist_from_null_is_infinity" -> FALSE
       [] o = "q" -> 2
       [] OTHER -> NoValue]

\* ValidateIndices and TransformIndices.
ValidIndices(indices, d) == indices # {} /\ indices \subseteq DOMAIN d

\* ValidateRhs.
ValidRhs(indices, metric, d) ==
  /\ ValidIndices(indices, d)
  /\ IF metric = "euclidean"
       THEN \A i \in indices : d[i] = "number"
       ELSE Cardinality(indices) = 1 /\ \A i \in indices : d[i] = "string"

MetricAccepts(o, v, val, d) ==
  CASE o = "parameter" -> v >= 0
    [] o = "q" -> v > 0
    [] o = "lhs_indices" -> ValidIndices(v, d)
    [] o = "rhs_indices" -> ValidRhs(v, val["metric"], d)
    [] o = "metric_algorithm" ->
         v = "calipers" => /\ val["metric"] = "euclidean"
                           /\ Cardinality(val["rhs_indices"]) = 2
    [] OTHER -> TRUE

\* SetConditionalOpts of metric and of rhs_indices: the first alternative
\* whose condition holds.
MetricOffers(o, v, val) ==
  CASE o = "metric" -> {"rhs_indices"}
    [] o = "rhs_indices" /\ val["metric"] = "cosine" -> {"metric_algorithm", "q"}
    [] o = "rhs_indices" /\ (val["metric"] = "levenshtein" \/ Cardinality(v) # 1) ->
         {"metric_algorithm"}
    [] OTHER -> {}

\* FitInternal throws for a dataset with no columns.
MetricFittable(d) == d # <<>>

-----------------------------------------------------------------------------
\* GetClusterFunctionForOneDimension, metric_verifier.cpp, asserts
\* `col.IsNumeric()` under the euclidean metric and `col.GetTypeId() ==
\* +model::TypeId::kString` under the others.
RhsFitsMetric ==
  call = "running" /\ Cardinality(value["rhs_indices"]) = 1 =>
    \A i \in value["rhs_indices"] \cap DOMAIN data :
      data[i] = IF value["metric"] = "euclidean" THEN "number" ELSE "string"

=============================================================================
