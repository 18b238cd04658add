--------------------------- MODULE MCTaskPipeline ---------------------------
(* Instances of TaskPipeline for TLC: one task with every fault, a restart  *)
(* included, and two tasks that compete for one slot.                       *)
EXTENDS TaskPipeline

CONSTANTS r1, r2, deps, clusters

MCRequests == {r1, r2}
OneRequest == {r1}
OneConfig == {deps}
MCConfigs == {deps, clusters}
MCClusterConfigs == {clusters}
NoConfigs == {}

AllFaults == FaultKinds
ProgressFaults == {"algorithm", "memory", "database", "deletion"}
DatabaseFault == {"database"}
AlgorithmFault == {"algorithm"}
NoFaults == {}

=============================================================================
