------------------------------ MODULE TaskPool ------------------------------
(* What the pipeline promises to somebody who sees neither the queue, nor   *)
(* the containers, nor restarts: a pool of at most Size runs, one per task  *)
(* at a time, and tasks that get published by a run of their own only.      *)
EXTENDS Naturals, FiniteSets

CONSTANTS
  Tasks,
  Size       \* runs at a time

VARIABLES
  running,   \* the tasks that have a run
  published  \* the tasks whose results can be read

vars == <<running, published>>

Init ==
  /\ running = {}
  /\ published = {}

\* A task gets a run if it has none and the pool is not full.
Begin(t) ==
  /\ t \notin running
  /\ Cardinality(running) < Size
  /\ running' = running \cup {t}
  /\ UNCHANGED published

\* A run ends without a result: it failed, or was stopped.
End(t) ==
  /\ t \in running
  /\ running' = running \ {t}
  /\ UNCHANGED published

\* A run ends with its result published.
Publish(t) ==
  /\ t \in running
  /\ running' = running \ {t}
  /\ published' = published \cup {t}

\* The results are deleted, whether or not the task is being run again.
Withdraw(t) ==
  /\ t \in published
  /\ published' = published \ {t}
  /\ UNCHANGED running

Next == \E t \in Tasks : Begin(t) \/ End(t) \/ Publish(t) \/ Withdraw(t)

Spec == Init /\ [][Next]_vars

=============================================================================
