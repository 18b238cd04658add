--------------------------- MODULE ParallelForeach ---------------------------
(***************************************************************************)
(* util::parallel_foreach of parallel_for.h: the calling thread cuts a     *)
(* range into slices of equal length, starts a thread for each slice but   *)
(* the last, and treats the rest of the range itself before it joins them. *)
(* When a thread cannot be created its slice, and those that would have    *)
(* come after it, fall to the calling thread.                              *)
(*                                                                         *)
(* A call of f is one step here; AgreeSetThreads has an f that waits.      *)
(***************************************************************************)
EXTENDS Integers

CONSTANTS
  Length,       \* std::distance(begin, end)
  Threads,      \* threads_num_max
  SpawnMayFail  \* whether std::thread may throw std::system_error

ASSUME ForeachAssumption ==
  /\ Length \in Nat
  /\ Threads \in Nat \ {0}
  /\ SpawnMayFail \in BOOLEAN

Items == 0..(Length - 1)

\* threads_num_actual, the calling thread included, and items_per_thread.
ThreadsActual == IF Length <= Threads THEN Length ELSE Threads

\* Mutant: the slices are rounded up.
PerThreadUp == (Length + ThreadsActual - 1) \div ThreadsActual

PerThread == Length \div ThreadsActual

Workers == 1..(ThreadsActual - 1)

VARIABLES
  pc,      \* the calling thread: where it is in parallel_foreach
  next,    \* the calling thread: the iterator p
  spawned, \* threads.size()
  cursor,  \* cursor[w]: the iterator `first` of worker w
  upto,    \* upto[w]: the iterator `last` of worker w
  calls    \* calls[i]: how often f has returned from item i

loopVars == <<pc, next, spawned, cursor, upto, calls>>

Init ==
  /\ pc = "start"
  /\ next = 0
  /\ spawned = 0
  /\ cursor = [w \in Workers |-> 0]
  /\ upto = [w \in Workers |-> 0]
  /\ calls = [i \in Items |-> 0]

Start ==
  /\ pc = "start"
  /\ pc' = IF Length = 0 THEN "returned" ELSE "spawn"
  /\ UNCHANGED <<next, spawned, cursor, upto, calls>>

\* threads.emplace_back(task, prev, p)
Spawn ==
  /\ pc = "spawn"
  /\ spawned + 1 \in Workers
  /\ spawned' = spawned + 1
  /\ next' = next + PerThread
  /\ cursor' = [cursor EXCEPT ![spawned + 1] = next]
  /\ upto' = [upto EXCEPT ![spawned + 1] = next + PerThread]
  /\ UNCHANGED <<pc, calls>>

\* Mutant: p = prev is left out.
SpawnFailsAdvanced ==
  /\ SpawnMayFail
  /\ pc = "spawn"
  /\ spawned + 1 \in Workers
  /\ pc' = "serial"
  /\ next' = next + PerThread
  /\ UNCHANGED <<spawned, cursor, upto, calls>>

\* The catch clause: p = prev and break.
SpawnFails ==
  /\ SpawnMayFail
  /\ pc = "spawn"
  /\ spawned + 1 \in Workers
  /\ pc' = "serial"
  /\ UNCHANGED <<next, spawned, cursor, upto, calls>>

SpawnDone ==
  /\ pc = "spawn"
  /\ spawned + 1 \notin Workers
  /\ pc' = "serial"
  /\ UNCHANGED <<next, spawned, cursor, upto, calls>>

\* for (; p != end; ++p) f(*p)
CallSerial ==
  /\ pc = "serial"
  /\ next < Length
  /\ next' = next + 1
  /\ calls' = [calls EXCEPT ![next] = @ + 1]
  /\ UNCHANGED <<pc, spawned, cursor, upto>>

SerialDone ==
  /\ pc = "serial"
  /\ next = Length
  /\ pc' = "join"
  /\ UNCHANGED <<next, spawned, cursor, upto, calls>>

WorkerDone(w) == cursor[w] = upto[w]

\* thread.join() for all of them.
Return ==
  /\ pc = "join"
  /\ \A w \in 1..spawned : WorkerDone(w)
  /\ pc' = "returned"
  /\ UNCHANGED <<next, spawned, cursor, upto, calls>>

\* The lambda `task`, one item.
CallWorker(w) ==
  /\ w <= spawned
  /\ ~WorkerDone(w)
  /\ cursor' = [cursor EXCEPT ![w] = @ + 1]
  /\ calls' = [calls EXCEPT ![cursor[w]] = @ + 1]
  /\ UNCHANGED <<pc, next, spawned, upto>>

\* What the calling thread does between its calls of f.
CallerControl ==
  Start \/ Spawn \/ SpawnFails \/ SpawnDone \/ SerialDone \/ Return

Next ==
  \/ CallerControl
  \/ CallSerial
  \/ \E w \in Workers : CallWorker(w)

Spec == Init /\ [][Next]_loopVars

-----------------------------------------------------------------------------
\* The iterators stay in the range.
TypeOK ==
  /\ pc \in {"start", "spawn", "serial", "join", "returned"}
  /\ next \in 0..Length
  /\ spawned \in 0..Length
  /\ cursor \in [Workers -> 0..Length]
  /\ upto \in [Workers -> 0..Length]
  /\ calls \in [Items -> Nat]

\* However many threads could be created, f is called exactly once on every
\* item and all calls have returned when parallel_foreach returns.
Promise == INSTANCE ForEach WITH returned <- pc = "returned"
PromiseKept == Promise!Spec

=============================================================================
