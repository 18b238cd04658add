--------------------------- MODULE AgreeSetThreads ---------------------------
(***************************************************************************)
(* AgreeSetFactory::GenAsUsingMapOfIdSets with threads_num > 1: the task   *)
(* given to parallel_foreach keeps one set of agree sets per thread, in a  *)
(* map that is filled by all threads before any of them uses it.  A thread *)
(* enters its key under a mutex on its first item and waits on a condition *)
(* variable until the map has as many keys as there ought to be threads;   *)
(* from then on the map is read without the mutex.  The task of            *)
(* FastFDs::GenDiffSets, which runs in a loop of its own, has no barrier:  *)
(* it appends to one vector under a mutex.                                 *)
(***************************************************************************)
EXTENDS ParallelForeach, FiniteSets

\* The calling thread is 0.
Caller == 0
AllThreads == 0..(ThreadsActual - 1)

VARIABLES
  at,          \* at[t]: where thread t is in the task
  keys,        \* the keys of threads_agree_sets
  initialized, \* map_initialized
  found,       \* found[t]: the items thread t has intersected, or inverted and appended
  task         \* which of the two tasks the loop was given

barrierVars == <<at, keys, initialized, found>>
vars == <<loopVars, barrierVars, task>>

BarrierInit ==
  /\ Init
  /\ at = [t \in AllThreads |-> "test"]
  /\ keys = {}
  /\ initialized = FALSE
  /\ found = [t \in AllThreads |-> {}]
  /\ task \in {"agree sets", "difference sets"}

\* Thread t has an item to treat, namely Item(t).
HasItem(t) ==
  IF t = Caller THEN pc = "serial" /\ next < Length
                ELSE t <= spawned /\ ~WorkerDone(t)
Item(t) == IF t = Caller THEN next ELSE cursor[t]

Goto(t, place) == at' = [at EXCEPT ![t] = place]

\* if (!map_initialized): read without the mutex.
TestInitialized(t) ==
  /\ task = "agree sets"
  /\ HasItem(t)
  /\ at[t] = "test"
  /\ Goto(t, IF initialized THEN "insert" ELSE "enter")
  /\ UNCHANGED <<loopVars, keys, initialized, found>>

\* Mutant: nobody waits for the map to be complete.
EnterMapOnly(t) ==
  /\ HasItem(t)
  /\ at[t] = "enter"
  /\ keys' = keys \cup {t}
  /\ initialized' = (initialized \/ Cardinality(keys') = ThreadsActual)
  /\ Goto(t, "insert")
  /\ UNCHANGED <<loopVars, found>>

\* Mutant: the map is counted before the key is inserted.
EnterMapLate(t) ==
  /\ HasItem(t)
  /\ at[t] = "enter"
  /\ keys' = keys \cup {t}
  /\ initialized' = (initialized \/ Cardinality(keys) = ThreadsActual)
  /\ Goto(t, IF initialized' THEN "insert" ELSE "wait")
  /\ UNCHANGED <<loopVars, found>>

\* Mutant: the calling thread is not counted.
EnterMapEarly(t) ==
  /\ HasItem(t)
  /\ at[t] = "enter"
  /\ keys' = keys \cup {t}
  /\ initialized' = (initialized \/ Cardinality(keys') >= ThreadsActual - 1)
  /\ Goto(t, IF initialized' THEN "insert" ELSE "wait")
  /\ UNCHANGED <<loopVars, found>>

\* Under map_init_mutex: insert the key; the last one sets the flag and
\* notifies, the others wait, which gives the mutex back.
EnterMap(t) ==
  /\ HasItem(t)
  /\ at[t] = "enter"
  /\ keys' = keys \cup {t}
  /\ initialized' = (initialized \/ Cardinality(keys') = ThreadsActual)
  /\ Goto(t, IF initialized' THEN "insert" ELSE "wait")
  /\ UNCHANGED <<loopVars, found>>

WakeUp(t) ==
  /\ at[t] = "wait"
  /\ initialized
  /\ Goto(t, "insert")
  /\ UNCHANGED <<loopVars, keys, initialized, found>>

\* Mutant: the set is assigned to.
InsertOnly(t) ==
  /\ HasItem(t)
  /\ at[t] = "insert"
  /\ found' = [found EXCEPT ![t] = {Item(t)}]
  /\ Goto(t, "test")
  /\ IF t = Caller THEN CallSerial ELSE CallWorker(t)
  /\ UNCHANGED <<keys, initialized>>

\* threads_agree_sets[thread_id].insert(...) without the mutex, and the task
\* returns to the loop of its thread.
Insert(t) ==
  /\ HasItem(t)
  /\ at[t] = "insert"
  /\ found' = [found EXCEPT ![t] = @ \cup {Item(t)}]
  /\ Goto(t, "test")
  /\ IF t = Caller THEN CallSerial ELSE CallWorker(t)
  /\ UNCHANGED <<keys, initialized>>

\* The other task, under its mutex: the difference set is appended.
PushDiffSet(t) ==
  /\ task = "difference sets"
  /\ HasItem(t)
  /\ found' = [found EXCEPT ![t] = @ \cup {Item(t)}]
  /\ IF t = Caller THEN CallSerial ELSE CallWorker(t)
  /\ UNCHANGED <<at, keys, initialized>>

Task(t) ==
  /\ TestInitialized(t) \/ EnterMap(t) \/ WakeUp(t) \/ Insert(t) \/ PushDiffSet(t)
  /\ UNCHANGED task

LoopControl == CallerControl /\ UNCHANGED <<barrierVars, task>>

BarrierNext == LoopControl \/ \E t \in AllThreads : Task(t)

BarrierSpec == BarrierInit /\ [][BarrierNext]_vars

-----------------------------------------------------------------------------
\* Types of the variables the task adds.
BarrierTypeOK ==
  /\ at \in [AllThreads -> {"test", "enter", "wait", "insert"}]
  /\ keys \in SUBSET AllThreads
  /\ initialized \in BOOLEAN
  /\ found \in [AllThreads -> SUBSET Items]

\* The map is read without a lock only when no thread can insert a key any
\* more: it would be restructured under the reader otherwise.
NoMapRace ==
  \A t \in AllThreads : at[t] = "insert" => keys = AllThreads

\* The flag is tested without the mutex, and still no test races with its
\* being set: before a thread has entered its key nobody can set the flag, and
\* a thread that has entered it was let go by the one that did.
NoFlagRace ==
  \A t \in AllThreads : at[t] = "test" => (initialized <=> t \in keys)

\* What is read without the mutex is not written meanwhile (GenAsOfPliMc).
NoRace == NoMapRace /\ NoFlagRace

\* agree_sets, merged after the loop, misses no cluster; diff_sets_ no agree set.
AllMerged ==
  pc = "returned" => UNION {found[t] : t \in AllThreads} = Items

\* The loop of the difference sets returns whatever threads could be created.  That
\* of the agree sets returns when every thread could: otherwise the others wait for
\* the key of the missing one for ever, as the NOTE above the task says.
LoopsReturn ==
  pc = "serial" /\ (task = "difference sets" \/ spawned = ThreadsActual - 1) ~> pc = "returned"

=============================================================================
