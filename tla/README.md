# Desbordante in TLA+

Desbordante is a data profiler: a C++ library of discovery algorithms, and a
web application in which a GraphQL server takes profiling tasks, a Python
process starts a container per task, and the container runs one algorithm and
writes its results to the database. This directory holds TLA+ modules of the
parts of it that have a protocol and of the discovery algorithms, checked
against what they are meant to find, and proofs, checked by TLAPS, of what
holds for any size.

Paths are relative to the root of the repository; `AbstractCreator.ts` is
`web-app/server/src/graphql/schema/TaskCreating/Creator/AbstractCreator.ts`.
`PROJECT.json` lists the components, the runs, the lines each definition
stands for, the hazards found in the code and the theorems.

    tlc -config Pipeline_faults.cfg MCTaskPipeline    # one of the runs
    tlapm TaskPipelineProofs.tla                      # one of the proofs

## 1. The system

| Part | State it keeps | Operations | Talks to |
|---|---|---|---|
| GraphQL server (`web-app/server`) | none between requests, all in PostgreSQL | `createTask`, `deleteTask`, accounts, datasets, queries of results | database, topic `tasks` |
| Task tables (`db/models/TaskData`) | `TasksState` (status, progress, isExecuted), general and specific configuration, result, per task | rows created by the server, updated by consumer and container, deleted by the server | |
| Topic `tasks` | a log and the offsets of one group | `produce`, `poll`, automatic commits | server, python-consumer |
| python-consumer | the dict `containers`, in memory | start, watch, time out and remove containers; remove dangling ones at start | topic, docker, database |
| cpp-consumer | one process per task, exit code | check, claim, mine, save, publish, report a failure | database, library |
| Accounts and sessions | users, roles, codes, sessions, devices | register, confirm, log in, refresh, log out, change password | database, mail |
| Datasets | `FileInfo`, files on disk, column statistics | upload, validation, built-in datasets at start | database, disk |
| `Primitive` and its options (`src/algorithms`) | options available and set, values, the data that was fitted | `SetOption`, `UnsetOption`, `Fit`, `Execute` | bindings, console, cpp-consumer |
| Discovery algorithms | lattices, covers, prefix trees, samples | `ExecuteInternal` | PLIs, thread pools |
| Shared structures (`src/util`, `src/core`) | position list indexes, agree sets, caches | creation, intersection, parallel loops | algorithms |
| Web client | local views | polls a task until it is settled | server |

What is hard in them:

* **Interleaving and partial failure.** `createTask` is up to seven awaits without a
  transaction; a delete may come between any two; a container writes the same
  rows. The message goes out *before* the last save of the server.
* **Crashes.** The consumer's dict is lost with the process while its
  containers run on, and offsets are committed by the client library on its own.
* **Time.** The time limit is looked at before the container's state, and one
  iteration of the loop handles one container.
* **Threads.** `parallel_foreach` goes on with fewer threads when one cannot be
  created; the agree-set factory makes its tasks wait for each other inside it.
* **Long legal sequences.** The options of an algorithm form a tree that is
  changed while a loop goes through it, and an object may be fitted again. DFD
  and Pyro take tens of steps, steered by chance, over maps that each step prunes.
* **Pruning.** Every discovery algorithm skips most of what it might look at,
  each by another argument, and a wrong one costs a dependency in some table
  that no test happens to contain.

What makes each part correct: a task in the topic has its rows; it is run once
at a time and by no more containers than allowed; what is readable was saved and
is the result of an algorithm that ended; a stopped run writes nothing more;
every run ends and leaves an outcome. A parallel loop treats each item once
before it returns. An option that is available was asked for, and a run sees
values that agree with each other and with the data. A discovery algorithm
returns the minimal dependencies that hold, each once. An account belongs to one
address, a code is used once and in time, a closed session opens nothing.

## 2. Modules

| Module | What it is |
|---|---|
| `TaskPipeline` | createTask and deleteTask, the tables, the topic, the consumer and its restarts, the containers |
| `TaskPool` | what the pipeline promises: a pool of at most `Size` runs, one per task, and results published by a run of their own |
| `MCTaskPipeline` | instances for TLC |
| `TaskPipelineProofs` | proofs about `TaskPipeline` |
| `ParallelForeach` | `util/parallel_for.h`: slices, threads, their failure to start, the join |
| `ForEach` | what it promises: f once on each item, then the return |
| `AgreeSetThreads` | EXTENDS `ParallelForeach` with the task of `AgreeSetFactory::GenAsUsingMapOfIdSets` in place of f |
| `AgreeSetThreadsProofs` | proofs about both |
| `Primitive` | the life cycle of an algorithm object over any tree of options, which is a parameter |
| `MetricVerifier`, `MCMetricVerifier` | the tree of the metric verifier, and instances for TLC |
| `PrimitiveProofs` | proofs about `Primitive` and the table of the metric verifier |
| `MetricFd` | what the metric verifier does: points, nulls, the three algorithms, the convex hull, highlights |
| `Apriori`, `CTane` | association rules; conditional dependencies |
| `AprioriProofs` | proofs about `Apriori` |
| `MCAlgorithms` | `AgreeSetThreads`, `Primitive`, `MetricFd`, `Apriori` and `CTane` for TLC, one of them at a time |
| `RelationData` | rows read into columns of identifiers, position list indexes, what it means for a dependency to hold |
| `LatticeSearch` | Tane, FUN and FD_Mine |
| `AgreeSetFactory` | the four ways to make agree sets, and the clusters they look at |
| `DifferenceSets` | the other two ways to those clusters, Depminer, FastFDs |
| `NegativeCover` | FDep and Aid, with their own reading of the rows |
| `Hyfd` | HyFD: sampler, inductor, validator |
| `LatticeTraversal` | DFD's random walk |
| `LatticeTraversalProofs` | proofs about it |
| `SearchSpace` | Pyro's search of one space |
| `SearchSpaceProofs` | proofs about it |
| `VerticalMap` | the trie in which both keep sets of columns |
| `PartitionStorage` | the position list indexes DFD and Pyro ask for, kept and built from each other |
| `PartitionStorageProofs` | proofs about it, about the indexes of `RelationData`, and about `TypoMiner` and `AgreeSetFactory` |
| `TypoMiner` | clusters and lines with typos |
| `MCDiscovery` | relations up to the names of their values, with the discovery algorithms and `TypoMiner`, for TLC |
| `MCLattice` | it, `PartitionStorage`, `LatticeTraversal`, `SearchSpace` and `VerticalMap` for TLC, one of them at a time; the properties of the discovery algorithms and of the map under names of their own, for the states in which these run (`LevelwiseIsMinimal` is `LevelwiseFindsMinimal` there, and so on) |

### TaskPipeline

One action per await of the server, per database query of a container and per
branch of the loop of `consumer.py`, since another party can run between any two.

| Model | Code |
|---|---|
| `req`, `Submit` ... `MarkQueued`, `RequestFails` | `AbstractCreator.createTask`: `findSimilarTask`, `findByPk`, `saveToDB` with its four INSERTs, `produce`, the late `save` of `ADDED_TO_THE_TASK_QUEUE` |
| `rows`, `hidden`, `HardDelete`, `SoftDelete` | which rows of a task exist and which are soft-deleted; `deleteTask` in both forms (the soft one is an await per model) |
| `log`, `position`, `committed`, `Poll`, `AutoCommit` | the topic, what the consumer was given, what the group has committed |
| `pc`, `hand`, `active`, `NothingToHandle`, `StopOverdue`, `ReapExited`, `ReapOutOfMemory`, `WriteLimitError`, `SkipPoll`, `Launch` | the iteration of `main`: `check_active_containers`, the limit errors, `MAX_ACTIVE_TASKS`, poll and start |
| `Crash`, `CrashAfterStart`, `RemoveContainer`, `Restart` | the process dies, docker restarts it, dangling containers are removed first |
| `contStep`, `mined`, `Validate` ... `Publish`, `ReportFailure`, `QueryFails`, `OutOfMemory` | `main.cpp` and `task_processor.cpp`, query by query, with what each failing query leads to |

The task that a request creates bears the request's name. A configuration is a
model value, of which those in `ClusterConfigs` are the tasks that skip
`MineDeps`. The contents of results, progress and attempts are left out.

### ParallelForeach and AgreeSetThreads

An item is its position in the range. `cursor[t]` is the iterator of thread t,
`next` that of the caller, `Spawn` and `SpawnFails` the two ends of the `try`
around the creation of a thread. In `AgreeSetThreads` a call of f consists of
`TestInitialized` (the unlocked test of `map_initialized`), `EnterMap` (the
mutex, the thread's key, the wait for all keys), `WakeUp` and `Insert`. A data
race is stated as a property: two threads that are about to touch the same
object, one of them to write it, without the mutex.

### Primitive and MetricVerifier

`Assign` is `SetOption` with a value the option takes, `RefuseOption` with one
that it does not, after `UnsetOption` has already happened. `ConfigureFromMap`
is `TakeNeeded`, then one `SetNext` for each element of the unordered set, in
any order; a refusal ends the call and leaves what was set. `Begin` is a call of
the bindings or of `LoadPrimitive`; `SetDirectly` and `UnsetDirectly` are C++
callers of their own. Option values are real values where conditions and checks
look at them and a dataset is the sequence of the types of its columns.

`ExcludeOptions` erases a child from the available options *before* it calls
`UnsetOption` for it, which therefore returns at once. The child stays set with
its old value, and its own children stay available. The model does what the code
does; for that reason `CoherentUntilRevised` says nothing of an object in which
an option was set a second time.

### Relations and the algorithms that search them

`RelationData` is a state machine of one table: `ReadRow`, `ReadEmptyLine` and
`SkipRow` are what `ColumnLayoutRelationData::CreateFrom` does with a line,
`BuildPlis` what it does at the end of the file. `MinimalFds` is the definition the
searches are held against; it mentions no index, lattice or cover.

A search that is a deterministic function of the table is an operator of it: Tane,
FUN, FD_Mine (`LatticeSearch`), the four ways to make agree sets (`AgreeSetFactory`),
three ways to make the maximal representation, Depminer and FastFDs (`DifferenceSets`), FDep and Aid
with their trees (`NegativeCover`), HyFD (`Hyfd`). The loop of the C++ is a
RECURSIVE operator or a fold, one operator per function of the code, and what the
code iterates in the order of a hash table is tried in every order that can matter.
A property of such a search is an invariant of the table: it holds in each state
in which the indexes are built.

`LatticeTraversal` and `SearchSpace` depend on chance and are state machines. Their
tables are the family of column sets that determine the column, any family that is
closed upwards. In `LatticeTraversal` an action is one pass of the loop of
`FindLHSs` and what it chooses, `GenerateSeeds` is one step of
`GenerateNextSeeds`; the pruning maps are modelled with what they drop.
`SearchSpace` gives an estimate a fresh arbitrary value each time it is asked, and
keeps a stack of the nested spaces. In it the maps are sets of column sets, which is what
`VerticalMap` justifies: under every sequence of calls the trie answers as a
set does, as long as no key is removed that is not there (`IsEmpty` is inverted,
`vertical_map.cpp:54`; no caller does it).

`PartitionStorage` is a call of `GetOrCreateFor` at a time: the cover is chosen
operand by operand (`BeginCover`, `ExtendCover`), the intersections follow
(`BeginJoin`, `Join`, `IntersectAll`) and each may be kept. A call holds the mutex to its end,
so calls of several threads follow one another; the answers are used later,
which is why replacing an index is a hazard.

### MetricFd, Apriori, CTane, TypoMiner

`VerifyCluster` is one call of `cluster_func` on one cluster. Distances and the
parameter are squared so that they are integers. Strings are points of a line, on
which the edit distance of a^n is a distance; the cosine distance of q-gram
vectors is not one, and there the claim of the approximation to be within a
factor of two does not follow (`ApproxVerifyCluster` compares twice the
distance to one point). `Rotate` is the loop of `GetAntipodalPairs`. `algo` is left over
from an earlier run when the right-hand side is one numeric column, as in the code.

`Apriori` reads transactions (`ReadPair`, `ReadRow`), counts the candidates of a
level transaction by transaction through the hash tree
(`CountTransaction`, with the leaf's `int` memory of the last `size_t`
identifier), and makes rules. `CTane` checks a vertex of the level at a time.
`TypoMiner` is given what its two algorithms promise and looks for typos; the
error it allows is a number of pairs of rows.

## 3. What the runs check

| Run | Instance | Shows |
|---|---|---|
| `faults` | 1 task of either kind, 1 slot, 2 lives of the consumer, every fault | types; a message follows its rows; published is saved; exit code 0 means published; limit errors come after the container; no forgotten container, one runner; a settled status only gets worse, except by the late save; the pipeline is a `TaskPool`; every run ends |
| `progress` | 2 tasks, 1 slot, fairness; mining may hang, throw or be killed, queries may fail | one container at a time, every message gets one, every run leaves an outcome, or a container that ends with 2 or 3 |
| `unreported` | violation, under fairness | a container that ends with 2 is forgotten without a report |
| `unmined` | violation | a thrown algorithm is published as a success |
| `hidden` | violation, under fairness | a published task that shows no settled status for ever |
| `algorithms` | 7 items and 5 threads, any of which may fail to start; a metric verifier with all callers; every cluster of 3 numbers or strings and of up to 4 points of a 3 by 3 grid; every small file of transactions; every table of 3 columns and 3 rows | no race, nothing lost, f once on each item, the loop returns; the options agree, configuring ends; verdicts and highlights are right, as far as each algorithm promises; the rules are the frequent and confident ones; the conditional dependencies hold and are minimal |
| `options_refit` | violation, only the bindings' calls | values checked against old data are used with new data |
| `calipers` | violation | the furthest pair of points is missed |
| `lattice`, discovery | every relation of up to 3 columns and 3 rows (4 rows of 2 columns), nulls equal or not, lines of other lengths in tables of up to 2 columns and 3 lines, every binary one of 4 by 4 | indexes are partitions; Tane and FUN find the minimal dependencies; FD_Mine covers them; the maximal representation has the maximal clusters, but for the default way to it, and from it no way to agree sets misses one; Depminer and FastFDs find the minimal ones from complete agree sets; FDep and Aid those between the texts they have read; HyFD misses none; typos mend their dependency, for an error of 1 or 2 pairs and a radius of 2 or none |
| `lattice`, storage | relations of up to 4 rows of 4 columns out of four rows, up to 6 kept indexes | indexes are exact, none is replaced, errors are exact |
| `lattice`, walks | DFD over every family on 4 columns, Pyro over every family on 3 with every bound, the map over 3 | no set classified wrongly; exactly the minimal dependencies; each of Pyro's found once, with none missing and none that is not minimal; the trie is a map; both searches end |
| `nulls` | violation | FDep and Aid take nulls for equal that are not |
| `default_agree_sets` | violation | the default way to agree sets misses one |
| `hyfd` | violation, 5 rows of 4 columns | HyFD reports what does not hold |

**Bounds.** *Pipeline.* One task is enough for every fault to meet every other, its
second container coming from a redelivery; two tasks are needed only where
one waits for the other's slot (`progress`) or the proof does it for any number.
`MaxContainers` is at least the number of requests times the number of lives, so that no
delivery is left out for want of containers. *Loops.* Seven items over five
threads give slices of one and a remainder for the caller. *Options.* The values
include a missing algorithm, calipers under a string metric and a dataset that
cannot be loaded. *Clusters.* Three values are the fewest of which the middle
one can come last; the calipers need a hull of four corners to go wrong. *Relations.* Two rows decide whether a dependency
holds, three and four are needed for indexes with clusters that split and for
agree sets that include each other; three columns give a lattice with a level
between the bottom and the top, four the pruning of a level whose siblings are gone and
HyFD's bug, which needs two columns on the left and a third that differs. The
binary relations of four columns are read in ascending order of their rows, which
no algorithm depends on but the sampler of HyFD, and the least row alone may come twice (`Ascending`);
in narrower relations any row may, anywhere. So do the storage's rows (`RowsAscend`), and the
families of column sets are taken up to the names of the columns (`Sorted`): neither
storage nor walk prefers a row or a column. *Walks.* On four columns a walk goes up, down
and back, and new seeds have two columns. *Order.* `SortLimit` is 4 instead of 16, so that
levels of three columns are out of order; `MCOrder` takes one set of columns at a time, since
patterns of different columns do not prune each other, and checks out of order only where the
least support is not 1. *Identifiers.* `IntWidth` is 3,
so that 7 is the `int` -1. Values are renamed in order of appearance (`Canonical`): no
code compares them across columns.

**Fairness.** `ConsumerStep` is weakly fair: the loop is sequential and its calls
return. `Poll` is strongly fair: it is disabled again and again by the branches
before it, while a message that stays in the topic is delivered at last.
`RecoveryStep` is weakly fair because `docker-compose.yml` says `restart: always`.
`LimitPasses` is weakly fair: time passes. `ContainerQuery` is weakly fair:
queries return. Nothing is assumed of mining, of deletions, of requests or of
commits. Of the threads of a parallel loop some one that can go on does, of a
call of the options and of a search that it goes on; no call is assumed to be made,
and nothing of the order in which a walk chooses.

## 4. What the runs found

1. `unmined`: `TaskProcessor::MineDeps` (`task_processor.cpp:162`) waits for a
   `std::future` and never asks it for its value: an exception of
   `algo_->Execute()` is dropped and the task becomes `COMPLETED` and executed.
2. `hidden`: `createTask` (`AbstractCreator.ts:194`) saves the status after the
   message is out. A fast container is done before, its `COMPLETED` is
   overwritten by `ADDED_TO_THE_TASK_QUEUE`, and the client's loader, which goes on
   only at `COMPLETED`, waits for ever.
3. `options_refit`: `Primitive::ClearOptions` (`primitive.cpp:25`) forgets which
   options there were but not that they are set. After a second `fit` the metric
   verifier runs with column indices and a metric that were checked against the
   old table, against the assertions of `GetClusterFunctionForOneDimension`.
4. `default_agree_sets`: `AgreeSetFactory::CalculateSupersets`
   (`agree_set_factory.cpp:582`) leaves the loop over the clusters at the first one it
   finds inside another. Clusters after it are lost, and with them agree sets:
   Depminer and FastFDs then report dependencies that two rows violate.
5. `hyfd`: `AsVector` (`validator.cpp:44`) makes a vector of as many zeros as there
   are indices and appends to it, so the validator compares the first column
   as well, and accepts what holds only together with it.
6. `calipers`: `GetAntipodalPairs` (`convex_hull.cpp:37`) stops when one of its corners
   has come round, before the pairs of that corner are through; the furthest two
   of (0,1), (0,2), (1,2), (2,0) are not compared, and a metric dependency
   is reported that does not hold.

7. `unreported`: `container_exit_handler` (`consumer.py:47`) matches the integer exit
   code against members of a plain `Enum`, which are never equal. A container that
   could not write its failure ends with 2 and counts on the handler to report it;
   the handler forgets it, and the task stays as it was for ever.
8. `nulls`: `is_null_equal_null` is an option of every `FDAlgorithm` ("specify whether two
   NULLs should be considered equal"), but FDep (`fdep.cpp:36`) and Aid (`aid.cpp:29`)
   compare hashes of texts, empty ones included: with the option false they miss
   or add dependencies in tables with empty fields.

The models follow the code in these further points, which no run is about:

* FDep and Aid read the rows themselves: they stop at the first empty line, where the
  others skip it (or, in a table of one column, take it for a row), cut a longer line, where the others
  skip it, and read past the end of a shorter one, which is undefined.
* CTane counts the rows by the first index of the first column
  (`column_layout_partial_relation_data.h:27`). When that column has fewer fields that are not null than `minsup`,
  it has no index, and the code dereferences the end of a map. `std::sort` of
  a level (`c_lattice_level.cpp:78`) is given a comparison that is no strict weak order,
  so with more than 16 patterns (libstdc++) a special one may come before the general ones:
  then some of the dependencies found are not minimal, though none is missing.
* Tane finds nothing in a table of one row (0/0 in `tane.cpp:38`). FD_Mine never
  finds a dependency with nothing on the left and registers some that are not
  minimal.
* DFD tests the wrong category at `lattice_traversal.cpp:115` and `:122`, and in the
  branch for minimal dependencies of `PickNextNode` (`:152`) nothing ever arrives; neither
  does harm. Nor do Pyro's second removal (`search_space.cpp:46`), its test for a null
  pointer (`:92`) and the last excluded set it leaves out (`:557`), as the proofs show.
* Apriori: what the last node says of the next level of rules overwrites what the
  others said (`ar_algorithm.cpp:128`), so that rules with four or more items on
  the right never come; `MinesExactly` is about those with fewer. With
  `minsup` 0 rules of confidence 0/0 may be missing.
* `TypoMiner`: the fraction is divided by the number of rows, where the header speaks of
  the size of the cluster; frequencies are counted in the cluster, where it speaks of the
  column.

## 5. What is proved

All of it for every value of the constants that satisfies the ASSUME of the
module: finitely many requests, at least one slot and one life, any set of
faults; any length and number of threads; any tree of options; finitely many
columns and any family of dependencies; any relation; any transactions,
with fractions for the thresholds; any table; errors that are numbers of pairs.

**The pipeline.** The invariants build on each other, each proved inductive
with those before it as hypotheses:

* `TypeOK`.
* `LogInv`: a task is in the topic once, and its request is past `produce`.
  Needed because "one container per task" rests on "one message per task".
* `SlotInv`: a container belongs to a task of the topic, an entry of the dict to a
  delivered one, and the task in hand for `Launch` is the last one delivered
  and has no entry. It relates the dict to the delivered prefix of the log: an
  entry cannot be overwritten because the message is delivered once per life,
  and `Restart`, which rewinds to the committed offset, begins with an empty dict.
* `RunInv`: `NoForgottenContainer` and `SoleRunner`, which need each other:
  that the started container is alone follows from the dict holding every
  other one, and that the dict holds it follows from there being no other.
* `LoadInv`: the bound on the dict, the bound in hand at `Launch`, and the bound on
  running containers, which while the consumer is down is inherited from before.
* `RowsInv`: at each await of a request its task has exactly the rows created so
  far, or none.
* `SavedInv`: what each container has achieved at its step, by which
  published results are saved and exit code 0 means published.

From them follow `ContainersRemembered`, `OneRunnerPerTask`,
`LimitErrorAfterStop`, `CapacityRespected`, `MessagesFollowRows`,
`PublishedResultsSaved`, `SuccessPublished`, and `ImplementsPool`: the initial state
maps to that of `TaskPool` and every step to one of its steps or to none.
`SettledInv` says where a settled status can come from: a task without a
container has none, and the run of a task that is run once comes to claim and
to complete before anything was settled. With it every step leaves the status
of such a task or makes it worse (`SettledStands`); the late save of the
server, which the run `hidden` is about, is excepted in the property.

**The loop.** `ForeachInv` says that the slices of the threads follow each other up
to where the caller goes on, and that f was called once on exactly the items that
the iterators have passed. `ImplementsForEach` is the refinement.
`BarrierInv` adds that a thread is let go only when the map has all keys and
that what was called was gathered, for the waiting task and for that of the
difference sets; `BarrierIsForeach` shows that the tasks do not disturb the loop, so
that `ForeachInv` carries over, and `NothingRaced` and `NothingLost` follow.

**Options.** `OptionsInv` joins the tree (an available option that is not there
from the start is a child of one that is set, and an option that is not set has
no children) with the snapshot (what the loop of `ConfigureFromMap` has left is
needed still). It holds although children stay set when they are
excluded, and for any conditions and checks. `OptionsOffered`, `SnapshotSound`.

That what an execution sees is coherent does depend on the tree. `Layered` says on
what: fit and execution share no option, what the check and the offers of an option read
are options on the way from the start to it, and the data. For such a tree `CoherentInv` is
inductive: while nothing was revised after the fit, each option that is available comes
after all it reads, each that is set was accepted with the values the others
still have, and each is there from the start or offered by one that is set. Hence
`RunsCoherent`. `MetricLayered` shows that the table of `metric_verifier.cpp` is
one, hence `MetricRunsCoherent`; its hypothesis `MetricParameters` says no more
than that the parameters of `Primitive` are that table, as in the run.

**DFD's walk.** `SoundInv`: no set has a category that is wrong, the maps hold what
belongs in them, and what is entered as minimal or maximal is so. It has to speak of the candidates a node
still has (`CandidateFresh`) and of the stack the walk goes back
by, since a set becomes minimal because of what its neighbours *were* classified
as. From it `CategoriesAlwaysSound` and `ExtremesAlwaysSound`. `CompleteInv` adds what is
needed to stop with everything found: every non-dependency met leads to a
maximal one (`NonDependenciesLead`), every single column has been met (`SinglesMet`), and the
seeds of a round cover what the maximal non-dependencies escape (`SeedsCover`). If no seed is
left and some minimal dependency were missing, a smallest set among those
that escape (well-founded induction over sizes, `SmallestSet`) would be a seed: hence
`FindsMinimalDependencies`.

**Pyro's search.** `FindsEachOnce`: when the search of a space stops, each minimal
dependency within the bound was registered once, and nothing else was,
whatever the estimates say and in whatever order candidates come. `SearchInv`
joins

* `KnowledgeInv`: what the local and the global visitees say is so, and below a
  dependency of the global ones all that is minimal was registered already. The
  last part is why skipping at a known dependency loses nothing, and why nothing
  is registered twice.
* `TrickleInv` and `FramesInv`: the alleged dependencies below a peak are
  dependencies none of which is below another; and a frame of the recursion
  still has in its queue, or has set aside by an estimate, each dependency right below it.
  By these "extremal" is said of minimal sets only.
* `PadsInv`: each minimal dependency in the scope of a space that is not yet
  registered lies above a launch pad that is left or in hand. `OuterInv` says the same of
  the spaces that wait for a nested one: what is minimal below their peak is
  alleged, or in the scope of the nested space.
* `EmptyInv`: if the empty set is a dependency, nothing else is ever looked at.

At the end there is neither a pad nor a waiting space, and `PadsInv` leaves
nothing to be found.

**Association rules.** `RulesMinedExactly`. `CandidatesInv`: the frequent sets of a size
are among the candidates, since support falls as sets grow and
`GenerateCandidates` joins two frequent sets that differ in the last item.
`CountsInv`: a candidate was counted once for each transaction come to that has its items,
because every leaf with such a candidate is reached (`AllVisited`) and the number of the
last visitor tells a leaf that is reached twice. That is where identifiers must fit an int: -1,
or two that are the same as ints, would be taken for a visit made. `RulesInv`
and `GrowInv`: the rules are those that hold, and of each set that is done with
none is missing whose right-hand side has at most three items; a longer one may
be, as section 4 says.

**Conditional dependencies.** `CfdsFound`: when CTane ends, all dependencies are found
that have the support and the confidence and that none more general
implies, whatever the least support (at least a row: the confidence of none is 0 / 0),
the least confidence and `max_lhs`. They are all that is found while `inOrder` holds, that is
while the sorts leave the patterns of the same columns in the order of their values; whatever the sorts do,
none found is implied by one of fewer columns. Nothing is said of runs that
come to `Undefined`: a first column without an index, or a comparison that sends `std::sort`
beyond what it guarantees. A dependency that holds exactly
takes candidates away from the vertices of its own level, some of them checked, some
not, so that what a vertex has left depends on the order. The invariant `CTaneInv`
says what it does not depend on:

* `Rest` is what a pattern has left once its level is done: the candidates that fit it,
  but for those that lie outside a left-hand side from which one of its columns follows.
  `Start` is what its parents have left in common. Both are stated by the table alone;
  what is gone stays gone above (`GoneRises`).
* While a level is checked, a vertex has part of its `Start`, and of what it lacks
  `TakenAway` names a checked vertex that took it. `AllTaken` says that a checked vertex
  whose left-hand side is `Least` (no more general one will do) has taken away all it
  had to.
* `Caught`: where a candidate is left that a least left-hand side takes away, that
  left-hand side has all the other columns of the vertex, or it would have taken the candidate
  away in a level below, and its vertex is still unchecked. Thus a vertex that is
  come to has its column for a candidate unless something implies the dependency
  (`NotImpliedIsCandidate`), in any order; and what is implied is no candidate
  (`CandidateIsNotImplied`) when it is by fewer columns, or when more general vertices
  come first, as they do in order (`GeneralFirst`).
  And when none is unchecked, what is left is `Rest` (`RhsIsRest`).
* `PrunedInv` and `NextLevelIs`: the pruned level has every pattern with the support
  and something left, so the next one has every pattern for which something is due; a
  level without vertices is the last because no later one has any (`NoneLater`).

That the confidence computed from clusters is that of the rows (`ConfidenceIs`) is
a theorem too: `CalculatePartitionError` finds the largest cluster inside another by its
last row, and the most rows that can be kept is a sum of the most in each cluster
(`MostKeptIs`, `PartitionErrorIs`, with sums by `SumOfParts`).

**The storage.** `PliOfExact`: an index made column by column, from the clusters of
the first and the probing tables of the others, is the partition by all of them
(`IndexesArePartitions`). `StorageOK`: each index kept is the partition by its columns, and
of the cover under construction each operand is maximal among those kept, so
that the unions of operands and the joins of the cover are not kept yet.
Exactness of an intersection (`IntersectExact`, `ProbeAllExact`) is proved from the
probing tables, with zero for a row that is alone. `StorageExact` and
`AnswersStay` follow: nobody is left with an index that was replaced.

`ErrorsAreExact`: the error computed from an index and the probing table of the
right-hand side is the number of pairs of rows that violate the dependency. It counts
pairs twice over: a sum over clusters is the size of a union when the parts are apart
(`SumOfParts`, by induction over the number of clusters), so `CalculateNep`
counts the pairs that agree (`NepExact`), and the blocks of a cluster by the probing
table, rows that are alone left out, the pairs of it that agree on the right
(`BlocksExact`).

**Typos.** `TyposMended`: what only the approximate algorithm finds is violated by some pair
(`ApproxViolated`): if it held, it would be minimal among what holds as well, which is a
part of what nearly holds. So it has clusters that break it, and by the probing table
`FindClustersWithTypos` finds exactly those (`ClustersBroken`). Sorting gives each row once
because no two rows have the same place (`SortedOnce`), and the value taken for the right
one is no rarer than any other (`MostFrequentRight`), so that without the typos the
cluster agrees, nulls apart (`ClusterMended`). Squashing is a fold, and a fold over a range
of numbers is a sequence of states (`FoldExists`, `SquashedByRow`) to which
induction over the numbers applies (`Upward`): `SquashedSoFar` says that the amounts add up to
the number of rows passed, that neighbours differ, and that the last element stands for a run
that goes on to the last row passed. Without the latter, a row that starts an element could still
have the value of the element before.

**Agree sets.** `AgreeSetsFound`: `HandlePartition` comes to the classes from the largest down
and keeps one unless a class that is kept contains it. Sizes, and among classes of a size the
first row that only one of them has (`Leads`), order the classes without ties, so each has one
place (`OrderedBySize`). The fold over them is a sequence of states again (`HandledByClass`): no
class kept is in another, and each class passed is in one that is kept. What comes later is no
larger, so it never contains what is kept, and in the end the maximal classes are left
(`HandledAreMaximal`). In these two rows are together exactly when they agree on some
column (`AgreeTogether`), and on which columns they agree is what the identifier sets have in
common (`IdsMeet`) and where the rows have the same value in the probing tables
(`GetAgreeSetIs`), zero apart. `HandleEqvClass`, which searches the representation from the other side,
is only model-checked (`EqvClassesHandled`, a part of
`DifferencesGiveMinimal`).

**Model-checked only.** Everything under fairness: `EveryMessageIsTried`,
`RunIsAccountedFor`, `EveryRunEnds`, `LoopsReturn`, `ConfigureEnds`, `WalksEnd`
(TLAPS proves no liveness under fairness). What the operators with RECURSIVE
compute, for which the prover has no induction: the properties of discovery in run `lattice` other than
`PliIsPartition`, `AgreeSetsComplete` and `TyposAreMended` (which is `TyposMendDependencies`), `TrieIsMap`, `MetricVerdicts`.
The eight violations are shown by TLC's counterexamples. The type invariants of `LatticeTraversal` and
`PartitionStorage`, on the other hand, are proved and not run.

## 6. What is not modelled

* The web client, the GraphQL types, configuration and start-up: no state.
* Accounts, datasets and column statistics of the server, and `deleteStatsInfo`:
  interleaved resolver calls over tables of their own, first in the plan.
* CSV parsing and typed values: bytes, without a protocol. Algebraic constraints and
  statistics: floating point, which TLC does not have. `parser/json/json.hpp`,
  half of the lines of the C++ sources, is a library that was copied in.
* In DFD: the rebalancing of a pruning map beyond 1000 entries, and the ranking
  of columns, which is any order here.
* In Pyro: the samples the estimates come from, errors allowed in a dependency,
  the threads that take whole search spaces from a list, `VerticalMap::Shrink`,
  which nobody calls.
* In the metric verifier: q-grams and the order of highlights. In CTane: nulls that
  are equal, whose identifier -1 its two orders of patterns treat differently. In
  Apriori: a second `Execute`, which goes on with the sets of the first. In
  TypoMiner: the options it passes on, its second `Fit` and `Execute`.
* In the pipeline: the progress columns, tasks that read the result of a parent
  task, permissions. In `Primitive`: sub-algorithms, progress phases.
* Tables whose rows have fewer fields than `max_cols`, of which `CreateFrom` skips
  every row.

## 7. Plan

1. **FileStats** - `SaveStatsResult`, `deleteStatsInfo` and the client that stops
   asking at progress 100: several tasks of one file, rows keyed by file and
   column. Promise: a file shows no statistics or those of one whole run.
2. **Accounts** - registration, codes, log in, refresh, log out, change of
   password as interleaved resolver calls over `User`, `Code`, `Session`.
   Promise: one account per address, a code opens its account once, a closed
   session stays closed. **Datasets** - upload and validity, built-in datasets
   stored again at each start.
3. The workers of Pyro over one list of search spaces: each space is treated by
   one worker and all of them stop; TypoMiner as an instance of `Primitive` with
   sub-algorithms.
4. Theorems: the uniqueness properties of Accounts for any number of clients;
   `EqvClassesHandled`, and what Depminer and FastFDs compute from the agree sets, once
   the recursion of `LatticeSearch` and `DifferenceSets` is written as functions.
