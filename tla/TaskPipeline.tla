---------------------------- MODULE TaskPipeline ----------------------------
(***************************************************************************)
(* The life of a data-profiling task, from the GraphQL mutation that       *)
(* creates it to the moment its results are published:                     *)
(*                                                                         *)
(*   server           createTask in AbstractCreator.ts, deleteTask         *)
(*   TasksState & co  one database row per task, written by every party    *)
(*   topic `tasks`    a log of task ids with one consumer group            *)
(*   python-consumer  the loop of consumer.py, its restarts included       *)
(*   cpp-consumer     one container per delivery, main.cpp and             *)
(*                    task_processor.cpp                                   *)
(*                                                                         *)
(* Every await of the server, every query of a container and every         *)
(* database write of the consumer is a step of its own, because other      *)
(* parties run between them.  The task that a request creates bears the    *)
(* name of the request.                                                    *)
(***************************************************************************)
EXTENDS Naturals, Sequences, FiniteSets

CONSTANTS
  Requests,        \* createTask calls, and the tasks they may create
  Configs,         \* algorithm + parameters + dataset of a task
  ClusterConfigs,  \* the configs mined without MineDeps (typo clusters)
  MaxActiveTasks,  \* config.MAX_ACTIVE_TASKS
  MaxLives,        \* bound: starts of the python-consumer process
  MaxContainers,   \* bound: containers ever created
  Faults,          \* the faults that may happen, a subset of FaultKinds
  None             \* no task, no config

FaultKinds == {"request", "crash", "database", "algorithm", "memory",
               "deletion", "softdeletion"}

ASSUME PipelineAssumption ==
  /\ IsFiniteSet(Requests)
  /\ ClusterConfigs \subseteq Configs
  /\ MaxActiveTasks \in Nat \ {0}
  /\ MaxLives \in Nat \ {0}
  /\ MaxContainers \in Nat
  /\ Faults \subseteq FaultKinds
  /\ None \notin Requests \cup Configs

Tasks == Requests
Containers == 1..MaxContainers

Statuses == {"IN_PROCESS", "COMPLETED", "INTERNAL_SERVER_ERROR",
             "RESOURCE_LIMIT_IS_REACHED", "ADDED_TO_THE_TASK_QUEUE",
             "ADDING_TO_DB"}

RowKinds == {"state", "base", "specific", "result"}

RequestSteps == {"idle", "find", "refetch", "state", "base", "specific",
                 "result", "produce", "mark", "answered", "rejected"}
\* The awaits at which a request can throw.
PendingSteps == RequestSteps \ {"idle", "answered", "rejected"}

RunningSteps == {"validate", "load", "claim", "mine", "recheck", "save",
                 "complete", "publish", "fail"}
ExitSteps == {"exit0", "exit1", "exit2", "exit3"}
ContainerSteps == RunningSteps \cup ExitSteps \cup {"none", "oom", "removed"}

VARIABLES
  req,       \* req[r]: the next await of createTask
  cfg,       \* cfg[r]: the properties the request was made with
  answer,    \* answer[r]: the task returned to the caller
  rows,      \* rows[t]: which rows of task t the database holds
  hidden,    \* hidden[t]: which of them are soft-deleted (deletedAt is set)
  status,    \* status[t]: TasksState.status
  executed,  \* executed[t]: TasksState.isExecuted
  result,    \* result[t]: what the result row holds: "none", "ok", "threw"
  log,       \* the topic `tasks`
  position,  \* messages the consumer has been given
  committed, \* messages the group has committed
  pc,        \* where the loop of consumer.py is
  hand,      \* the taskID the loop is working on
  active,    \* the dict `containers`: task -> container, 0 if absent
  overdue,   \* tasks of the dict started at least TIMELIMIT seconds ago
  life,      \* starts of the consumer process so far
  created,   \* containers created so far
  contTask,  \* contTask[b]: the command-line argument of container b
  contStep,  \* contStep[b]: its next step, or how it ended
  mined      \* mined[b]: how algo_->Execute() ended in container b

serverVars == <<req, cfg, answer>>
tableVars == <<rows, hidden>>
stateVars == <<status, executed>>
kafkaVars == <<log, position, committed>>
consumerVars == <<pc, hand, active, overdue, life>>
containerVars == <<created, contTask, contStep, mined>>
vars == <<serverVars, tableVars, stateVars, result, kafkaVars, consumerVars,
          containerVars>>

-----------------------------------------------------------------------------
Exists(t) == "state" \in rows[t]
Running(b) == contStep[b] \in RunningSteps
Held == {t \in Tasks : active[t] # 0}
InLog == {log[i] : i \in 1..Len(log)}

\* UPDATE "TasksState" SET "status" = s WHERE "taskID" = t: no row, no effect.
SetStatus(t, s) ==
  status' = IF Exists(t) THEN [status EXCEPT ![t] = s] ELSE status

Init ==
  /\ req = [r \in Requests |-> "idle"]
  /\ cfg = [r \in Requests |-> None]
  /\ answer = [r \in Requests |-> None]
  /\ rows = [t \in Tasks |-> {}]
  /\ hidden = [t \in Tasks |-> {}]
  /\ status = [t \in Tasks |-> "ADDING_TO_DB"]
  /\ executed = [t \in Tasks |-> FALSE]
  /\ result = [t \in Tasks |-> "none"]
  /\ log = <<>>
  /\ position = 0
  /\ committed = 0
  /\ pc = "check"
  /\ hand = None
  /\ active = [t \in Tasks |-> 0]
  /\ overdue = {}
  /\ life = 1
  /\ created = 0
  /\ contTask = [b \in Containers |-> None]
  /\ contStep = [b \in Containers |-> "none"]
  /\ mined = [b \in Containers |-> "none"]

-----------------------------------------------------------------------------
(* The server: AbstractCreator.createTask, one action per await.           *)

\* The mutation arrives; forceCreate skips the search for a similar task.
Submit(r) ==
  /\ req[r] = "idle"
  /\ \E c \in Configs, force \in BOOLEAN :
       /\ cfg' = [cfg EXCEPT ![r] = c]
       /\ req' = [req EXCEPT ![r] = IF force THEN "state" ELSE "find"]
  /\ UNCHANGED <<answer, tableVars, stateVars, result, kafkaVars,
                 consumerVars, containerVars>>

\* What the joins of findSimilarTask match: live rows, same properties.
Similar(t, r) ==
  /\ {"state", "base", "specific"} \subseteq rows[t] \ hidden[t]
  /\ cfg[t] = cfg[r]

FindSimilarTask(r) ==
  /\ req[r] = "find"
  /\ \/ /\ ~\E t \in Tasks : Similar(t, r)
        /\ req' = [req EXCEPT ![r] = "state"]
        /\ UNCHANGED answer
     \/ \E t \in Tasks :
          /\ Similar(t, r)
          /\ answer' = [answer EXCEPT ![r] = t]
          /\ req' = [req EXCEPT ![r] = "refetch"]
  /\ UNCHANGED <<cfg, tableVars, stateVars, result, kafkaVars, consumerVars,
                 containerVars>>

\* TaskState.findByPk(similarTask.taskID): null if deleted in the meantime.
RefetchState(r) ==
  /\ req[r] = "refetch"
  /\ IF Exists(answer[r])
       THEN /\ req' = [req EXCEPT ![r] = "answered"]
            /\ UNCHANGED answer
       ELSE /\ req' = [req EXCEPT ![r] = "rejected"]
            /\ answer' = [answer EXCEPT ![r] = None]
  /\ UNCHANGED <<cfg, tableVars, stateVars, result, kafkaVars, consumerVars,
                 containerVars>>

\* saveToDB, first await: TaskState.create({status: "ADDING_TO_DB"}).
CreateState(r) ==
  /\ req[r] = "state"
  /\ rows' = [rows EXCEPT ![r] = {"state"}]
  /\ req' = [req EXCEPT ![r] = "base"]
  /\ UNCHANGED <<cfg, answer, hidden, stateVars, result, kafkaVars,
                 consumerVars, containerVars>>

\* Mutant: the result row is left to somebody else.
NextAwaitNoResult(kind) ==
  IF kind = "base" THEN "specific" ELSE "produce"

NextAwait(kind) == CASE kind = "base" -> "specific"
                     [] kind = "specific" -> "result"
                     [] kind = "result" -> "produce"

\* saveToDB, the other awaits: taskState.$create(...).  The foreign key on
\* TasksState refuses the row when the task was destroyed in between.
CreateRow(r, kind) ==
  /\ req[r] = kind
  /\ kind \in {"base", "specific", "result"}
  /\ IF Exists(r)
       THEN /\ rows' = [rows EXCEPT ![r] = @ \cup {kind}]
            /\ req' = [req EXCEPT ![r] = NextAwait(kind)]
       ELSE /\ req' = [req EXCEPT ![r] = "rejected"]
            /\ UNCHANGED rows
  /\ UNCHANGED <<cfg, answer, hidden, stateVars, result, kafkaVars,
                 consumerVars, containerVars>>

Produce(r) ==
  /\ req[r] = "produce"
  /\ log' = Append(log, r)
  /\ req' = [req EXCEPT ![r] = "mark"]
  /\ UNCHANGED <<cfg, answer, tableVars, stateVars, result, position,
                 committed, consumerVars, containerVars>>

\* task.status = "ADDED_TO_THE_TASK_QUEUE"; await task.save() writes the
\* status column whatever the row holds by now.
MarkQueued(r) ==
  /\ req[r] = "mark"
  /\ SetStatus(r, "ADDED_TO_THE_TASK_QUEUE")
  /\ req' = [req EXCEPT ![r] = "answered"]
  /\ answer' = [answer EXCEPT ![r] = r]
  /\ UNCHANGED <<cfg, tableVars, executed, result, kafkaVars, consumerVars,
                 containerVars>>

\* An await throws (database, broker) or the server process goes away: what
\* the request has written stays written.
RequestFails(r) ==
  /\ "request" \in Faults
  /\ req[r] \in PendingSteps
  /\ req' = [req EXCEPT ![r] = "rejected"]
  /\ UNCHANGED <<cfg, answer, tableVars, stateVars, result, kafkaVars,
                 consumerVars, containerVars>>

\* deleteTask with safeDelete = false, as soon as findByPk finds the state:
\* destroy({force}) and its cascade.
HardDelete(t) ==
  /\ "deletion" \in Faults
  /\ Exists(t)
  /\ rows' = [rows EXCEPT ![t] = {}]
  /\ hidden' = [hidden EXCEPT ![t] = {}]
  /\ UNCHANGED <<serverVars, stateVars, result, kafkaVars, consumerVars,
                 containerVars>>

\* deleteTask with safeDelete = true: the specific config is soft-deleted,
\* then the result; the second may fail after the first has been done.
SoftDelete(t, kind) ==
  /\ "softdeletion" \in Faults
  /\ kind \in rows[t] \ hidden[t]
  /\ \/ kind = "specific"
     \/ kind = "result" /\ "specific" \in hidden[t]
  /\ hidden' = [hidden EXCEPT ![t] = @ \cup {kind}]
  /\ UNCHANGED <<serverVars, rows, stateVars, result, kafkaVars,
                 consumerVars, containerVars>>

ServerStep(r) ==
  \/ Submit(r) \/ FindSimilarTask(r) \/ RefetchState(r) \/ CreateState(r)
  \/ \E kind \in RowKinds : CreateRow(r, kind)
  \/ Produce(r) \/ MarkQueued(r)

Deletion(t) == HardDelete(t) \/ \E kind \in RowKinds : SoftDelete(t, kind)

-----------------------------------------------------------------------------
(* The python-consumer: one iteration of the loop of consumer.py is        *)
(*   check     check_active_containers, which handles one container at     *)
(*             most and leaves the for loop with break                     *)
(*   limit     update_resource_limit_error, after the container is gone    *)
(*   capacity  len(containers) >= MAX_ACTIVE_TASKS, else consumer.poll     *)
(*   launch    create_container and the assignment to containers[taskID]   *)

\* Mutant: the limit is applied to containers that have ended only.
TimedOutIfEnded(t) ==
  t \in Held /\ t \in overdue /\ ~Running(active[t])

TimedOut(t) == t \in Held /\ t \in overdue

\* Mutant: container.stop() is left out.
ForgetUnstopped(t) ==
  /\ active' = [active EXCEPT ![t] = 0]
  /\ overdue' = overdue \ {t}
  /\ UNCHANGED contStep

Forget(t) ==
  /\ contStep' = [contStep EXCEPT ![active[t]] = "removed"]
  /\ active' = [active EXCEPT ![t] = 0]
  /\ overdue' = overdue \ {t}

\* The time limit is looked at first, whether or not the container is done.
StopOverdue(t) ==
  /\ pc = "check"
  /\ TimedOut(t)
  /\ Forget(t)
  /\ hand' = t
  /\ pc' = "limit"
  /\ UNCHANGED <<serverVars, tableVars, stateVars, result, kafkaVars, life,
                 created, contTask, mined>>

\* Mutant: an out-of-memory container is removed like one that exited.
ReapOutOfMemoryUnreported(t) ==
  /\ pc = "check"
  /\ t \in Held /\ ~TimedOut(t)
  /\ contStep[active[t]] = "oom"
  /\ Forget(t)
  /\ pc' = "capacity"
  /\ UNCHANGED <<serverVars, tableVars, stateVars, result, kafkaVars, hand,
                 life, created, contTask, mined>>

ReapOutOfMemory(t) ==
  /\ pc = "check"
  /\ t \in Held /\ ~TimedOut(t)
  /\ contStep[active[t]] = "oom"
  /\ Forget(t)
  /\ hand' = t
  /\ pc' = "limit"
  /\ UNCHANGED <<serverVars, tableVars, stateVars, result, kafkaVars, life,
                 created, contTask, mined>>

\* container_exit_handler.  match compares an int with members of a plain
\* Enum, which are never equal: no case is taken, whatever the exit code, and
\* update_internal_server_error is not called for code 2.
ReapExited(t) ==
  /\ pc = "check"
  /\ t \in Held /\ ~TimedOut(t)
  /\ contStep[active[t]] \in ExitSteps
  /\ Forget(t)
  /\ pc' = "capacity"
  /\ UNCHANGED <<serverVars, tableVars, stateVars, result, kafkaVars, hand,
                 life, created, contTask, mined>>

NothingToHandle ==
  /\ pc = "check"
  /\ \A t \in Held :
       ~TimedOut(t) /\ contStep[active[t]] \notin ExitSteps \cup {"oom"}
  /\ pc' = "capacity"
  /\ UNCHANGED <<serverVars, tableVars, stateVars, result, kafkaVars, hand,
                 active, overdue, life, containerVars>>

WriteLimitError ==
  /\ pc = "limit"
  /\ SetStatus(hand, "RESOURCE_LIMIT_IS_REACHED")
  /\ pc' = "capacity"
  /\ UNCHANGED <<serverVars, tableVars, executed, result, kafkaVars, hand,
                 active, overdue, life, containerVars>>

\* Mutant: off by one.
HasCapacityPlusOne == Cardinality(Held) <= MaxActiveTasks

HasCapacity == Cardinality(Held) < MaxActiveTasks

\* Mutant: an empty or failed poll moves the position.
SkipPollMoves ==
  /\ pc = "capacity"
  /\ pc' = "check"
  /\ position' = position + 1
  /\ UNCHANGED <<serverVars, tableVars, stateVars, result, log, committed,
                 hand, active, overdue, life, containerVars>>

\* At capacity, or poll(3.0) returns None or an error: back to the check.
SkipPoll ==
  /\ pc = "capacity"
  /\ pc' = "check"
  /\ UNCHANGED <<serverVars, tableVars, stateVars, result, kafkaVars, hand,
                 active, overdue, life, containerVars>>

\* The client library stores the offset before it hands the message over.
Poll ==
  /\ pc = "capacity"
  /\ HasCapacity
  /\ position < Len(log)
  /\ position' = position + 1
  /\ hand' = log[position + 1]
  /\ pc' = "launch"
  /\ UNCHANGED <<serverVars, tableVars, stateVars, result, log, committed,
                 active, overdue, life, containerVars>>

StartContainer ==
  /\ created < MaxContainers
  /\ created' = created + 1
  /\ contTask' = [contTask EXCEPT ![created + 1] = hand]
  /\ contStep' = [contStep EXCEPT ![created + 1] = "validate"]

\* Mutant: the container is not entered in the dict.
LaunchUnrecorded ==
  /\ pc = "launch"
  /\ StartContainer
  /\ pc' = "check"
  /\ UNCHANGED <<serverVars, tableVars, stateVars, result, kafkaVars, hand,
                 active, overdue, life, mined>>

Launch ==
  /\ pc = "launch"
  /\ StartContainer
  /\ active' = [active EXCEPT ![hand] = created + 1]
  /\ overdue' = overdue \ {hand}
  /\ pc' = "check"
  /\ UNCHANGED <<serverVars, tableVars, stateVars, result, kafkaVars, hand,
                 life, mined>>

\* time.time() - t >= TIMELIMIT becomes true.
LimitPasses(t) ==
  /\ t \in Held \ overdue
  /\ overdue' = overdue \cup {t}
  /\ UNCHANGED <<serverVars, tableVars, stateVars, result, kafkaVars, pc,
                 hand, active, life, containerVars>>

\* The client library's background commit of the stored offset, which
\* matters to a consumer that may restart only.
AutoCommit ==
  /\ "crash" \in Faults
  /\ pc # "down"
  /\ committed # position
  /\ committed' = position
  /\ UNCHANGED <<serverVars, tableVars, stateVars, result, log, position,
                 consumerVars, containerVars>>

\* Any exception in main (docker, psycopg), a signal while containers exist,
\* or the loss of the process.  With docker's restart: always it comes back.
Crash ==
  /\ "crash" \in Faults
  /\ pc # "down"
  /\ life < MaxLives
  /\ pc' = "down"
  /\ UNCHANGED <<serverVars, tableVars, stateVars, result, kafkaVars, hand,
                 active, overdue, life, containerVars>>

\* create_container raises after the daemon has started the container.
CrashAfterStart ==
  /\ "crash" \in Faults
  /\ pc = "launch"
  /\ life < MaxLives
  /\ StartContainer
  /\ pc' = "down"
  /\ UNCHANGED <<serverVars, tableVars, stateVars, result, kafkaVars, hand,
                 active, overdue, life, mined>>

\* stop and remove, by exit_gracefully on the way down or by
\* remove_dangling_containers on the way up.
RemoveContainer(b) ==
  /\ pc = "down"
  /\ Running(b)
  /\ contStep' = [contStep EXCEPT ![b] = "removed"]
  /\ UNCHANGED <<serverVars, tableVars, stateVars, result, kafkaVars,
                 consumerVars, created, contTask, mined>>

\* Mutant: the consumer starts without remove_dangling_containers.
RestartDangling ==
  /\ pc = "down"
  /\ pc' = "check"
  /\ life' = life + 1
  /\ active' = [t \in Tasks |-> 0]
  /\ overdue' = {}
  /\ hand' = None
  /\ position' = committed
  /\ UNCHANGED <<serverVars, tableVars, stateVars, result, log, committed,
                 containerVars>>

\* remove_dangling_containers has left no running container; the group
\* resumes from the committed offset, or from the earliest without one.
Restart ==
  /\ pc = "down"
  /\ \A b \in Containers : ~Running(b)
  /\ pc' = "check"
  /\ life' = life + 1
  /\ active' = [t \in Tasks |-> 0]
  /\ overdue' = {}
  /\ hand' = None
  /\ position' = committed
  /\ UNCHANGED <<serverVars, tableVars, stateVars, result, log, committed,
                 containerVars>>

ConsumerStep ==
  \/ \E t \in Tasks : StopOverdue(t) \/ ReapOutOfMemory(t) \/ ReapExited(t)
  \/ NothingToHandle \/ WriteLimitError \/ SkipPoll \/ Poll \/ Launch

RecoveryStep == Restart \/ \E b \in Containers : RemoveContainer(b)

-----------------------------------------------------------------------------
(* A cpp-consumer container: main, ProcessMsg and TaskProcessor::Execute,  *)
(* one action per query.                                                   *)

Goto(b, step) == contStep' = [contStep EXCEPT ![b] = step]

\* TaskConfig::IsTaskValid: is there a row that is not deleted?
Validate(b) ==
  /\ contStep[b] = "validate"
  /\ Goto(b, IF Exists(contTask[b]) THEN "load" ELSE "exit3")
  /\ UNCHANGED <<serverVars, tableVars, stateVars, result, kafkaVars,
                 consumerVars, created, contTask, mined>>

\* The constructors of TaskConfig and TaskProcessor; the rows they read may
\* be soft-deleted but must be there.
Load(b) ==
  /\ contStep[b] = "load"
  /\ Goto(b, IF {"base", "specific"} \subseteq rows[contTask[b]]
               THEN "claim" ELSE "exit2")
  /\ UNCHANGED <<serverVars, tableVars, stateVars, result, kafkaVars,
                 consumerVars, created, contTask, mined>>

\* Execute: status = IN_PROCESS.
Claim(b) ==
  /\ contStep[b] = "claim"
  /\ SetStatus(contTask[b], "IN_PROCESS")
  /\ Goto(b, "mine")
  /\ UNCHANGED <<serverVars, tableVars, executed, result, kafkaVars,
                 consumerVars, created, contTask, mined>>

MinesClusters(b) == cfg[contTask[b]] \in ClusterConfigs

WriteResult(t, value) ==
  result' = IF "result" \in rows[t] THEN [result EXCEPT ![t] = value] ELSE result

\* MineDeps waits for the std::async future but never calls get(): whether
\* algo_->Execute() returned or threw, the task goes on.
MineDeps(b) ==
  /\ contStep[b] = "mine"
  /\ ~MinesClusters(b)
  /\ \E outcome \in {"ok"} \cup (IF "algorithm" \in Faults THEN {"threw"} ELSE {}) :
       mined' = [mined EXCEPT ![b] = outcome]
  /\ Goto(b, "recheck")
  /\ UNCHANGED <<serverVars, tableVars, stateVars, result, kafkaVars,
                 consumerVars, created, contTask>>

\* MineClusters and MineSpecificClusters run in the main thread, and their
\* last statement saves the result.
MineClusters(b) ==
  /\ contStep[b] = "mine"
  /\ MinesClusters(b)
  /\ \/ /\ mined' = [mined EXCEPT ![b] = "ok"]
        /\ WriteResult(contTask[b], "ok")
        /\ Goto(b, "recheck")
     \/ /\ "algorithm" \in Faults
        /\ mined' = [mined EXCEPT ![b] = "threw"]
        /\ Goto(b, "fail")
        /\ UNCHANGED result
  /\ UNCHANGED <<serverVars, tableVars, stateVars, kafkaVars, consumerVars,
                 created, contTask>>

\* Mutant: SaveResults is left out.
RecheckUnsaved(b) ==
  /\ contStep[b] = "recheck"
  /\ Goto(b, IF Exists(contTask[b]) THEN "complete" ELSE "exit2")
  /\ UNCHANGED <<serverVars, tableVars, stateVars, result, kafkaVars,
                 consumerVars, created, contTask, mined>>

\* IsTaskValid again.  The message "Task isn't valid..." goes unescaped into
\* the UPDATE that should report it; the query fails and main returns 2.
Recheck(b) ==
  /\ contStep[b] = "recheck"
  /\ Goto(b, IF Exists(contTask[b]) THEN "save" ELSE "exit2")
  /\ UNCHANGED <<serverVars, tableVars, stateVars, result, kafkaVars,
                 consumerVars, created, contTask, mined>>

\* SaveResults, first half: the Save...Result of the mining type.
Save(b) ==
  /\ contStep[b] = "save"
  /\ IF MinesClusters(b) THEN UNCHANGED result
                         ELSE WriteResult(contTask[b], mined[b])
  /\ Goto(b, "complete")
  /\ UNCHANGED <<serverVars, tableVars, stateVars, kafkaVars, consumerVars,
                 created, contTask, mined>>

\* Mutant: COMPLETED is taken to be all there is to say.
CompleteUnpublished(b) ==
  /\ contStep[b] = "complete"
  /\ SetStatus(contTask[b], "COMPLETED")
  /\ Goto(b, "exit0")
  /\ UNCHANGED <<serverVars, tableVars, executed, result, kafkaVars,
                 consumerVars, created, contTask, mined>>

\* SaveResults, last statement: status = COMPLETED.
Complete(b) ==
  /\ contStep[b] = "complete"
  /\ SetStatus(contTask[b], "COMPLETED")
  /\ Goto(b, "publish")
  /\ UNCHANGED <<serverVars, tableVars, executed, result, kafkaVars,
                 consumerVars, created, contTask, mined>>

\* Execute: is_executed = true, then main returns 0.
Publish(b) ==
  /\ contStep[b] = "publish"
  /\ executed' = IF Exists(contTask[b])
                   THEN [executed EXCEPT ![contTask[b]] = TRUE] ELSE executed
  /\ Goto(b, "exit0")
  /\ UNCHANGED <<serverVars, tableVars, status, result, kafkaVars,
                 consumerVars, created, contTask, mined>>

\* ProcessMsg catches what Execute throws: status = INTERNAL_SERVER_ERROR.
ReportFailure(b) ==
  /\ contStep[b] = "fail"
  /\ SetStatus(contTask[b], "INTERNAL_SERVER_ERROR")
  /\ Goto(b, "exit1")
  /\ UNCHANGED <<serverVars, tableVars, executed, result, kafkaVars,
                 consumerVars, created, contTask, mined>>

\* Mutant: a failed INSERT or UPDATE of results is swallowed.
AfterFailedQuerySwallowed ==
  [validate |-> {"exit2", "exit3"}, load |-> {"exit2"}, claim |-> {"fail"},
   mine |-> {"fail"}, recheck |-> {"exit2"}, save |-> {"complete"},
   complete |-> {"fail"}, publish |-> {"fail"}, fail |-> {"exit2"}]

\* What a failing query leads to at each step: IsTaskValid turns it into
\* "not valid"; outside Execute it ends main; inside it is reported, which
\* takes another query.
AfterFailedQuery ==
  [validate |-> {"exit2", "exit3"}, load |-> {"exit2"}, claim |-> {"fail"},
   mine |-> {"fail"}, recheck |-> {"exit2"}, save |-> {"fail"},
   complete |-> {"fail"}, publish |-> {"fail"}, fail |-> {"exit2"}]

QueryFails(b) ==
  /\ "database" \in Faults
  /\ Running(b)
  /\ \E step \in AfterFailedQuery[contStep[b]] : Goto(b, step)
  /\ UNCHANGED <<serverVars, tableVars, stateVars, result, kafkaVars,
                 consumerVars, created, contTask, mined>>

\* The kernel kills the container at mem_limit.
OutOfMemory(b) ==
  /\ "memory" \in Faults
  /\ Running(b)
  /\ Goto(b, "oom")
  /\ UNCHANGED <<serverVars, tableVars, stateVars, result, kafkaVars,
                 consumerVars, created, contTask, mined>>

\* The queries of a container, which return; mining need not.
ContainerQuery(b) ==
  \/ Validate(b) \/ Load(b) \/ Claim(b) \/ Recheck(b) \/ Save(b)
  \/ Complete(b) \/ Publish(b) \/ ReportFailure(b)

ContainerStep(b) ==
  \/ ContainerQuery(b) \/ MineDeps(b) \/ MineClusters(b)
  \/ QueryFails(b) \/ OutOfMemory(b)

-----------------------------------------------------------------------------
Next ==
  \/ \E r \in Requests : ServerStep(r) \/ RequestFails(r) \/ Deletion(r)
  \/ ConsumerStep \/ AutoCommit
  \/ \E t \in Tasks : LimitPasses(t)
  \/ Crash \/ CrashAfterStart \/ RecoveryStep
  \/ \E b \in Containers : ContainerStep(b)

Spec == Init /\ [][Next]_vars

\* What the deployment gives: the loop of consumer.py runs on, a message that
\* keeps being there is delivered in the end, docker restarts the consumer,
\* queries return and time passes.  Nothing makes mining end.
Fairness ==
  /\ WF_vars(ConsumerStep)
  /\ SF_vars(Poll)
  /\ WF_vars(RecoveryStep)
  /\ \A t \in Tasks : WF_vars(LimitPasses(t))
  /\ \A b \in Containers : WF_vars(ContainerQuery(b))

FairSpec == Spec /\ Fairness

-----------------------------------------------------------------------------
(* Safety.                                                                 *)

\* Types of all variables.
TypeOK ==
  /\ req \in [Requests -> RequestSteps]
  /\ cfg \in [Requests -> Configs \cup {None}]
  /\ answer \in [Requests -> Tasks \cup {None}]
  /\ rows \in [Tasks -> SUBSET RowKinds]
  /\ hidden \in [Tasks -> SUBSET RowKinds]
  /\ status \in [Tasks -> Statuses]
  /\ executed \in [Tasks -> BOOLEAN]
  /\ result \in [Tasks -> {"none", "ok", "threw"}]
  /\ log \in Seq(Tasks)
  /\ position \in 0..Len(log)
  /\ committed \in 0..Len(log)
  /\ pc \in {"check", "limit", "capacity", "launch", "down"}
  /\ hand \in Tasks \cup {None}
  /\ active \in [Tasks -> Containers \cup {0}]
  /\ overdue \in SUBSET Tasks
  /\ life \in 1..MaxLives
  /\ pc = "down" => life < MaxLives
  /\ created \in 0..MaxContainers
  /\ contTask \in [Containers -> Tasks \cup {None}]
  /\ contStep \in [Containers -> ContainerSteps]
  /\ mined \in [Containers -> {"none", "ok", "threw"}]

\* containers[taskID] = ... never drops a live container: while the consumer
\* is up, every running container is the one the dict holds for its task.
NoForgottenContainer ==
  pc # "down" => \A b \in Containers : Running(b) => active[contTask[b]] = b

\* No task is ever run by two containers at once, restarts included: two runs
\* would interleave their writes to the same rows.
SoleRunner ==
  \A a, b \in Containers :
    Running(a) /\ Running(b) /\ contTask[a] = contTask[b] => a = b

\* MAX_ACTIVE_TASKS bounds the containers that run, restarts included.
RunningBounded ==
  Cardinality({b \in Containers : Running(b)}) <= MaxActiveTasks

\* The readers of TaskInfo/resolvers.ts trust isExecuted: a published task
\* has had its result row written.
PublishedIsSaved ==
  \A t \in Tasks :
    executed[t] /\ "result" \in rows[t] => result[t] # "none"

\* A message is in the topic only after all rows it stands for were created,
\* so a container finds them unless the task was deleted.
MessageFollowsRows ==
  \A t \in InLog : Exists(t) => rows[t] = RowKinds

\* The time or memory error is written when nothing runs the task any more,
\* so the run that broke the limit cannot write over it.
StoppedBeforeLimitError ==
  pc = "limit" => \A b \in Containers : Running(b) => contTask[b] # hand

\* Exit code 0 is said only of a task whose results can be read.
SuccessMeansPublished ==
  \A b \in Containers :
    contStep[b] = "exit0" /\ Exists(contTask[b]) => executed[contTask[b]]

-----------------------------------------------------------------------------
(* What a step may never do.                                               *)

Severity == [COMPLETED |-> 1, INTERNAL_SERVER_ERROR |-> 2,
             RESOURCE_LIMIT_IS_REACHED |-> 3]
Settled(t) == status[t] \in DOMAIN Severity

\* The status of a task that is run once, settled, only gets worse (COMPLETED
\* may become an error, an internal error a limit error); only the server's late
\* save of ADDED_TO_THE_TASK_QUEUE undoes it.
RunOnce(t) == \A a, b \in Containers : contTask[a] = t /\ contTask[b] = t => a = b
SettledStatusStands ==
  [][\A t \in Tasks :
       Settled(t) /\ req[t] # "mark" /\ RunOnce(t)'
         => /\ status'[t] \in DOMAIN Severity
            /\ Severity[status'[t]] >= Severity[status[t]]]_vars

\* "Algorithm was successfully executed, results saved": only the results of
\* an algorithm that returned are published.
PublishedWasMined ==
  \A t \in Tasks : executed[t] => result[t] # "threw"

\* The pipeline is a TaskPool: whatever restarts, deletions and failures do,
\* a task has one run at most, at most MaxActiveTasks have one, and a result
\* becomes readable by the last step of a run of its task only.
Pool == INSTANCE TaskPool
  WITH Size <- MaxActiveTasks,
       running <- {contTask[b] : b \in {c \in Containers : Running(c)}},
       published <- {t \in Tasks : executed[t] /\ Exists(t)}
PoolSpec == Pool!Spec

-----------------------------------------------------------------------------
(* What must happen in the end.                                            *)

\* README.md: a task is killed if it goes outside of acceptable ranges.  Even
\* an algorithm that never ends does not keep its container.
EveryRunEnds == \A b \in Containers : Running(b) ~> ~Running(b)

\* Hung tasks do not starve the queue: each message gets its container.
EveryMessageIsTried ==
  \A t \in Tasks : t \in InLog ~> \E b \in Containers : contTask[b] = t

\* A run does not end unaccounted for: what a container was started for is
\* published, or gets an error status, or the container says by its exit code that
\* the task was not found (3) or that the error could not be written (2).
RunIsAccountedFor ==
  \A b \in Containers, t \in Tasks :
    contStep[b] = "validate" /\ contTask[b] = t
      ~> \/ executed[t] \/ ~Exists(t)
         \/ status[t] \in {"INTERNAL_SERVER_ERROR", "RESOURCE_LIMIT_IS_REACHED"}
         \/ contStep[b] \in {"exit2", "exit3"}

\* container_exit_handler: for a container that has exited with code 2, "has
\* crashed without status updating", the consumer reports the crash.
CrashIsReported ==
  \A b \in Containers, t \in Tasks :
    contStep[b] = "exit2" /\ contTask[b] = t
      ~> \/ ~Exists(t)
         \/ status[t] \in {"INTERNAL_SERVER_ERROR", "RESOURCE_LIMIT_IS_REACHED"}

\* The client stays on its loading screen until it polls COMPLETED or an error
\* (Loader.tsx, getTaskStatusData.ts): a published task comes to show one.
PublishedGetsShown ==
  \A t \in Tasks : executed[t] ~> Settled(t) \/ ~Exists(t)

=============================================================================
