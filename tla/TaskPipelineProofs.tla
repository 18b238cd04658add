------------------------- MODULE TaskPipelineProofs -------------------------
(* Proofs about TaskPipeline, for every number of requests, containers,     *)
(* restarts and slots and for every set of faults.                          *)
EXTENDS TaskPipeline, FiniteSetTheorems, TLAPS

USE DEF Tasks, Containers, Exists, Running

\* All variables keep their types.
THEOREM TypeCorrect == Spec => []TypeOK
<1> USE PipelineAssumption DEF serverVars, tableVars, stateVars, kafkaVars,
        consumerVars, containerVars
<1>1. Init => TypeOK
  BY DEF Init, TypeOK, RequestSteps, RowKinds, Statuses, ContainerSteps
<1>2. TypeOK /\ [Next]_vars => TypeOK'
  <2> SUFFICES ASSUME TypeOK, [Next]_vars PROVE TypeOK'
    OBVIOUS
  <2>1. ASSUME NEW r \in Requests, Submit(r) PROVE TypeOK'
    BY <2>1 DEF TypeOK, Submit, RequestSteps
  <2>2. ASSUME NEW r \in Requests, FindSimilarTask(r) PROVE TypeOK'
    <3>1. CASE /\ req' = [req EXCEPT ![r] = "state"] /\ UNCHANGED answer
      BY <2>2, <3>1 DEF TypeOK, FindSimilarTask, RequestSteps
    <3>2. CASE \E t \in Tasks : /\ answer' = [answer EXCEPT ![r] = t]
                               /\ req' = [req EXCEPT ![r] = "refetch"]
      BY <2>2, <3>2 DEF TypeOK, FindSimilarTask, RequestSteps
    <3> QED
      BY <2>2, <3>1, <3>2 DEF FindSimilarTask
  <2>3. ASSUME NEW r \in Requests, RefetchState(r) PROVE TypeOK'
    BY <2>3 DEF TypeOK, RefetchState, RequestSteps
  <2>4. ASSUME NEW r \in Requests, CreateState(r) PROVE TypeOK'
    BY <2>4 DEF TypeOK, CreateState, RequestSteps, RowKinds
  <2>5. ASSUME NEW r \in Requests, NEW kind \in RowKinds, CreateRow(r, kind) PROVE TypeOK'
    <3>1. kind \in RowKinds /\ NextAwait(kind) \in RequestSteps
      BY <2>5 DEF CreateRow, NextAwait, RowKinds, RequestSteps
    <3>2. CASE Exists(r)
      <4>1. rows' = [rows EXCEPT ![r] = @ \cup {kind}]
        BY <2>5, <3>2 DEF CreateRow
      <4>2. rows' \in [Tasks -> SUBSET RowKinds]
        BY <3>1, <4>1 DEF TypeOK
      <4>3. req' \in [Requests -> RequestSteps]
        BY <2>5, <3>1, <3>2 DEF TypeOK, CreateRow
      <4>4. UNCHANGED <<cfg, answer, hidden, stateVars, result, kafkaVars,
                        consumerVars, containerVars>>
        BY <2>5 DEF CreateRow
      <4> QED
        BY <4>2, <4>3, <4>4 DEF TypeOK
    <3>3. CASE ~Exists(r)
      BY <2>5, <3>3 DEF TypeOK, CreateRow, RequestSteps
    <3> QED
      BY <3>2, <3>3
  <2>6. ASSUME NEW r \in Requests, Produce(r) PROVE TypeOK'
    BY <2>6 DEF TypeOK, Produce, RequestSteps
  <2>7. ASSUME NEW r \in Requests, MarkQueued(r) PROVE TypeOK'
    BY <2>7 DEF TypeOK, MarkQueued, SetStatus, Statuses, RequestSteps
  <2>8. ASSUME NEW r \in Requests, RequestFails(r) PROVE TypeOK'
    BY <2>8 DEF TypeOK, RequestFails, RequestSteps
  <2>9. ASSUME NEW r \in Requests, HardDelete(r) PROVE TypeOK'
    BY <2>9 DEF TypeOK, HardDelete
  <2>10. ASSUME NEW r \in Requests, NEW kind \in RowKinds, SoftDelete(r, kind) PROVE TypeOK'
    BY <2>10 DEF TypeOK, SoftDelete
  <2>11. ASSUME NEW t \in Tasks, StopOverdue(t) PROVE TypeOK'
    BY <2>11 DEF TypeOK, StopOverdue, Forget, Held, ContainerSteps, RunningSteps, ExitSteps, TimedOut
  <2>12. ASSUME NEW t \in Tasks, ReapOutOfMemory(t) PROVE TypeOK'
    BY <2>12 DEF TypeOK, ReapOutOfMemory, Forget, Held, ContainerSteps, RunningSteps, ExitSteps, TimedOut
  <2>13. ASSUME NEW t \in Tasks, ReapExited(t) PROVE TypeOK'
    BY <2>13 DEF TypeOK, ReapExited, Forget, Held, ContainerSteps, RunningSteps, ExitSteps, TimedOut
  <2>14. ASSUME NEW t \in Tasks, LimitPasses(t) PROVE TypeOK'
    BY <2>14 DEF TypeOK, LimitPasses, Held
  <2>15. ASSUME NothingToHandle PROVE TypeOK'
    BY <2>15 DEF TypeOK, NothingToHandle
  <2>16. ASSUME WriteLimitError PROVE TypeOK'
    BY <2>16 DEF TypeOK, WriteLimitError, SetStatus, Statuses
  <2>17. ASSUME SkipPoll PROVE TypeOK'
    BY <2>17 DEF TypeOK, SkipPoll
  <2>18. ASSUME Poll PROVE TypeOK'
    <3>1. position + 1 \in 1..Len(log) /\ log[position + 1] \in Tasks
      BY <2>18 DEF TypeOK, Poll
    <3>2. /\ UNCHANGED <<req, cfg, answer, rows, hidden, status, executed>>
          /\ UNCHANGED <<result, log, committed, active, overdue, life>>
          /\ UNCHANGED <<created, contTask, contStep, mined>>
      BY <2>18 DEF Poll
    <3>3. position' \in 0..Len(log') /\ hand' \in Tasks /\ pc' = "launch"
      BY <2>18, <3>1, <3>2 DEF TypeOK, Poll
    <3> QED
      BY <3>2, <3>3 DEF TypeOK
  <2>19. ASSUME Launch PROVE TypeOK'
    <3>1. created' \in 0..MaxContainers /\ created + 1 \in Containers
      BY <2>19 DEF TypeOK, Launch, StartContainer
    <3>2. contTask' \in [Containers -> Tasks \cup {None}]
      BY <2>19 DEF TypeOK, Launch, StartContainer
    <3>3. contStep' \in [Containers -> ContainerSteps]
      BY <2>19 DEF TypeOK, Launch, StartContainer, ContainerSteps, RunningSteps
    <3>4. active' \in [Tasks -> Containers \cup {0}] /\ overdue' \in SUBSET Tasks
      BY <2>19, <3>1 DEF TypeOK, Launch
    <3> QED
      BY <2>19, <3>1, <3>2, <3>3, <3>4 DEF TypeOK, Launch
  <2>20. ASSUME AutoCommit PROVE TypeOK'
    BY <2>20 DEF TypeOK, AutoCommit
  <2>21. ASSUME Crash PROVE TypeOK'
    BY <2>21 DEF TypeOK, Crash
  <2>22. ASSUME CrashAfterStart PROVE TypeOK'
    BY <2>22 DEF TypeOK, CrashAfterStart, StartContainer, ContainerSteps, RunningSteps
  <2>23. ASSUME Restart PROVE TypeOK'
    BY <2>23 DEF TypeOK, Restart
  <2>24. ASSUME NEW b \in Containers, RemoveContainer(b) PROVE TypeOK'
    BY <2>24 DEF TypeOK, RemoveContainer, Running, ContainerSteps, RunningSteps, ExitSteps
  <2>25. ASSUME NEW b \in Containers, Validate(b) PROVE TypeOK'
    BY <2>25 DEF TypeOK, Validate, Goto, ContainerSteps, RunningSteps, ExitSteps
  <2>26. ASSUME NEW b \in Containers, Load(b) PROVE TypeOK'
    BY <2>26 DEF TypeOK, Load, Goto, ContainerSteps, RunningSteps, ExitSteps
  <2>27. ASSUME NEW b \in Containers, Claim(b) PROVE TypeOK'
    BY <2>27 DEF TypeOK, Claim, SetStatus, Statuses, Goto, ContainerSteps, RunningSteps, ExitSteps
  <2>28. ASSUME NEW b \in Containers, Recheck(b) PROVE TypeOK'
    BY <2>28 DEF TypeOK, Recheck, Goto, ContainerSteps, RunningSteps, ExitSteps
  <2>29. ASSUME NEW b \in Containers, Save(b) PROVE TypeOK'
    BY <2>29 DEF TypeOK, Save, WriteResult, Goto, ContainerSteps, RunningSteps, ExitSteps
  <2>30. ASSUME NEW b \in Containers, Complete(b) PROVE TypeOK'
    BY <2>30 DEF TypeOK, Complete, SetStatus, Statuses, Goto, ContainerSteps, RunningSteps, ExitSteps
  <2>31. ASSUME NEW b \in Containers, Publish(b) PROVE TypeOK'
    BY <2>31 DEF TypeOK, Publish, Goto, ContainerSteps, RunningSteps, ExitSteps
  <2>32. ASSUME NEW b \in Containers, ReportFailure(b) PROVE TypeOK'
    BY <2>32 DEF TypeOK, ReportFailure, SetStatus, Statuses, Goto, ContainerSteps, RunningSteps, ExitSteps
  <2>33. ASSUME NEW b \in Containers, MineDeps(b) PROVE TypeOK'
    BY <2>33 DEF TypeOK, MineDeps, Goto, ContainerSteps, RunningSteps, ExitSteps
  <2>34. ASSUME NEW b \in Containers, MineClusters(b) PROVE TypeOK'
    BY <2>34 DEF TypeOK, MineClusters, WriteResult, Goto, ContainerSteps, RunningSteps, ExitSteps
  <2>35. ASSUME NEW b \in Containers, QueryFails(b) PROVE TypeOK'
    BY <2>35 DEF TypeOK, QueryFails, AfterFailedQuery, Running, Goto, ContainerSteps, RunningSteps, ExitSteps
  <2>36. ASSUME NEW b \in Containers, OutOfMemory(b) PROVE TypeOK'
    BY <2>36 DEF TypeOK, OutOfMemory, Running, Goto, ContainerSteps, RunningSteps, ExitSteps
  <2>37. CASE UNCHANGED vars
    BY <2>37 DEF TypeOK, vars
  <2> QED
    BY <2>1, <2>2, <2>3, <2>4, <2>5, <2>6, <2>7, <2>8, <2>9, <2>10, <2>11, <2>12,
       <2>13, <2>14, <2>15, <2>16, <2>17, <2>18, <2>19, <2>20, <2>21, <2>22, <2>23,
       <2>24, <2>25, <2>26, <2>27, <2>28, <2>29, <2>30, <2>31, <2>32, <2>33, <2>34,
       <2>35, <2>36, <2>37
    DEF Next, ServerStep, Deletion, ConsumerStep, RecoveryStep, ContainerStep,
        ContainerQuery, RowKinds
<1> QED
  BY <1>1, <1>2, PTL DEF Spec

-----------------------------------------------------------------------------
(* What the queue and the dict of the consumer guarantee.                   *)

\* A task is in the topic once, and stays behind produce from then on.
LogInv ==
  /\ \A i, j \in 1..Len(log) : log[i] = log[j] => i = j
  /\ \A i \in 1..Len(log) : req[log[i]] \in {"mark", "answered", "rejected"}

\* Containers that were never created, the dict and the loop's hand: a task
\* that is in hand to be launched is the last one delivered and has no entry.
SlotInv ==
  /\ \A b \in Containers : b > created => contStep[b] = "none"
  /\ \A b \in Containers : b <= created => contTask[b] \in InLog
  /\ \A t \in Held : active[t] <= created /\ contTask[active[t]] = t
  /\ \A t \in Held : \E i \in 1..position : log[i] = t
  /\ pc = "launch" => position > 0 /\ hand = log[position] /\ hand \notin Held
  /\ pc = "limit" => hand \in Tasks \ Held

\* A container that has a state was created, for a task of the topic.
LEMMA StartedContainer ==
  ASSUME TypeOK, SlotInv, NEW b \in Containers, contStep[b] # "none"
  PROVE  b <= created /\ contTask[b] \in Tasks /\ contTask[b] \in InLog
PROOF
<1>1. created \in Nat /\ b \in Nat
  BY PipelineAssumption DEF TypeOK, Containers
<1>2. b <= created
  BY <1>1 DEF SlotInv
<1>3. contTask[b] \in InLog
  BY <1>2 DEF SlotInv
<1>4. InLog \subseteq Tasks
  BY DEF InLog, TypeOK
<1> QED
  BY <1>2, <1>3, <1>4

\* The steps that leave containers and the dict alone.
Aside == \/ \E r \in Requests : ServerStep(r) \/ RequestFails(r) \/ Deletion(r)
         \/ AutoCommit
         \/ \E t \in Tasks : LimitPasses(t)
         \/ UNCHANGED vars

LEMMA AsideFrame ==
  ASSUME Aside
  PROVE  /\ UNCHANGED <<position, pc, hand, active, created, contTask, contStep>>
         /\ \/ UNCHANGED log
            \/ \E r \in Requests : req[r] = "produce" /\ log' = Append(log, r)
PROOF
  BY DEF Aside, ServerStep, Submit, FindSimilarTask, RefetchState, CreateState,
         CreateRow, Produce, MarkQueued, RequestFails, Deletion, HardDelete,
         SoftDelete, AutoCommit, LimitPasses, vars, serverVars, tableVars,
         stateVars, kafkaVars, consumerVars, containerVars

\* A container's step concerns itself and the database only.
LEMMA ContainerFrame ==
  ASSUME TypeOK, NEW b \in Containers, ContainerStep(b)
  PROVE  /\ UNCHANGED <<req, cfg, answer, rows, hidden, log, position, committed>>
         /\ UNCHANGED <<pc, hand, active, overdue, life, created, contTask>>
         /\ Running(b)
         /\ \E s \in ContainerSteps \ {"none"} :
              contStep' = [contStep EXCEPT ![b] = s]
PROOF
<1>1. CASE ContainerQuery(b)
  BY <1>1 DEF ContainerQuery, Validate, Load, Claim, Recheck, Save, Complete,
         Publish, ReportFailure, Goto, ContainerSteps, RunningSteps, ExitSteps,
         serverVars, tableVars, kafkaVars, consumerVars
<1>2. CASE MineDeps(b) \/ MineClusters(b)
  BY <1>2 DEF MineDeps, MineClusters, Goto, ContainerSteps, RunningSteps,
         serverVars, tableVars, kafkaVars, consumerVars
<1>3. CASE QueryFails(b) \/ OutOfMemory(b)
  BY <1>3 DEF QueryFails, AfterFailedQuery, OutOfMemory, Goto, ContainerSteps,
         RunningSteps, ExitSteps, serverVars, tableVars, kafkaVars, consumerVars
<1> QED
  BY <1>1, <1>2, <1>3 DEF ContainerStep

LEMMA LogInvInit == Init => LogInv
BY DEF Init, LogInv

LEMMA LogInvStep ==
  ASSUME TypeOK, LogInv, [Next]_vars
  PROVE  LogInv'
PROOF
<1> USE PipelineAssumption
<1>1. ASSUME UNCHANGED <<req, log>> PROVE LogInv'
  BY <1>1 DEF LogInv
<1>2. ASSUME NEW r \in Requests, Produce(r) PROVE LogInv'
  <2>1. log' = Append(log, r) /\ req' = [req EXCEPT ![r] = "mark"]
    BY <1>2 DEF Produce
  <2>2. \A i \in 1..Len(log) : log[i] # r
    BY <1>2 DEF Produce, LogInv, TypeOK
  <2>3. /\ Len(log') = Len(log) + 1 /\ log'[Len(log) + 1] = r
        /\ \A i \in 1..Len(log) : log'[i] = log[i] /\ log[i] \in Tasks
    BY <2>1 DEF TypeOK
  <2>4. \A i \in 1..Len(log') : i \in 1..Len(log) \/ i = Len(log) + 1
    BY <2>3 DEF TypeOK
  <2>5. \A i, j \in 1..Len(log') : log'[i] = log'[j] => i = j
    BY <2>2, <2>3, <2>4 DEF LogInv
  <2>6. \A i \in 1..Len(log') : req'[log'[i]] \in {"mark", "answered", "rejected"}
    BY <2>1, <2>2, <2>3, <2>4 DEF LogInv, TypeOK
  <2> QED
    BY <2>5, <2>6 DEF LogInv
\* A request whose task is in the topic has one step left, or none.
<1>3. ASSUME NEW r \in Requests, UNCHANGED log,
             ServerStep(r) \/ RequestFails(r)
      PROVE  LogInv'
  <2>1. \E s : req' = [req EXCEPT ![r] = s]
                /\ (req[r] \in {"mark", "answered", "rejected"}
                    => s \in {"answered", "rejected"})
    BY <1>3 DEF ServerStep, Submit, FindSimilarTask, RefetchState, CreateState,
         CreateRow, Produce, MarkQueued, RequestFails, PendingSteps
  <2> QED
    BY <2>1, <1>3 DEF LogInv, TypeOK
<1>4. ASSUME NEW r \in Requests, Deletion(r) PROVE UNCHANGED <<req, log>>
  BY <1>4 DEF Deletion, HardDelete, SoftDelete, serverVars, kafkaVars
<1>5. ASSUME ConsumerStep \/ AutoCommit \/ (\E t \in Tasks : LimitPasses(t))
             \/ Crash \/ CrashAfterStart \/ RecoveryStep
      PROVE  UNCHANGED <<req, log>>
  BY <1>5 DEF ConsumerStep, StopOverdue, ReapOutOfMemory, ReapExited,
       NothingToHandle, WriteLimitError, SkipPoll, Poll, Launch, AutoCommit,
       LimitPasses, Crash, CrashAfterStart, RecoveryStep, Restart,
       RemoveContainer, serverVars, kafkaVars
<1>6. ASSUME NEW b \in Containers, ContainerStep(b) PROVE UNCHANGED <<req, log>>
  BY <1>6, ContainerFrame
<1>7. CASE UNCHANGED vars
  BY <1>7, <1>1 DEF vars, serverVars, kafkaVars
<1>8. ASSUME NEW r \in Requests, ServerStep(r) \/ RequestFails(r)
      PROVE  Produce(r) \/ UNCHANGED log
  BY <1>8 DEF ServerStep, Submit, FindSimilarTask, RefetchState, CreateState,
       CreateRow, Produce, MarkQueued, RequestFails, kafkaVars
<1> QED
  BY <1>1, <1>2, <1>3, <1>4, <1>5, <1>6, <1>7, <1>8 DEF Next

\* Each task is delivered from one place of the topic only.
THEOREM QueueCorrect == Spec => []LogInv
PROOF
<1>1. TypeOK /\ LogInv /\ [Next]_vars => LogInv'
  BY LogInvStep
<1> QED
  BY <1>1, LogInvInit, TypeCorrect, PTL DEF Spec

-----------------------------------------------------------------------------

LEMMA SlotInvInit == Init => SlotInv
BY PipelineAssumption DEF Init, SlotInv, Held

\* Containers, dict and hand of SlotInv, over a longer topic.
LEMMA SlotInvAside ==
  ASSUME TypeOK, SlotInv, Aside
  PROVE  SlotInv'
PROOF
<1>1. UNCHANGED <<position, pc, hand, active, created, contTask, contStep>>
  BY AsideFrame
<1>2. /\ \A i \in 1..Len(log) : log'[i] = log[i]
      /\ Len(log) <= Len(log')
  <2>1. CASE UNCHANGED log
    BY <2>1 DEF TypeOK
  <2>2. CASE \E r \in Requests : req[r] = "produce" /\ log' = Append(log, r)
    BY <2>2 DEF TypeOK
  <2> QED
    BY <2>1, <2>2, AsideFrame
<1>3. InLog \subseteq InLog'
  <2> SUFFICES ASSUME NEW i \in 1..Len(log) PROVE log[i] \in InLog'
    BY DEF InLog
  <2>1. i \in 1..Len(log') /\ log'[i] = log[i]
    BY <1>2, AsideFrame DEF TypeOK
  <2> QED
    BY <2>1 DEF InLog
<1>4. \A i \in 1..position : log'[i] = log[i]
  BY <1>2 DEF TypeOK
<1>5. \A t \in Held' : \E i \in 1..position' : log'[i] = t
  BY <1>1, <1>4 DEF SlotInv, Held
<1>6. pc' = "launch" => position' > 0 /\ hand' = log'[position'] /\ hand' \notin Held'
  BY <1>1, <1>4 DEF SlotInv, Held, TypeOK
<1> QED
  BY <1>1, <1>3, <1>5, <1>6 DEF SlotInv, Held

LEMMA SlotInvContainer ==
  ASSUME TypeOK, SlotInv, NEW b \in Containers, ContainerStep(b)
  PROVE  SlotInv'
PROOF
<1>1. PICK s \in ContainerSteps : contStep' = [contStep EXCEPT ![b] = s]
  BY ContainerFrame
<1>2. b <= created
  <2>1. contStep[b] # "none"
    BY ContainerFrame DEF RunningSteps
  <2> QED
    BY <2>1, StartedContainer
<1>3. \A c \in Containers : c > created => contStep'[c] = "none"
  BY <1>1, <1>2, PipelineAssumption DEF SlotInv, TypeOK
<1> QED
  BY <1>3, ContainerFrame DEF SlotInv, Held, InLog

\* An entry leaves the dict together with its container.
LEMMA SlotInvForget ==
  ASSUME TypeOK, SlotInv, NEW t \in Held, Forget(t),
         UNCHANGED <<log, position, created, contTask>>,
         \/ pc' = "limit" /\ hand' = t
         \/ pc' = "capacity"
  PROVE  SlotInv'
PROOF
<1>1. t \in Tasks /\ active[t] \in Containers /\ active[t] <= created
  BY DEF Held, TypeOK, SlotInv
<1>2. active' = [active EXCEPT ![t] = 0] /\ Held' = Held \ {t}
  BY DEF Forget, Held, TypeOK
<1>3. \A b \in Containers : b > created' => contStep'[b] = "none"
  <2>1. contStep' = [contStep EXCEPT ![active[t]] = "removed"]
    BY DEF Forget
  <2>2. created \in Nat /\ \A b \in Containers : b \in Nat
    BY PipelineAssumption DEF TypeOK
  <2>3. \A b \in Containers : b > created => b # active[t]
    BY <1>1, <2>2
  <2> QED
    BY <2>1, <2>3 DEF SlotInv, TypeOK
<1>4. \A u \in Held' : active'[u] = active[u] /\ u \in Held
  BY <1>2 DEF TypeOK, Held
<1>5. InLog' = InLog
  BY DEF InLog
<1>6. pc' = "limit" => hand' \in Tasks \ Held'
  BY <1>1, <1>2
<1> QED
  BY <1>2, <1>3, <1>4, <1>5, <1>6 DEF SlotInv

LEMMA SlotInvPoll ==
  ASSUME TypeOK, LogInv, SlotInv, Poll
  PROVE  SlotInv'
PROOF
<1>1. /\ UNCHANGED <<log, active, created, contTask, contStep>>
      /\ position' = position + 1 /\ position + 1 \in 1..Len(log)
      /\ pc' = "launch" /\ hand' = log[position + 1]
  BY DEF Poll, TypeOK, containerVars
<1>2. Held' = Held /\ InLog' = InLog
  BY <1>1 DEF Held, InLog
<1>3. \A t \in Held : \E i \in 1..position : log[i] = t
  BY DEF SlotInv
<1>4. hand' \notin Held
  <2> SUFFICES ASSUME hand' \in Held PROVE FALSE
    OBVIOUS
  <2>1. PICK i \in 1..position : log[i] = log[position + 1]
    BY <1>1, <1>3
  <2>2. i \in 1..Len(log) /\ i # position + 1
    BY <1>1, <2>1 DEF TypeOK
  <2> QED
    BY <1>1, <2>1, <2>2 DEF LogInv
<1>5. \A t \in Held' : \E i \in 1..position' : log'[i] = t
  BY <1>1, <1>2, <1>3 DEF TypeOK
<1>6. position' > 0 /\ hand' = log'[position'] /\ hand' \notin Held'
  BY <1>1, <1>2, <1>4 DEF TypeOK
<1> QED
  BY <1>1, <1>2, <1>5, <1>6 DEF SlotInv

\* StartContainer, with or without an entry for the new container.
LEMMA SlotInvStart ==
  ASSUME TypeOK, SlotInv, pc = "launch", StartContainer,
         UNCHANGED <<log, position, hand>>,
         \/ pc' = "check" /\ active' = [active EXCEPT ![hand] = created + 1]
         \/ pc' = "down" /\ UNCHANGED active
  PROVE  SlotInv'
PROOF
<1>1. /\ position \in 1..Len(log) /\ hand = log[position]
      /\ hand \in Tasks /\ hand \in InLog
  BY DEF SlotInv, TypeOK, InLog
<1>2. created + 1 \in Containers /\ created' = created + 1 /\ created \in Nat
  BY PipelineAssumption DEF StartContainer, TypeOK
<1>3. /\ contTask' = [contTask EXCEPT ![created + 1] = hand]
      /\ contStep' = [contStep EXCEPT ![created + 1] = "validate"]
  BY DEF StartContainer
<1>4. \A b \in Containers : b > created' => contStep'[b] = "none"
  BY <1>2, <1>3 DEF SlotInv, TypeOK
<1>5. ASSUME NEW b \in Containers, b <= created' PROVE contTask'[b] \in InLog'
  <2>1. InLog' = InLog
    BY DEF InLog
  <2>2. contTask'[b] = IF b = created + 1 THEN hand ELSE contTask[b]
    BY <1>2, <1>3 DEF TypeOK
  <2>3. CASE b = created + 1
    BY <1>1, <2>1, <2>2, <2>3
  <2>4. CASE b # created + 1
    <3>1. b <= created
      BY <1>2, <1>5, <2>4 DEF Containers
    <3> QED
      BY <2>1, <2>2, <2>4, <3>1 DEF SlotInv
  <2> QED
    BY <2>3, <2>4
<1>6. \A t \in Held : /\ active[t] \in Containers /\ active[t] <= created
                      /\ contTask'[active[t]] = t
  BY <1>2, <1>3 DEF SlotInv, TypeOK, Held
<1>7. \A t \in Held' : active'[t] <= created' /\ contTask'[active'[t]] = t
  <2>1. CASE pc' = "down" /\ UNCHANGED active
    BY <2>1, <1>2, <1>6 DEF Held
  <2>2. CASE active' = [active EXCEPT ![hand] = created + 1]
    BY <2>2, <1>1, <1>2, <1>3, <1>6 DEF Held, TypeOK
  <2> QED
    BY <2>1, <2>2
<1>8. \A t \in Held' : \E i \in 1..position' : log'[i] = t
  BY <1>1 DEF Held, SlotInv, TypeOK
<1> QED
  BY <1>4, <1>5, <1>7, <1>8 DEF SlotInv

\* A step of the loop, or a crash, that moves pc only.
LEMMA SlotInvMove ==
  ASSUME SlotInv, pc' \in {"check", "capacity", "down"},
         UNCHANGED <<log, position, hand, active, created, contTask, contStep>>
  PROVE  SlotInv'
BY DEF SlotInv, Held, InLog

\* The containers are gone when the consumer starts with an empty dict.
LEMMA SlotInvRecovery ==
  ASSUME TypeOK, SlotInv, RecoveryStep
  PROVE  SlotInv'
PROOF
<1>1. CASE Restart
  <2>1. /\ UNCHANGED <<log, created, contTask, contStep>>
        /\ pc' = "check" /\ active' = [t \in Tasks |-> 0]
    BY <1>1 DEF Restart, containerVars
  <2>2. Held' = {}
    BY <2>1 DEF Held
  <2> QED
    BY <2>1, <2>2 DEF SlotInv, InLog
<1>2. ASSUME NEW b \in Containers, RemoveContainer(b) PROVE SlotInv'
  <2>1. /\ UNCHANGED <<log, position, pc, hand, active, created, contTask>>
        /\ Running(b) /\ contStep' = [contStep EXCEPT ![b] = "removed"]
    BY <1>2 DEF RemoveContainer, kafkaVars, consumerVars
  <2>2. b \in Nat /\ created \in Nat /\ contStep[b] # "none"
    BY <2>1, PipelineAssumption DEF TypeOK, RunningSteps
  <2>3. \A c \in Containers : c > created => contStep'[c] = "none"
    BY <2>1, <2>2 DEF SlotInv, TypeOK
  <2> QED
    BY <2>1, <2>3 DEF SlotInv, Held, InLog
<1> QED
  BY <1>1, <1>2 DEF RecoveryStep

LEMMA SlotInvStep ==
  ASSUME TypeOK, LogInv, SlotInv, [Next]_vars
  PROVE  SlotInv'
PROOF
<1>1. CASE Aside
  BY <1>1, SlotInvAside
<1>2. ASSUME NEW t \in Tasks, StopOverdue(t) \/ ReapOutOfMemory(t) \/ ReapExited(t)
      PROVE  SlotInv'
  <2>1. /\ t \in Held /\ Forget(t) /\ UNCHANGED <<log, position, created, contTask>>
        /\ \/ pc' = "limit" /\ hand' = t
           \/ pc' = "capacity"
    BY <1>2 DEF StopOverdue, ReapOutOfMemory, ReapExited, TimedOut, kafkaVars
  <2> QED
    BY <2>1, SlotInvForget
<1>3. CASE Poll
  BY <1>3, SlotInvPoll
<1>4. CASE Launch \/ CrashAfterStart
  <2>1. /\ pc = "launch" /\ StartContainer /\ UNCHANGED <<log, position, hand>>
        /\ \/ pc' = "check" /\ active' = [active EXCEPT ![hand] = created + 1]
           \/ pc' = "down" /\ UNCHANGED active
    BY <1>4 DEF Launch, CrashAfterStart, kafkaVars
  <2> QED
    BY <2>1, SlotInvStart
<1>5. CASE NothingToHandle \/ WriteLimitError \/ SkipPoll \/ Crash
  <2>1. /\ pc' \in {"check", "capacity", "down"}
        /\ UNCHANGED <<log, position, hand, active, created, contTask, contStep>>
    BY <1>5 DEF NothingToHandle, WriteLimitError, SkipPoll, Crash, kafkaVars,
         containerVars
  <2> QED
    BY <2>1, SlotInvMove
<1>6. CASE RecoveryStep
  BY <1>6, SlotInvRecovery
<1>7. ASSUME NEW b \in Containers, ContainerStep(b) PROVE SlotInv'
  BY <1>7, SlotInvContainer
<1> QED
  BY <1>1, <1>2, <1>3, <1>4, <1>5, <1>6, <1>7 DEF Next, Aside, ConsumerStep

THEOREM SlotsCorrect == Spec => []SlotInv
PROOF
<1>1. TypeOK /\ LogInv /\ SlotInv /\ [Next]_vars => SlotInv'
  BY SlotInvStep
<1> QED
  BY <1>1, SlotInvInit, TypeCorrect, QueueCorrect, PTL DEF Spec

-----------------------------------------------------------------------------
(* Containers that run.                                                     *)

\* How a step changes the set of running containers: some end while the dict
\* keeps the entries of the others, or one is started for the task in hand.
RunsOnlyEnd ==
  /\ UNCHANGED contTask
  /\ \A b \in Containers : Running(b)' => Running(b)
  /\ pc' # "down" => \/ pc # "down" /\ \A b \in Containers :
                                        Running(b)' => active'[contTask[b]] = active[contTask[b]]
                     \/ \A b \in Containers : ~Running(b)'

LEMMA RunsStep ==
  ASSUME TypeOK, SlotInv, NoForgottenContainer, [Next]_vars
  PROVE  RunsOnlyEnd \/ Launch \/ CrashAfterStart
PROOF
<1>1. ASSUME Aside PROVE RunsOnlyEnd
  BY <1>1, AsideFrame DEF RunsOnlyEnd
<1>2. ASSUME NEW t \in Tasks, StopOverdue(t) \/ ReapOutOfMemory(t) \/ ReapExited(t)
      PROVE  RunsOnlyEnd
  <2>1. /\ t \in Held /\ Forget(t) /\ UNCHANGED contTask /\ pc = "check"
    BY <1>2 DEF StopOverdue, ReapOutOfMemory, ReapExited, TimedOut
  <2>2. /\ active[t] \in Containers
        /\ contStep' = [contStep EXCEPT ![active[t]] = "removed"]
        /\ active' = [active EXCEPT ![t] = 0]
    BY <2>1 DEF Held, Forget, TypeOK
  <2>3. contStep'[active[t]] \notin RunningSteps
    BY <2>2 DEF TypeOK, RunningSteps
  <2>4. \A b \in Containers : Running(b)' => Running(b) /\ b # active[t]
    BY <2>2, <2>3 DEF TypeOK
  <2>5. \A b \in Containers : Running(b)' => contTask[b] # t
    BY <2>1, <2>4 DEF NoForgottenContainer
  <2>6. \A b \in Containers :
           Running(b)' => active'[contTask[b]] = active[contTask[b]]
    BY <2>2, <2>5 DEF TypeOK
  <2> QED
    BY <2>1, <2>4, <2>6 DEF RunsOnlyEnd
<1>3. ASSUME NothingToHandle \/ WriteLimitError \/ SkipPoll \/ Poll \/ Crash
      PROVE  RunsOnlyEnd
  BY <1>3 DEF NothingToHandle, WriteLimitError, SkipPoll, Poll, Crash,
       RunsOnlyEnd, containerVars
<1>4. ASSUME Restart PROVE RunsOnlyEnd
  BY <1>4 DEF Restart, RunsOnlyEnd, containerVars
<1>5. ASSUME NEW b \in Containers, RemoveContainer(b) PROVE RunsOnlyEnd
  BY <1>5 DEF RemoveContainer, RunsOnlyEnd, consumerVars, TypeOK, RunningSteps
<1>6. ASSUME NEW b \in Containers, ContainerStep(b) PROVE RunsOnlyEnd
  <2>1. PICK s \in ContainerSteps : contStep' = [contStep EXCEPT ![b] = s]
    BY <1>6, ContainerFrame
  <2>2. UNCHANGED <<pc, active, contTask>> /\ Running(b)
    BY <1>6, ContainerFrame
  <2>3. \A c \in Containers : Running(c)' => Running(c)
    BY <2>1, <2>2 DEF TypeOK
  <2> QED
    BY <2>2, <2>3 DEF RunsOnlyEnd
<1> QED
  BY <1>1, <1>2, <1>3, <1>4, <1>5, <1>6 DEF Next, Aside, ConsumerStep, RecoveryStep

RunInv == NoForgottenContainer /\ SoleRunner

LEMMA RunInvInit == Init => RunInv
BY DEF Init, RunInv, NoForgottenContainer, SoleRunner, RunningSteps

\* The container started is the only one of its task: otherwise the dict
\* would hold that other one, and the task in hand has no entry.
LEMMA StartedAlone ==
  ASSUME TypeOK, SlotInv, RunInv, pc = "launch", StartContainer
  PROVE  /\ created + 1 \in Containers /\ hand \in Tasks
         /\ \A b \in Containers : Running(b) => contTask[b] # hand /\ b # created + 1
         /\ contTask' = [contTask EXCEPT ![created + 1] = hand]
         /\ \A b \in Containers : Running(b)' <=> Running(b) \/ b = created + 1
PROOF
<1>1. created + 1 \in Containers /\ created \in Nat
  BY PipelineAssumption DEF StartContainer, TypeOK
<1>2. hand \in Tasks /\ active[hand] = 0
  BY DEF SlotInv, TypeOK, Held
<1>3. \A b \in Containers : Running(b) => b # 0 /\ active[contTask[b]] = b
  BY DEF RunInv, NoForgottenContainer
<1>4. contStep[created + 1] = "none"
  BY <1>1 DEF SlotInv
<1>5. /\ contTask' = [contTask EXCEPT ![created + 1] = hand]
      /\ contStep' = [contStep EXCEPT ![created + 1] = "validate"]
  BY DEF StartContainer
<1> QED
  BY <1>1, <1>2, <1>3, <1>4, <1>5 DEF TypeOK, RunningSteps

LEMMA RunInvStep ==
  ASSUME TypeOK, SlotInv, RunInv, [Next]_vars
  PROVE  RunInv'
PROOF
<1>1. CASE RunsOnlyEnd
  BY <1>1 DEF RunInv, NoForgottenContainer, SoleRunner, RunsOnlyEnd
<1>2. CASE Launch \/ CrashAfterStart
  <2>1. pc = "launch" /\ StartContainer
    BY <1>2 DEF Launch, CrashAfterStart
  <2>2. \A b \in Containers :
          Running(b) => contTask'[b] = contTask[b] /\ contTask[b] # hand
    BY <2>1, StartedAlone DEF TypeOK
  <2>3. contTask'[created + 1] = hand
    BY <2>1, StartedAlone DEF TypeOK
  <2>4. SoleRunner'
    BY <2>1, <2>2, <2>3, StartedAlone DEF RunInv, SoleRunner
  <2>5. NoForgottenContainer'
    <3>1. CASE Launch
      <4>1. active' = [active EXCEPT ![hand] = created + 1]
        BY <3>1 DEF Launch
      <4>2. ASSUME NEW b \in Containers, Running(b), contTask[b] \in Tasks
            PROVE  active'[contTask[b]] = b
        BY <4>1, <4>2, <2>1, <2>2 DEF RunInv, NoForgottenContainer, TypeOK
      <4>3. \A b \in Containers : Running(b) => contTask[b] \in Tasks
        BY <2>1, PipelineAssumption DEF RunInv, NoForgottenContainer, SlotInv,
             TypeOK, RunningSteps, InLog
      <4>4. active'[hand] = created + 1
        BY <4>1, <2>1, StartedAlone DEF TypeOK
      <4> QED
        BY <4>2, <4>3, <4>4, <2>1, <2>2, <2>3, StartedAlone DEF NoForgottenContainer
    <3>2. CASE CrashAfterStart
      BY <3>2 DEF CrashAfterStart, NoForgottenContainer
    <3> QED
      BY <1>2, <3>1, <3>2
  <2> QED
    BY <2>4, <2>5 DEF RunInv
<1>3. NoForgottenContainer
  BY DEF RunInv
<1> QED
  BY <1>1, <1>2, <1>3, RunsStep

\* While the consumer is up, every container that runs is the one the dict
\* holds for its task: assigning containers[taskID] drops none.
THEOREM ContainersRemembered == Spec => []NoForgottenContainer
PROOF
<1>1. TypeOK /\ SlotInv /\ RunInv /\ [Next]_vars => RunInv'
  BY RunInvStep
<1>2. RunInv => NoForgottenContainer
  BY DEF RunInv
<1> QED
  BY <1>1, <1>2, RunInvInit, TypeCorrect, SlotsCorrect, PTL DEF Spec

\* Two containers never run one task, whatever crashes and redeliveries do.
THEOREM OneRunnerPerTask == Spec => []SoleRunner
PROOF
<1>1. TypeOK /\ SlotInv /\ RunInv /\ [Next]_vars => RunInv'
  BY RunInvStep
<1>2. RunInv => SoleRunner
  BY DEF RunInv
<1> QED
  BY <1>1, <1>2, RunInvInit, TypeCorrect, SlotsCorrect, PTL DEF Spec

\* update_resource_limit_error finds the task without a running container.
THEOREM LimitErrorAfterStop == Spec => []StoppedBeforeLimitError
PROOF
<1>1. TypeOK /\ SlotInv /\ NoForgottenContainer => StoppedBeforeLimitError
  BY DEF TypeOK, SlotInv, NoForgottenContainer, StoppedBeforeLimitError, Held
<1> QED
  BY <1>1, TypeCorrect, SlotsCorrect, ContainersRemembered, PTL

-----------------------------------------------------------------------------
(* MAX_ACTIVE_TASKS.                                                        *)

LoadInv ==
  /\ Cardinality(Held) <= MaxActiveTasks
  /\ pc = "launch" => Cardinality(Held) < MaxActiveTasks
  /\ RunningBounded

LEMMA LoadInvInit == Init => LoadInv
PROOF
<1> SUFFICES ASSUME Init PROVE LoadInv
  OBVIOUS
<1>1. Held = {} /\ {b \in Containers : Running(b)} = {}
  BY DEF Init, Held, RunningSteps
<1>2. Cardinality({b \in Containers : Running(b)}) = 0 /\ Cardinality(Held) = 0
  BY <1>1, FS_EmptySet
<1>3. pc = "check" /\ 0 <= MaxActiveTasks
  BY PipelineAssumption DEF Init
<1> QED
  BY <1>2, <1>3 DEF LoadInv, RunningBounded

LEMMA HeldFinite ==
  ASSUME TypeOK
  PROVE  /\ IsFiniteSet(Held) /\ Cardinality(Held) \in Nat
         /\ IsFiniteSet(Held') /\ Cardinality(Held') \in Nat
PROOF
<1>1. Held \in SUBSET Requests /\ Held' \in SUBSET Requests
  BY DEF Held
<1> QED
  BY <1>1, FS_Subset, FS_CardinalityType, PipelineAssumption

LEMMA RunningFinite ==
  /\ IsFiniteSet({b \in Containers : Running(b)})
  /\ Cardinality({b \in Containers : Running(b)}) \in Nat
  /\ IsFiniteSet({b \in Containers : Running(b)}')
  /\ Cardinality({b \in Containers : Running(b)}') \in Nat
PROOF
<1>1. IsFiniteSet(Containers)
  BY FS_Interval, PipelineAssumption
<1> QED
  BY <1>1, FS_Subset, FS_CardinalityType

\* Each container that runs takes an entry of the dict of its own.
LEMMA RunningFitsDict ==
  ASSUME TypeOK, SlotInv, NoForgottenContainer, pc # "down"
  PROVE  Cardinality({b \in Containers : Running(b)}) <= Cardinality(Held)
PROOF
<1> DEFINE R == {b \in Containers : Running(b)}
           f == [b \in R |-> contTask[b]]
<1>1. ASSUME NEW b \in R PROVE contTask[b] \in Held /\ active[contTask[b]] = b
  <2>1. b \in Nat /\ created \in Nat /\ b # 0 /\ contStep[b] # "none"
    BY PipelineAssumption DEF TypeOK, RunningSteps
  <2>2. contTask[b] \in Tasks
    BY <2>1 DEF SlotInv, InLog, TypeOK
  <2> QED
    BY <2>1, <2>2 DEF NoForgottenContainer, Held
<1>2. f \in Injection(R, Held)
  BY <1>1 DEF Injection, IsInjective
<1> HIDE DEF R, f
<1>3. Cardinality(R) <= Cardinality(Held)
  BY <1>2, HeldFinite, FS_Injection
<1> QED
  BY <1>3 DEF R

LEMMA DictBounded ==
  ASSUME TypeOK, SlotInv, LoadInv, [Next]_vars
  PROVE  /\ Cardinality(Held') <= MaxActiveTasks
         /\ pc' = "launch" => Cardinality(Held') < MaxActiveTasks
PROOF
<1> USE HeldFinite, PipelineAssumption DEF LoadInv
<1>1. CASE UNCHANGED active /\ (pc' = "launch" => pc = "launch")
  BY <1>1 DEF Held
<1>2. ASSUME NEW t \in Tasks, StopOverdue(t) \/ ReapOutOfMemory(t) \/ ReapExited(t)
      PROVE  Cardinality(Held') <= MaxActiveTasks /\ pc' # "launch"
  <2>1. Held' \in SUBSET Held /\ pc' # "launch"
    BY <1>2 DEF StopOverdue, ReapOutOfMemory, ReapExited, Forget, Held, TypeOK
  <2>2. Cardinality(Held') <= Cardinality(Held)
    BY <2>1, FS_Subset
  <2> QED
    BY <2>1, <2>2
<1>3. CASE Poll
  BY <1>3 DEF Poll, HasCapacity, Held
<1>4. CASE Launch
  <2>1. Held' = Held \cup {hand} /\ hand \notin Held /\ pc' = "check" /\ pc = "launch"
    BY <1>4 DEF Launch, StartContainer, SlotInv, Held, TypeOK
  <2>2. Cardinality(Held') = Cardinality(Held) + 1
    BY <2>1, FS_AddElement
  <2> QED
    BY <2>1, <2>2
<1>5. CASE Restart
  <2>1. Held' = {} /\ pc' = "check"
    BY <1>5 DEF Restart, Held
  <2> QED
    BY <2>1, FS_EmptySet
<1>6. ASSUME NothingToHandle \/ WriteLimitError \/ SkipPoll \/ Crash \/ CrashAfterStart
      PROVE  UNCHANGED active /\ pc' # "launch"
  BY <1>6 DEF NothingToHandle, WriteLimitError, SkipPoll, Crash, CrashAfterStart
<1>7. ASSUME NEW b \in Containers, RemoveContainer(b) \/ ContainerStep(b)
      PROVE  UNCHANGED <<active, pc>>
  BY <1>7, ContainerFrame DEF RemoveContainer, consumerVars
<1>8. ASSUME Aside PROVE UNCHANGED <<active, pc>>
  BY <1>8, AsideFrame
<1> QED
  BY <1>1, <1>2, <1>3, <1>4, <1>5, <1>6, <1>7, <1>8
  DEF Next, Aside, ConsumerStep, RecoveryStep

LEMMA LoadInvStep ==
  ASSUME TypeOK, SlotInv, RunInv, LoadInv, [Next]_vars
  PROVE  LoadInv'
PROOF
<1> DEFINE R == {b \in Containers : Running(b)}
<1>1. NoForgottenContainer
  BY DEF RunInv
<1>2. CASE RunsOnlyEnd
  <2>1. R' \in SUBSET R
    BY <1>2 DEF RunsOnlyEnd
  <2> HIDE DEF R
  <2>2. Cardinality(R') <= Cardinality(R)
    BY <2>1, RunningFinite, FS_Subset DEF R
  <2>3. Cardinality(R') <= MaxActiveTasks
    BY <2>2, RunningFinite, PipelineAssumption DEF LoadInv, RunningBounded, R
  <2> QED
    BY <2>3, DictBounded DEF LoadInv, RunningBounded, R
<1>3. CASE Launch \/ CrashAfterStart
  <2>1. pc = "launch" /\ StartContainer
    BY <1>3 DEF Launch, CrashAfterStart
  <2>2. R' = R \cup {created + 1} /\ created + 1 \notin R
    BY <2>1, StartedAlone
  <2>3. Cardinality(R) < MaxActiveTasks
    BY <2>1, <1>1, RunningFitsDict, HeldFinite, RunningFinite, PipelineAssumption DEF LoadInv
  <2> HIDE DEF R
  <2>4. Cardinality(R') = Cardinality(R) + 1
    BY <2>2, RunningFinite, FS_AddElement DEF R
  <2>5. Cardinality(R') <= MaxActiveTasks
    BY <2>3, <2>4, RunningFinite, PipelineAssumption DEF R
  <2> QED
    BY <2>5, DictBounded DEF LoadInv, RunningBounded, R
<1> QED
  BY <1>1, <1>2, <1>3, RunsStep

\* No more than MAX_ACTIVE_TASKS containers run, the ones a crashed consumer
\* left behind included.
THEOREM CapacityRespected == Spec => []RunningBounded
PROOF
<1>1. TypeOK /\ SlotInv /\ RunInv /\ [Next]_vars => RunInv'
  BY RunInvStep
<1>2. TypeOK /\ SlotInv /\ RunInv /\ LoadInv /\ [Next]_vars => LoadInv'
  BY LoadInvStep
<1>3. LoadInv => RunningBounded
  BY DEF LoadInv
<1> QED
  BY <1>1, <1>2, <1>3, RunInvInit, LoadInvInit, TypeCorrect, SlotsCorrect, PTL DEF Spec

-----------------------------------------------------------------------------
(* Rows, results and messages.                                              *)

\* The rows saveToDB has created when it comes to a step.
RowsBefore == [base |-> {"state"},
               specific |-> {"state", "base"},
               result |-> {"state", "base", "specific"},
               produce |-> RowKinds]

\* A task that was deleted gets no further rows; one in the topic has all.
RowsInv ==
  /\ \A r \in Requests : req[r] \in DOMAIN RowsBefore
                          => rows[r] \in {{}, RowsBefore[req[r]]}
  /\ \A t \in InLog : rows[t] \in {{}, RowKinds}

\* What no step does to a task that is in the topic.
LEMMA LoggedStable ==
  ASSUME TypeOK, LogInv, [Next]_vars, NEW t \in InLog
  PROVE  t \in InLog' /\ cfg'[t] = cfg[t] /\ rows'[t] \in {rows[t], {}}
PROOF
<1>1. t \in Tasks /\ req[t] \in {"mark", "answered", "rejected"}
  BY DEF InLog, LogInv, TypeOK
<1>2. ASSUME NEW r \in Requests, ServerStep(r) \/ RequestFails(r)
      PROVE  cfg'[t] = cfg[t] /\ rows'[t] = rows[t]
  <2>1. CASE Submit(r)
    BY <1>1, <2>1 DEF Submit, tableVars, TypeOK
  <2>2. CASE CreateState(r)
    BY <1>1, <2>2 DEF CreateState, TypeOK
  <2>3. ASSUME NEW kind \in RowKinds, CreateRow(r, kind)
        PROVE  cfg'[t] = cfg[t] /\ rows'[t] = rows[t]
    BY <1>1, <2>3 DEF CreateRow, TypeOK
  <2> QED
    BY <1>2, <2>1, <2>2, <2>3 DEF ServerStep, FindSimilarTask, RefetchState,
         Produce, MarkQueued, RequestFails, tableVars
<1>3. ASSUME NEW r \in Requests, Deletion(r)
      PROVE  cfg'[t] = cfg[t] /\ rows'[t] \in {rows[t], {}}
  BY <1>1, <1>3 DEF Deletion, HardDelete, SoftDelete, serverVars, TypeOK
<1>4. ASSUME ConsumerStep \/ AutoCommit \/ (\E u \in Tasks : LimitPasses(u))
             \/ Crash \/ CrashAfterStart \/ RecoveryStep \/ UNCHANGED vars
      PROVE  UNCHANGED <<cfg, rows>>
  BY <1>4 DEF ConsumerStep, StopOverdue, ReapOutOfMemory, ReapExited,
       NothingToHandle, WriteLimitError, SkipPoll, Poll, Launch, AutoCommit,
       LimitPasses, Crash, CrashAfterStart, RecoveryStep, Restart,
       RemoveContainer, vars, serverVars, tableVars
<1>5. ASSUME NEW b \in Containers, ContainerStep(b) PROVE UNCHANGED <<cfg, rows>>
  BY <1>5, ContainerFrame
<1>6. cfg'[t] = cfg[t] /\ rows'[t] \in {rows[t], {}}
  BY <1>2, <1>3, <1>4, <1>5 DEF Next
<1>7. UNCHANGED log \/ \E r \in Requests : log' = Append(log, r)
  <2>1. ASSUME NEW r \in Requests, ServerStep(r) \/ RequestFails(r) \/ Deletion(r)
        PROVE  UNCHANGED log \/ log' = Append(log, r)
    BY <2>1 DEF ServerStep, Submit, FindSimilarTask, RefetchState, CreateState,
         CreateRow, Produce, MarkQueued, RequestFails, Deletion, HardDelete,
         SoftDelete, kafkaVars
  <2>2. ASSUME ConsumerStep \/ AutoCommit \/ (\E u \in Tasks : LimitPasses(u))
             \/ Crash \/ CrashAfterStart \/ RecoveryStep \/ UNCHANGED vars
        PROVE  UNCHANGED log
    BY <2>2 DEF ConsumerStep, StopOverdue, ReapOutOfMemory, ReapExited,
       NothingToHandle, WriteLimitError, SkipPoll, Poll, Launch, AutoCommit,
       LimitPasses, Crash, CrashAfterStart, RecoveryStep, Restart,
       RemoveContainer, vars, kafkaVars
  <2>3. ASSUME NEW b \in Containers, ContainerStep(b) PROVE UNCHANGED log
    BY <2>3, ContainerFrame
  <2> QED
    BY <2>1, <2>2, <2>3 DEF Next
<1>8. t \in InLog'
  <2>1. PICK i \in 1..Len(log) : log[i] = t
    BY DEF InLog
  <2>2. ASSUME NEW r \in Requests, log' = Append(log, r)
        PROVE  i \in 1..Len(log') /\ log'[i] = t
    BY <2>1, <2>2 DEF TypeOK
  <2> QED
    BY <1>7, <2>1, <2>2 DEF InLog
<1> QED
  BY <1>6, <1>8

LEMMA RowsInvStep ==
  ASSUME TypeOK, LogInv, RowsInv, [Next]_vars
  PROVE  RowsInv'
PROOF
<1>1. ASSUME UNCHANGED <<req, rows, log>> PROVE RowsInv'
  BY <1>1 DEF RowsInv, InLog
<1>2. ASSUME NEW r \in Requests, UNCHANGED <<rows, log>>,
             \E s \in RequestSteps \ DOMAIN RowsBefore : req' = [req EXCEPT ![r] = s]
      PROVE  RowsInv'
  BY <1>2 DEF RowsInv, InLog, TypeOK
<1>3. ASSUME NEW r \in Requests, r \notin InLog, UNCHANGED log,
              NEW step, NEW kinds \in SUBSET RowKinds,
              req' = [req EXCEPT ![r] = step], rows' = [rows EXCEPT ![r] = kinds],
              kinds = RowsBefore[step]
       PROVE  RowsInv'
  <2>1. \A q \in Requests \ {r} : req'[q] = req[q] /\ rows'[q] = rows[q]
    BY <1>3 DEF TypeOK
  <2>2. rows'[r] = RowsBefore[req'[r]]
    BY <1>3 DEF TypeOK
  <2>3. InLog' = InLog /\ InLog \subseteq Requests \ {r}
    BY <1>3 DEF InLog, TypeOK
  <2> QED
    BY <2>1, <2>2, <2>3 DEF RowsInv
<1>4. ASSUME NEW r \in Requests, CreateState(r) PROVE RowsInv'
  <2>1. r \notin InLog
    BY <1>4 DEF CreateState, LogInv, InLog
  <2>2. {"state"} \in SUBSET RowKinds /\ RowsBefore["base"] = {"state"}
    BY DEF RowsBefore, RowKinds
  <2>3. /\ UNCHANGED log /\ req' = [req EXCEPT ![r] = "base"]
        /\ rows' = [rows EXCEPT ![r] = {"state"}]
    BY <1>4 DEF CreateState, kafkaVars
  <2> QED
    BY <1>3, <2>1, <2>2, <2>3
<1>5. ASSUME NEW r \in Requests, NEW kind \in RowKinds, CreateRow(r, kind)
      PROVE  RowsInv'
  <2>1. r \notin InLog /\ kind \in {"base", "specific", "result"} /\ req[r] = kind
    BY <1>5 DEF CreateRow, LogInv, InLog
  <2>2. UNCHANGED log
    BY <1>5 DEF CreateRow, kafkaVars
  <2>3. CASE Exists(r)
    <3>1. rows' = [rows EXCEPT ![r] = rows[r] \cup {kind}]
          /\ req' = [req EXCEPT ![r] = NextAwait(kind)]
      BY <1>5, <2>3 DEF CreateRow
    <3>2. rows[r] = RowsBefore[kind]
      BY <2>1, <2>3 DEF RowsInv, RowsBefore
    <3>3. /\ NextAwait(kind) \in DOMAIN RowsBefore
          /\ rows[r] \cup {kind} = RowsBefore[NextAwait(kind)]
      BY <2>1, <3>2 DEF NextAwait, RowsBefore, RowKinds
    <3>4. rows[r] \cup {kind} \in SUBSET RowKinds
      BY <2>1 DEF TypeOK
    <3> QED
      BY <1>3, <2>1, <2>2, <3>1, <3>3, <3>4
  <2>4. CASE ~Exists(r)
    <3>1. UNCHANGED rows /\ req' = [req EXCEPT ![r] = "rejected"]
      BY <1>5, <2>4 DEF CreateRow
    <3>2. "rejected" \in RequestSteps \ DOMAIN RowsBefore
      BY DEF RequestSteps, RowsBefore
    <3> QED
      BY <1>2, <2>2, <3>1, <3>2
  <2> QED
    BY <2>3, <2>4
<1>6. ASSUME NEW r \in Requests, Produce(r) PROVE RowsInv'
  <2>1. /\ UNCHANGED rows /\ req' = [req EXCEPT ![r] = "mark"]
        /\ log' = Append(log, r) /\ rows[r] \in {{}, RowKinds}
    BY <1>6 DEF Produce, tableVars, RowsInv, RowsBefore
  <2>2. ASSUME NEW t \in InLog' PROVE t \in InLog \/ t = r
    <3>1. PICK i \in 1..Len(log') : log'[i] = t
      BY DEF InLog
    <3>2. Len(log') = Len(log) + 1 /\ (i \in 1..Len(log) \/ i = Len(log) + 1)
      BY <2>1, <3>1 DEF TypeOK
    <3>3. i \in 1..Len(log) => log[i] = t
      BY <2>1, <3>1 DEF TypeOK
    <3>4. i = Len(log) + 1 => t = r
      BY <2>1, <3>1 DEF TypeOK
    <3> QED
      BY <3>2, <3>3, <3>4 DEF InLog
  <2>3. "mark" \notin DOMAIN RowsBefore
    BY DEF RowsBefore
  <2> QED
    BY <2>1, <2>2, <2>3 DEF RowsInv, TypeOK
<1>7. ASSUME NEW r \in Requests, Deletion(r) PROVE RowsInv'
  <2>1. UNCHANGED <<req, log>> /\ \A t \in Tasks : rows'[t] \in {rows[t], {}}
    BY <1>7 DEF Deletion, HardDelete, SoftDelete, serverVars, kafkaVars, TypeOK
  <2>2. InLog' = InLog /\ InLog \subseteq Tasks
    BY <2>1 DEF InLog, TypeOK
  <2> QED
    BY <2>1, <2>2 DEF RowsInv
<1>8. ASSUME NEW r \in Requests,
             Submit(r) \/ FindSimilarTask(r) \/ RefetchState(r) \/ MarkQueued(r)
               \/ RequestFails(r)
      PROVE  RowsInv'
  <2>1. UNCHANGED <<rows, log>>
    BY <1>8 DEF Submit, FindSimilarTask, RefetchState, MarkQueued, RequestFails,
         tableVars, kafkaVars
  <2>2. \E s \in {"find", "state", "refetch", "answered", "rejected"} :
           req' = [req EXCEPT ![r] = s]
    BY <1>8 DEF Submit, FindSimilarTask, RefetchState, MarkQueued, RequestFails
  <2> QED
    BY <1>2, <2>1, <2>2 DEF RequestSteps, RowsBefore
<1>9. ASSUME ConsumerStep \/ AutoCommit \/ (\E t \in Tasks : LimitPasses(t))
             \/ Crash \/ CrashAfterStart \/ RecoveryStep \/ UNCHANGED vars
      PROVE  UNCHANGED <<req, rows, log>>
  BY <1>9 DEF ConsumerStep, StopOverdue, ReapOutOfMemory, ReapExited,
       NothingToHandle, WriteLimitError, SkipPoll, Poll, Launch, AutoCommit,
       LimitPasses, Crash, CrashAfterStart, RecoveryStep, Restart,
       RemoveContainer, vars, serverVars, tableVars, kafkaVars
<1>10. ASSUME NEW b \in Containers, ContainerStep(b) PROVE UNCHANGED <<req, rows, log>>
  BY <1>10, ContainerFrame
<1> QED
  BY <1>1, <1>4, <1>5, <1>6, <1>7, <1>8, <1>9, <1>10 DEF Next, ServerStep

\* saveToDB creates the rows in order, and nothing adds to a deleted task.
THEOREM RowsCorrect == Spec => []RowsInv
PROOF
<1>1. Init => RowsInv
  BY DEF Init, RowsInv, RowsBefore, InLog
<1>2. TypeOK /\ LogInv /\ RowsInv /\ [Next]_vars => RowsInv'
  BY RowsInvStep
<1> QED
  BY <1>1, <1>2, TypeCorrect, QueueCorrect, PTL DEF Spec

\* A message stands for a task with all its rows, or for a deleted one.
THEOREM MessagesFollowRows == Spec => []MessageFollowsRows
PROOF
<1>1. RowsInv => MessageFollowsRows
  BY DEF RowsInv, MessageFollowsRows
<1> QED
  BY <1>1, RowsCorrect, PTL

\* What a container has achieved when it comes to a step: it has mined
\* before it saves, and the result row is written before it publishes.
Achieved(b) ==
  LET t == contTask[b]
      Written == "result" \in rows[t] => result[t] # "none"
  IN  /\ contStep[b] \in {"recheck", "save"} =>
           IF MinesClusters(b) THEN Written ELSE mined[b] # "none"
      /\ contStep[b] \in {"complete", "publish"} => Written
      /\ contStep[b] = "exit0" /\ Exists(t) => executed[t]

SavedInv ==
  /\ \A t \in Tasks : executed[t] => t \in InLog
  /\ \A b \in Containers : contStep[b] # "none" => Achieved(b)
  /\ PublishedIsSaved

\* Results and flags are written by containers only, and a step of any other
\* party leaves a container where it was, removes it or starts it.
LEMMA OtherSteps ==
  ASSUME TypeOK, [Next]_vars, \A b \in Containers : ~ContainerStep(b)
  PROVE  /\ UNCHANGED <<result, executed, mined>>
         /\ \A b \in Containers :
              \/ contStep'[b] = contStep[b] /\ contTask'[b] = contTask[b]
              \/ contStep'[b] \in {"validate", "removed"}
PROOF
<1>1. ASSUME Aside PROVE UNCHANGED <<result, executed, mined, contStep, contTask>>
  BY <1>1 DEF Aside, ServerStep, Submit, FindSimilarTask, RefetchState,
       CreateState, CreateRow, Produce, MarkQueued, RequestFails, Deletion,
       HardDelete, SoftDelete, AutoCommit, LimitPasses, vars, stateVars,
       containerVars
<1>2. ASSUME NothingToHandle \/ WriteLimitError \/ SkipPoll \/ Poll \/ Crash \/ Restart
      PROVE  UNCHANGED <<result, executed, mined, contStep, contTask>>
  BY <1>2 DEF NothingToHandle, WriteLimitError, SkipPoll, Poll, Crash, Restart,
       stateVars, containerVars
<1>3. ASSUME NEW t \in Tasks, StopOverdue(t) \/ ReapOutOfMemory(t) \/ ReapExited(t)
      PROVE  /\ UNCHANGED <<result, executed, mined, contTask>>
             /\ contStep' = [contStep EXCEPT ![active[t]] = "removed"]
  BY <1>3 DEF StopOverdue, ReapOutOfMemory, ReapExited, Forget, stateVars
<1>4. ASSUME NEW b \in Containers, RemoveContainer(b)
      PROVE  /\ UNCHANGED <<result, executed, mined, contTask>>
             /\ contStep' = [contStep EXCEPT ![b] = "removed"]
  BY <1>4 DEF RemoveContainer, stateVars
<1>5. ASSUME Launch \/ CrashAfterStart
      PROVE  /\ UNCHANGED <<result, executed, mined>>
             /\ contStep' = [contStep EXCEPT ![created + 1] = "validate"]
             /\ contTask' = [contTask EXCEPT ![created + 1] = hand]
  BY <1>5 DEF Launch, CrashAfterStart, StartContainer, stateVars
<1>6. ASSUME NEW c, NEW s \in {"validate", "removed"},
             contStep' = [contStep EXCEPT ![c] = s]
      PROVE  \A b \in Containers : b # c => contStep'[b] = contStep[b]
  BY <1>6 DEF TypeOK
<1>7. ASSUME NEW c, NEW s \in {"validate", "removed"},
             contStep' = [contStep EXCEPT ![c] = s]
      PROVE  \A b \in Containers : b = c => contStep'[b] \in {"validate", "removed"}
  BY <1>7 DEF TypeOK
<1>8. ASSUME NEW c, contTask' = [contTask EXCEPT ![c] = hand]
      PROVE  \A b \in Containers : b # c => contTask'[b] = contTask[b]
  BY <1>8 DEF TypeOK
<1> QED
  BY <1>1, <1>2, <1>3, <1>4, <1>5, <1>6, <1>7, <1>8
  DEF Next, Aside, ConsumerStep, RecoveryStep

LEMMA SavedInvOther ==
  ASSUME TypeOK, LogInv, SlotInv, SavedInv, [Next]_vars,
         \A b \in Containers : ~ContainerStep(b)
  PROVE  SavedInv'
PROOF
<1>1. \A t \in Tasks : executed'[t] => t \in InLog /\ t \in InLog'
  BY OtherSteps, LoggedStable DEF SavedInv
<1>2. PublishedIsSaved'
  BY <1>1, OtherSteps, LoggedStable DEF SavedInv, PublishedIsSaved
<1>3. ASSUME NEW b \in Containers, contStep'[b] # "none" PROVE Achieved(b)'
  <2>1. CASE contStep'[b] \in {"validate", "removed"}
    BY <2>1 DEF Achieved
  <2>2. CASE contStep'[b] = contStep[b] /\ contTask'[b] = contTask[b]
    <3> DEFINE t == contTask[b]
    <3>2. t \in InLog
      BY <1>3, <2>2, StartedContainer
    <3>3. cfg'[t] = cfg[t] /\ rows'[t] \in {rows[t], {}}
      BY <3>2, LoggedStable
    <3>4. MinesClusters(b)' <=> MinesClusters(b)
      BY <2>2, <3>3 DEF MinesClusters
    <3>5. Achieved(b) /\ UNCHANGED <<result, executed, mined>>
      BY <1>3, <2>2, OtherSteps DEF SavedInv
    <3> QED
      BY <2>2, <3>3, <3>4, <3>5 DEF Achieved
  <2> QED
    BY <2>1, <2>2, OtherSteps
<1> QED
  BY <1>1, <1>2, <1>3 DEF SavedInv

LEMMA SavedInvContainer ==
  ASSUME TypeOK, SlotInv, SavedInv, NEW b \in Containers, ContainerStep(b)
  PROVE  SavedInv'
PROOF
<1> DEFINE t == contTask[b]
<1>1. /\ UNCHANGED <<cfg, rows, log, contTask>> /\ Running(b)
      /\ \E s \in ContainerSteps \ {"none"} : contStep' = [contStep EXCEPT ![b] = s]
  BY ContainerFrame
<1>2. t \in Tasks /\ t \in InLog
  <2>1. contStep[b] # "none"
    BY <1>1 DEF Running, RunningSteps
  <2> QED
    BY <2>1, StartedContainer
<1>3. Achieved(b)
  BY <1>1 DEF SavedInv, RunningSteps
\* What the step does to the result, the flag and the container itself.
<1>4. /\ \A u \in Tasks : result[u] # "none" => result'[u] # "none"
      /\ \A u \in Tasks : executed[u] => executed'[u]
      /\ \A u \in Tasks : executed'[u] => executed[u] \/ (u = t /\ contStep[b] = "publish")
      /\ \A c \in Containers \ {b} : contStep'[c] = contStep[c] /\ mined'[c] = mined[c]
      /\ Achieved(b)'
  <2>1. CASE Validate(b) \/ Load(b) \/ Claim(b) \/ ReportFailure(b)
    BY <1>1, <2>1 DEF Validate, Load, Claim, ReportFailure, Goto, Achieved,
         TypeOK, stateVars
  <2>2. CASE QueryFails(b) \/ OutOfMemory(b)
    <3> DEFINE Ends == {"exit2", "exit3", "fail", "oom"}
    <3>1. \A s \in RunningSteps : AfterFailedQuery[s] \subseteq Ends
      BY DEF AfterFailedQuery, RunningSteps
    <3>2. \E s \in Ends : contStep' = [contStep EXCEPT ![b] = s]
      <4>1. CASE QueryFails(b)
        BY <1>1, <3>1, <4>1 DEF QueryFails, Goto
      <4>2. CASE OutOfMemory(b)
        BY <4>2 DEF OutOfMemory, Goto
      <4> QED
        BY <2>2, <4>1, <4>2
    <3>3. UNCHANGED <<result, executed, mined>>
      BY <2>2 DEF QueryFails, OutOfMemory, stateVars
    <3> QED
      BY <3>2, <3>3 DEF Achieved, TypeOK
  <2>3. CASE MineDeps(b)
    BY <1>1, <2>3 DEF MineDeps, MinesClusters, Goto, Achieved, TypeOK, stateVars
  <2>4. CASE MineClusters(b)
    BY <1>1, <1>2, <2>4 DEF MineClusters, MinesClusters, WriteResult, Goto,
         Achieved, TypeOK, stateVars
  <2>5. CASE Recheck(b)
    BY <1>1, <1>3, <2>5 DEF Recheck, MinesClusters, Goto, Achieved, TypeOK, stateVars
  <2>6. CASE Save(b)
    BY <1>1, <1>2, <1>3, <2>6 DEF Save, MinesClusters, WriteResult, Goto, Achieved,
         TypeOK, stateVars
  <2>7. CASE Complete(b)
    BY <1>1, <1>3, <2>7 DEF Complete, Goto, Achieved, TypeOK, stateVars
  <2>8. CASE Publish(b)
    BY <1>1, <1>2, <1>3, <2>8 DEF Publish, Goto, Achieved, TypeOK
  <2> QED
    BY <2>1, <2>2, <2>3, <2>4, <2>5, <2>6, <2>7, <2>8 DEF ContainerStep, ContainerQuery
<1>5. \A u \in Tasks : executed'[u] => u \in InLog'
  BY <1>1, <1>2, <1>4 DEF SavedInv, InLog
<1>6. ASSUME NEW c \in Containers, contStep'[c] # "none" PROVE Achieved(c)'
  <2>1. CASE c = b
    BY <2>1, <1>4
  <2>2. CASE c # b
    <3>1. Achieved(c) /\ contTask[c] \in Tasks
      <4>1. contStep[c] # "none"
        BY <1>4, <1>6, <2>2
      <4> QED
        BY <4>1, StartedContainer DEF SavedInv
    <3>2. contStep'[c] = contStep[c] /\ mined'[c] = mined[c]
      BY <1>4, <2>2
    <3> QED
      BY <1>1, <1>4, <3>1, <3>2 DEF Achieved, MinesClusters
  <2> QED
    BY <2>1, <2>2
<1>7. PublishedIsSaved'
  BY <1>1, <1>2, <1>3, <1>4 DEF SavedInv, PublishedIsSaved, Achieved
<1> QED
  BY <1>5, <1>6, <1>7 DEF SavedInv

\* Containers mine, save and publish in this order.
THEOREM SavedCorrect == Spec => []SavedInv
PROOF
<1>1. Init => SavedInv
  BY DEF Init, SavedInv, PublishedIsSaved
<1>2. TypeOK /\ LogInv /\ SlotInv /\ SavedInv /\ [Next]_vars => SavedInv'
  BY SavedInvOther, SavedInvContainer
<1> QED
  BY <1>1, <1>2, TypeCorrect, QueueCorrect, SlotsCorrect, PTL DEF Spec

\* isExecuted is set on a task whose result row was written before.
THEOREM PublishedResultsSaved == Spec => []PublishedIsSaved
PROOF
<1>1. SavedInv => PublishedIsSaved
  BY DEF SavedInv
<1> QED
  BY <1>1, SavedCorrect, PTL

\* A container that exits with code 0 has set isExecuted.
THEOREM SuccessPublished == Spec => []SuccessMeansPublished
PROOF
<1>1. SavedInv => SuccessMeansPublished
  BY DEF SavedInv, Achieved, SuccessMeansPublished
<1> QED
  BY <1>1, SavedCorrect, PTL

-----------------------------------------------------------------------------
(* A settled status.                                                        *)

\* Where the status of a task can come from.  Only containers and the limit
\* error settle a task, so one without a container is not settled; the run of
\* a task that is run once comes to claim and complete before it has settled.
SettledInv ==
  /\ \A b \in Containers : b > created => contTask[b] = None
  /\ pc = "limit" => \E b \in Containers : contTask[b] = hand
  /\ \A t \in Tasks : (\A b \in Containers : contTask[b] # t) => ~Settled(t)
  /\ \A b \in Containers :
       Running(b) /\ RunOnce(contTask[b]) =>
         /\ status[contTask[b]] \notin {"INTERNAL_SERVER_ERROR",
                                        "RESOURCE_LIMIT_IS_REACHED"}
         /\ contStep[b] \in {"publish", "fail"} \/ ~Settled(contTask[b])

LEMMA SettledInvInit == Init => SettledInv
BY PipelineAssumption DEF Init, SettledInv, Settled, Severity, RunningSteps

\* The parties that write TasksState.status.
StatusWriter ==
  \/ \E r \in Requests : MarkQueued(r)
  \/ WriteLimitError
  \/ \E b \in Containers : Claim(b) \/ Complete(b) \/ ReportFailure(b)

LEMMA StatusWriters ==
  ASSUME [Next]_vars
  PROVE  StatusWriter \/ UNCHANGED status
PROOF
<1>1. ASSUME Aside PROVE StatusWriter \/ UNCHANGED status
  BY <1>1 DEF Aside, ServerStep, Submit, FindSimilarTask, RefetchState,
       CreateState, CreateRow, Produce, RequestFails, Deletion, HardDelete,
       SoftDelete, AutoCommit, LimitPasses, vars, stateVars, StatusWriter
<1>2. ASSUME ConsumerStep \/ Crash \/ CrashAfterStart \/ RecoveryStep
      PROVE  StatusWriter \/ UNCHANGED status
  BY <1>2 DEF ConsumerStep, StopOverdue, ReapOutOfMemory, ReapExited,
       NothingToHandle, SkipPoll, Poll, Launch, Crash, CrashAfterStart,
       RecoveryStep, Restart, RemoveContainer, stateVars, StatusWriter
<1>3. ASSUME NEW b \in Containers, ContainerStep(b)
      PROVE  StatusWriter \/ UNCHANGED status
  BY <1>3 DEF ContainerStep, ContainerQuery, Validate, Load, Recheck, Save,
       Publish, MineDeps, MineClusters, QueryFails, OutOfMemory, stateVars,
       StatusWriter
<1> QED
  BY <1>1, <1>2, <1>3 DEF Next, Aside

LEMMA StatusWritten ==
  ASSUME TypeOK, NEW t \in Tasks, NEW s, SetStatus(t, s)
  PROVE  \A u \in Tasks : \/ status'[u] = status[u]
                          \/ u = t /\ status'[u] = s
BY DEF SetStatus, TypeOK

\* What containers leave of the other parties' state, and they of theirs.
LEMMA StartsOrKeeps ==
  ASSUME [Next]_vars, TypeOK
  PROVE  \/ Launch \/ CrashAfterStart
         \/ /\ UNCHANGED <<created, contTask>>
            /\ pc' = "limit" => \/ pc = "limit" /\ UNCHANGED hand
                                \/ hand' \in Held
PROOF
<1>1. ASSUME Aside PROVE UNCHANGED <<created, contTask, pc, hand>>
  BY <1>1, AsideFrame
<1>2. ASSUME NEW t \in Tasks, StopOverdue(t) \/ ReapOutOfMemory(t) \/ ReapExited(t)
      PROVE  /\ UNCHANGED <<created, contTask>>
             /\ pc' = "limit" => hand' \in Held
  BY <1>2 DEF StopOverdue, ReapOutOfMemory, ReapExited, TimedOut
<1>3. ASSUME \/ NothingToHandle \/ WriteLimitError \/ SkipPoll \/ Poll
             \/ Crash \/ RecoveryStep
      PROVE  UNCHANGED <<created, contTask>> /\ pc' # "limit"
  BY <1>3 DEF NothingToHandle, WriteLimitError, SkipPoll, Poll, Crash, Restart,
       RecoveryStep, RemoveContainer, containerVars, consumerVars
<1>4. ASSUME NEW b \in Containers, ContainerStep(b)
      PROVE  UNCHANGED <<created, contTask, pc, hand>>
  BY <1>4, ContainerFrame
<1> QED
  BY <1>1, <1>2, <1>3, <1>4 DEF Next, Aside, ConsumerStep

\* Every write of a status that settles has a container behind it, and the
\* containers of a task that is run once write in the order of Execute.
LEMMA SettledWrites ==
  ASSUME TypeOK, LogInv, SlotInv, RunInv, SettledInv, StatusWriter,
         NEW t \in Tasks, RunOnce(t)
  PROVE  \/ status'[t] = status[t]
         \/ req[t] = "mark" /\ ~Settled(t)'
         \/ ~Settled(t) /\ ~Settled(t)'
         \/ /\ \E b \in Containers : contTask[b] = t
            /\ ~Settled(t) /\ status'[t] = "COMPLETED"
            /\ \A b \in Containers :
                 Running(b)' /\ contTask[b] = t => contStep'[b] = "publish"
         \/ /\ \E b \in Containers : contTask[b] = t
            /\ status'[t] = "INTERNAL_SERVER_ERROR"
            /\ status[t] \notin {"INTERNAL_SERVER_ERROR", "RESOURCE_LIMIT_IS_REACHED"}
            /\ \A b \in Containers : contTask[b] = t => ~Running(b)'
         \/ /\ \E b \in Containers : contTask[b] = t
            /\ status'[t] = "RESOURCE_LIMIT_IS_REACHED"
            /\ \A b \in Containers : contTask[b] = t => ~Running(b)'
PROOF
<1>1. ASSUME NEW r \in Requests, MarkQueued(r), status'[t] # status[t]
      PROVE  req[t] = "mark" /\ ~Settled(t)'
  BY <1>1, StatusWritten DEF MarkQueued, Settled, Severity
<1>2. ASSUME WriteLimitError, status'[t] # status[t]
      PROVE  /\ \E b \in Containers : contTask[b] = t
             /\ status'[t] = "RESOURCE_LIMIT_IS_REACHED"
             /\ \A b \in Containers : contTask[b] = t => ~Running(b)'
  <2>1. hand \in Tasks \ Held
    BY <1>2 DEF WriteLimitError, SlotInv
  <2>2. hand = t /\ status'[t] = "RESOURCE_LIMIT_IS_REACHED" /\ UNCHANGED contStep
    BY <1>2, <2>1, StatusWritten DEF WriteLimitError, containerVars
  <2>3. \A b \in Containers : Running(b) => contTask[b] # t
    BY <1>2, <2>1, <2>2 DEF WriteLimitError, RunInv, NoForgottenContainer, Held, TypeOK
  <2> QED
    BY <1>2, <2>2, <2>3 DEF WriteLimitError, SettledInv
<1>3. ASSUME NEW b \in Containers, Claim(b) \/ Complete(b) \/ ReportFailure(b),
             status'[t] # status[t]
      PROVE  /\ contTask[b] = t /\ Running(b)
             /\ \A c \in Containers : contTask[c] = t => c = b
             /\ status[t] \notin {"INTERNAL_SERVER_ERROR", "RESOURCE_LIMIT_IS_REACHED"}
             /\ contStep[b] \in {"publish", "fail"} \/ ~Settled(t)
             /\ contStep' = [contStep EXCEPT ![b] = contStep'[b]]
             /\ \/ Claim(b) /\ ~Settled(t)'
                \/ Complete(b) /\ status'[t] = "COMPLETED" /\ contStep'[b] = "publish"
                \/ /\ ReportFailure(b) /\ status'[t] = "INTERNAL_SERVER_ERROR"
                   /\ contStep'[b] = "exit1"
  <2>1. Running(b) /\ contStep[b] # "none"
    BY <1>3 DEF Claim, Complete, ReportFailure, RunningSteps
  <2>2. contTask[b] \in Tasks
    BY <2>1, StartedContainer
  <2>3. contTask[b] = t
    BY <1>3, <2>2, StatusWritten DEF Claim, Complete, ReportFailure
  <2>4. /\ \A c \in Containers : contTask[c] = t => c = b
        /\ status[t] \notin {"INTERNAL_SERVER_ERROR", "RESOURCE_LIMIT_IS_REACHED"}
        /\ contStep[b] \in {"publish", "fail"} \/ ~Settled(t)
    BY <2>1, <2>3 DEF RunOnce, SettledInv
  <2>5. contStep' = [contStep EXCEPT ![b] = contStep'[b]]
    BY <1>3 DEF Claim, Complete, ReportFailure, Goto, TypeOK
  <2>6. \/ Claim(b) /\ ~Settled(t)'
        \/ Complete(b) /\ status'[t] = "COMPLETED" /\ contStep'[b] = "publish"
        \/ /\ ReportFailure(b) /\ status'[t] = "INTERNAL_SERVER_ERROR"
           /\ contStep'[b] = "exit1"
    <3>1. CASE Claim(b)
      BY <1>3, <2>2, <3>1, StatusWritten DEF Claim, Settled, Severity
    <3>2. CASE Complete(b)
      BY <1>3, <2>2, <3>2, StatusWritten DEF Complete, Goto, TypeOK
    <3>3. CASE ReportFailure(b)
      BY <1>3, <2>2, <3>3, StatusWritten DEF ReportFailure, Goto, TypeOK
    <3> QED
      BY <1>3, <3>1, <3>2, <3>3
  <2> QED
    BY <2>1, <2>3, <2>4, <2>5, <2>6
<1>4. ASSUME NEW b \in Containers, Claim(b), status'[t] # status[t]
      PROVE  ~Settled(t) /\ ~Settled(t)'
  BY <1>3, <1>4 DEF Claim, Complete, ReportFailure
<1>5. ASSUME NEW b \in Containers, Complete(b), status'[t] # status[t]
      PROVE  /\ contTask[b] = t /\ ~Settled(t) /\ status'[t] = "COMPLETED"
             /\ \A c \in Containers : contTask[c] = t => contStep'[c] = "publish"
  BY <1>3, <1>5 DEF Claim, Complete, ReportFailure
<1>6. ASSUME NEW b \in Containers, ReportFailure(b), status'[t] # status[t]
      PROVE  /\ contTask[b] = t /\ status'[t] = "INTERNAL_SERVER_ERROR"
             /\ status[t] \notin {"INTERNAL_SERVER_ERROR", "RESOURCE_LIMIT_IS_REACHED"}
             /\ \A c \in Containers : contTask[c] = t => ~Running(c)'
  BY <1>3, <1>6 DEF Claim, Complete, ReportFailure, RunningSteps
<1> QED
  BY <1>1, <1>2, <1>4, <1>5, <1>6 DEF StatusWriter

\* Where a running container can be that has written no status in this step.
LEMMA SettledSteps ==
  ASSUME TypeOK, [Next]_vars, ~Launch, ~CrashAfterStart,
         NEW b \in Containers, Running(b)'
  PROVE  /\ Running(b)
         /\ \/ contStep'[b] \in {"publish", "fail"}
            \/ contStep[b] \notin {"publish", "fail"}
PROOF
<1>1. ASSUME NEW c \in Containers, ContainerStep(c)
      PROVE  Running(b) /\ (contStep[b] = "publish" => contStep'[b] \in {"publish", "fail"})
             /\ (contStep[b] = "fail" => contStep'[b] = "fail")
  <2>1. PICK s \in ContainerSteps : contStep' = [contStep EXCEPT ![c] = s]
    BY <1>1, ContainerFrame
  <2>2. CASE b # c
    BY <2>1, <2>2 DEF TypeOK
  <2>3. CASE b = c /\ contStep[b] = "publish"
    <3>1. Publish(b) \/ QueryFails(b) \/ OutOfMemory(b)
      BY <1>1, <2>3 DEF ContainerStep, ContainerQuery, Validate, Load, Claim, Recheck,
           Save, Complete, ReportFailure, MineDeps, MineClusters
    <3>2. AfterFailedQuery["publish"] = {"fail"}
      BY DEF AfterFailedQuery
    <3>3. \E e \in {"exit0", "fail", "oom"} : contStep' = [contStep EXCEPT ![b] = e]
      BY <2>3, <3>1, <3>2 DEF Publish, QueryFails, OutOfMemory, Goto
    <3>4. contStep'[b] \in {"exit0", "fail", "oom"}
      BY <3>3 DEF TypeOK
    <3> QED
      BY <2>3, <3>4 DEF RunningSteps
  <2>4. CASE b = c /\ contStep[b] = "fail"
    <3>1. ReportFailure(b) \/ QueryFails(b) \/ OutOfMemory(b)
      BY <1>1, <2>4 DEF ContainerStep, ContainerQuery, Validate, Load, Claim, Recheck,
           Save, Complete, Publish, MineDeps, MineClusters
    <3>2. AfterFailedQuery["fail"] = {"exit2"}
      BY DEF AfterFailedQuery
    <3>3. \E e \in {"exit1", "exit2", "oom"} : contStep' = [contStep EXCEPT ![b] = e]
      BY <2>4, <3>1, <3>2 DEF ReportFailure, QueryFails, OutOfMemory, Goto
    <3>4. contStep'[b] \in {"exit1", "exit2", "oom"}
      BY <3>3 DEF TypeOK
    <3> QED
      BY <2>4, <3>4 DEF RunningSteps
  <2> QED
    BY <1>1, <2>2, <2>3, <2>4, ContainerFrame
<1>2. ASSUME \A c \in Containers : ~ContainerStep(c), contStep'[b] # contStep[b]
      PROVE  contStep'[b] = "removed"
  <2>1. CASE Aside
    BY <1>2, <2>1, AsideFrame
  <2>2. CASE \E t \in Tasks : StopOverdue(t) \/ ReapOutOfMemory(t) \/ ReapExited(t)
    BY <1>2, <2>2 DEF StopOverdue, ReapOutOfMemory, ReapExited, Forget, TypeOK
  <2>3. CASE RecoveryStep
    BY <1>2, <2>3 DEF RecoveryStep, Restart, RemoveContainer, containerVars, TypeOK
  <2>4. CASE NothingToHandle \/ WriteLimitError \/ SkipPoll \/ Poll \/ Crash
    BY <1>2, <2>4 DEF NothingToHandle, WriteLimitError, SkipPoll, Poll, Crash,
         containerVars
  <2> QED
    BY <1>2, <2>1, <2>2, <2>3, <2>4 DEF Next, Aside, ConsumerStep
<1> QED
  BY <1>1, <1>2 DEF RunningSteps

LEMMA SettledInvStart ==
  ASSUME TypeOK, SlotInv, RunInv, SettledInv, Launch \/ CrashAfterStart
  PROVE  SettledInv'
PROOF
<1>1. /\ pc = "launch" /\ StartContainer /\ UNCHANGED status /\ pc' # "limit"
  BY DEF Launch, CrashAfterStart, stateVars
<1>2. /\ created + 1 \in Containers /\ hand \in Tasks /\ created \in Nat
      /\ created' = created + 1
      /\ contTask' = [contTask EXCEPT ![created + 1] = hand]
      /\ contStep' = [contStep EXCEPT ![created + 1] = "validate"]
  BY <1>1, StartedAlone DEF StartContainer, TypeOK
<1>3. contTask[created + 1] = None /\ None \notin Tasks
  BY <1>2, PipelineAssumption DEF SettledInv
<1>4. \A b \in Containers : /\ b # created + 1 => contTask'[b] = contTask[b]
                            /\ b # created + 1 => contStep'[b] = contStep[b]
                            /\ b = created + 1 => contTask'[b] = hand
  BY <1>2 DEF TypeOK
<1>5. \A t \in Tasks : (\A b \in Containers : contTask'[b] # t) => ~Settled(t)'
  <2> SUFFICES ASSUME NEW t \in Tasks, \A b \in Containers : contTask'[b] # t
               PROVE  ~Settled(t)
    BY <1>1 DEF Settled
  <2>1. \A b \in Containers : contTask[b] # t
    BY <1>3, <1>4
  <2> QED
    BY <2>1 DEF SettledInv
<1>6. ASSUME NEW b \in Containers, Running(b)', RunOnce(contTask[b])'
      PROVE  /\ status'[contTask'[b]] \notin {"INTERNAL_SERVER_ERROR",
                                              "RESOURCE_LIMIT_IS_REACHED"}
             /\ contStep'[b] \in {"publish", "fail"} \/ ~Settled(contTask[b])'
  <2>1. CASE b = created + 1
    <3>1. contTask'[b] = hand /\ contTask'[created + 1] = hand
      BY <1>2, <1>4, <2>1
    <3>2. \A c \in Containers : contTask[c] # hand
      <4> SUFFICES ASSUME NEW c \in Containers, contTask[c] = hand PROVE FALSE
        OBVIOUS
      <4>1. c # created + 1
        BY <1>2, <1>3
      <4>2. contTask'[c] = hand
        BY <1>4, <4>1
      <4> QED
        BY <1>6, <2>1, <3>1, <4>1, <4>2 DEF RunOnce
    <3>3. ~Settled(hand)
      BY <1>2, <3>2 DEF SettledInv
    <3> QED
      BY <1>1, <3>1, <3>3 DEF Settled, Severity
  <2>2. CASE b # created + 1
    <3>1. Running(b) /\ contTask'[b] = contTask[b] /\ contStep'[b] = contStep[b]
      BY <1>4, <1>6, <2>2
    <3>2. contTask[b] \in Tasks
      BY <3>1, StartedContainer DEF RunningSteps
    <3>3. RunOnce(contTask[b])
      <4> SUFFICES ASSUME NEW c \in Containers, NEW d \in Containers,
                          contTask[c] = contTask[b], contTask[d] = contTask[b]
                   PROVE  c = d
        BY DEF RunOnce
      <4>1. c # created + 1 /\ d # created + 1
        BY <1>3, <3>2
      <4> QED
        BY <1>4, <1>6, <3>1, <4>1 DEF RunOnce
    <3> QED
      BY <1>1, <3>1, <3>3 DEF SettledInv, Settled
  <2> QED
    BY <2>1, <2>2
<1>7. \A b \in Containers : b > created' => contTask'[b] = None
  BY <1>2, <1>4 DEF SettledInv
<1> QED
  BY <1>1, <1>5, <1>6, <1>7 DEF SettledInv

LEMMA SettledInvStep ==
  ASSUME TypeOK, LogInv, SlotInv, RunInv, SettledInv, [Next]_vars
  PROVE  SettledInv'
PROOF
<1>1. CASE Launch \/ CrashAfterStart
  BY <1>1, SettledInvStart
<1>2. CASE /\ ~Launch /\ ~CrashAfterStart /\ UNCHANGED <<created, contTask>>
           /\ pc' = "limit" => (pc = "limit" /\ UNCHANGED hand) \/ hand' \in Held
  <2>1. \A b \in Containers : b > created' => contTask'[b] = None
    BY <1>2 DEF SettledInv
  <2>2. pc' = "limit" => \E b \in Containers : contTask'[b] = hand'
    BY <1>2 DEF SettledInv, SlotInv, Held, TypeOK
  <2>3. ASSUME NEW t \in Tasks, \A b \in Containers : contTask'[b] # t
        PROVE  ~Settled(t)'
    <3>1. RunOnce(t) /\ ~Settled(t) /\ \A b \in Containers : contTask[b] # t
      BY <1>2, <2>3 DEF SettledInv, RunOnce
    <3>2. UNCHANGED status => ~Settled(t)'
      BY <3>1 DEF Settled
    <3>3. StatusWriter => ~Settled(t)'
      BY <3>1, SettledWrites DEF Settled
    <3> QED
      BY <3>2, <3>3, StatusWriters
  <2>4. ASSUME NEW b \in Containers, Running(b)', RunOnce(contTask[b])'
        PROVE  /\ status'[contTask'[b]] \notin {"INTERNAL_SERVER_ERROR",
                                                "RESOURCE_LIMIT_IS_REACHED"}
               /\ contStep'[b] \in {"publish", "fail"} \/ ~Settled(contTask[b])'
    <3> DEFINE t == contTask[b]
    <3>1. /\ contTask'[b] = t /\ RunOnce(t) /\ Running(b)
          /\ contStep'[b] \in {"publish", "fail"} \/ contStep[b] \notin {"publish", "fail"}
      BY <1>2, <2>4, SettledSteps DEF RunOnce
    <3>2. t \in Tasks
      BY <3>1, StartedContainer DEF RunningSteps
    <3>3. /\ status[t] \notin {"INTERNAL_SERVER_ERROR", "RESOURCE_LIMIT_IS_REACHED"}
          /\ contStep[b] \in {"publish", "fail"} \/ ~Settled(t)
      BY <3>1 DEF SettledInv
    <3>4. CASE UNCHANGED status
      BY <3>1, <3>3, <3>4 DEF Settled
    <3>5. CASE StatusWriter
      <4>1. \/ status'[t] = status[t]
            \/ ~Settled(t)'
            \/ status'[t] = "COMPLETED" /\ contStep'[b] = "publish"
        BY <2>4, <3>1, <3>2, <3>5, SettledWrites
      <4> QED
        BY <3>1, <3>3, <4>1 DEF Settled, Severity
    <3> QED
      BY <3>4, <3>5, StatusWriters
  <2> QED
    BY <2>1, <2>2, <2>3, <2>4 DEF SettledInv
<1> QED
  BY <1>1, <1>2, StartsOrKeeps

\* A status that is settled gets worse at most, while its task has had one
\* container: what main.cpp and consumer.py write comes in this order.
THEOREM SettledStands == Spec => SettledStatusStands
PROOF
<1>1. ASSUME TypeOK, LogInv, SlotInv, RunInv, SettledInv, [Next]_vars,
             NEW t \in Tasks, Settled(t), req[t] # "mark", RunOnce(t)'
      PROVE  /\ status'[t] \in DOMAIN Severity
             /\ Severity[status'[t]] >= Severity[status[t]]
  <2>1. CASE UNCHANGED status
    BY <1>1, <2>1 DEF Settled, Severity
  <2>2. CASE StatusWriter
    <3>1. UNCHANGED contTask
      BY <2>2 DEF StatusWriter, MarkQueued, WriteLimitError, Claim, Complete,
           ReportFailure, containerVars
    <3>2. RunOnce(t)
      BY <1>1, <3>1 DEF RunOnce
    <3>3. \/ status'[t] = status[t]
          \/ /\ status'[t] = "INTERNAL_SERVER_ERROR"
             /\ status[t] \notin {"INTERNAL_SERVER_ERROR", "RESOURCE_LIMIT_IS_REACHED"}
          \/ status'[t] = "RESOURCE_LIMIT_IS_REACHED"
      BY <1>1, <2>2, <3>2, SettledWrites
    <3> QED
      BY <1>1, <3>3 DEF Settled, Severity
  <2> QED
    BY <1>1, <2>1, <2>2, StatusWriters
<1>2. TypeOK /\ LogInv /\ SlotInv /\ RunInv /\ SettledInv /\ [Next]_vars
        => SettledInv'
  BY SettledInvStep
<1>3. TypeOK /\ SlotInv /\ RunInv /\ [Next]_vars => RunInv'
  BY RunInvStep
<1>4. TypeOK /\ LogInv /\ SlotInv /\ RunInv /\ SettledInv /\ [Next]_vars
        => [\A t \in Tasks :
              Settled(t) /\ req[t] # "mark" /\ RunOnce(t)'
                => /\ status'[t] \in DOMAIN Severity
                   /\ Severity[status'[t]] >= Severity[status[t]]]_vars
  BY <1>1
<1> QED
  BY <1>2, <1>3, <1>4, SettledInvInit, RunInvInit, TypeCorrect, QueueCorrect,
     SlotsCorrect, PTL DEF Spec, SettledStatusStands

-----------------------------------------------------------------------------
(* The pipeline implements TaskPool.                                        *)

RunningTasks == {contTask[b] : b \in {c \in Containers : Running(c)}}
PublishedTasks == {t \in Tasks : executed[t] /\ Exists(t)}

\* What the containers that run stand for, and that the dict covers them.
LEMMA RunningTasksHeld ==
  ASSUME TypeOK, SlotInv
  PROVE  /\ RunningTasks \subseteq Tasks
         /\ NoForgottenContainer /\ pc # "down" => RunningTasks \subseteq Held
PROOF
<1>1. ASSUME NEW b \in Containers, Running(b) PROVE contTask[b] \in Tasks /\ b # 0
  <2>1. contStep[b] # "none"
    BY <1>1 DEF RunningSteps
  <2> QED
    BY <2>1, StartedContainer
<1> QED
  BY <1>1 DEF RunningTasks, NoForgottenContainer, Held

\* A container that leaves the running ones takes its task with it, because
\* no other container runs that task.
LEMMA RunEnds ==
  ASSUME TypeOK, SoleRunner, NEW b \in Containers, NEW s, UNCHANGED contTask,
         contStep' = [contStep EXCEPT ![b] = s], s \in RunningSteps => Running(b)
  PROVE  \/ RunningTasks' = RunningTasks
         \/ contTask[b] \in RunningTasks /\ RunningTasks' = RunningTasks \ {contTask[b]}
PROOF
<1>1. \A c \in Containers \ {b} : contStep'[c] = contStep[c]
  BY DEF TypeOK
<1>2. contStep'[b] = s
  BY DEF TypeOK
<1>3. CASE s \in RunningSteps \/ ~Running(b)
  BY <1>1, <1>2, <1>3 DEF RunningTasks
<1>4. CASE s \notin RunningSteps /\ Running(b)
  BY <1>1, <1>2, <1>4 DEF RunningTasks, SoleRunner
<1> QED
  BY <1>3, <1>4

\* Steps aside of the containers add nothing to the published tasks and take
\* one away at most.
LEMMA PublishedAside ==
  ASSUME TypeOK, LogInv, SavedInv, Aside
  PROVE  \/ PublishedTasks' = PublishedTasks
         \/ \E t \in PublishedTasks : PublishedTasks' = PublishedTasks \ {t}
PROOF
<1>1. UNCHANGED executed
  BY DEF Aside, ServerStep, Submit, FindSimilarTask, RefetchState, CreateState,
       CreateRow, Produce, MarkQueued, RequestFails, Deletion, HardDelete,
       SoftDelete, AutoCommit, LimitPasses, vars, stateVars
<1>2. [Next]_vars
  BY DEF Aside, Next
<1>3. \A t \in PublishedTasks : t \in Tasks /\ rows'[t] \in {rows[t], {}}
  BY <1>2, LoggedStable DEF SavedInv, PublishedTasks
<1>4. \A t \in Tasks \ PublishedTasks : t \notin PublishedTasks'
  <2> SUFFICES ASSUME NEW t \in Tasks, t \notin PublishedTasks, executed[t]
               PROVE  ~Exists(t)'
    BY <1>1 DEF PublishedTasks
  <2>1. rows'[t] \in {rows[t], {}}
    BY <1>2, LoggedStable DEF SavedInv
  <2> QED
    BY <2>1 DEF PublishedTasks
<1>5. CASE UNCHANGED rows
  BY <1>1, <1>5 DEF PublishedTasks
<1>6. ASSUME NEW r \in Requests, \A u \in Tasks \ {r} : rows'[u] = rows[u]
      PROVE  \/ PublishedTasks' = PublishedTasks
             \/ r \in PublishedTasks /\ PublishedTasks' = PublishedTasks \ {r}
  BY <1>1, <1>4, <1>6 DEF PublishedTasks
<1>7. ASSUME NEW r \in Requests, ServerStep(r) \/ RequestFails(r) \/ Deletion(r)
      PROVE  \A u \in Tasks \ {r} : rows'[u] = rows[u]
  BY <1>7 DEF ServerStep, Submit, FindSimilarTask, RefetchState, CreateState,
       CreateRow, Produce, MarkQueued, RequestFails, Deletion, HardDelete,
       SoftDelete, tableVars, TypeOK
<1>8. ASSUME AutoCommit \/ (\E t \in Tasks : LimitPasses(t)) \/ UNCHANGED vars
      PROVE  UNCHANGED rows
  BY <1>8 DEF AutoCommit, LimitPasses, vars, tableVars
<1> QED
  BY <1>5, <1>6, <1>7, <1>8 DEF Aside

\* A container's step keeps its task running, or ends the run; the last step
\* of a successful run publishes.
LEMMA PoolContainer ==
  ASSUME TypeOK, SlotInv, SoleRunner, NEW b \in Containers, ContainerStep(b)
  PROVE  \/ UNCHANGED <<RunningTasks, PublishedTasks>>
         \/ /\ contTask[b] \in RunningTasks
            /\ RunningTasks' = RunningTasks \ {contTask[b]}
            /\ PublishedTasks' \in {PublishedTasks, PublishedTasks \cup {contTask[b]}}
PROOF
<1>1. UNCHANGED <<rows, contTask>> /\ Running(b)
  BY ContainerFrame
<1>2. PICK s \in ContainerSteps : contStep' = [contStep EXCEPT ![b] = s]
  BY ContainerFrame
<1>3. \/ RunningTasks' = RunningTasks
      \/ contTask[b] \in RunningTasks /\ RunningTasks' = RunningTasks \ {contTask[b]}
  BY <1>1, <1>2, RunEnds
<1>4. CASE Publish(b)
  <2>1. contStep' = [contStep EXCEPT ![b] = "exit0"]
    BY <1>4 DEF Publish, Goto
  <2>2. ~Running(b)'
    BY <2>1 DEF TypeOK, RunningSteps
  <2>3. \A c \in Containers \ {b} : contStep'[c] = contStep[c]
    BY <2>1 DEF TypeOK
  <2>4. contTask[b] \in RunningTasks /\ contTask[b] \notin RunningTasks'
    BY <1>1, <2>2, <2>3 DEF RunningTasks, SoleRunner
  <2>5. contTask[b] \in Tasks
    BY <2>4, RunningTasksHeld
  <2>6. PublishedTasks' \in {PublishedTasks, PublishedTasks \cup {contTask[b]}}
    BY <1>1, <1>4, <2>5 DEF Publish, PublishedTasks, TypeOK
  <2> QED
    BY <1>3, <2>4, <2>6
<1>5. CASE ~Publish(b)
  <2>1. UNCHANGED executed
    BY <1>5 DEF ContainerStep, ContainerQuery, Validate, Load, Claim, Recheck, Save,
         Complete, ReportFailure, MineDeps, MineClusters, QueryFails, OutOfMemory,
         stateVars
  <2>2. PublishedTasks' = PublishedTasks
    BY <1>1, <2>1 DEF PublishedTasks
  <2> QED
    BY <1>3, <2>2
<1> QED
  BY <1>4, <1>5

LEMMA PoolStart ==
  ASSUME TypeOK, SlotInv, RunInv, LoadInv, Launch \/ CrashAfterStart
  PROVE  /\ hand \in Tasks \ RunningTasks
         /\ Cardinality(RunningTasks) < MaxActiveTasks
         /\ RunningTasks' = RunningTasks \cup {hand}
         /\ PublishedTasks' = PublishedTasks
PROOF
<1>1. /\ pc = "launch" /\ StartContainer /\ UNCHANGED <<executed, rows>>
  BY DEF Launch, CrashAfterStart, stateVars, tableVars
<1>2. hand \in Tasks \ RunningTasks
  BY <1>1, StartedAlone DEF RunningTasks
<1>3. RunningTasks \in SUBSET Held
  BY <1>1, RunningTasksHeld DEF RunInv
<1>4. Cardinality(RunningTasks) <= Cardinality(Held) /\ Cardinality(RunningTasks) \in Nat
  BY <1>3, HeldFinite, FS_Subset, FS_CardinalityType
<1>5. Cardinality(RunningTasks) < MaxActiveTasks
  BY <1>1, <1>4, HeldFinite, PipelineAssumption DEF LoadInv
<1>6. /\ \A b \in Containers : Running(b) => contTask'[b] = contTask[b]
      /\ contTask'[created + 1] = hand /\ created + 1 \in Containers
  BY <1>1, StartedAlone DEF TypeOK
<1>7. RunningTasks' = RunningTasks \cup {hand}
  BY <1>1, <1>6, StartedAlone DEF RunningTasks
<1> QED
  BY <1>1, <1>2, <1>5, <1>7 DEF PublishedTasks

\* Every behaviour of the pipeline is one of TaskPool.
THEOREM ImplementsPool == Spec => PoolSpec
PROOF
<1>1. Init => Pool!Init
  BY DEF Init, Pool!Init, RunningSteps
<1>2. TypeOK /\ LogInv /\ SlotInv /\ RunInv /\ LoadInv /\ SavedInv /\ [Next]_vars
        => [Pool!Next]_(Pool!vars)
  <2> SUFFICES ASSUME TypeOK, LogInv, SlotInv, RunInv, LoadInv, SavedInv, [Next]_vars
               PROVE  [Pool!Next]_(Pool!vars)
    OBVIOUS
  <2>1. UNCHANGED <<RunningTasks, PublishedTasks>> => UNCHANGED Pool!vars
    BY DEF Pool!vars, RunningTasks, PublishedTasks
  <2>2. ASSUME NEW t \in Tasks, t \notin RunningTasks,
                Cardinality(RunningTasks) < MaxActiveTasks,
                RunningTasks' = RunningTasks \cup {t},
                PublishedTasks' = PublishedTasks
         PROVE  Pool!Next
    <3>1. Pool!Begin(t)
      BY <2>2 DEF Pool!Begin, RunningTasks, PublishedTasks, Cardinality, Pool!Cardinality
    <3> QED
      BY <3>1 DEF Pool!Next
  <2>3. ASSUME NEW t \in Tasks, t \in RunningTasks,
                RunningTasks' = RunningTasks \ {t},
                PublishedTasks' \in {PublishedTasks, PublishedTasks \cup {t}}
         PROVE  Pool!Next
    <3>1. CASE PublishedTasks' = PublishedTasks
      <4>1. Pool!End(t)
        BY <2>3, <3>1 DEF Pool!End, RunningTasks, PublishedTasks
      <4> QED
        BY <4>1 DEF Pool!Next
    <3>2. CASE PublishedTasks' = PublishedTasks \cup {t}
      <4>1. Pool!Publish(t)
        BY <2>3, <3>2 DEF Pool!Publish, RunningTasks, PublishedTasks
      <4> QED
        BY <4>1 DEF Pool!Next
    <3> QED
      BY <2>3, <3>1, <3>2
  <2>4. ASSUME NEW t \in Tasks, t \in PublishedTasks,
                PublishedTasks' = PublishedTasks \ {t},
                RunningTasks' = RunningTasks
         PROVE  Pool!Next
    <3>1. Pool!Withdraw(t)
      BY <2>4 DEF Pool!Withdraw, RunningTasks, PublishedTasks
    <3> QED
      BY <3>1 DEF Pool!Next
  <2>5. RunningTasks \subseteq Tasks /\ PublishedTasks \subseteq Tasks
    BY RunningTasksHeld DEF PublishedTasks
  <2>6. CASE Launch \/ CrashAfterStart
    BY <2>6, <2>2, PoolStart
  <2>7. CASE Aside
    <3>1. RunningTasks' = RunningTasks
      BY <2>7, AsideFrame DEF RunningTasks
    <3> QED
      BY <2>5, <2>7, <2>1, <2>4, <3>1, PublishedAside
  <2>8. ASSUME NEW b \in Containers, ContainerStep(b)
        PROVE  \/ UNCHANGED <<RunningTasks, PublishedTasks>>
               \/ \E t \in RunningTasks :
                    /\ RunningTasks' = RunningTasks \ {t}
                    /\ PublishedTasks' \in {PublishedTasks, PublishedTasks \cup {t}}
    BY <2>8, PoolContainer DEF RunInv
  <2>9. ASSUME NothingToHandle \/ WriteLimitError \/ SkipPoll \/ Poll \/ Crash \/ Restart
        PROVE  UNCHANGED <<RunningTasks, PublishedTasks>>
    BY <2>9 DEF NothingToHandle, WriteLimitError, SkipPoll, Poll, Crash, Restart,
         stateVars, tableVars, containerVars, RunningTasks, PublishedTasks
  <2>10. ASSUME NEW b \in Containers, UNCHANGED <<rows, executed, contTask>>,
               contStep' = [contStep EXCEPT ![b] = "removed"]
        PROVE  /\ PublishedTasks' = PublishedTasks
               /\ \/ RunningTasks' = RunningTasks
                  \/ \E t \in RunningTasks : RunningTasks' = RunningTasks \ {t}
    <3>1. "removed" \notin RunningSteps /\ SoleRunner
      BY DEF RunningSteps, RunInv
    <3> QED
      BY <2>10, <3>1, RunEnds DEF PublishedTasks
  <2>11. ASSUME NEW t \in Tasks, StopOverdue(t) \/ ReapOutOfMemory(t) \/ ReapExited(t)
        PROVE  /\ active[t] \in Containers /\ UNCHANGED <<rows, executed, contTask>>
               /\ contStep' = [contStep EXCEPT ![active[t]] = "removed"]
    BY <2>11 DEF StopOverdue, ReapOutOfMemory, ReapExited, TimedOut, Held, Forget,
         TypeOK, stateVars, tableVars
  <2>12. ASSUME NEW b \in Containers, RemoveContainer(b)
        PROVE  /\ UNCHANGED <<rows, executed, contTask>>
               /\ contStep' = [contStep EXCEPT ![b] = "removed"]
    BY <2>12 DEF RemoveContainer, stateVars, tableVars
  <2>13. ASSUME ~Aside, ~Launch, ~CrashAfterStart
        PROVE  \/ UNCHANGED <<RunningTasks, PublishedTasks>>
               \/ \E t \in RunningTasks :
                    /\ RunningTasks' = RunningTasks \ {t}
                    /\ PublishedTasks' \in {PublishedTasks, PublishedTasks \cup {t}}
    BY <2>8, <2>9, <2>10, <2>11, <2>12, <2>13
    DEF Next, Aside, ConsumerStep, RecoveryStep
  <2> QED
    BY <2>5, <2>6, <2>7, <2>13, <2>1, <2>3
<1>3. TypeOK /\ SlotInv /\ RunInv /\ [Next]_vars => RunInv'
  BY RunInvStep
<1>4. TypeOK /\ SlotInv /\ RunInv /\ LoadInv /\ [Next]_vars => LoadInv'
  BY LoadInvStep
<1> QED
  BY <1>1, <1>2, <1>3, <1>4, RunInvInit, LoadInvInit, TypeCorrect, QueueCorrect,
     SlotsCorrect, SavedCorrect, PTL DEF Spec, PoolSpec, Pool!Spec

=============================================================================
