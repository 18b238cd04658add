------------------------ MODULE AgreeSetThreadsProofs ------------------------
(* Proofs about ParallelForeach and AgreeSetThreads: for every length of the *)
(* range, every number of threads and every failure to create one, f is      *)
(* called exactly once on each item before the loop returns; the map of the  *)
(* threads is complete before any of them reads it without the mutex, and    *)
(* the merged agree sets come from all clusters.                             *)
EXTENDS AgreeSetThreads, FiniteSetTheorems, TLAPS

\* Where the slice of worker w begins, and where the caller's own begins:
\* at the end of the slice before.
SliceStart(w) == IF w = 1 THEN 0 ELSE upto[w - 1]
SerialStart == SliceStart(spawned + 1)

-----------------------------------------------------------------------------
(* The slices fit into the range.                                          *)

LEMMA SliceSize ==
  ASSUME Length # 0
  PROVE  /\ ThreadsActual \in 1..Length
         /\ PerThread \in Nat
         /\ ThreadsActual * PerThread <= Length
PROOF
<1>1. ThreadsActual \in 1..Length
  BY ForeachAssumption DEF ThreadsActual
<1>2. PerThread \in Nat /\ ThreadsActual * PerThread <= Length
  BY <1>1, ForeachAssumption DEF PerThread
<1> QED
  BY <1>1, <1>2

LEMMA ProductMonotone ==
  ASSUME NEW a \in Nat, NEW b \in Nat, NEW q \in Nat, a <= b
  PROVE  a * q <= b * q /\ (a + 1) * q = a * q + q
PROOF
<1>1. PICK d \in Nat : b = a + d
  BY b - a \in Nat
<1>2. b * q = a * q + d * q
  BY <1>1
<1>3. a * q \in Nat /\ d * q \in Nat
  OBVIOUS
<1>4. (a + 1) * q = a * q + q
  OBVIOUS
<1> QED
  BY <1>2, <1>3, <1>4

\* What the iterators say has been treated.
Treated(i) ==
  \/ SerialStart <= i /\ i < next
  \/ \E w \in 1..spawned : SliceStart(w) <= i /\ i < cursor[w]

\* The slices follow each other from 0 to SerialStart, and the iterator of a
\* worker is in its slice.
Slices ==
  /\ spawned = 0 \/ spawned \in Workers
  /\ SerialStart \in 0..next
  /\ \A w \in 1..spawned :
       SliceStart(w) <= cursor[w] /\ cursor[w] <= upto[w] /\ upto[w] <= SerialStart
  /\ \A v, w \in 1..spawned : v < w => upto[v] <= SliceStart(w)
  /\ \A i \in 0..(SerialStart - 1) :
       \E w \in 1..spawned : SliceStart(w) <= i /\ i < upto[w]

Phases ==
  /\ pc = "start" => spawned = 0 /\ next = 0
  /\ pc \in {"spawn", "serial", "join"} => Length # 0
  /\ pc = "spawn" => next = SerialStart /\ next = spawned * PerThread
  /\ pc \in {"join", "returned"} => next = Length
  /\ pc = "returned" => \A w \in 1..spawned : WorkerDone(w)

Counted == \A i \in Items : calls[i] = IF Treated(i) THEN 1 ELSE 0

ForeachInv == TypeOK /\ Slices /\ Phases /\ Counted

LEMMA ForeachInvInit == Init => ForeachInv
PROOF
<1> SUFFICES ASSUME Init PROVE ForeachInv
  OBVIOUS
<1>1. TypeOK
  BY ForeachAssumption DEF Init, TypeOK
<1>2. SerialStart = 0
  BY DEF Init, SerialStart, SliceStart
<1>3. Slices /\ Phases
  BY <1>2 DEF Init, Slices, Phases
<1>4. Counted
  BY <1>2 DEF Init, Counted, Treated, Items
<1> QED
  BY <1>1, <1>3, <1>4 DEF ForeachInv

\* The new slice goes from next to next + PerThread, where the caller goes on.
LEMMA ForeachInvSpawn ==
  ASSUME ForeachInv, Spawn
  PROVE  ForeachInv'
PROOF
<1>0. PICK n \in Nat : n = spawned + 1
  BY ForeachAssumption DEF ForeachInv, TypeOK
<1>1. /\ TypeOK /\ Slices /\ Phases /\ Counted
      /\ Length \in Nat \ {0} /\ next = SerialStart /\ next = spawned * PerThread
  BY ForeachAssumption DEF ForeachInv, Phases, Spawn
<1>2. /\ ThreadsActual \in 1..Length /\ PerThread \in Nat
      /\ n = spawned + 1 /\ n \in Workers /\ spawned \in Nat /\ next \in Nat
  BY <1>0, <1>1, SliceSize DEF Spawn, TypeOK
<1>3. next + PerThread = n * PerThread /\ next + PerThread <= Length
  <2>1. n \in Nat /\ n <= ThreadsActual /\ ThreadsActual \in Nat
    BY <1>2 DEF Workers
  <2>2. n * PerThread <= ThreadsActual * PerThread
    BY <1>2, <2>1, ProductMonotone
  <2>3. n * PerThread = next + PerThread
    BY <1>1, <1>2, ProductMonotone
  <2>4. ThreadsActual * PerThread <= Length
    BY <1>1, SliceSize
  <2> QED
    BY <1>1, <1>2, <2>1, <2>2, <2>3, <2>4
<1>4. /\ spawned' = n /\ next' = next + PerThread /\ pc = "spawn" /\ pc' = pc
      /\ calls' = calls
      /\ cursor' = [cursor EXCEPT ![n] = next]
      /\ upto' = [upto EXCEPT ![n] = next + PerThread]
  BY <1>0 DEF Spawn
<1>5. TypeOK'
  BY <1>1, <1>2, <1>3, <1>4 DEF TypeOK, Workers
<1>6. \A w \in 1..n : SliceStart(w)' = SliceStart(w)
  BY <1>1, <1>2, <1>4 DEF SliceStart, TypeOK, Workers
<1>7. SliceStart(n) = next /\ SerialStart' = next'
  BY <1>1, <1>2, <1>4 DEF SliceStart, SerialStart, TypeOK
<1>8. /\ cursor'[n] = next /\ upto'[n] = next + PerThread
      /\ \A w \in 1..spawned : cursor'[w] = cursor[w] /\ upto'[w] = upto[w]
  BY <1>1, <1>2, <1>4 DEF TypeOK, Workers
<1>9. \A w \in 1..spawned : upto[w] \in Nat /\ cursor[w] \in Nat
  BY <1>1, <1>2 DEF TypeOK, Workers
<1>10. Slices'
  <2>1. n \in Workers /\ SerialStart' \in 0..next'
    BY <1>2, <1>4, <1>7
  <2>2. ASSUME NEW w \in 1..n
        PROVE  SliceStart(w)' <= cursor'[w] /\ cursor'[w] <= upto'[w] /\ upto'[w] <= SerialStart'
    <3>1. CASE w = n
      BY <3>1, <1>2, <1>4, <1>6, <1>7, <1>8
    <3>2. CASE w \in 1..spawned
      <4>1. SliceStart(w) <= cursor[w] /\ cursor[w] <= upto[w] /\ upto[w] <= next
        BY <1>1, <3>2 DEF Slices
      <4> QED
        BY <4>1, <3>2, <1>2, <1>4, <1>6, <1>7, <1>8, <1>9
    <3> QED
      BY <3>1, <3>2, <1>2
  <2>3. ASSUME NEW v \in 1..n, NEW w \in 1..n, v < w
        PROVE  upto'[v] <= SliceStart(w)'
    <3>1. v \in 1..spawned /\ upto'[v] = upto[v] /\ SliceStart(w)' = SliceStart(w)
      BY <2>3, <1>2, <1>6, <1>8
    <3>2. CASE w = n
      BY <3>1, <3>2, <1>1, <1>7 DEF Slices
    <3>3. CASE w \in 1..spawned
      BY <3>1, <3>3, <2>3, <1>1 DEF Slices
    <3> QED
      BY <3>2, <3>3, <1>2
  <2>4. ASSUME NEW i \in 0..(SerialStart' - 1)
        PROVE  \E w \in 1..n : SliceStart(w)' <= i /\ i < upto'[w]
    <3>1. CASE i < next
      <4>1. PICK w \in 1..spawned : SliceStart(w) <= i /\ i < upto[w]
        BY <3>1, <1>1, <1>2 DEF Slices
      <4> QED
        BY <4>1, <1>2, <1>6, <1>8
    <3>2. CASE i >= next
      <4>1. n \in 1..n /\ SliceStart(n)' = next /\ upto'[n] = SerialStart'
        BY <1>2, <1>4, <1>6, <1>7, <1>8
      <4> QED
        BY <4>1, <3>2, <1>2, <1>4, <1>7
    <3> QED
      BY <3>1, <3>2, <1>2
  <2> QED
    BY <2>1, <2>2, <2>3, <2>4, <1>4 DEF Slices
<1>11. Phases'
  BY <1>1, <1>3, <1>4, <1>7 DEF Phases
<1>12. Counted'
  <2> SUFFICES ASSUME NEW i \in Items PROVE Treated(i)' <=> Treated(i)
    BY <1>1, <1>4 DEF Counted
  <2>1. i \in Nat
    BY ForeachAssumption DEF Items
  <2>2. ~(SerialStart' <= i /\ i < next') /\ ~(SerialStart <= i /\ i < next)
    BY <2>1, <1>1, <1>2, <1>4, <1>7
  <2>3. ~(SliceStart(n)' <= i /\ i < cursor'[n])
    BY <2>1, <1>2, <1>6, <1>7, <1>8
  <2>4. \A w \in 1..spawned :
          (SliceStart(w)' <= i /\ i < cursor'[w]) <=> (SliceStart(w) <= i /\ i < cursor[w])
    BY <1>2, <1>6, <1>8
  <2> QED
    BY <2>2, <2>3, <2>4, <1>2, <1>4 DEF Treated
<1> QED
  BY <1>5, <1>10, <1>11, <1>12 DEF ForeachInv

LEMMA SlicesTyped ==
  ASSUME TypeOK, Slices
  PROVE  \A w \in 1..spawned :
           /\ w \in Workers /\ cursor[w] \in Nat /\ upto[w] \in Nat /\ SliceStart(w) \in Nat
           /\ cursor[w] <= SerialStart
PROOF
<1> SUFFICES ASSUME NEW w \in 1..spawned
             PROVE  /\ w \in Workers /\ cursor[w] \in Nat /\ upto[w] \in Nat
                    /\ SliceStart(w) \in Nat /\ cursor[w] <= SerialStart
  OBVIOUS
<1>1. ThreadsActual \in Nat /\ Length \in Nat /\ spawned \in Nat
  BY ForeachAssumption DEF ThreadsActual, TypeOK
<1>2. w \in Workers /\ w \in Nat /\ (w # 1 => w - 1 \in Workers)
  BY <1>1 DEF Slices, Workers
<1>3. cursor[w] \in Nat /\ upto[w] \in Nat /\ SliceStart(w) \in Nat
  BY <1>1, <1>2 DEF TypeOK, SliceStart
<1>4. SerialStart \in Nat
  BY <1>1 DEF Slices, TypeOK
<1>5. cursor[w] <= upto[w] /\ upto[w] <= SerialStart
  BY DEF Slices
<1> QED
  BY <1>2, <1>3, <1>4, <1>5

\* A call moves the iterator over the item it treats.
LEMMA ForeachInvCallSerial ==
  ASSUME ForeachInv, CallSerial
  PROVE  /\ ForeachInv'
         /\ next \in Items /\ calls[next] = 0
PROOF
<1>1. /\ TypeOK /\ Slices /\ Phases /\ Counted
      /\ next \in Items /\ Length \in Nat /\ pc = "serial"
      /\ next' = next + 1 /\ pc' = pc /\ spawned' = spawned
      /\ cursor' = cursor /\ upto' = upto
      /\ calls' = [calls EXCEPT ![next] = @ + 1]
  BY ForeachAssumption DEF ForeachInv, CallSerial, TypeOK, Items
<1>2. /\ \A w : SliceStart(w)' = SliceStart(w)
      /\ SerialStart' = SerialStart /\ SerialStart \in Nat /\ SerialStart <= next
  BY <1>1, ForeachAssumption DEF SliceStart, SerialStart, Slices, TypeOK
<1>3. ~Treated(next)
  BY <1>1, <1>2, SlicesTyped DEF Treated, Items
<1>4. calls[next] = 0
  BY <1>1, <1>3 DEF Counted
<1>5. TypeOK'
  BY <1>1 DEF TypeOK, Items
<1>6. Slices'
  <2>1. SerialStart' \in 0..next'
    BY <1>1, <1>2 DEF Items
  <2> QED
    BY <2>1, <1>1, <1>2 DEF Slices
<1>7. Phases'
  BY <1>1 DEF Phases, WorkerDone
<1>8. Counted'
  <2> SUFFICES ASSUME NEW i \in Items
               PROVE  calls'[i] = IF Treated(i)' THEN 1 ELSE 0
    BY DEF Counted
  <2>1. CASE i = next
    <3>1. Treated(i)'
      BY <2>1, <1>1, <1>2 DEF Treated, Items
    <3> QED
      BY <3>1, <2>1, <1>1, <1>4 DEF TypeOK
  <2>2. CASE i # next
    <3>1. Treated(i)' <=> Treated(i)
      BY <2>2, <1>1, <1>2 DEF Treated, Items
    <3> QED
      BY <3>1, <2>2, <1>1 DEF TypeOK, Counted
  <2> QED
    BY <2>1, <2>2
<1> QED
  BY <1>1, <1>4, <1>5, <1>6, <1>7, <1>8 DEF ForeachInv

LEMMA ForeachInvCallWorker ==
  ASSUME ForeachInv, NEW w \in Workers, CallWorker(w)
  PROVE  /\ ForeachInv'
         /\ cursor[w] \in Items /\ calls[cursor[w]] = 0
         /\ w \in 1..spawned
PROOF
<1>1. /\ TypeOK /\ Slices /\ Phases /\ Counted
      /\ pc' = pc /\ spawned' = spawned /\ next' = next /\ upto' = upto
      /\ cursor' = [cursor EXCEPT ![w] = @ + 1]
      /\ calls' = [calls EXCEPT ![cursor[w]] = @ + 1]
      /\ cursor[w] # upto[w]
      /\ w \in 1..spawned /\ Length \in Nat /\ next \in Nat /\ next <= Length
  BY ForeachAssumption DEF ForeachInv, CallWorker, WorkerDone, TypeOK, Workers
<1>2. /\ \A v : SliceStart(v)' = SliceStart(v)
      /\ SerialStart' = SerialStart /\ SerialStart \in Nat /\ SerialStart <= next
  BY <1>1 DEF SliceStart, SerialStart, Slices
<1>3. \A v \in 1..spawned :
        /\ v \in Workers /\ cursor[v] \in Nat /\ upto[v] \in Nat /\ SliceStart(v) \in Nat
        /\ SliceStart(v) <= cursor[v] /\ cursor[v] <= upto[v] /\ upto[v] <= SerialStart
  BY <1>1, SlicesTyped DEF Slices
<1>4. /\ cursor[w] \in Nat /\ cursor[w] < upto[w] /\ cursor[w] < SerialStart
      /\ cursor[w] \in Items /\ cursor[w] + 1 <= Length
  BY <1>1, <1>2, <1>3 DEF Items
<1>5. cursor'[w] = cursor[w] + 1 /\ \A v \in 1..spawned : v # w => cursor'[v] = cursor[v]
  BY <1>1, <1>3 DEF TypeOK
<1>6. ~Treated(cursor[w])
  <2>1. ASSUME NEW v \in 1..spawned, SliceStart(v) <= cursor[w], cursor[w] < cursor[v]
        PROVE  FALSE
    <3>1. v # w
      BY <2>1, <1>4
    <3>2. CASE v < w
      BY <2>1, <3>2, <1>1, <1>3, <1>4 DEF Slices
    <3>3. CASE w < v
      BY <2>1, <3>3, <1>1, <1>3, <1>4 DEF Slices
    <3> QED
      BY <3>1, <3>2, <3>3, <1>1
  <2> QED
    BY <2>1, <1>2, <1>4 DEF Treated
<1>7. calls[cursor[w]] = 0
  BY <1>1, <1>4, <1>6 DEF Counted
<1>8. TypeOK'
  BY <1>1, <1>4 DEF TypeOK
<1>9. Slices'
  <2>1. \A v \in 1..spawned :
          SliceStart(v) <= cursor'[v] /\ cursor'[v] <= upto[v] /\ upto[v] <= SerialStart
    BY <1>3, <1>4, <1>5
  <2> QED
    BY <2>1, <1>1, <1>2 DEF Slices
<1>10. Phases'
  BY <1>1, <1>2 DEF Phases, WorkerDone
<1>11. Counted'
  <2> SUFFICES ASSUME NEW i \in Items
               PROVE  calls'[i] = IF Treated(i)' THEN 1 ELSE 0
    BY DEF Counted
  <2>0. i \in Nat
    BY <1>1 DEF Items
  <2>1. CASE i = cursor[w]
    <3>1. SliceStart(w)' <= i /\ i < cursor'[w]
      BY <2>0, <2>1, <1>1, <1>2, <1>3, <1>4, <1>5
    <3>2. Treated(i)'
      BY <3>1, <1>1 DEF Treated
    <3>3. calls'[i] = 1
      BY <2>1, <1>1, <1>4, <1>7 DEF TypeOK
    <3> QED
      BY <3>2, <3>3
  <2>2. CASE i # cursor[w]
    <3>1. \A v \in 1..spawned :
            (SliceStart(v)' <= i /\ i < cursor'[v]) <=> (SliceStart(v) <= i /\ i < cursor[v])
      BY <2>0, <2>2, <1>2, <1>3, <1>4, <1>5
    <3>2. Treated(i)' <=> Treated(i)
      BY <3>1, <1>1, <1>2 DEF Treated
    <3> QED
      BY <3>2, <2>2, <1>1, <1>4 DEF TypeOK, Counted
  <2> QED
    BY <2>1, <2>2
<1> QED
  BY <1>1, <1>4, <1>7, <1>8, <1>9, <1>10, <1>11 DEF ForeachInv

\* The other steps of the caller leave all iterators where they are.
LEMMA ForeachInvControl ==
  ASSUME ForeachInv,
         \/ Start \/ SpawnFails \/ SpawnDone \/ SerialDone \/ Return
         \/ UNCHANGED loopVars
  PROVE  ForeachInv' /\ calls' = calls
PROOF
<1>1. /\ TypeOK /\ Slices /\ Phases /\ Counted
      /\ next' = next /\ spawned' = spawned /\ cursor' = cursor /\ upto' = upto
      /\ calls' = calls
  BY DEF ForeachInv, Start, SpawnFails, SpawnDone, SerialDone, Return, loopVars
<1>2. /\ \A w : SliceStart(w)' = SliceStart(w)
      /\ SerialStart' = SerialStart
  BY <1>1 DEF SliceStart, SerialStart
<1>3. TypeOK'
  BY <1>1 DEF TypeOK, Start, SpawnFails, SpawnDone, SerialDone, Return, loopVars
<1>4. Slices'
  BY <1>1, <1>2 DEF Slices
<1>5. Counted'
  BY <1>1, <1>2 DEF Counted, Treated
<1>6. Phases'
  <2>1. CASE Start
    <3>1. SerialStart = 0
      BY <2>1, <1>1 DEF SerialStart, SliceStart, Phases, Start
    <3>2. spawned * PerThread = 0 \/ Length = 0
      BY <2>1, <1>1, SliceSize DEF Phases, Start
    <3> QED
      BY <3>1, <3>2, <2>1, <1>1, <1>2 DEF Phases, Start
  <2>2. CASE SpawnFails \/ SpawnDone
    BY <2>2, <1>1, <1>2 DEF Phases, SpawnFails, SpawnDone
  <2>3. CASE SerialDone
    BY <2>3, <1>1, <1>2 DEF Phases, SerialDone
  <2>4. CASE Return
    BY <2>4, <1>1, <1>2 DEF Phases, Return, WorkerDone
  <2>5. CASE UNCHANGED loopVars
    BY <2>5, <1>1, <1>2 DEF Phases, loopVars, WorkerDone
  <2> QED
    BY <2>1, <2>2, <2>3, <2>4, <2>5
<1> QED
  BY <1>1, <1>3, <1>4, <1>5, <1>6 DEF ForeachInv

LEMMA ForeachInvStep == ForeachInv /\ [Next]_loopVars => ForeachInv'
PROOF
<1> SUFFICES ASSUME ForeachInv, [Next]_loopVars PROVE ForeachInv'
  OBVIOUS
<1>1. CASE Spawn
  BY <1>1, ForeachInvSpawn
<1>2. CASE Start \/ SpawnFails \/ SpawnDone \/ SerialDone \/ Return \/ UNCHANGED loopVars
  BY <1>2, ForeachInvControl
<1>3. CASE CallSerial
  BY <1>3, ForeachInvCallSerial
<1>4. CASE \E w \in Workers : CallWorker(w)
  BY <1>4, ForeachInvCallWorker
<1> QED
  BY <1>1, <1>2, <1>3, <1>4 DEF Next, CallerControl

-----------------------------------------------------------------------------
\* Inductive invariant: the slices given to the workers follow each other up
\* to where the caller's share begins, and f was called exactly on the items
\* the iterators have passed.
THEOREM SlicesCorrect == Spec => []ForeachInv
PROOF
<1> QED
  BY ForeachInvInit, ForeachInvStep, PTL DEF Spec

\* No iterator of parallel_foreach leaves the range.
THEOREM IteratorsInRange == Spec => []TypeOK
PROOF
<1>1. ForeachInv => TypeOK
  BY DEF ForeachInv
<1> QED
  BY <1>1, SlicesCorrect, PTL

\* When all threads are done the iterators have passed every item.
LEMMA DoneAfterAll ==
  ASSUME ForeachInv, next = Length, \A w \in 1..spawned : WorkerDone(w)
  PROVE  \A i \in Items : calls[i] = 1
PROOF
<1> SUFFICES ASSUME NEW i \in Items PROVE Treated(i)
  BY DEF ForeachInv, Counted
<1>0. TypeOK /\ Slices
  BY DEF ForeachInv
<1>1. /\ TypeOK /\ Slices /\ i \in Nat /\ i < next
      /\ \A w \in 1..spawned : cursor[w] = upto[w]
      /\ SerialStart \in Nat
  <2>1. i \in Nat /\ i < next
    BY ForeachAssumption DEF Items
  <2>2. \A w \in 1..spawned : cursor[w] = upto[w]
    BY DEF WorkerDone
  <2>3. SerialStart \in Nat
    BY <1>0 DEF Slices
  <2> QED
    BY <1>0, <2>1, <2>2, <2>3
<1>2. CASE i < SerialStart
  BY <1>1, <1>2 DEF Slices, Treated
<1>3. CASE SerialStart <= i
  BY <1>1, <1>3 DEF Treated
<1> QED
  BY <1>1, <1>2, <1>3

LEMMA ReturnedAfterAll ==
  ASSUME ForeachInv, pc = "returned"
  PROVE  \A i \in Items : calls[i] = 1
PROOF
BY DoneAfterAll DEF ForeachInv, Phases

\* parallel_foreach implements ForEach: whatever the number of threads and
\* whichever of them cannot be created, f is called once on each item, and
\* never after the loop has returned.
THEOREM ImplementsForEach == Spec => PromiseKept
PROOF
<1>1. Init => Promise!Init
  BY DEF Init, Promise!Init
<1>2. ForeachInv /\ [Next]_loopVars => [Promise!Next]_(Promise!vars)
  <2> SUFFICES ASSUME ForeachInv, [Next]_loopVars
               PROVE  Promise!Next \/ UNCHANGED <<calls, pc = "returned">>
    BY DEF Promise!vars
  <2>1. CASE CallSerial
    <3>1. pc # "returned" /\ pc' = pc /\ next \in Items /\ calls[next] = 0
      BY <2>1, ForeachInvCallSerial DEF CallSerial
    <3>2. calls' = [calls EXCEPT ![next] = 1]
      BY <2>1, <3>1 DEF CallSerial
    <3> QED
      BY <3>1, <3>2 DEF Promise!Next, Promise!Call
  <2>2. ASSUME NEW w \in Workers, CallWorker(w)
        PROVE  Promise!Next
    <3>0. cursor[w] \in Items /\ calls[cursor[w]] = 0 /\ w \in 1..spawned
      BY <2>2, ForeachInvCallWorker
    <3>1. /\ pc' = pc /\ cursor[w] \in Items /\ calls[cursor[w]] = 0
          /\ w \in 1..spawned
          /\ calls' = [calls EXCEPT ![cursor[w]] = 1]
      BY <2>2, <3>0 DEF CallWorker
    <3>2. pc # "returned"
      BY <2>2, <3>1 DEF ForeachInv, Phases, CallWorker
    <3> QED
      BY <3>1, <3>2 DEF Promise!Next, Promise!Call
  <2>3. CASE Return
    <3>1. \A i \in Items : calls[i] = 1
      BY <2>3, DoneAfterAll DEF ForeachInv, Phases, Return
    <3> QED
      BY <3>1, <2>3 DEF Return, Promise!Next, Promise!Return
  <2>4. CASE Start
    <3>1. CASE Length = 0
      BY <2>4, <3>1 DEF Start, Items, Promise!Next, Promise!Return
    <3>2. CASE Length # 0
      BY <2>4, <3>2 DEF Start
    <3> QED
      BY <3>1, <3>2
  <2>5. CASE Spawn \/ SpawnFails \/ SpawnDone \/ SerialDone \/ UNCHANGED loopVars
    BY <2>5 DEF Spawn, SpawnFails, SpawnDone, SerialDone, loopVars
  <2> QED
    BY <2>1, <2>2, <2>3, <2>4, <2>5 DEF Next, CallerControl
<1> QED
  BY <1>1, <1>2, SlicesCorrect, PTL DEF Spec, PromiseKept, Promise!Spec

-----------------------------------------------------------------------------
(* The tasks of the agree sets.                                            *)

LEMMA AllThreadsCounted ==
  /\ ThreadsActual \in Nat
  /\ IsFiniteSet(AllThreads)
  /\ Cardinality(AllThreads) = ThreadsActual
PROOF
<1>1. ThreadsActual \in Nat
  BY ForeachAssumption DEF ThreadsActual
<1>2. IsFiniteSet(AllThreads) /\ Cardinality(AllThreads) = ThreadsActual
  BY <1>1, FS_Interval DEF AllThreads
<1> QED
  BY <1>1, <1>2

\* As many keys as threads: the keys of all threads.
LEMMA AllKeys ==
  ASSUME NEW K \in SUBSET AllThreads, Cardinality(K) = ThreadsActual
  PROVE  K = AllThreads
PROOF
BY AllThreadsCounted, FS_Subset

\* The waiting threads are let go when the map is complete.
Complete ==
  /\ initialized => keys = AllThreads
  /\ \A t \in AllThreads : at[t] = "insert" => initialized
  /\ \A t \in AllThreads : at[t] \in {"test", "enter"} /\ t \in keys => initialized

Gathered == \A i \in Items : calls[i] # 0 => \E t \in AllThreads : i \in found[t]

BarrierInv == BarrierTypeOK /\ Complete /\ Gathered

LEMMA BarrierInvInit == BarrierInit => BarrierInv
PROOF
BY DEF BarrierInit, Init, BarrierInv, BarrierTypeOK, Complete, Gathered

\* A task takes part in the loop as a call of f, or not at all.
LEMMA TaskCalls ==
  ASSUME ForeachInv, NEW t \in AllThreads, Insert(t) \/ PushDiffSet(t)
  PROVE  /\ [Next]_loopVars
         /\ Item(t) \in Items
         /\ calls' = [calls EXCEPT ![Item(t)] = @ + 1]
PROOF
<1>1. CASE t = Caller
  <2>1. CallSerial /\ Item(t) = next
    BY <1>1 DEF Insert, PushDiffSet, Item
  <2> QED
    BY <2>1, ForeachInvCallSerial DEF CallSerial, Next
<1>2. CASE t # Caller
  <2>1. t \in Workers
    BY <1>2, AllThreadsCounted DEF AllThreads, Caller, Workers
  <2>2. CallWorker(t) /\ Item(t) = cursor[t]
    BY <1>2 DEF Insert, PushDiffSet, Item
  <2>3. cursor[t] \in Items
    BY <2>1, <2>2, ForeachInvCallWorker
  <2> QED
    BY <2>1, <2>2, <2>3 DEF CallWorker, Next
<1> QED
  BY <1>1, <1>2

LEMMA BarrierStepLoops ==
  ASSUME ForeachInv, [BarrierNext]_vars
  PROVE  [Next]_loopVars
PROOF
<1>1. CASE LoopControl
  BY <1>1 DEF LoopControl, Next
<1>2. ASSUME NEW t \in AllThreads, TestInitialized(t) \/ EnterMap(t) \/ WakeUp(t)
      PROVE  UNCHANGED loopVars
  BY <1>2 DEF TestInitialized, EnterMap, WakeUp
<1>3. ASSUME NEW t \in AllThreads, Insert(t) \/ PushDiffSet(t)
      PROVE  [Next]_loopVars
  BY <1>3, TaskCalls
<1>4. CASE UNCHANGED vars
  BY <1>4 DEF vars
<1> QED
  BY <1>1, <1>2, <1>3, <1>4 DEF BarrierNext, Task

LEMMA BarrierInvStep ==
  ASSUME ForeachInv, BarrierInv, [BarrierNext]_vars
  PROVE  BarrierInv'
PROOF
<1> USE DEF BarrierInv
<1>1. CASE LoopControl \/ UNCHANGED vars
  <2>1. UNCHANGED barrierVars /\ calls' = calls
    BY <1>1, ForeachInvControl DEF LoopControl, CallerControl, Spawn, vars, loopVars
  <2> QED
    BY <2>1 DEF barrierVars, BarrierTypeOK, Complete, Gathered
<1>2. ASSUME NEW t \in AllThreads, TestInitialized(t) \/ WakeUp(t)
      PROVE  BarrierInv'
  <2>1. /\ UNCHANGED <<keys, initialized, found>> /\ calls' = calls
        /\ at[t] \in {"test", "wait"}
        /\ \/ at[t] = "test" /\ at' = [at EXCEPT ![t] = "enter"]
           \/ initialized /\ at' = [at EXCEPT ![t] = "insert"]
    BY <1>2 DEF TestInitialized, WakeUp, Goto, loopVars
  <2> QED
    BY <2>1 DEF BarrierTypeOK, Complete, Gathered
<1>3. ASSUME NEW t \in AllThreads, EnterMap(t)
      PROVE  BarrierInv'
  <2>1. /\ keys' = keys \cup {t} /\ found' = found /\ calls' = calls
        /\ initialized' = (initialized \/ Cardinality(keys') = ThreadsActual)
        /\ at' = [at EXCEPT ![t] = IF initialized' THEN "insert" ELSE "wait"]
    BY <1>3 DEF EnterMap, Goto, loopVars
  <2>2. keys' \in SUBSET AllThreads
    BY <2>1 DEF BarrierTypeOK
  <2>3. initialized' => keys' = AllThreads
    BY <2>1, <2>2, AllKeys DEF Complete
  <2>4. initialized => initialized'
    BY <2>1
  <2>5. initialized' \in BOOLEAN /\ at' \in [AllThreads -> {"test", "enter", "wait", "insert"}]
    BY <2>1 DEF BarrierTypeOK
  <2>6. \A u \in AllThreads : at'[u] = "insert" => initialized'
    BY <2>1, <2>4 DEF BarrierTypeOK, Complete
  <2>7. \A u \in AllThreads : at'[u] \in {"test", "enter"} /\ u \in keys' => initialized'
    BY <2>1, <2>4 DEF BarrierTypeOK, Complete
  <2> QED
    BY <2>1, <2>2, <2>3, <2>5, <2>6, <2>7 DEF BarrierTypeOK, Complete, Gathered
<1>4. ASSUME NEW t \in AllThreads, Insert(t) \/ PushDiffSet(t)
      PROVE  BarrierInv'
  <2>1. /\ keys' = keys /\ initialized' = initialized
        /\ \/ at[t] = "insert" /\ at' = [at EXCEPT ![t] = "test"]
           \/ at' = at
        /\ found' = [found EXCEPT ![t] = @ \cup {Item(t)}]
    BY <1>4 DEF Insert, PushDiffSet, Goto
  <2>2. Item(t) \in Items /\ calls' = [calls EXCEPT ![Item(t)] = @ + 1]
    BY <1>4, TaskCalls
  <2>3. BarrierTypeOK' /\ Complete'
    BY <2>1, <2>2 DEF BarrierTypeOK, Complete
  <2>4. Gathered'
    <3> SUFFICES ASSUME NEW i \in Items, calls'[i] # 0
                 PROVE  \E u \in AllThreads : i \in found'[u]
      BY DEF Gathered
    <3>1. CASE i = Item(t)
      BY <3>1, <2>1 DEF BarrierTypeOK
    <3>2. CASE i # Item(t)
      <4>1. calls[i] # 0
        BY <3>2, <2>2 DEF ForeachInv, TypeOK
      <4> QED
        BY <4>1, <2>1 DEF Gathered, BarrierTypeOK
    <3> QED
      BY <3>1, <3>2
  <2> QED
    BY <2>3, <2>4
<1> QED
  BY <1>1, <1>2, <1>3, <1>4 DEF BarrierNext, Task

-----------------------------------------------------------------------------
\* Inductive invariant: the loop's own, and the map complete for those who
\* were let go.
THEOREM BarrierCorrect == BarrierSpec => [](ForeachInv /\ BarrierInv)
PROOF
<1>1. BarrierInit => ForeachInv /\ BarrierInv
  BY BarrierInvInit, ForeachInvInit DEF BarrierInit
<1>2. ForeachInv /\ BarrierInv /\ [BarrierNext]_vars => ForeachInv' /\ BarrierInv'
  BY BarrierStepLoops, BarrierInvStep, ForeachInvStep
<1> QED
  BY <1>1, <1>2, PTL DEF BarrierSpec

\* With the waiting task in it the loop is still parallel_foreach, so that all
\* it promises holds.
THEOREM BarrierIsForeach == BarrierSpec => Spec
PROOF
<1>1. BarrierInit => Init
  BY DEF BarrierInit
<1>2. ForeachInv /\ [BarrierNext]_vars => [Next]_loopVars
  BY BarrierStepLoops
<1> QED
  BY <1>1, <1>2, BarrierCorrect, PTL DEF BarrierSpec, Spec

\* Neither the map of the threads nor the flag beside it is read by a thread while
\* another may write it (GenAsOfPliMc).
THEOREM NothingRaced == BarrierSpec => []NoRace
PROOF
<1>1. BarrierInv => NoRace
  BY DEF BarrierInv, Complete, NoRace, NoMapRace, NoFlagRace
<1> QED
  BY <1>1, BarrierCorrect, PTL

\* The agree sets merged after the loop come from all clusters.
THEOREM NothingLost == BarrierSpec => []AllMerged
PROOF
<1>1. ForeachInv /\ BarrierInv => AllMerged
  <2> SUFFICES ASSUME ForeachInv, BarrierInv, pc = "returned"
               PROVE  UNION {found[t] : t \in AllThreads} = Items
    BY DEF AllMerged
  <2>1. ASSUME NEW i \in Items PROVE \E t \in AllThreads : i \in found[t]
    <3>1. calls[i] = 1
      BY ReturnedAfterAll
    <3> QED
      BY <3>1 DEF BarrierInv, Gathered
  <2> QED
    BY <2>1 DEF BarrierInv, BarrierTypeOK
<1> QED
  BY <1>1, BarrierCorrect, PTL

=============================================================================
