--------------------------- MODULE SchedulerProofs ---------------------------
(***************************************************************************)
(* Theorems about Scheduler, for every fleet, worker pool and set of tasks.*)
(***************************************************************************)
EXTENDS Scheduler, FiniteSetTheorems, TLAPS

USE SchedulerAssumption, NoOneAssumption

\* A worker in flight holds a submitted record, one with a lease also knows its
\* device, and only workers inside acquire() sleep on the condition.  While the
\* scheduler is down it has no worker.
WorkersTyped ==
    /\ \A w \in Workers : pc[w] \in InFlight =>
          task[w] \in Records /\ state[task[w]] # "UNSUBMITTED"
    /\ \A w \in Workers : pc[w] \in Leased => dev[w] \in Devices
    /\ \A w \in asleep : pc[w] = "waiting"
    /\ \A i \in Ids : records[i] # NoOne => state[records[i]] # "UNSUBMITTED"
    /\ phase = "DOWN" => \A w \in Workers : pc[w] = "off"

Typed == TypeOK /\ WorkersTyped

-----------------------------------------------------------------------------
\* Type lemmas about the pieces of the handlers.

\* stop() appends a finite sequence of pills.
LEMMA PillsType ==
    [n \in 1..Cardinality(Workers) |-> Pill] \in Seq(Ids \cup {Pill})
  <1>1. Cardinality(Workers) \in Nat
    BY FS_CardinalityType
  <1> QED BY <1>1

\* An announcement of a task state keeps the history typed.
LEMMA AnnounceType ==
    ASSUME CallerTypeOK, NEW r \in Records, NEW s \in TaskStates, Announce(r, s)
    PROVE  /\ shown' \in [Records -> TaskStates \cup {"UNSEEN"}]
           /\ finals' \in [Records -> Nat]
  BY DEF CallerTypeOK, Announce

\* Settling the idle event keeps it a Boolean and the drainer in a known state.
LEMMA SettleType ==
    ASSUME PoolTypeOK, CallerTypeOK, NEW q, NEW n, NEW p, SettleIdle(q, n, p)
    PROVE  /\ idle' \in BOOLEAN
           /\ drainer' \in {"none", "waiting", "woken", "true", "false"}
           /\ watched' \subseteq Records
  BY DEF PoolTypeOK, CallerTypeOK, SettleIdle

\* Rescheduling keeps the record, the timers and the history typed.
LEMMA RescheduleType ==
    ASSUME TypeOK, NEW r \in Records, Reschedule(r)
    PROVE  /\ state' \in [Records -> RecordStates]
           /\ timers' \in [Ids -> Nat]
           /\ pendingRetries' \in Int
           /\ shown' \in [Records -> TaskStates \cup {"UNSEEN"}]
           /\ finals' \in [Records -> Nat]
           /\ \A x \in Records : state[x] # "UNSUBMITTED" => state'[x] # "UNSUBMITTED"
  <1>1. "PENDING" \in TaskStates /\ "PENDING" \in RecordStates
    BY DEF TaskStates, RecordStates
  <1>2. Announce(r, "PENDING") BY DEF Reschedule
  <1> QED BY <1>1, <1>2, AnnounceType DEF Reschedule, TypeOK, TaskTypeOK, PoolTypeOK

\* So does giving up.
LEMMA ExhaustType ==
    ASSUME TypeOK, NEW r \in Records, Exhaust(r)
    PROVE  /\ state' \in [Records -> RecordStates]
           /\ timers' \in [Ids -> Nat]
           /\ pendingRetries' \in Int
           /\ shown' \in [Records -> TaskStates \cup {"UNSEEN"}]
           /\ finals' \in [Records -> Nat]
           /\ \A x \in Records : state[x] # "UNSUBMITTED" => state'[x] # "UNSUBMITTED"
  <1>1. "FAILED" \in TaskStates /\ "FAILED" \in RecordStates
    BY DEF TaskStates, RecordStates, Terminal
  <1>2. Announce(r, "FAILED") BY DEF Exhaust
  <1> QED BY <1>1, <1>2, AnnounceType DEF Exhaust, TypeOK, TaskTypeOK, PoolTypeOK

\* The end of every failed attempt keeps the types: the record is requeued or
\* FAILED, and the worker goes on to give the lease back.
LEMMA AfterFailureType ==
    ASSUME Typed, NEW w \in Workers, pc[w] \in Leased, AfterFailure(w)
    PROVE  TaskTypeOK' /\ PoolTypeOK' /\ WorkTypeOK' /\ CallerTypeOK'
  <1> USE DEF Typed
  <1>1. task[w] \in Records
    BY DEF WorkersTyped, InFlight
  <1>2. Reschedule(task[w]) \/ Exhaust(task[w])
    BY DEF AfterFailure, Requeue
  <1>3. /\ state' \in [Records -> RecordStates]
        /\ timers' \in [Ids -> Nat]
        /\ pendingRetries' \in Int
        /\ shown' \in [Records -> TaskStates \cup {"UNSEEN"}]
        /\ finals' \in [Records -> Nat]
    BY <1>1, <1>2, RescheduleType, ExhaustType
  <1>4. TaskTypeOK'
    BY <1>3 DEF AfterFailure, TypeOK, TaskTypeOK
  <1>5. PoolTypeOK'
    BY <1>3 DEF AfterFailure, Requeue, TypeOK, PoolTypeOK, boundVars
  <1>6. WorkTypeOK'
    BY DEF AfterFailure, TypeOK, WorkTypeOK, WorkerStates
  <1>7. CallerTypeOK'
    BY <1>3 DEF AfterFailure, TypeOK, CallerTypeOK, drainVars
  <1> QED BY <1>4, <1>5, <1>6, <1>7

\* ... and the workers that are in flight stay where they are, or move on with
\* what they hold.
LEMMA AfterFailureWorkers ==
    ASSUME Typed, NEW w \in Workers, pc[w] \in {"run", "mark"}, AfterFailure(w),
           asleep' \subseteq asleep
    PROVE  WorkersTyped'
  <1> USE DEF Typed
  <1>1. task[w] \in Records /\ dev[w] \in Devices
    BY DEF WorkersTyped, InFlight, Leased
  <1>2. \A x \in Records : state[x] # "UNSUBMITTED" => state'[x] # "UNSUBMITTED"
    BY <1>1, RescheduleType, ExhaustType DEF AfterFailure, Requeue
  <1> QED
    BY <1>1, <1>2 DEF WorkersTyped, AfterFailure, TypeOK, WorkTypeOK, RegistryTypeOK,
       TaskTypeOK, InFlight, Leased


\* Appending an id and dropping the head keep the queue a queue.
LEMMA AppendType ==
    ASSUME PoolTypeOK, NEW r \in Records
    PROVE  Append(queue, IdOf[r]) \in Seq(Ids \cup {Pill})
  BY DEF PoolTypeOK

LEMMA TailType ==
    ASSUME PoolTypeOK, queue # <<>>
    PROVE  Tail(queue) \in Seq(Ids \cup {Pill}) /\ Head(queue) \in Ids \cup {Pill}
  BY DEF PoolTypeOK

\* The record a worker takes off the queue was submitted.
LEMMA TakenSubmitted ==
    ASSUME Typed, NEW w \in Workers, NEW r \in Records, Gets(w, r)
    PROVE  state[r] # "UNSUBMITTED"
  BY TailType DEF Gets, Typed, TypeOK, WorkersTyped

\* Reconciling the inventory keeps every device in a known state.
LEMMA RefreshType ==
    ASSUME RegistryTypeOK, NEW seen, NEW up, Refresh(seen, up)
    PROVE  RegistryTypeOK'
  <1>1. ASSUME NEW d \in Devices
        PROVE  (IF devState[d] \in {"QUARANTINED", "RETIRED"} THEN devState[d]
                ELSE IF d \in up THEN "ONLINE"
                ELSE IF d \in seen \/ devState[d] = "ONLINE" THEN "OFFLINE"
                ELSE devState[d]) \in DeviceStates
    BY DEF RegistryTypeOK, DeviceStates, TableStates
  <1> QED BY <1>1 DEF Refresh, NotifyAll, RegistryTypeOK

-----------------------------------------------------------------------------
\* The initial state is typed.
LEMMA TypedInit == Init => Typed
  BY DEF Init, RegistryInit, Typed, TypeOK, RegistryTypeOK, TaskTypeOK, PoolTypeOK,
         WorkTypeOK, CallerTypeOK, WorkersTyped, DeviceStates, TableStates, RecordStates,
         TaskStates, Terminal, WorkerStates, InFlight, Leased

\* Every step keeps the types: one step per action, and under it one per group of
\* variables it changes.
LEMMA TypedNext == Typed /\ [Next]_vars => Typed'
  <1> SUFFICES ASSUME Typed, [Next]_vars PROVE Typed'
    OBVIOUS
  <1> USE DEF Typed, TypeOK
  <1>1. ASSUME NEW r \in Records, SubmitUnroutable(r) PROVE Typed'
    <2>1. RegistryTypeOK' /\ PoolTypeOK' /\ WorkTypeOK' /\ CallerTypeOK'
      BY <1>1 DEF RegistryTypeOK, PoolTypeOK, WorkTypeOK, CallerTypeOK,
         SubmitUnroutable, registryVars, countVars, boundVars, workVars, drainVars,
         feedVars
    <2>2. TaskTypeOK'
      BY <1>1 DEF TaskTypeOK, SubmitUnroutable, RecordStates, TaskStates, Terminal
    <2>3. WorkersTyped'
      BY <1>1 DEF WorkersTyped, SubmitUnroutable, InFlight, Leased, RegistryTypeOK,
         TaskTypeOK, WorkTypeOK, registryVars, workVars
    <2> QED BY <2>1, <2>2, <2>3
  <1>2. ASSUME NEW r \in Records, Submit(r) PROVE Typed'
    <2>1. RegistryTypeOK' /\ WorkTypeOK' /\ CallerTypeOK'
      BY <1>2 DEF RegistryTypeOK, WorkTypeOK, CallerTypeOK, Submit, registryVars,
         workVars, drainVars, feedVars
    <2>2. TaskTypeOK'
      BY <1>2 DEF TaskTypeOK, Submit, RecordStates, TaskStates, Terminal
    <2>3. PoolTypeOK'
      BY <1>2, AppendType DEF PoolTypeOK, Submit, countVars, boundVars
    <2>4. WorkersTyped'
      BY <1>2 DEF WorkersTyped, Submit, InFlight, Leased, RegistryTypeOK, TaskTypeOK,
         WorkTypeOK, registryVars, workVars
    <2> QED BY <2>1, <2>2, <2>3, <2>4
  <1>3. CASE Start
    <2>1. RegistryTypeOK' /\ TaskTypeOK' /\ PoolTypeOK' /\ CallerTypeOK'
      BY <1>3 DEF RegistryTypeOK, TaskTypeOK, PoolTypeOK, CallerTypeOK, Start,
         registryVars, taskVars, countVars, boundVars, drainVars, feedVars
    <2>2. WorkTypeOK'
      BY <1>3 DEF WorkTypeOK, Start, WorkerStates
    <2>3. WorkersTyped'
      BY <1>3 DEF WorkersTyped, Start, InFlight, Leased, RegistryTypeOK, TaskTypeOK,
         WorkTypeOK, registryVars, taskVars
    <2> QED BY <2>1, <2>2, <2>3
  <1>4. CASE Stop
    <2>1. RegistryTypeOK' /\ TaskTypeOK' /\ WorkTypeOK' /\ CallerTypeOK' /\ WorkersTyped'
      BY <1>4 DEF RegistryTypeOK, TaskTypeOK, WorkTypeOK, CallerTypeOK, WorkersTyped,
         Stop, registryVars, taskVars, workVars, drainVars, feedVars
    <2>2. PoolTypeOK'
      BY <1>4, PillsType DEF PoolTypeOK, Stop, countVars, boundVars
    <2> QED BY <2>1, <2>2
  <1>5. CASE StopReturns \/ Drain \/ DrainTrue \/ DrainTimeout
    <2>1. RegistryTypeOK' /\ TaskTypeOK' /\ PoolTypeOK' /\ WorkTypeOK' /\ WorkersTyped'
      BY <1>5 DEF RegistryTypeOK, TaskTypeOK, PoolTypeOK, WorkTypeOK, WorkersTyped,
         StopReturns, Drain, DrainTrue, DrainTimeout, registryVars, taskVars,
         countVars, boundVars, workVars
    <2>2. CallerTypeOK'
      BY <1>5 DEF CallerTypeOK, StopReturns, Drain, DrainTrue, DrainTimeout,
         drainVars, feedVars
    <2> QED BY <2>1, <2>2
  <1>6. ASSUME NEW i \in Ids, TimerFires(i) PROVE Typed'
    <2>1. RegistryTypeOK' /\ TaskTypeOK' /\ WorkTypeOK' /\ WorkersTyped'
      BY <1>6 DEF RegistryTypeOK, TaskTypeOK, WorkTypeOK, WorkersTyped, TimerFires,
         registryVars, taskVars, workVars
    <2>2. PoolTypeOK'
      BY <1>6, SettleType DEF PoolTypeOK, TimerFires, boundVars
    <2>3. CallerTypeOK'
      BY <1>6, SettleType DEF CallerTypeOK, TimerFires, feedVars
    <2> QED BY <2>1, <2>2, <2>3
  <1>7. CASE HealthForces
    <2>1. TaskTypeOK' /\ PoolTypeOK' /\ WorkTypeOK' /\ CallerTypeOK'
      BY <1>7 DEF TaskTypeOK, PoolTypeOK, WorkTypeOK, CallerTypeOK, HealthForces,
         taskVars, countVars, boundVars, workVars, drainVars, feedVars
    <2>2. RegistryTypeOK'
      BY <1>7 DEF RegistryTypeOK, HealthForces, SetState, NotifyAll, DeviceStates,
         TableStates
    <2>3. WorkersTyped'
      BY <1>7 DEF WorkersTyped, HealthForces, InFlight, Leased, RegistryTypeOK,
         TaskTypeOK, WorkTypeOK, SetState, NotifyAll, taskVars, workVars
    <2> QED BY <2>1, <2>2, <2>3
  <1>8. CASE Inventory
    <2>1. TaskTypeOK' /\ PoolTypeOK' /\ WorkTypeOK' /\ CallerTypeOK'
      BY <1>8 DEF TaskTypeOK, PoolTypeOK, WorkTypeOK, CallerTypeOK, Inventory,
         taskVars, countVars, boundVars, workVars, drainVars, feedVars
    <2>2. RegistryTypeOK'
      BY <1>8, RefreshType DEF RegistryTypeOK, Inventory
    <2>3. WorkersTyped'
      BY <1>8 DEF WorkersTyped, Inventory, InFlight, Leased, RegistryTypeOK,
         TaskTypeOK, WorkTypeOK, Refresh, NotifyAll, taskVars, workVars
    <2> QED BY <2>1, <2>2, <2>3
  <1>9. CASE UNCHANGED vars
    <2>1. RegistryTypeOK' /\ TaskTypeOK' /\ PoolTypeOK' /\ WorkTypeOK' /\ CallerTypeOK' /\ WorkersTyped'
      BY <1>9 DEF RegistryTypeOK, TaskTypeOK, PoolTypeOK, WorkTypeOK, CallerTypeOK,
         WorkersTyped, vars, registryVars, taskVars, countVars, boundVars, workVars,
         drainVars, feedVars
    <2> QED BY <2>1
  <1>10. ASSUME NEW w \in Workers, WorkerStep(w) PROVE Typed'
    <2>1. CASE TakePill(w)
      <3>1. RegistryTypeOK' /\ TaskTypeOK' /\ CallerTypeOK'
        BY <2>1 DEF RegistryTypeOK, TaskTypeOK, CallerTypeOK, TakePill, registryVars,
           taskVars, drainVars, feedVars
      <3>2. PoolTypeOK'
        BY <2>1, TailType DEF PoolTypeOK, TakePill, countVars, boundVars
      <3>3. WorkTypeOK'
        BY <2>1 DEF WorkTypeOK, TakePill, WorkerStates
      <3>4. WorkersTyped'
        BY <2>1 DEF WorkersTyped, TakePill, InFlight, Leased, RegistryTypeOK,
           TaskTypeOK, WorkTypeOK, registryVars, taskVars
      <3> QED BY <3>1, <3>2, <3>3, <3>4
    <2>2. CASE TakeSkip(w)
      <3>1. RegistryTypeOK' /\ TaskTypeOK' /\ WorkTypeOK' /\ WorkersTyped'
        BY <2>2 DEF RegistryTypeOK, TaskTypeOK, WorkTypeOK, WorkersTyped, TakeSkip,
           registryVars, taskVars, workVars
      <3>2. PoolTypeOK'
        BY <2>2, TailType, SettleType DEF PoolTypeOK, TakeSkip, Gets, countVars,
           boundVars
      <3>3. CallerTypeOK'
        BY <2>2, SettleType DEF CallerTypeOK, TakeSkip, feedVars
      <3> QED BY <3>1, <3>2, <3>3
    <2>3. CASE TakeAbandon(w)
      <3>1. RegistryTypeOK' /\ WorkTypeOK'
        BY <2>3 DEF RegistryTypeOK, WorkTypeOK, TakeAbandon, registryVars, workVars
      <3>2. TaskTypeOK'
        BY <2>3 DEF TaskTypeOK, TakeAbandon, RecordStates, TaskStates, Terminal
      <3>3. PoolTypeOK'
        BY <2>3, TailType, SettleType DEF PoolTypeOK, TakeAbandon, Gets, countVars,
           boundVars
      <3>4. CallerTypeOK'
        BY <2>3, SettleType, AnnounceType DEF CallerTypeOK, TakeAbandon, RecordStates,
           TaskStates, Terminal
      <3>5. WorkersTyped'
        BY <2>3 DEF WorkersTyped, TakeAbandon, InFlight, Leased, RegistryTypeOK,
           TaskTypeOK, WorkTypeOK, registryVars, workVars
      <3> QED BY <3>1, <3>2, <3>3, <3>4, <3>5
    <2>4. CASE TakeAcquire(w)
      <3>1. RegistryTypeOK' /\ TaskTypeOK' /\ CallerTypeOK'
        BY <2>4 DEF RegistryTypeOK, TaskTypeOK, CallerTypeOK, TakeAcquire,
           registryVars, taskVars, drainVars, feedVars
      <3>2. PoolTypeOK'
        BY <2>4, TailType DEF PoolTypeOK, TakeAcquire, Gets, boundVars
      <3>3. WorkTypeOK'
        BY <2>4 DEF WorkTypeOK, TakeAcquire, WorkerStates
      <3>4. WorkersTyped'
        <4>1. PICK r \in Records : Gets(w, r) /\ task' = [task EXCEPT ![w] = r]
          BY <2>4 DEF TakeAcquire
        <4>2. state[r] # "UNSUBMITTED"
          BY <4>1, TakenSubmitted
        <4>3. pc' = [pc EXCEPT ![w] = "acquire"] /\ pc[w] = "get"
          BY <2>4, <4>1 DEF TakeAcquire, Gets
        <4>4. UNCHANGED <<asleep, state, records, phase, dev>>
          BY <2>4 DEF TakeAcquire, registryVars, taskVars
        <4> QED
          BY <4>1, <4>2, <4>3, <4>4 DEF WorkersTyped, InFlight, Leased, WorkTypeOK,
             RegistryTypeOK
      <3> QED BY <3>1, <3>2, <3>3, <3>4
    <2>5. CASE Lease(w)
      <3>0. task[w] \in Records
        BY <2>5 DEF Lease, WorkersTyped, InFlight
      <3>1. RegistryTypeOK'
        BY <2>5 DEF RegistryTypeOK, Lease, AcquireFree
      <3>2. TaskTypeOK'
        BY <2>5, <3>0 DEF TaskTypeOK, Lease, RecordStates, TaskStates, Terminal
      <3>3. PoolTypeOK'
        BY <2>5 DEF PoolTypeOK, Lease, countVars, boundVars
      <3>4. WorkTypeOK'
        BY <2>5 DEF WorkTypeOK, Lease, WorkerStates
      <3>5. CallerTypeOK'
        BY <2>5, <3>0, AnnounceType DEF CallerTypeOK, Lease, RecordStates, TaskStates,
           Terminal, drainVars
      <3>6. WorkersTyped'
        BY <2>5, <3>0 DEF WorkersTyped, Lease, InFlight, Leased, RegistryTypeOK,
           TaskTypeOK, WorkTypeOK, AcquireFree
      <3> QED BY <3>1, <3>2, <3>3, <3>4, <3>5, <3>6
    <2>6. CASE LeaseWait(w)
      <3>1. TaskTypeOK' /\ PoolTypeOK' /\ CallerTypeOK'
        BY <2>6 DEF TaskTypeOK, PoolTypeOK, CallerTypeOK, LeaseWait, taskVars,
           countVars, boundVars, drainVars, feedVars
      <3>2. RegistryTypeOK'
        BY <2>6 DEF RegistryTypeOK, LeaseWait, AcquireSleep
      <3>3. WorkTypeOK'
        BY <2>6 DEF WorkTypeOK, LeaseWait, WorkerStates
      <3>4. WorkersTyped'
        BY <2>6 DEF WorkersTyped, LeaseWait, InFlight, Leased, RegistryTypeOK,
           TaskTypeOK, WorkTypeOK, AcquireSleep, taskVars
      <3> QED BY <3>1, <3>2, <3>3, <3>4
    <2>7. CASE LeaseTimeoutRetry(w)
      <3>0. task[w] \in Records
        BY <2>7 DEF LeaseTimeoutRetry, WorkersTyped, InFlight
      <3>1. RegistryTypeOK'
        BY <2>7 DEF RegistryTypeOK, LeaseTimeoutRetry, AcquireTimeout
      <3>2. TaskTypeOK'
        BY <2>7, <3>0, RescheduleType DEF TaskTypeOK, LeaseTimeoutRetry
      <3>3. PoolTypeOK'
        <4>1. timers' \in [Ids -> Nat] /\ pendingRetries' \in Int
          BY <2>7, <3>0, RescheduleType DEF LeaseTimeoutRetry
        <4>2. idle' \in BOOLEAN
          BY <2>7 DEF LeaseTimeoutRetry
        <4>3. inflight' \in Int
          BY <2>7 DEF LeaseTimeoutRetry, PoolTypeOK
        <4>4. UNCHANGED <<queue, phase, churn, stops>>
          BY <2>7 DEF LeaseTimeoutRetry, boundVars
        <4> QED BY <4>1, <4>2, <4>3, <4>4 DEF PoolTypeOK
      <3>4. WorkTypeOK'
        BY <2>7 DEF WorkTypeOK, LeaseTimeoutRetry, WorkerDone, WorkerStates
      <3>5. CallerTypeOK'
        BY <2>7, <3>0, RescheduleType DEF CallerTypeOK, LeaseTimeoutRetry, drainVars
      <3>6. WorkersTyped'
        BY <2>7, <3>0, RescheduleType DEF WorkersTyped, LeaseTimeoutRetry, InFlight, Leased,
           RegistryTypeOK, TaskTypeOK, WorkTypeOK, AcquireTimeout, WorkerDone
      <3> QED BY <3>1, <3>2, <3>3, <3>4, <3>5, <3>6
    <2>8. CASE LeaseTimeoutExhausted(w)
      <3>0. task[w] \in Records
        BY <2>8 DEF LeaseTimeoutExhausted, WorkersTyped, InFlight
      <3>1. RegistryTypeOK'
        BY <2>8 DEF RegistryTypeOK, LeaseTimeoutExhausted, AcquireTimeout
      <3>2. TaskTypeOK'
        BY <2>8, <3>0, ExhaustType DEF TaskTypeOK, LeaseTimeoutExhausted
      <3>3. PoolTypeOK'
        BY <2>8, <3>0, ExhaustType, SettleType DEF PoolTypeOK, LeaseTimeoutExhausted,
           boundVars
      <3>4. WorkTypeOK'
        BY <2>8 DEF WorkTypeOK, LeaseTimeoutExhausted, WorkerDone, WorkerStates
      <3>5. CallerTypeOK'
        BY <2>8, <3>0, ExhaustType, SettleType DEF CallerTypeOK, LeaseTimeoutExhausted
      <3>6. WorkersTyped'
        BY <2>8, <3>0, ExhaustType DEF WorkersTyped, LeaseTimeoutExhausted, InFlight,
           Leased, RegistryTypeOK, TaskTypeOK, WorkTypeOK, AcquireTimeout, WorkerDone
      <3> QED BY <3>1, <3>2, <3>3, <3>4, <3>5, <3>6
    <2>9. CASE Succeed(w) \/ Reject(w)
      <3>1. RegistryTypeOK' /\ PoolTypeOK' /\ CallerTypeOK'
        BY <2>9 DEF RegistryTypeOK, PoolTypeOK, CallerTypeOK, Succeed, Reject, Finish,
           registryVars, countVars, boundVars, drainVars, feedVars
      <3>2. TaskTypeOK'
        BY <2>9 DEF TaskTypeOK, Succeed, Reject, Finish, RecordStates, TaskStates,
           Terminal
      <3>3. WorkTypeOK'
        BY <2>9 DEF WorkTypeOK, Succeed, Reject, Finish, WorkerStates
      <3>4. WorkersTyped'
        BY <2>9 DEF WorkersTyped, Succeed, Reject, Finish, InFlight, Leased,
           RegistryTypeOK, TaskTypeOK, WorkTypeOK, registryVars
      <3> QED BY <3>1, <3>2, <3>3, <3>4
    <2>10. CASE FailBlameless(w) \/ FailOutOfService(w)
      <3>1. AfterFailure(w) /\ UNCHANGED registryVars /\ pc[w] = "run"
        BY <2>10 DEF FailBlameless, FailOutOfService
      <3>2. RegistryTypeOK'
        BY <3>1 DEF registryVars, RegistryTypeOK
      <3> QED
        BY <3>1, <3>2, AfterFailureType, AfterFailureWorkers DEF Leased, registryVars
    <2>11. CASE FailBlamed(w)
      <3>1. RegistryTypeOK' /\ TaskTypeOK' /\ PoolTypeOK' /\ CallerTypeOK'
        BY <2>11 DEF RegistryTypeOK, TaskTypeOK, PoolTypeOK, CallerTypeOK, FailBlamed,
           registryVars, taskVars, countVars, boundVars, drainVars, feedVars
      <3>2. WorkTypeOK'
        BY <2>11 DEF WorkTypeOK, FailBlamed, WorkerStates
      <3>3. WorkersTyped'
        BY <2>11 DEF WorkersTyped, FailBlamed, InFlight, Leased, RegistryTypeOK,
           TaskTypeOK, WorkTypeOK, registryVars, taskVars
      <3> QED BY <3>1, <3>2, <3>3
    <2>12. CASE QuarantineBlamed(w)
      <3>1. AfterFailure(w) /\ SetState(dev[w], "QUARANTINED") /\ pc[w] = "mark"
        BY <2>12 DEF QuarantineBlamed
      <3>2. RegistryTypeOK' /\ asleep' \subseteq asleep
        BY <3>1 DEF SetState, NotifyAll, RegistryTypeOK, DeviceStates, TableStates
      <3> QED
        BY <3>1, <3>2, AfterFailureType, AfterFailureWorkers DEF Leased
    <2>13. CASE Release(w)
      <3>1. TaskTypeOK'
        BY <2>13 DEF TaskTypeOK, Release, taskVars
      <3>2. RegistryTypeOK'
        BY <2>13 DEF RegistryTypeOK, Release, ReleaseLease, NotifyAll
      <3>3. PoolTypeOK'
        BY <2>13, SettleType DEF PoolTypeOK, Release, boundVars
      <3>4. WorkTypeOK'
        BY <2>13 DEF WorkTypeOK, Release, WorkerDone, WorkerStates
      <3>5. CallerTypeOK'
        <4>1. task[w] \in Records /\ state[task[w]] \in TaskStates
          BY <2>13 DEF Release, WorkersTyped, InFlight, Leased, TaskTypeOK, RecordStates
        <4>2. /\ shown' \in [Records -> TaskStates \cup {"UNSEEN"}]
              /\ finals' \in [Records -> Nat]
          BY <2>13, <4>1, AnnounceType DEF Release, CallerTypeOK, feedVars
        <4> QED BY <2>13, <4>2, SettleType DEF Release, CallerTypeOK
      <3>6. WorkersTyped'
        BY <2>13 DEF WorkersTyped, Release, ReleaseLease, NotifyAll, WorkerDone, taskVars,
           InFlight, Leased, WorkTypeOK
      <3> QED BY <3>1, <3>2, <3>3, <3>4, <3>5, <3>6
    <2> QED
      BY <1>10, <2>1, <2>2, <2>3, <2>4, <2>5, <2>6, <2>7, <2>8, <2>9, <2>10, <2>11,
         <2>12, <2>13 DEF WorkerStep
  <1> QED
    BY <1>1, <1>2, <1>3, <1>4, <1>5, <1>6, <1>7, <1>8, <1>9, <1>10 DEF Next

\* The scheduler's variables keep their types, whatever the bounds.
THEOREM TypeCorrect == Spec => []TypeOK
  <1>1. Init => Typed
    BY TypedInit
  <1>2. Typed /\ [Next]_vars => Typed'
    BY TypedNext
  <1>3. Typed => TypeOK
    BY DEF Typed
  <1> QED
    BY <1>1, <1>2, <1>3, PTL DEF Spec

-----------------------------------------------------------------------------
\* Leases.

\* What keeps the lease table and the workers in agreement: a step that leaves the
\* table alone and neither gives a worker a lease nor takes one away.
LEMMA LeasesKept ==
    ASSUME LeasesMatchWorkers, leases' = leases,
           \A w \in Workers : pc'[w] \in Leased <=> pc[w] \in Leased,
           \A w \in Workers : pc[w] \in Leased => dev'[w] = dev[w]
    PROVE  LeasesMatchWorkers'
  BY DEF LeasesMatchWorkers

\* The lease table agrees with the workers after every step.
LEMMA LeasesNext ==
    Typed /\ LeasesMatchWorkers /\ [Next]_vars => LeasesMatchWorkers'
  <1> SUFFICES ASSUME Typed, LeasesMatchWorkers, [Next]_vars
               PROVE  LeasesMatchWorkers'
    OBVIOUS
  <1> USE DEF Typed, TypeOK
  <1>1. ASSUME UNCHANGED <<leases, pc, dev>> PROVE LeasesMatchWorkers'
    BY <1>1, LeasesKept
  <1>2. ASSUME NEW r \in Records, SubmitUnroutable(r) \/ Submit(r)
        PROVE  LeasesMatchWorkers'
    BY <1>1, <1>2 DEF SubmitUnroutable, Submit, registryVars, workVars
  <1>3. CASE Start
    <2>1. /\ \A w \in Workers : pc[w] = "off" /\ pc'[w] = "get"
          /\ UNCHANGED leases
      BY <1>3 DEF Start, WorkersTyped, registryVars
    <2> QED BY <2>1, LeasesKept DEF Leased
  <1>4. CASE Stop \/ StopReturns \/ Drain \/ DrainTrue \/ DrainTimeout
    BY <1>1, <1>4 DEF Stop, StopReturns, Drain, DrainTrue, DrainTimeout, registryVars,
       workVars
  <1>5. ASSUME NEW i \in Ids, TimerFires(i) PROVE LeasesMatchWorkers'
    BY <1>1, <1>5 DEF TimerFires, registryVars, workVars
  <1>6. CASE HealthForces \/ Inventory
    BY <1>1, <1>6 DEF HealthForces, SetState, Inventory, Refresh, workVars
  <1>7. CASE UNCHANGED vars
    BY <1>1, <1>7 DEF vars, registryVars, workVars
  <1>8. ASSUME NEW w \in Workers, WorkerStep(w) PROVE LeasesMatchWorkers'
    <2>1. ASSUME leases' = leases, UNCHANGED dev,
                 pc[w] \notin Leased, \E c \in WorkerStates \ Leased : pc' = [pc EXCEPT ![w] = c]
          PROVE  LeasesMatchWorkers'
      BY <2>1, LeasesKept DEF WorkTypeOK
    <2>2. ASSUME leases' = leases, UNCHANGED dev,
                 pc[w] \in Leased, \E c \in Leased : pc' = [pc EXCEPT ![w] = c]
          PROVE  LeasesMatchWorkers'
      BY <2>2, LeasesKept DEF WorkTypeOK
    <2>3. CASE TakePill(w) \/ TakeAcquire(w) \/ LeaseWait(w)
      BY <2>1, <2>3 DEF TakePill, TakeAcquire, Gets, LeaseWait, AcquireSleep,
         registryVars, WorkerStates, Leased
    <2>4. CASE TakeSkip(w) \/ TakeAbandon(w)
      BY <1>1, <2>4 DEF TakeSkip, TakeAbandon, registryVars, workVars
    <2>5. CASE LeaseTimeoutRetry(w) \/ LeaseTimeoutExhausted(w)
      <3>1. /\ pc[w] = "waiting" /\ leases' = leases
            /\ pc' = [pc EXCEPT ![w] = "get"] /\ dev' = [dev EXCEPT ![w] = NoOne]
        BY <2>5 DEF LeaseTimeoutRetry, LeaseTimeoutExhausted, AcquireTimeout, WorkerDone
      <3> QED BY <3>1, LeasesKept DEF WorkTypeOK, Leased
    <2>6. CASE Lease(w)
      <3>1. PICK d \in Devices : /\ AcquireFree(w, Selector[task[w]], d)
                                 /\ dev' = [dev EXCEPT ![w] = d]
        BY <2>6 DEF Lease
      <3>2. leases[d] = NoOne /\ leases' = [leases EXCEPT ![d] = w]
        BY <3>1 DEF AcquireFree, FindFree
      <3>3. pc[w] \notin Leased /\ pc' = [pc EXCEPT ![w] = "run"]
        BY <2>6 DEF Lease, Leased
      <3> QED
        BY <3>1, <3>2, <3>3 DEF LeasesMatchWorkers, WorkTypeOK, RegistryTypeOK, Leased
    <2>7. CASE Succeed(w) \/ Reject(w) \/ FailBlamed(w)
      BY <2>2, <2>7 DEF Succeed, Reject, Finish, FailBlamed, registryVars, Leased
    <2>8. CASE FailBlameless(w) \/ FailOutOfService(w)
      BY <2>2, <2>8 DEF FailBlameless, FailOutOfService, AfterFailure, registryVars, Leased
    <2>9. CASE QuarantineBlamed(w)
      BY <2>2, <2>9 DEF QuarantineBlamed, SetState, AfterFailure, Leased
    <2>10. CASE Release(w)
      <3>1. pc[w] \in Leased /\ pc' = [pc EXCEPT ![w] = "get"]
                             /\ dev' = [dev EXCEPT ![w] = NoOne]
        BY <2>10 DEF Release, WorkerDone, Leased
      <3>2. leases[dev[w]] = w /\ dev[w] \in Devices
        BY <3>1 DEF LeasesMatchWorkers, WorkersTyped
      <3>3. leases' = [leases EXCEPT ![dev[w]] = NoOne]
        BY <2>10, <3>2 DEF Release, ReleaseLease
      <3> QED
        BY <3>1, <3>2, <3>3 DEF LeasesMatchWorkers, WorkTypeOK, RegistryTypeOK, Leased
    <2> QED
      BY <1>8, <2>3, <2>4, <2>5, <2>6, <2>7, <2>8, <2>9, <2>10 DEF WorkerStep
  <1> QED
    BY <1>2, <1>3, <1>4, <1>5, <1>6, <1>7, <1>8 DEF Next

\* Whatever the monitor does to the fleet, the lease table and the workers agree:
\* no lease leaks, and two workers never drive one device.
THEOREM LeasesCorrect == Spec => []LeasesMatchWorkers
  <1>1. Init => Typed /\ LeasesMatchWorkers
    BY TypedInit DEF Init, RegistryInit, LeasesMatchWorkers, Leased
  <1>2. Typed /\ LeasesMatchWorkers /\ [Next]_vars => (Typed /\ LeasesMatchWorkers)'
    BY TypedNext, LeasesNext
  <1> QED
    BY <1>1, <1>2, PTL DEF Spec

-----------------------------------------------------------------------------
\* Sleepers.

\* A step that frees no device and lets no one new fall asleep, nor changes what
\* a sleeper waits for, strands no sleeper.
LEMMA SleepersKept ==
    ASSUME NoLostWakeup, asleep' \subseteq asleep,
           \A w \in asleep' : pc'[w] = pc[w] /\ task'[w] = task[w],
           \A d \in Devices : leases'[d] = NoOne => leases[d] = NoOne,
           \A d \in Devices : devState'[d] = "ONLINE" => devState[d] = "ONLINE",
           \A w \in asleep : Selector[task[w]] \subseteq Devices
    PROVE  NoLostWakeup'
  BY DEF NoLostWakeup, FindFree

\* No step strands a sleeper.
LEMMA WakeupNext == Typed /\ NoLostWakeup /\ [Next]_vars => NoLostWakeup'
  <1> SUFFICES ASSUME Typed, NoLostWakeup, [Next]_vars
               PROVE  NoLostWakeup'
    OBVIOUS
  <1> USE DEF Typed, TypeOK
  <1>a. \A w \in asleep : /\ w \in Workers /\ pc[w] = "waiting"
                          /\ task[w] \in Records /\ Selector[task[w]] \subseteq Devices
    BY DEF WorkersTyped, RegistryTypeOK, InFlight
  <1>b. ASSUME UNCHANGED registryVars, \A w \in asleep : pc'[w] = pc[w] /\ task'[w] = task[w]
        PROVE  NoLostWakeup'
    BY <1>a, <1>b, SleepersKept DEF registryVars
  <1>c. ASSUME NotifyAll PROVE NoLostWakeup'
    BY <1>c DEF NotifyAll, NoLostWakeup
  <1>1. ASSUME NEW r \in Records, SubmitUnroutable(r) \/ Submit(r) PROVE NoLostWakeup'
    BY <1>b, <1>1 DEF SubmitUnroutable, Submit, workVars
  <1>2. CASE Start
    BY <1>a, <1>b, <1>2 DEF Start, WorkersTyped
  <1>3. CASE Stop \/ StopReturns \/ Drain \/ DrainTrue \/ DrainTimeout
    BY <1>b, <1>3 DEF Stop, StopReturns, Drain, DrainTrue, DrainTimeout, workVars
  <1>4. ASSUME NEW i \in Ids, TimerFires(i) PROVE NoLostWakeup'
    BY <1>b, <1>4 DEF TimerFires, workVars
  <1>5. CASE HealthForces
    BY <1>c, <1>5 DEF HealthForces, SetState
  <1>6. CASE Inventory
    BY <1>c, <1>6 DEF Inventory, Refresh
  <1>7. CASE UNCHANGED vars
    BY <1>b, <1>7 DEF vars, workVars
  <1>8. ASSUME NEW w \in Workers, WorkerStep(w) PROVE NoLostWakeup'
    <2>1. ASSUME UNCHANGED registryVars, pc[w] # "waiting", UNCHANGED <<task, dev>>,
                 \E c \in WorkerStates : pc' = [pc EXCEPT ![w] = c]
          PROVE  NoLostWakeup'
      BY <1>a, <1>b, <2>1 DEF WorkTypeOK
    <2>2. CASE TakePill(w) \/ Succeed(w) \/ Reject(w) \/ FailBlamed(w)
      BY <2>1, <2>2 DEF TakePill, Succeed, Reject, Finish, FailBlamed, WorkerStates
    <2>3. CASE FailBlameless(w) \/ FailOutOfService(w)
      BY <2>1, <2>3 DEF FailBlameless, FailOutOfService, AfterFailure, WorkerStates
    <2>4. CASE TakeSkip(w) \/ TakeAbandon(w)
      BY <1>b, <2>4 DEF TakeSkip, TakeAbandon, workVars
    <2>5. CASE TakeAcquire(w)
      <3>1. pc[w] = "get" /\ pc' = [pc EXCEPT ![w] = "acquire"]
            /\ \E r \in Records : task' = [task EXCEPT ![w] = r]
        BY <2>5 DEF TakeAcquire, Gets
      <3> QED BY <1>a, <1>b, <2>5, <3>1 DEF TakeAcquire, WorkTypeOK
    <2>6. CASE Lease(w)
      <3>1. PICK d \in Devices : AcquireFree(w, Selector[task[w]], d)
        BY <2>6 DEF Lease
      <3>2. /\ w \notin asleep /\ UNCHANGED <<devState, asleep, task>>
            /\ leases' = [leases EXCEPT ![d] = w] /\ pc' = [pc EXCEPT ![w] = "run"]
        BY <2>6, <3>1 DEF Lease, AcquireFree
      <3> QED BY <1>a, <3>2, SleepersKept DEF RegistryTypeOK, WorkTypeOK
    <2>7. CASE LeaseWait(w)
      <3>1. /\ FindFree(Selector[task[w]]) = {} /\ asleep' = asleep \cup {w}
            /\ UNCHANGED <<devState, leases, task>> /\ pc' = [pc EXCEPT ![w] = "waiting"]
        BY <2>7 DEF LeaseWait, AcquireSleep
      <3> QED BY <3>1, <1>a DEF NoLostWakeup, FindFree, WorkTypeOK
    <2>8. CASE LeaseTimeoutRetry(w) \/ LeaseTimeoutExhausted(w)
      <3>1. /\ asleep' = asleep \ {w} /\ UNCHANGED <<devState, leases>>
            /\ pc' = [pc EXCEPT ![w] = "get"] /\ task' = [task EXCEPT ![w] = NoOne]
        BY <2>8 DEF LeaseTimeoutRetry, LeaseTimeoutExhausted, AcquireTimeout, WorkerDone
      <3> QED BY <1>a, <3>1, SleepersKept DEF WorkTypeOK
    <2>9. CASE QuarantineBlamed(w)
      <3>1. /\ pc[w] = "mark" /\ pc' = [pc EXCEPT ![w] = "release"] /\ UNCHANGED task
            /\ NotifyAll \/ UNCHANGED registryVars
        BY <2>9 DEF QuarantineBlamed, SetState, AfterFailure, registryVars
      <3> QED BY <1>a, <1>b, <1>c, <3>1 DEF WorkTypeOK
    <2>10. CASE Release(w)
      BY <1>c, <2>10 DEF Release, ReleaseLease
    <2> QED
      BY <1>8, <2>2, <2>3, <2>4, <2>5, <2>6, <2>7, <2>8, <2>9, <2>10 DEF WorkerStep
  <1> QED
    BY <1>1, <1>2, <1>3, <1>4, <1>5, <1>6, <1>7, <1>8 DEF Next

\* No wake-up is lost: a worker never sleeps in acquire() beside a free device it
\* could lease.
THEOREM NoWakeupIsLost == Spec => []NoLostWakeup
  <1>1. Init => Typed /\ NoLostWakeup
    BY TypedInit DEF Init, RegistryInit, NoLostWakeup
  <1>2. Typed /\ NoLostWakeup /\ [Next]_vars => (Typed /\ NoLostWakeup)'
    BY TypedNext, WakeupNext
  <1> QED
    BY <1>1, <1>2, PTL DEF Spec

-----------------------------------------------------------------------------
\* Blame.

\* Nothing but the registry's answer to the quarantine takes a worker from "mark":
\* not a restart, not another worker, not the monitor.
LEMMA MarkIsLeftByQuarantine ==
    ASSUME Typed, Next, NEW w \in Workers, pc[w] = "mark", pc'[w] # "mark"
    PROVE  QuarantineBlamed(w)
  <1> USE DEF Typed, TypeOK, WorkTypeOK
  <1>1. CASE \E r \in Records : SubmitUnroutable(r) \/ Submit(r)
    BY <1>1 DEF SubmitUnroutable, Submit, workVars
  <1>2. CASE Start
    BY <1>2 DEF Start, WorkersTyped
  <1>3. CASE Stop \/ StopReturns \/ Drain \/ DrainTrue \/ DrainTimeout
    BY <1>3 DEF Stop, StopReturns, Drain, DrainTrue, DrainTimeout, workVars
  <1>4. CASE (\E i \in Ids : TimerFires(i)) \/ HealthForces \/ Inventory
    BY <1>4 DEF TimerFires, HealthForces, Inventory, workVars
  <1>5. ASSUME NEW v \in Workers, WorkerStep(v) PROVE QuarantineBlamed(w)
    <2>1. CASE v # w
      <3>1. pc' = pc \/ \E c \in WorkerStates : pc' = [pc EXCEPT ![v] = c]
        <4>1. CASE TakePill(v) \/ TakeSkip(v) \/ TakeAbandon(v) \/ TakeAcquire(v)
          BY <4>1 DEF TakePill, TakeSkip, TakeAbandon, TakeAcquire, workVars, WorkerStates
        <4>2. CASE Lease(v) \/ LeaseWait(v) \/ LeaseTimeoutRetry(v) \/ LeaseTimeoutExhausted(v)
          BY <4>2 DEF Lease, LeaseWait, LeaseTimeoutRetry, LeaseTimeoutExhausted, WorkerDone,
             WorkerStates
        <4>3. CASE Succeed(v) \/ Reject(v) \/ FailBlamed(v) \/ Release(v)
          BY <4>3 DEF Succeed, Reject, Finish, FailBlamed, Release, WorkerDone, WorkerStates
        <4>4. CASE FailBlameless(v) \/ FailOutOfService(v) \/ QuarantineBlamed(v)
          BY <4>4 DEF FailBlameless, FailOutOfService, QuarantineBlamed, AfterFailure,
             WorkerStates
        <4> QED BY <1>5, <4>1, <4>2, <4>3, <4>4 DEF WorkerStep
      <3> QED BY <2>1, <3>1
    <2>2. CASE v = w
      BY <1>5, <2>2 DEF WorkerStep, TakePill, TakeSkip, TakeAbandon, TakeAcquire, Gets,
         Lease, LeaseWait, LeaseTimeoutRetry, LeaseTimeoutExhausted, Succeed, Reject, Finish,
         FailBlameless, FailOutOfService, FailBlamed, Release
    <2> QED BY <2>1, <2>2
  <1> QED BY <1>1, <1>2, <1>3, <1>4, <1>5 DEF Next

\* A device that was blamed for a failed attempt is out of service, and still leased
\* to the worker that blamed it, when that worker goes on to give the lease back:
\* no task in line gets the phone that just failed, whatever the monitor decided
\* meanwhile.
THEOREM BlameTakesEffect == Spec => BlamedLeavesPool
  <1> DEFINE Blamed == \A w \in Workers :
                         pc[w] = "mark" /\ pc'[w] # "mark" =>
                             devState'[dev[w]] # "ONLINE" /\ leases'[dev[w]] = w
  <1>1. Typed /\ LeasesMatchWorkers /\ [Next]_vars => [Blamed]_vars
    <2> SUFFICES ASSUME Typed, LeasesMatchWorkers, Next, NEW w \in Workers,
                        pc[w] = "mark", pc'[w] # "mark"
                 PROVE  devState'[dev[w]] # "ONLINE" /\ leases'[dev[w]] = w
      OBVIOUS
    <2>1. QuarantineBlamed(w)
      BY MarkIsLeftByQuarantine
    <2>2. dev[w] \in Devices /\ leases[dev[w]] = w
      BY DEF Typed, WorkersTyped, LeasesMatchWorkers, Leased
    <2>3. leases' = leases /\ devState'[dev[w]] \in {"ABSENT", "QUARANTINED"}
      BY <2>1, <2>2 DEF QuarantineBlamed, SetState, Typed, TypeOK, RegistryTypeOK
    <2> QED BY <2>2, <2>3
  <1>2. Init => Typed /\ LeasesMatchWorkers
    BY TypedInit DEF Init, RegistryInit, LeasesMatchWorkers, Leased
  <1>3. Typed /\ LeasesMatchWorkers /\ [Next]_vars => (Typed /\ LeasesMatchWorkers)'
    BY TypedNext, LeasesNext
  <1> QED
    BY <1>1, <1>2, <1>3, PTL DEF Spec, BlamedLeavesPool
=============================================================================
