------------------------------- MODULE Scheduler -------------------------------
(***************************************************************************)
(* The scheduler of src/core/scheduler.py over the registry of             *)
(* src/core/device.py: a FIFO queue of task ids, a pool of workers that    *)
(* lease a device, run the task's target and classify how it ended, retry  *)
(* timers that put ids back, and the idle event drain() waits for.         *)
(*                                                                         *)
(* asyncio runs one coroutine at a time, so everything between two awaits  *)
(* that may suspend is one step.  Those awaits are: the empty queue, the   *)
(* registry's condition and its lock, the target's execute(), the sleep of *)
(* a retry, and the idle event.  Publishing to the event hub never         *)
(* suspends, so an announcement is part of the step that makes it.         *)
(*                                                                         *)
(* The health monitor is an environment here: it may force any state on a  *)
(* known device at any moment, at most MaxChurn times together with the    *)
(* inventory refreshes.                                                    *)
(***************************************************************************)
EXTENDS DeviceRegistry, Integers, Sequences, FiniteSets

CONSTANTS Records,      \* TaskRecord objects: one per call of submit()
          Ids,          \* task ids
          IdOf,         \* spec.id of each record
          Selector,     \* spec.selector of each record, as the set it matches
          MaxAttempts,  \* spec.max_attempts of each record
          Unroutable,   \* the records whose spec.kind has no target
          Pill,         \* the None that stops a worker
          MaxChurn,     \* bound: device state changes by the environment
          MaxStops      \* bound: calls of stop()

ASSUME SchedulerAssumption ==
    /\ IsFiniteSet(Workers) /\ Workers # {}
    /\ IdOf \in [Records -> Ids]
    /\ Selector \in [Records -> SUBSET Devices]
    /\ MaxAttempts \in [Records -> Nat]
    /\ Unroutable \subseteq Records
    /\ NoOne \notin Records
    /\ Pill \notin Ids
    /\ MaxChurn \in Nat /\ MaxStops \in Nat

VARIABLES
  state,          \* TaskRecord.state, or UNSUBMITTED
  attempts,       \* TaskRecord.attempt_count
  attemptDev,     \* attempts[-1].device_id, or NoOne
  records,        \* Scheduler._records: the record each id maps to
  queue,          \* Scheduler._queue: ids and pills
  timers,         \* how many _delayed_put coroutines sleep, per id
  inflight,       \* Scheduler._inflight
  pendingRetries, \* Scheduler._pending_retries
  idle,           \* Scheduler._idle.is_set()
  phase,          \* DOWN, UP, or STOPPING while stop() awaits the workers
  pc,             \* where each worker is suspended
  task,           \* the record object a worker holds
  dev,            \* the device a worker's lease is on
  drainer,        \* one caller of drain()
  watched,        \* history: the records submitted when drain() was called
  shown,          \* history: the last state announced for a record
  finals,         \* history: how many terminal announcements it had
  churn, stops    \* the two bounded counters

taskVars  == <<state, attempts, attemptDev, records>>
countVars == <<inflight, pendingRetries>>
workVars  == <<pc, task, dev>>
drainVars == <<drainer, watched>>
feedVars  == <<shown, finals>>
boundVars == <<churn, stops>>
vars == <<registryVars, taskVars, queue, timers, countVars, idle, phase,
          workVars, drainVars, feedVars, boundVars>>

\* ASSIGNED is declared in task.py and never set.
Terminal == {"SUCCEEDED", "FAILED", "REJECTED", "ABANDONED"}
TaskStates == {"PENDING", "RUNNING"} \cup Terminal
RecordStates == TaskStates \cup {"UNSUBMITTED"}

\* off: no coroutine.  get: awaiting queue.get().  acquire: about to look for a
\* device.  waiting: in the condition's loop, suspended or just woken.  run: in
\* target.execute().  mark: awaiting the quarantine.  release: awaiting release().
WorkerStates == {"off", "get", "acquire", "waiting", "run", "mark", "release"}
Leased == {"run", "mark", "release"}
InFlight == {"acquire", "waiting"} \cup Leased

TaskTypeOK ==
    /\ state \in [Records -> RecordStates]
    /\ attempts \in [Records -> Nat]
    /\ attemptDev \in [Records -> Devices \cup {NoOne}]
    /\ records \in [Ids -> Records \cup {NoOne}]

PoolTypeOK ==
    /\ queue \in Seq(Ids \cup {Pill})
    /\ timers \in [Ids -> Nat]
    /\ inflight \in Int /\ pendingRetries \in Int
    /\ idle \in BOOLEAN
    /\ phase \in {"DOWN", "UP", "STOPPING"}
    /\ churn \in Nat /\ stops \in Nat

WorkTypeOK ==
    /\ pc \in [Workers -> WorkerStates]
    /\ task \in [Workers -> Records \cup {NoOne}]
    /\ dev \in [Workers -> Devices \cup {NoOne}]

CallerTypeOK ==
    /\ drainer \in {"none", "waiting", "woken", "true", "false"}
    /\ watched \subseteq Records
    /\ shown \in [Records -> TaskStates \cup {"UNSEEN"}]
    /\ finals \in [Records -> Nat]

TypeOK == RegistryTypeOK /\ TaskTypeOK /\ PoolTypeOK /\ WorkTypeOK /\ CallerTypeOK

Init ==
    /\ RegistryInit
    /\ state = [r \in Records |-> "UNSUBMITTED"]
    /\ attempts = [r \in Records |-> 0]
    /\ attemptDev = [r \in Records |-> NoOne]
    /\ records = [i \in Ids |-> NoOne]
    /\ queue = <<>>
    /\ timers = [i \in Ids |-> 0]
    /\ inflight = 0 /\ pendingRetries = 0
    /\ idle = TRUE
    /\ phase = "DOWN"
    /\ pc = [w \in Workers |-> "off"]
    /\ task = [w \in Workers |-> NoOne]
    /\ dev = [w \in Workers |-> NoOne]
    /\ drainer = "none" /\ watched = {}
    /\ shown = [r \in Records |-> "UNSEEN"]
    /\ finals = [r \in Records |-> 0]
    /\ churn = 0 /\ stops = 0

-----------------------------------------------------------------------------
\* Pieces of handlers.

\* _emit_state(): every subscriber sees record r in state s.
Announce(r, s) ==
    /\ shown' = [shown EXCEPT ![r] = s]
    /\ finals' = IF s \in Terminal THEN [finals EXCEPT ![r] = @ + 1] ELSE finals

\* Mutants: a retry that sleeps out its backoff, or a task in flight, is overlooked.
SettleIdleIgnoresRetries(q, n, p) ==
    LET quiet == q = <<>> /\ n = 0
    IN  /\ idle' = (idle \/ quiet)
        /\ drainer' = IF quiet /\ drainer = "waiting" THEN "woken" ELSE drainer
        /\ UNCHANGED watched
SettleIdleIgnoresInflight(q, n, p) ==
    LET quiet == q = <<>> /\ p = 0
    IN  /\ idle' = (idle \/ quiet)
        /\ drainer' = IF quiet /\ drainer = "waiting" THEN "woken" ELSE drainer
        /\ UNCHANGED watched

\* _settle_idle() when the queue is q, n tasks are in flight and p retries
\* sleep.  Setting the event makes a suspended drain() runnable.
SettleIdle(q, n, p) ==
    LET quiet == q = <<>> /\ n = 0 /\ p = 0
    IN  /\ idle' = (idle \/ quiet)
        /\ drainer' = IF quiet /\ drainer = "waiting" THEN "woken" ELSE drainer
        /\ UNCHANGED watched

\* _requeue(), attempts left: PENDING, announced, and a retry timer started.
Reschedule(r) ==
    /\ attempts[r] < MaxAttempts[r]
    /\ state' = [state EXCEPT ![r] = "PENDING"]
    /\ Announce(r, "PENDING")
    /\ pendingRetries' = pendingRetries + 1
    /\ timers' = [timers EXCEPT ![IdOf[r]] = @ + 1]

\* Mutant: the attempt that just failed is counted twice.
ExhaustEarly(r) ==
    /\ attempts[r] + 1 >= MaxAttempts[r]
    /\ state' = [state EXCEPT ![r] = "FAILED"]
    /\ Announce(r, "FAILED")
    /\ UNCHANGED <<pendingRetries, timers>>

\* _requeue(), attempts used up: FAILED, announced.
Exhaust(r) ==
    /\ attempts[r] >= MaxAttempts[r]
    /\ state' = [state EXCEPT ![r] = "FAILED"]
    /\ Announce(r, "FAILED")
    /\ UNCHANGED <<pendingRetries, timers>>

\* _requeue() inside _run_once, before the lease is given back.
Requeue(r) ==
    \/ Reschedule(r) /\ idle' = FALSE
    \/ Exhaust(r) /\ UNCHANGED idle

\* A worker that holds no task any more goes back to queue.get().
WorkerDone(w) ==
    /\ pc' = [pc EXCEPT ![w] = "get"]
    /\ task' = [task EXCEPT ![w] = NoOne]
    /\ dev' = [dev EXCEPT ![w] = NoOne]

-----------------------------------------------------------------------------
\* The public surface.

\* submit() of a kind no target serves: a REJECTED record, never queued.
SubmitUnroutable(r) ==
    /\ r \in Unroutable /\ state[r] = "UNSUBMITTED"
    /\ state' = [state EXCEPT ![r] = "REJECTED"]
    /\ records' = [records EXCEPT ![IdOf[r]] = r]
    /\ UNCHANGED <<registryVars, attempts, attemptDev, queue, timers, countVars,
                   idle, phase, workVars, drainVars, feedVars, boundVars>>

\* submit(): a PENDING record under its id, whatever that id named before.
Submit(r) ==
    /\ r \notin Unroutable /\ state[r] = "UNSUBMITTED"
    /\ state' = [state EXCEPT ![r] = "PENDING"]
    /\ records' = [records EXCEPT ![IdOf[r]] = r]
    /\ idle' = FALSE
    /\ queue' = Append(queue, IdOf[r])
    /\ UNCHANGED <<registryVars, attempts, attemptDev, timers, countVars,
                   phase, workVars, drainVars, feedVars, boundVars>>

\* start(): one coroutine per worker.  Orchestrator._started keeps a start()
\* from overlapping a stop(), so there are no coroutines left of an earlier run.
Start ==
    /\ phase = "DOWN"
    /\ phase' = "UP"
    /\ pc' = [w \in Workers |-> "get"]
    /\ UNCHANGED <<registryVars, taskVars, queue, timers, countVars, idle,
                   task, dev, drainVars, feedVars, boundVars>>

\* Mutant: one pill in all.
StopOnePill ==
    /\ phase = "UP" /\ stops < MaxStops
    /\ phase' = "STOPPING"
    /\ queue' = Append(queue, Pill)
    /\ stops' = stops + 1
    /\ UNCHANGED <<registryVars, taskVars, timers, countVars, idle, workVars,
                   drainVars, feedVars, churn>>

\* stop(), up to the gather: one pill per worker behind whatever is queued.
Stop ==
    /\ phase = "UP" /\ stops < MaxStops
    /\ phase' = "STOPPING"
    /\ queue' = queue \o [n \in 1..Cardinality(Workers) |-> Pill]
    /\ stops' = stops + 1
    /\ UNCHANGED <<registryVars, taskVars, timers, countVars, idle, workVars,
                   drainVars, feedVars, churn>>

\* stop(), after the gather.
StopReturns ==
    /\ phase = "STOPPING"
    /\ \A w \in Workers : pc[w] = "off"
    /\ phase' = "DOWN"
    /\ UNCHANGED <<registryVars, taskVars, queue, timers, countVars, idle,
                   workVars, drainVars, feedVars, boundVars>>

\* drain(): wait for the idle event, or return at once when it is set.
Drain ==
    /\ drainer \in {"none", "true", "false"}
    /\ drainer' = IF idle THEN "true" ELSE "waiting"
    /\ watched' = {r \in Records : state[r] # "UNSUBMITTED"}
    /\ UNCHANGED <<registryVars, taskVars, queue, timers, countVars, idle, phase,
                   workVars, feedVars, boundVars>>

\* drain() was woken: True, without looking at the event again.
DrainTrue ==
    /\ drainer = "woken"
    /\ drainer' = "true"
    /\ UNCHANGED <<registryVars, taskVars, queue, timers, countVars, idle, phase,
                   workVars, watched, feedVars, boundVars>>

\* drain() timed out: False, also when the wake-up was already on its way.
DrainTimeout ==
    /\ drainer \in {"waiting", "woken"}
    /\ drainer' = "false"
    /\ UNCHANGED <<registryVars, taskVars, queue, timers, countVars, idle, phase,
                   workVars, watched, feedVars, boundVars>>

-----------------------------------------------------------------------------
\* _worker() and _run_once(), from one suspension to the next.

\* queue.get() returned a pill.  The idle event is not settled on this path.
TakePill(w) ==
    /\ pc[w] = "get" /\ queue # <<>> /\ Head(queue) = Pill
    /\ queue' = Tail(queue)
    /\ pc' = [pc EXCEPT ![w] = "off"]
    /\ UNCHANGED <<registryVars, taskVars, timers, countVars, idle, phase, task,
                   dev, drainVars, feedVars, boundVars>>

\* queue.get() returned an id: r is the record that id maps to now.
Gets(w, r) ==
    /\ pc[w] = "get" /\ queue # <<>> /\ Head(queue) # Pill
    /\ r = records[Head(queue)]
    /\ queue' = Tail(queue)

Skipped(r) == r = NoOne \/ state[r] \in {"SUCCEEDED", "REJECTED"}

\* The record ended already: drop the id.
TakeSkip(w) ==
    /\ \E r \in Records \cup {NoOne} : Gets(w, r) /\ Skipped(r)
    /\ SettleIdle(Tail(queue), inflight, pendingRetries)
    /\ UNCHANGED <<registryVars, taskVars, timers, countVars, phase, workVars,
                   feedVars, boundVars>>

\* No device in the fleet could ever match: ABANDONED without waiting.
TakeAbandon(w) ==
    /\ \E r \in Records :
         /\ Gets(w, r) /\ ~Skipped(r) /\ ~CouldEverMatch(Selector[r])
         /\ state' = [state EXCEPT ![r] = "ABANDONED"]
         /\ Announce(r, "ABANDONED")
    /\ SettleIdle(Tail(queue), inflight, pendingRetries)
    /\ UNCHANGED <<registryVars, attempts, attemptDev, records, timers, countVars,
                   phase, workVars, boundVars>>

\* Otherwise the worker goes for a lease.
TakeAcquire(w) ==
    /\ \E r \in Records :
         /\ Gets(w, r) /\ ~Skipped(r) /\ CouldEverMatch(Selector[r])
         /\ task' = [task EXCEPT ![w] = r]
    /\ inflight' = inflight + 1
    /\ pc' = [pc EXCEPT ![w] = "acquire"]
    /\ UNCHANGED <<registryVars, taskVars, timers, pendingRetries, idle, phase,
                   dev, drainVars, feedVars, boundVars>>

\* acquire() found device d: a new attempt, RUNNING, announced, execute() called.
Lease(w) ==
    /\ pc[w] \in {"acquire", "waiting"}
    /\ \E d \in Devices :
         /\ AcquireFree(w, Selector[task[w]], d)
         /\ attemptDev' = [attemptDev EXCEPT ![task[w]] = d]
         /\ dev' = [dev EXCEPT ![w] = d]
    /\ attempts' = [attempts EXCEPT ![task[w]] = @ + 1]
    /\ state' = [state EXCEPT ![task[w]] = "RUNNING"]
    /\ Announce(task[w], "RUNNING")
    /\ pc' = [pc EXCEPT ![w] = "run"]
    /\ UNCHANGED <<records, queue, timers, countVars, idle, phase, task, drainVars,
                   boundVars>>

\* acquire() found none: the worker sleeps on the registry's condition.
LeaseWait(w) ==
    /\ pc[w] \in {"acquire", "waiting"}
    /\ AcquireSleep(w, Selector[task[w]])
    /\ pc' = [pc EXCEPT ![w] = "waiting"]
    /\ UNCHANGED <<taskVars, queue, timers, countVars, idle, phase, task, dev,
                   drainVars, feedVars, boundVars>>

\* acquire() returned None: no attempt was made, the task is requeued.
LeaseTimeoutRetry(w) ==
    /\ pc[w] = "waiting"
    /\ AcquireTimeout(w)
    /\ Reschedule(task[w])
    /\ idle' = FALSE
    /\ inflight' = inflight - 1
    /\ WorkerDone(w)
    /\ UNCHANGED <<attempts, attemptDev, records, queue, phase, drainVars, boundVars>>

LeaseTimeoutExhausted(w) ==
    /\ pc[w] = "waiting"
    /\ AcquireTimeout(w)
    /\ Exhaust(task[w])
    /\ inflight' = inflight - 1
    /\ SettleIdle(queue, inflight - 1, pendingRetries)
    /\ WorkerDone(w)
    /\ UNCHANGED <<attempts, attemptDev, records, queue, phase, boundVars>>

\* execute() returned, or raised FatalError: the record takes its final state.
Finish(w, s) ==
    /\ pc[w] = "run"
    /\ state' = [state EXCEPT ![task[w]] = s]
    /\ pc' = [pc EXCEPT ![w] = "release"]
    /\ UNCHANGED <<registryVars, attempts, attemptDev, records, queue, timers,
                   countVars, idle, phase, task, dev, drainVars, feedVars, boundVars>>

Succeed(w) == Finish(w, "SUCCEEDED")
Reject(w)  == Finish(w, "REJECTED")

\* The rest of _after_failure(): requeue, then on to release().
AfterFailure(w) ==
    /\ Requeue(task[w])
    /\ pc' = [pc EXCEPT ![w] = "release"]
    /\ UNCHANGED <<attempts, attemptDev, records, queue, inflight, phase, task, dev,
                   drainVars, boundVars>>

\* RetryableError that does not blame the device.
FailBlameless(w) ==
    /\ pc[w] = "run"
    /\ AfterFailure(w)
    /\ UNCHANGED registryVars

\* A failure that blames a device the monitor already took out of service.
FailOutOfService(w) ==
    /\ pc[w] = "run" /\ devState[dev[w]] # "ONLINE"
    /\ AfterFailure(w)
    /\ UNCHANGED registryVars

\* A failure that blames an ONLINE device (blames_device, no session, the task's
\* deadline, an unclassified exception): await health.quarantine() first.
FailBlamed(w) ==
    /\ pc[w] = "run" /\ devState[dev[w]] = "ONLINE"
    /\ pc' = [pc EXCEPT ![w] = "mark"]
    /\ UNCHANGED <<registryVars, taskVars, queue, timers, countVars, idle, phase,
                   task, dev, drainVars, feedVars, boundVars>>

\* Mutant: the quarantine is left to a background task.
QuarantineUnawaited(w) ==
    /\ pc[w] = "mark"
    /\ AfterFailure(w)
    /\ UNCHANGED registryVars

\* health.quarantine() got the registry's lock.  The device's state is not
\* looked at again.
QuarantineBlamed(w) ==
    /\ pc[w] = "mark"
    /\ SetState(dev[w], "QUARANTINED")
    /\ AfterFailure(w)

\* Mutant: the end of a task is never announced.
ReleaseUnannounced(w) ==
    /\ pc[w] = "release"
    /\ ReleaseLease(w, dev[w])
    /\ inflight' = inflight - 1
    /\ SettleIdle(queue, inflight - 1, pendingRetries)
    /\ WorkerDone(w)
    /\ UNCHANGED <<taskVars, queue, timers, pendingRetries, phase, feedVars, boundVars>>

\* The finally clauses: the lease is given back, the record announced unless
\* _requeue did, the worker no longer counts as in flight.
Release(w) ==
    /\ pc[w] = "release"
    /\ ReleaseLease(w, dev[w])
    /\ IF state[task[w]] # "PENDING" THEN Announce(task[w], state[task[w]])
                                     ELSE UNCHANGED feedVars
    /\ inflight' = inflight - 1
    /\ SettleIdle(queue, inflight - 1, pendingRetries)
    /\ WorkerDone(w)
    /\ UNCHANGED <<taskVars, queue, timers, pendingRetries, phase, boundVars>>

\* Mutants: the timer fires once too often; its id is lost; its counter is not given
\* back.
TimerUnderflows(i) ==
    /\ timers' = [timers EXCEPT ![i] = @ - 1]
    /\ queue' = Append(queue, i)
    /\ pendingRetries' = pendingRetries - 1
    /\ SettleIdle(Append(queue, i), inflight, pendingRetries - 1)
    /\ UNCHANGED <<registryVars, taskVars, inflight, phase, workVars, feedVars,
                   boundVars>>
TimerDropsId(i) ==
    /\ timers[i] > 0
    /\ timers' = [timers EXCEPT ![i] = @ - 1]
    /\ pendingRetries' = pendingRetries - 1
    /\ SettleIdle(queue, inflight, pendingRetries - 1)
    /\ UNCHANGED <<registryVars, taskVars, queue, inflight, phase, workVars, feedVars,
                   boundVars>>
TimerKeepsCount(i) ==
    /\ timers[i] > 0
    /\ timers' = [timers EXCEPT ![i] = @ - 1]
    /\ queue' = Append(queue, i)
    /\ SettleIdle(Append(queue, i), inflight, pendingRetries)
    /\ UNCHANGED <<registryVars, taskVars, countVars, phase, workVars, feedVars,
                   boundVars>>

\* _delayed_put() woke up: the id is queued again.  put() on an unbounded queue
\* does not suspend.
TimerFires(i) ==
    /\ timers[i] > 0
    /\ timers' = [timers EXCEPT ![i] = @ - 1]
    /\ queue' = Append(queue, i)
    /\ pendingRetries' = pendingRetries - 1
    /\ SettleIdle(Append(queue, i), inflight, pendingRetries - 1)
    /\ UNCHANGED <<registryVars, taskVars, inflight, phase, workVars, feedVars,
                   boundVars>>

-----------------------------------------------------------------------------
\* The environment: the monitor and the inventory.

\* HealthMonitor calls set_state() with ONLINE (restore), QUARANTINED or RETIRED.
\* It decides before it waits for the lock, so no earlier state is ruled out.
HealthForces ==
    /\ churn < MaxChurn /\ churn' = churn + 1
    /\ \E d \in Devices, s \in {"ONLINE", "QUARANTINED", "RETIRED"} :
         devState[d] \notin {"ABSENT", s} /\ SetState(d, s)
    /\ UNCHANGED <<taskVars, queue, timers, countVars, idle, phase, workVars,
                   drainVars, feedVars, stops>>

\* A poll of the device source, reconciled.
Inventory ==
    /\ churn < MaxChurn /\ churn' = churn + 1
    /\ \E seen \in SUBSET Devices : \E up \in SUBSET seen : Refresh(seen, up)
    /\ UNCHANGED <<taskVars, queue, timers, countVars, idle, phase, workVars,
                   drainVars, feedVars, stops>>

WorkerStep(w) ==
    \/ TakePill(w) \/ TakeSkip(w) \/ TakeAbandon(w) \/ TakeAcquire(w)
    \/ Lease(w) \/ LeaseWait(w) \/ LeaseTimeoutRetry(w) \/ LeaseTimeoutExhausted(w)
    \/ Succeed(w) \/ Reject(w)
    \/ FailBlameless(w) \/ FailOutOfService(w) \/ FailBlamed(w)
    \/ QuarantineBlamed(w) \/ Release(w)

Next ==
    \/ \E r \in Records : SubmitUnroutable(r) \/ Submit(r)
    \/ Start \/ Stop \/ StopReturns
    \/ Drain \/ DrainTrue \/ DrainTimeout
    \/ \E w \in Workers : WorkerStep(w)
    \/ \E i \in Ids : TimerFires(i)
    \/ HealthForces \/ Inventory

Spec == Init /\ [][Next]_vars

\* The event loop runs every coroutine that can run, and time passes: leases and
\* executions time out, retry sleeps end.  Nothing is assumed of callers, of the
\* monitor or of the inventory.
Fairness ==
    /\ \A w \in Workers : WF_vars(WorkerStep(w))
    /\ \A i \in Ids : WF_vars(TimerFires(i))
    /\ WF_vars(StopReturns) /\ WF_vars(DrainTrue)

FairSpec == Spec /\ Fairness

-----------------------------------------------------------------------------
\* Properties.

Submitted == {r \in Records : state[r] # "UNSUBMITTED"}
UniqueIds == \A r, s \in Records : IdOf[r] = IdOf[s] => r = s

\* The lease table and the workers agree: a device is leased to w exactly while w
\* is between acquire() and the end of release() on that device.  No lease leaks,
\* no worker drives a device it does not hold, no two workers drive one device.
LeasesMatchWorkers ==
    \A d \in Devices, w \in Workers :
        leases[d] = w <=> pc[w] \in Leased /\ dev[w] = d

\* A worker sleeps on the condition only while nothing it could lease is free:
\* every change that frees a device (release, set_state, refresh) wakes it.
NoLostWakeup ==
    \A w \in asleep : pc[w] = "waiting" /\ FindFree(Selector[task[w]]) = {}

\* The two counters drain() trusts count the workers in flight and the retries
\* asleep.
CountersExact ==
    /\ inflight = Cardinality({w \in Workers : pc[w] \in InFlight})
    /\ pendingRetries = Cardinality({i \in Ids : timers[i] > 0})

\* Where the work on record r is: in the queue, in a retry timer, or with a worker.
Queued(r)   == \E n \in DOMAIN queue : queue[n] = IdOf[r]
Sleeping(r) == timers[IdOf[r]] > 0
HeldBy(w, r) == task[w] = r /\ pc[w] \in InFlight \ {"release"}
Held(r)     == \E w \in Workers : HeldBy(w, r)

\* A task is in exactly one place until it ends and in none afterwards, and that
\* place holds it once: no retry is lost or doubled, no id is queued twice, no two
\* workers run one task.
WorkConserved ==
    /\ \A r \in Records :
         /\ Queued(r) \/ Sleeping(r) \/ Held(r) <=> state[r] \in {"PENDING", "RUNNING"}
         /\ ~(Queued(r) /\ Sleeping(r))
         /\ ~(Held(r) /\ (Queued(r) \/ Sleeping(r)))
         /\ state[r] = "RUNNING" => Held(r)
         /\ \A v, w \in Workers : HeldBy(v, r) /\ HeldBy(w, r) => v = w
    /\ \A m, n \in DOMAIN queue : queue[m] = queue[n] => m = n \/ queue[m] = Pill
    /\ \A i \in Ids : timers[i] <= 1

\* Pills stop each worker once: while stop() waits there is one per live worker,
\* and none is left behind to kill a worker of the next start().
PillsMatchWorkers ==
    Cardinality({n \in DOMAIN queue : queue[n] = Pill}) =
        IF phase = "STOPPING" THEN Cardinality({w \in Workers : pc[w] # "off"}) ELSE 0

\* The idle event is set only when every submitted task has ended, retries that
\* sleep out a backoff included.
IdleMeansDone == idle => \A r \in Submitted : state[r] \in Terminal

\* drain() returned True: every task submitted before it was called has ended.
DrainMeansDone == drainer = "true" => \A r \in watched : state[r] \in Terminal

\* What subscribers last heard of a task is its state, except before its first
\* announcement and between its end and the release() that announces it.
FeedIsCurrent ==
    \A r \in Records :
        \/ shown[r] = state[r]
        \/ shown[r] = "UNSEEN" /\ (state[r] \in {"UNSUBMITTED", "PENDING"} \/ r \in Unroutable)
        \/ \E w \in Workers : pc[w] = "release" /\ task[w] = r

\* Each transition is announced once to every subscriber (scheduler.py:299).
EndAnnouncedOnce == \A r \in Records : finals[r] <= 1

\* REJECTED is "FatalError: never retried" (task.py:41).
RejectedIsFinal ==
    [][\A r \in Records : state[r] = "REJECTED" => state'[r] = "REJECTED"]_vars

\* A device blamed for a failed attempt is out of service before its lease can be
\* given back, so the next task in line cannot be handed the phone that just
\* failed (README.md:169-173).
BlamedLeavesPool ==
    [][\A w \in Workers :
         pc[w] = "mark" /\ pc'[w] # "mark" =>
             devState'[dev[w]] # "ONLINE" /\ leases'[dev[w]] = w]_vars

\* If from some point on the scheduler is up and every task has a matching ONLINE
\* device, every submitted task ends.
ServedForEver ==
    <>[](/\ phase = "UP"
         /\ \A r \in Records : \E d \in Selector[r] : devState[d] = "ONLINE")
EveryTaskEnds ==
    ServedForEver =>
        \A r \in Records : state[r] = "PENDING" ~> state[r] \in Terminal

\* stop() returns: pills are reached behind a finite queue whatever the devices do.
StopEnds == phase = "STOPPING" ~> phase = "DOWN"

\* Refinement: the scheduler shows its callers the lifecycle the task contract
\* promises, as long as task ids are unique.
Lifecycle == INSTANCE TaskLifecycle WITH
    using <- [r \in Records |-> IF state[r] = "RUNNING" THEN attemptDev[r] ELSE NoOne]
ImplementsLifecycle == Lifecycle!Spec
=============================================================================
