-------------------------- MODULE SchedulerWorkProofs --------------------------
(***************************************************************************)
(* Theorems about the work of Scheduler: what subscribers hear of a task   *)
(* is its state, every unfinished task is in exactly one place, the        *)
(* counters and pills match the workers, and idle means done.              *)
(***************************************************************************)
EXTENDS SchedulerProofs, FunctionTheorems

-----------------------------------------------------------------------------
\* The feed.

\* A task that waits for a retry was announced as waiting, also when the worker
\* that gave up on it still holds its lease.
FeedAux ==
    \A r \in Records :
      /\ state[r] = "PENDING" => shown[r] \in {"PENDING", "UNSEEN"}
      /\ state[r] = "UNSUBMITTED" => shown[r] = "UNSEEN"

Feed == FeedIsCurrent /\ FeedAux

\* Nobody leaves release().
ReleasesGoOn ==
    \A w \in Workers : pc[w] = "release" => pc'[w] = "release" /\ task'[w] = task[w]

LEMMA FeedQuiet ==
    ASSUME Feed, UNCHANGED <<state, shown>>, ReleasesGoOn
    PROVE  Feed'
  BY DEF Feed, FeedIsCurrent, FeedAux, ReleasesGoOn

LEMMA FeedAnnounced ==
    ASSUME Feed, TypeOK, NEW r \in Records, NEW s, s # "UNSUBMITTED",
           state' = [state EXCEPT ![r] = s], Announce(r, s), ReleasesGoOn
    PROVE  Feed'
  <1>1. /\ state'[r] = s /\ shown'[r] = s
        /\ \A x \in Records \ {r} : state'[x] = state[x] /\ shown'[x] = shown[x]
    BY DEF Announce, TypeOK, TaskTypeOK, CallerTypeOK
  <1> QED BY <1>1 DEF Feed, FeedIsCurrent, FeedAux, ReleasesGoOn

LEMMA FeedNext == Typed /\ Feed /\ [Next]_vars => Feed'
  <1> SUFFICES ASSUME Typed, Feed, [Next]_vars PROVE Feed'
    OBVIOUS
  <1> USE DEF Typed
  <1>a. pc \in [Workers -> WorkerStates] /\ task \in [Workers -> Records \cup {NoOne}]
    BY DEF TypeOK, WorkTypeOK
  <1>b. UNCHANGED <<pc, task>> => ReleasesGoOn
    BY DEF ReleasesGoOn
  <1>1. ASSUME NEW r \in Records, SubmitUnroutable(r) \/ Submit(r) PROVE Feed'
    <2>1. /\ shown' = shown /\ state[r] = "UNSUBMITTED" /\ ReleasesGoOn
          /\ \A x \in Records \ {r} : state'[x] = state[x]
          /\ state'[r] = "PENDING" \/ (r \in Unroutable /\ state'[r] = "REJECTED")
      BY <1>1, <1>b DEF SubmitUnroutable, Submit, feedVars, workVars, TypeOK, TaskTypeOK
    <2> QED BY <2>1 DEF Feed, FeedIsCurrent, FeedAux, ReleasesGoOn
  <1>2. CASE Start
    BY <1>2, FeedQuiet DEF Start, taskVars, feedVars, ReleasesGoOn, WorkersTyped
  <1>3. CASE Stop \/ StopReturns \/ Drain \/ DrainTrue \/ DrainTimeout \/ HealthForces \/ Inventory
    BY <1>3, <1>b, FeedQuiet DEF Stop, StopReturns, Drain, DrainTrue, DrainTimeout,
       HealthForces, Inventory, taskVars, workVars, feedVars
  <1>4. ASSUME NEW i \in Ids, TimerFires(i) PROVE Feed'
    BY <1>b, <1>4, FeedQuiet DEF TimerFires, taskVars, workVars, feedVars
  <1>5. CASE UNCHANGED vars
    BY <1>b, <1>5, FeedQuiet DEF vars, taskVars, workVars, feedVars
  <1>6. ASSUME NEW w \in Workers, WorkerStep(w) PROVE Feed'
    <2>a. ASSUME pc[w] # "release", \A v \in Workers \ {w} : pc'[v] = pc[v] /\ task'[v] = task[v]
          PROVE  ReleasesGoOn
      BY <2>a DEF ReleasesGoOn
    <2>1. CASE TakePill(w) \/ TakeAcquire(w) \/ LeaseWait(w) \/ FailBlamed(w)
      BY <1>a, <2>1, <2>a, FeedQuiet DEF TakePill, TakeAcquire, Gets, LeaseWait, FailBlamed,
         taskVars, feedVars
    <2>2. CASE TakeSkip(w)
      BY <1>b, <2>2, FeedQuiet DEF TakeSkip, taskVars, workVars, feedVars
    <2>3. CASE TakeAbandon(w)
      BY <1>b, <2>3, FeedAnnounced DEF TakeAbandon, workVars
    <2>4. CASE Lease(w)
      <3>1. task[w] \in Records
        BY <2>4 DEF Lease, WorkersTyped, InFlight
      <3> QED BY <1>a, <2>4, <2>a, <3>1, FeedAnnounced DEF Lease
    <2>5. ASSUME NEW r \in Records, Reschedule(r) \/ Exhaust(r), ReleasesGoOn PROVE Feed'
      BY <2>5, FeedAnnounced DEF Reschedule, Exhaust
    <2>6. CASE LeaseTimeoutRetry(w) \/ LeaseTimeoutExhausted(w)
      <3>1. task[w] \in Records
        BY <2>6 DEF LeaseTimeoutRetry, LeaseTimeoutExhausted, WorkersTyped, InFlight
      <3> QED BY <1>a, <2>6, <2>a, <2>5, <3>1
              DEF LeaseTimeoutRetry, LeaseTimeoutExhausted, WorkerDone
    <2>7. CASE Succeed(w) \/ Reject(w)
      <3>1. task[w] \in Records
        BY <2>7 DEF Succeed, Reject, Finish, WorkersTyped, InFlight, Leased
      <3>2. /\ \A x \in Records \ {task[w]} : state'[x] = state[x]
            /\ state'[task[w]] \in {"SUCCEEDED", "REJECTED"} /\ shown' = shown
            /\ pc'[w] = "release" /\ task' = task /\ ReleasesGoOn
        BY <1>a, <2>7, <2>a, <3>1 DEF Succeed, Reject, Finish, feedVars, TypeOK, TaskTypeOK
      <3> QED BY <3>1, <3>2 DEF Feed, FeedIsCurrent, FeedAux, ReleasesGoOn
    <2>8. CASE FailBlameless(w) \/ FailOutOfService(w) \/ QuarantineBlamed(w)
      <3>1. task[w] \in Records /\ AfterFailure(w) /\ pc[w] # "release"
        BY <2>8 DEF FailBlameless, FailOutOfService, QuarantineBlamed, WorkersTyped, InFlight,
           Leased
      <3> QED BY <1>a, <2>5, <2>a, <3>1 DEF AfterFailure, Requeue
    <2>9. CASE Release(w)
      <3>1. task[w] \in Records /\ state' = state
        BY <2>9 DEF Release, WorkersTyped, InFlight, Leased, taskVars
      <3>2. \A v \in Workers \ {w} : pc'[v] = pc[v] /\ task'[v] = task[v]
        BY <1>a, <2>9 DEF Release, WorkerDone
      <3>3. IF state[task[w]] # "PENDING" THEN shown' = [shown EXCEPT ![task[w]] = state[task[w]]]
                                          ELSE shown' = shown
        BY <2>9 DEF Release, Announce, feedVars
      <3>4. shown'[task[w]] = state[task[w]]
              \/ (state[task[w]] = "PENDING" /\ shown'[task[w]] = "UNSEEN")
        BY <3>1, <3>3 DEF Feed, FeedAux, TypeOK, CallerTypeOK
      <3>5. \A x \in Records \ {task[w]} : shown'[x] = shown[x]
        BY <3>1, <3>3 DEF TypeOK, CallerTypeOK
      <3>6. FeedAux'
        <4> SUFFICES ASSUME NEW x \in Records
                     PROVE  /\ state[x] = "PENDING" => shown'[x] \in {"PENDING", "UNSEEN"}
                            /\ state[x] = "UNSUBMITTED" => shown'[x] = "UNSEEN"
          BY <3>1 DEF FeedAux
        <4>1. CASE x = task[w]
          <5>1. state[task[w]] # "UNSUBMITTED"
            BY <2>9 DEF Release, WorkersTyped, InFlight, Leased
          <5> QED BY <3>4, <4>1, <5>1
        <4>2. CASE x # task[w]
          BY <3>5, <4>2 DEF Feed, FeedAux
        <4> QED BY <4>1, <4>2
      <3>7. FeedIsCurrent'
        <4> SUFFICES ASSUME NEW x \in Records
                     PROVE  \/ shown'[x] = state[x]
                            \/ shown'[x] = "UNSEEN" /\ (state[x] \in {"UNSUBMITTED", "PENDING"}
                                                        \/ x \in Unroutable)
                            \/ \E v \in Workers : pc'[v] = "release" /\ task'[v] = x
          BY <3>1 DEF FeedIsCurrent
        <4>1. CASE x = task[w]
          BY <3>4, <4>1
        <4>2. CASE x # task[w]
          BY <3>2, <3>5, <4>2 DEF Feed, FeedIsCurrent
        <4> QED BY <4>1, <4>2
      <3> QED BY <3>6, <3>7 DEF Feed
    <2> QED BY <1>6, <2>1, <2>2, <2>3, <2>4, <2>6, <2>7, <2>8, <2>9 DEF WorkerStep
  <1> QED BY <1>1, <1>2, <1>3, <1>4, <1>5, <1>6 DEF Next

\* What a subscriber last heard of a task is its state, but for the moment between a
\* task's end and the release() that announces it.
THEOREM FeedStaysCurrent == Spec => []FeedIsCurrent
  <1>1. Init => Typed /\ Feed
    <2>1. Init => Feed
      BY DEF Init, Feed, FeedIsCurrent, FeedAux
    <2> QED BY <2>1, TypedInit
  <1>2. Typed /\ Feed /\ [Next]_vars => (Typed /\ Feed)'
    BY TypedNext, FeedNext
  <1>3. Feed => FeedIsCurrent
    BY DEF Feed
  <1> QED BY <1>1, <1>2, <1>3, PTL DEF Spec

-----------------------------------------------------------------------------
\* The queue.

Holds(q, i) == \E n \in DOMAIN q : q[n] = i
Once(q) == \A m, n \in DOMAIN q : q[m] = q[n] => m = n \/ q[m] = Pill
Jobs == Ids \cup {Pill}

\* Putting an id that is not queued keeps every id queued at most once.
LEMMA PutsOnce ==
    ASSUME NEW q \in Seq(Jobs), Once(q), NEW i \in Ids, ~Holds(q, i)
    PROVE  /\ Once(Append(q, i))
           /\ \A j \in Jobs : Holds(Append(q, i), j) <=> Holds(q, j) \/ j = i
  <1> DEFINE n == Len(q) + 1  p == Append(q, i)
  <1>1. /\ p \in Seq(Jobs) /\ DOMAIN p = 1..n /\ DOMAIN q = 1..Len(q) /\ p[n] = i
        /\ Len(q) \in Nat
        /\ \A k \in 1..Len(q) : p[k] = q[k]
    BY DEF Jobs
  <1> HIDE DEF p
  <1>2. Once(p)
    <2> SUFFICES ASSUME NEW a \in 1..n, NEW b \in 1..n, p[a] = p[b], a # b
                 PROVE  p[a] = Pill
      BY <1>1 DEF Once
    <2>1. CASE a = n
      BY <1>1, <2>1 DEF Holds
    <2>2. CASE b = n
      BY <1>1, <2>2 DEF Holds
    <2>3. CASE a # n /\ b # n
      <3>1. a \in 1..Len(q) /\ b \in 1..Len(q)
        BY <1>1, <2>3
      <3> QED BY <1>1, <3>1 DEF Once
    <2> QED BY <2>1, <2>2, <2>3
  <1>3. ASSUME NEW j \in Jobs PROVE Holds(p, j) <=> Holds(q, j) \/ j = i
    <2>1. Holds(p, j) => Holds(q, j) \/ j = i
      BY <1>1 DEF Holds
    <2>2. Holds(q, j) => Holds(p, j)
      BY <1>1 DEF Holds
    <2>3. j = i => Holds(p, j)
      BY <1>1 DEF Holds
    <2> QED BY <2>1, <2>2, <2>3
  <1> QED BY <1>2, <1>3 DEF p

\* Taking the head off: the id is queued no more, the others stay.
LEMMA TakesOnce ==
    ASSUME NEW q \in Seq(Jobs), Once(q), q # <<>>
    PROVE  /\ Once(Tail(q))
           /\ \A j \in Ids : Holds(Tail(q), j) <=> Holds(q, j) /\ j # Head(q)
           /\ Holds(q, Head(q))
  <1> DEFINE n == Len(q) - 1  p == Tail(q)
  <1>1. /\ p \in Seq(Jobs) /\ DOMAIN p = 1..n /\ DOMAIN q = 1..(n + 1) /\ n \in Nat
        /\ Head(q) = q[1] /\ q[1] \in Jobs
        /\ \A k \in 1..n : p[k] = q[k + 1]
    OBVIOUS
  <1> HIDE DEF p, n
  <1>2. Once(p)
    <2> SUFFICES ASSUME NEW a \in 1..n, NEW b \in 1..n, p[a] = p[b], a # b
                 PROVE  p[a] = Pill
      BY <1>1 DEF Once
    <2>1. a + 1 \in 1..(n + 1) /\ b + 1 \in 1..(n + 1) /\ a + 1 # b + 1
      BY <1>1
    <2> QED BY <1>1, <2>1 DEF Once
  <1>3. ASSUME NEW j \in Ids PROVE Holds(p, j) <=> Holds(q, j) /\ j # q[1]
    <2>1. ASSUME Holds(p, j) PROVE Holds(q, j) /\ j # q[1]
      <3>1. PICK k \in 1..n : p[k] = j
        BY <1>1, <2>1 DEF Holds
      <3>2. k + 1 \in 1..(n + 1) /\ 1 \in 1..(n + 1) /\ k + 1 # 1 /\ q[k + 1] = j
        BY <1>1, <3>1
      <3>3. j # Pill
        BY SchedulerAssumption
      <3> QED BY <1>1, <3>2, <3>3 DEF Holds, Once
    <2>2. ASSUME Holds(q, j), j # q[1] PROVE Holds(p, j)
      <3>1. PICK k \in 1..(n + 1) : q[k] = j
        BY <1>1, <2>2 DEF Holds
      <3>2. k - 1 \in 1..n /\ (k - 1) + 1 = k
        BY <1>1, <2>2, <3>1
      <3> QED BY <1>1, <3>1, <3>2 DEF Holds
    <2> QED BY <2>1, <2>2
  <1>4. Holds(q, q[1])
    <2>1. 1 \in DOMAIN q
      BY <1>1
    <2> QED BY <2>1 DEF Holds
  <1> QED BY <1>1, <1>2, <1>3, <1>4 DEF p

\* Pills behind the queue change nothing for the ids.
LEMMA PillsOnce ==
    ASSUME NEW q \in Seq(Jobs), Once(q), NEW m \in Nat
    PROVE  LET p == q \o [k \in 1..m |-> Pill]
           IN  /\ Once(p)
               /\ \A j \in Ids : Holds(p, j) <=> Holds(q, j)
  <1> DEFINE b == [k \in 1..m |-> Pill]  p == q \o b
  <1>0. b \in Seq(Jobs) /\ Len(b) = m /\ \A k \in 1..m : b[k] = Pill
    BY DEF Jobs
  <1> HIDE DEF b
  <1>1. /\ DOMAIN q = 1..Len(q) /\ Len(q) \in Nat
        /\ DOMAIN p = 1..(Len(q) + m)
        /\ \A k \in 1..Len(q) : p[k] = q[k]
        /\ \A k \in 1..(Len(q) + m) : k \notin 1..Len(q) => p[k] = Pill
    BY <1>0
  <1> HIDE DEF p
  <1>2. 1..Len(q) \subseteq 1..(Len(q) + m)
    BY <1>1
  <1>3. Once(p)
    BY <1>1 DEF Once
  <1>4. ASSUME NEW j \in Ids PROVE Holds(p, j) <=> Holds(q, j)
    <2>1. j # Pill
      BY SchedulerAssumption
    <2> QED BY <1>1, <1>2, <2>1 DEF Holds
  <1> QED BY <1>3, <1>4 DEF p, b

-----------------------------------------------------------------------------
\* Where the work is.

Place(r) ==
    /\ Queued(r) \/ Sleeping(r) \/ Held(r) <=> state[r] \in {"PENDING", "RUNNING"}
    /\ ~(Queued(r) /\ Sleeping(r))
    /\ ~(Held(r) /\ (Queued(r) \/ Sleeping(r)))
    /\ state[r] = "RUNNING" => Held(r)
    /\ \A v, w \in Workers : HeldBy(v, r) /\ HeldBy(w, r) => v = w

\* The table finds the record of every id that is queued or sleeps.
Known ==
    /\ \A r \in Records : state[r] # "UNSUBMITTED" => records[IdOf[r]] = r
    /\ \A i \in Ids : records[i] # NoOne => IdOf[records[i]] = i
    /\ \A i \in Ids : Holds(queue, i) \/ timers[i] > 0 => records[i] # NoOne

\* A worker that waits for a lease holds a PENDING task, one that runs it a RUNNING
\* one.
Holders ==
    \A w \in Workers :
      /\ pc[w] \in {"acquire", "waiting"} => state[task[w]] = "PENDING"
      /\ pc[w] \in {"run", "mark"} => state[task[w]] = "RUNNING"

Work ==
    /\ \A r \in Records : Place(r)
    /\ Once(queue)
    /\ \A i \in Ids : timers[i] <= 1
    /\ Known /\ Holders

LEMMA WorkIsConserved == Work => WorkConserved
  BY DEF Work, WorkConserved, Place, Once

LEMMA WorkInit == Init => Work
  BY SchedulerAssumption DEF Init, Work, Place, Once, Known, Holders, Queued, Sleeping, Held,
     HeldBy, InFlight, Leased, Holds

\* A record that nothing touches stays in its place.
LEMMA PlaceKept ==
    ASSUME NEW x \in Records, Place(x), state'[x] = state[x],
           Holds(queue', IdOf[x]) <=> Holds(queue, IdOf[x]),
           timers'[IdOf[x]] = timers[IdOf[x]],
           \A w \in Workers : HeldBy(w, x)' <=> HeldBy(w, x)
    PROVE  Place(x)'
  BY DEF Place, Queued, Sleeping, Held, HeldBy, Holds

\* A step of worker w that moves one record r and leaves it in at most one place.
LEMMA WorkerMoves ==
    ASSUME UniqueIds, Typed, Work, NEW w \in Workers, NEW r \in Records,
           state[r] # "UNSUBMITTED", state'[r] # "UNSUBMITTED", records' = records,
           \A v \in Workers \ {w} : pc'[v] = pc[v] /\ task'[v] = task[v] /\ ~HeldBy(v, r),
           \A x \in Records \ {r} : state'[x] = state[x],
           \A x \in Records \ {r} : ~HeldBy(w, x) /\ ~HeldBy(w, x)',
           \A i \in Ids \ {IdOf[r]} : timers'[i] = timers[i]
                                      /\ (Holds(queue', i) <=> Holds(queue, i)),
           pc'[w] \in {"acquire", "waiting"} => task'[w] = r /\ state'[r] = "PENDING",
           pc'[w] \in {"run", "mark"} => task'[w] = r /\ state'[r] = "RUNNING",
           Once(queue'), timers'[IdOf[r]] <= 1,
           Holds(queue', IdOf[r]) \/ timers'[IdOf[r]] > 0 \/ HeldBy(w, r)'
             <=> state'[r] \in {"PENDING", "RUNNING"},
           ~(Holds(queue', IdOf[r]) /\ timers'[IdOf[r]] > 0),
           ~(HeldBy(w, r)' /\ (Holds(queue', IdOf[r]) \/ timers'[IdOf[r]] > 0)),
           state'[r] = "RUNNING" => HeldBy(w, r)'
    PROVE  Work'
  <1>1. \A v \in Workers \ {w}, x \in Records : HeldBy(v, x)' <=> HeldBy(v, x)
    BY DEF HeldBy
  <1>2. IdOf[r] \in Ids /\ \A x \in Records \ {r} : IdOf[x] \in Ids \ {IdOf[r]}
    BY SchedulerAssumption DEF UniqueIds
  <1>3. ASSUME NEW x \in Records \ {r} PROVE Place(x)'
    <2>1. \A v \in Workers : HeldBy(v, x)' <=> HeldBy(v, x)
      BY <1>1, <1>3
    <2>2. Place(x) /\ IdOf[x] \in Ids \ {IdOf[r]}
      BY <1>2, <1>3 DEF Work
    <2> QED BY <2>1, <2>2, PlaceKept
  <1>4. Place(r)'
    <2>1. \A v \in Workers \ {w} : ~HeldBy(v, r)'
      BY <1>1
    <2>2. Held(r)' <=> HeldBy(w, r)'
      BY <2>1 DEF Held, HeldBy
    <2>3. Queued(r)' <=> Holds(queue', IdOf[r])
      BY DEF Queued, Holds
    <2>4. Sleeping(r)' <=> timers'[IdOf[r]] > 0
      BY DEF Sleeping
    <2>5. \A v, u \in Workers : HeldBy(v, r)' /\ HeldBy(u, r)' => v = u
      BY <2>1
    <2> QED BY <2>2, <2>3, <2>4, <2>5 DEF Place
  <1>5. \A x \in Records : Place(x)'
    BY <1>3, <1>4
  <1>6. \A i \in Ids : timers'[i] <= 1
    BY <1>2 DEF Work
  <1>7. Known'
    <2>1. records[IdOf[r]] = r /\ r # NoOne
      BY SchedulerAssumption DEF Work, Known
    <2>2. ASSUME NEW x \in Records, state'[x] # "UNSUBMITTED" PROVE records'[IdOf[x]] = x
      BY <2>2 DEF Work, Known
    <2>3. ASSUME NEW i \in Ids, Holds(queue', i) \/ timers'[i] > 0 PROVE records'[i] # NoOne
      <3>1. CASE i = IdOf[r]
        BY <2>1, <3>1
      <3>2. CASE i # IdOf[r]
        BY <2>3, <3>2 DEF Work, Known
      <3> QED BY <3>1, <3>2
    <2> QED BY <2>2, <2>3 DEF Work, Known, Holds
  <1>8. Holders'
    <2> SUFFICES ASSUME NEW v \in Workers
                 PROVE  /\ pc'[v] \in {"acquire", "waiting"} => state'[task'[v]] = "PENDING"
                        /\ pc'[v] \in {"run", "mark"} => state'[task'[v]] = "RUNNING"
      BY DEF Holders
    <2>1. CASE v = w
      BY <2>1
    <2>2. CASE v # w /\ pc[v] \in {"acquire", "waiting", "run", "mark"}
      <3>1. task[v] \in Records /\ HeldBy(v, task[v])
        BY <2>2 DEF HeldBy, Typed, WorkersTyped, InFlight, Leased
      <3>2. task[v] # r /\ state'[task[v]] = state[task[v]]
        BY <2>2, <3>1
      <3> QED BY <2>2, <3>2 DEF Work, Holders
    <2>3. CASE v # w /\ pc[v] \notin {"acquire", "waiting", "run", "mark"}
      BY <2>3
    <2> QED BY <2>1, <2>2, <2>3
  <1>9. Once(queue)'
    BY DEF Once
  <1> QED BY <1>5, <1>6, <1>7, <1>8, <1>9 DEF Work

\* A step that touches no record, no worker's hold and no id keeps the work where
\* it is.
LEMMA WorkQuiet ==
    ASSUME Work, UNCHANGED <<state, records, timers>>, Once(queue'),
           \A i \in Ids : Holds(queue', i) <=> Holds(queue, i),
           \A w \in Workers, x \in Records : HeldBy(w, x)' <=> HeldBy(w, x),
           \A w \in Workers : pc'[w] \in {"acquire", "waiting", "run", "mark"} =>
               pc[w] = pc'[w] /\ task[w] = task'[w]
    PROVE  Work'
  <1>1. ASSUME NEW x \in Records PROVE Place(x)'
    <2>1. Place(x) /\ IdOf[x] \in Ids
      BY SchedulerAssumption DEF Work
    <2> QED BY <2>1, PlaceKept
  <1>2. Known'
    BY DEF Work, Known, Holds
  <1>3. Holders'
    BY DEF Work, Holders
  <1> QED BY <1>1, <1>2, <1>3 DEF Work, Once

\* The queue of a typed state is a sequence of jobs.
LEMMA QueueTyped == TypeOK => queue \in Seq(Jobs)
  BY DEF TypeOK, PoolTypeOK, Jobs

\* What a worker takes off the queue is a PENDING task that is nowhere else.
LEMMA TakesWaiting ==
    ASSUME Typed, Work, NEW w \in Workers, NEW r \in Records \cup {NoOne}, Gets(w, r)
    PROVE  /\ r \in Records /\ state[r] = "PENDING" /\ Head(queue) = IdOf[r]
           /\ Holds(queue, IdOf[r]) /\ timers[IdOf[r]] = 0
           /\ \A v \in Workers : ~HeldBy(v, r)
           /\ Once(queue')
           /\ \A i \in Ids : Holds(queue', i) <=> Holds(queue, i) /\ i # IdOf[r]
  <1>1. /\ queue \in Seq(Jobs) /\ queue # <<>> /\ Once(queue) /\ queue' = Tail(queue)
        /\ Head(queue) # Pill /\ r = records[Head(queue)]
    BY QueueTyped DEF Typed, Gets, Work
  <1>2. Head(queue) \in Ids
    BY <1>1 DEF Jobs
  <1>3. /\ Holds(queue, Head(queue)) /\ Once(Tail(queue))
        /\ \A j \in Ids : Holds(Tail(queue), j) <=> Holds(queue, j) /\ j # Head(queue)
    BY <1>1, TakesOnce
  <1>4. r # NoOne /\ IdOf[r] = Head(queue)
    BY <1>1, <1>2, <1>3 DEF Work, Known
  <1>5. r \in Records /\ Place(r) /\ Queued(r)
    BY <1>3, <1>4 DEF Work, Queued, Holds
  <1>6. ~Sleeping(r) /\ ~Held(r) /\ state[r] = "PENDING"
    BY <1>5 DEF Place
  <1>7. timers[IdOf[r]] = 0
    <2>1. timers[IdOf[r]] \in Nat
      BY <1>2, <1>4 DEF Typed, TypeOK, PoolTypeOK
    <2> QED BY <1>6, <2>1 DEF Sleeping
  <1> QED BY <1>1, <1>3, <1>4, <1>5, <1>6, <1>7 DEF Held

\* The task a worker holds is nowhere else.
LEMMA HoldsAlone ==
    ASSUME UniqueIds, Typed, Work, NEW w \in Workers, pc[w] \in InFlight \ {"release"}
    PROVE  /\ task[w] \in Records /\ state[task[w]] \in {"PENDING", "RUNNING"}
           /\ ~Holds(queue, IdOf[task[w]]) /\ timers[IdOf[task[w]]] = 0
           /\ \A v \in Workers \ {w} : ~HeldBy(v, task[w])
           /\ \A x \in Records \ {task[w]} : ~HeldBy(w, x)
  <1>1. task[w] \in Records /\ Place(task[w]) /\ HeldBy(w, task[w])
    BY DEF Typed, WorkersTyped, Work, HeldBy
  <1>2. /\ ~Sleeping(task[w]) /\ ~Queued(task[w]) /\ state[task[w]] \in {"PENDING", "RUNNING"}
        /\ \A v \in Workers \ {w} : ~HeldBy(v, task[w])
    BY <1>1 DEF Place, Held
  <1>3. timers[IdOf[task[w]]] = 0
    <2>1. timers[IdOf[task[w]]] \in Nat
      BY <1>1, SchedulerAssumption DEF Typed, TypeOK, PoolTypeOK
    <2> QED BY <1>2, <2>1 DEF Sleeping
  <1> QED BY <1>1, <1>2, <1>3 DEF HeldBy, Queued, Holds

\* What a requeue does to the record and its timer.
LEMMA RequeueMoves ==
    ASSUME Typed, NEW r \in Records, timers[IdOf[r]] = 0, Reschedule(r) \/ Exhaust(r)
    PROVE  /\ \A x \in Records \ {r} : state'[x] = state[x]
           /\ \A i \in Ids \ {IdOf[r]} : timers'[i] = timers[i]
           /\ \/ state'[r] = "PENDING" /\ timers'[IdOf[r]] = 1
              \/ state'[r] = "FAILED" /\ timers'[IdOf[r]] = 0
  <1>1. state \in [Records -> RecordStates] /\ timers \in [Ids -> Nat] /\ IdOf[r] \in Ids
    BY SchedulerAssumption DEF Typed, TypeOK, TaskTypeOK, PoolTypeOK
  <1> QED BY <1>1 DEF Reschedule, Exhaust

LEMMA WorkNext == UniqueIds /\ Typed /\ Work /\ [Next]_vars => Work'
  <1> SUFFICES ASSUME UniqueIds, Typed, Work, [Next]_vars PROVE Work'
    OBVIOUS
  <1>a. /\ pc \in [Workers -> WorkerStates] /\ task \in [Workers -> Records \cup {NoOne}]
        /\ state \in [Records -> RecordStates] /\ records \in [Ids -> Records \cup {NoOne}]
        /\ timers \in [Ids -> Nat] /\ queue \in Seq(Jobs)
    BY QueueTyped DEF Typed, TypeOK, WorkTypeOK, TaskTypeOK, PoolTypeOK
  <1>b. Once(queue) /\ Known /\ Holders
    BY DEF Work
  <1>c. ASSUME UNCHANGED <<state, records, timers, queue, workVars>> PROVE Work'
    BY <1>b, <1>c, WorkQuiet DEF workVars, HeldBy
  <1>1. ASSUME NEW r \in Records, SubmitUnroutable(r) \/ Submit(r) PROVE Work'
    <2>a. state[r] = "UNSUBMITTED" /\ Place(r) /\ IdOf[r] \in Ids
          /\ \A x \in Records \ {r} : IdOf[x] \in Ids \ {IdOf[r]}
      BY <1>1, SchedulerAssumption DEF SubmitUnroutable, Submit, Work, UniqueIds
    <2>b. ~Queued(r) /\ ~Sleeping(r) /\ ~Held(r)
      BY <2>a DEF Place
    <2>c. ~Holds(queue, IdOf[r]) /\ timers[IdOf[r]] = 0 /\ \A w \in Workers : ~HeldBy(w, r)
      <3>1. timers[IdOf[r]] \in Nat
        BY <1>a, <2>a
      <3> QED BY <2>b, <3>1 DEF Queued, Holds, Sleeping, Held
    <2>d. /\ UNCHANGED <<timers, workVars>> /\ records' = [records EXCEPT ![IdOf[r]] = r]
          /\ \A x \in Records \ {r} : state'[x] = state[x]
      BY <1>1, <1>a DEF SubmitUnroutable, Submit
    <2>e. \A w \in Workers, x \in Records : HeldBy(w, x)' <=> HeldBy(w, x)
      BY <2>d DEF HeldBy, workVars
    <2>f. /\ Once(queue')
          /\ \A i \in Ids \ {IdOf[r]} : Holds(queue', i) <=> Holds(queue, i)
          /\ \/ state'[r] = "REJECTED" /\ ~Holds(queue', IdOf[r])
             \/ state'[r] = "PENDING" /\ Holds(queue', IdOf[r])
      <3>1. CASE SubmitUnroutable(r)
        <4>1. queue' = queue /\ state'[r] = "REJECTED"
          BY <1>a, <3>1 DEF SubmitUnroutable
        <4> QED BY <1>b, <2>c, <4>1
      <3>2. CASE Submit(r)
        <4>1. queue' = Append(queue, IdOf[r]) /\ state'[r] = "PENDING"
          BY <1>a, <3>2 DEF Submit
        <4>2. Ids \subseteq Jobs
          BY DEF Jobs
        <4> QED BY <1>a, <1>b, <2>a, <2>c, <4>1, <4>2, PutsOnce
      <3> QED BY <1>1, <3>1, <3>2
    <2>1. ASSUME NEW x \in Records \ {r} PROVE Place(x)'
      <3>1. Place(x) /\ IdOf[x] \in Ids \ {IdOf[r]}
        BY <2>a DEF Work
      <3> QED BY <2>d, <2>e, <2>f, <3>1, PlaceKept
    <2>2. Place(r)'
      <3>1. ~Held(r)' /\ ~Sleeping(r)'
        BY <2>c, <2>d, <2>e DEF Held, Sleeping
      <3>2. Queued(r)' <=> Holds(queue', IdOf[r])
        BY DEF Queued, Holds
      <3> QED BY <2>c, <2>e, <2>f, <3>1, <3>2 DEF Place
    <2>3. Known'
      <3>1. records'[IdOf[r]] = r /\ \A i \in Ids \ {IdOf[r]} : records'[i] = records[i]
        BY <1>a, <2>a, <2>d
      <3>2. ASSUME NEW x \in Records, state'[x] # "UNSUBMITTED" PROVE records'[IdOf[x]] = x
        BY <1>b, <2>a, <2>d, <3>1, <3>2 DEF Known
      <3>3. \A i \in Ids : records'[i] # NoOne => IdOf[records'[i]] = i
        BY <1>b, <3>1 DEF Known
      <3>4. \A i \in Ids : Holds(queue', i) \/ timers'[i] > 0 => records'[i] # NoOne
        BY <1>b, <2>d, <2>f, <3>1, SchedulerAssumption DEF Known
      <3> QED BY <3>2, <3>3, <3>4 DEF Known, Holds
    <2>4. Holders'
      <3>1. \A w \in Workers : pc[w] \in {"acquire", "waiting", "run", "mark"} =>
                task[w] \in Records \ {r}
        BY <2>c DEF HeldBy, Typed, WorkersTyped, InFlight, Leased
      <3> QED BY <1>b, <2>d, <3>1 DEF Holders, workVars
    <2> QED BY <2>1, <2>2, <2>3, <2>4, <2>d, <2>f DEF Work, Once
  <1>2. CASE Start
    <2>1. \A w \in Workers : pc[w] = "off" /\ pc'[w] = "get"
      BY <1>2 DEF Start, Typed, WorkersTyped
    <2>2. \A w \in Workers, x \in Records : HeldBy(w, x)' <=> HeldBy(w, x)
      BY <2>1 DEF HeldBy, InFlight, Leased
    <2> QED BY <1>2, <1>b, <2>1, <2>2, WorkQuiet DEF Start, taskVars
  <1>3. CASE Stop
    <2>1. Cardinality(Workers) \in Nat
      BY FS_CardinalityType, SchedulerAssumption
    <2>2. Once(queue') /\ \A i \in Ids : Holds(queue', i) <=> Holds(queue, i)
      BY <1>3, <1>a, <1>b, <2>1, PillsOnce DEF Stop
    <2> QED BY <1>3, <2>2, WorkQuiet DEF Stop, taskVars, workVars, HeldBy
  <1>4. CASE StopReturns \/ Drain \/ DrainTrue \/ DrainTimeout \/ HealthForces \/ Inventory
    BY <1>4, <1>c DEF StopReturns, Drain, DrainTrue, DrainTimeout, HealthForces, Inventory,
       taskVars
  <1>5. CASE UNCHANGED vars
    BY <1>5, <1>c DEF vars, taskVars
  <1>6. ASSUME NEW i \in Ids, TimerFires(i) PROVE Work'
    <2>0. timers[i] = 1
      <3>1. timers[i] \in Nat /\ timers[i] > 0 /\ timers[i] <= 1
        BY <1>6, <1>a DEF TimerFires, Work
      <3> QED BY <3>1
    <2>1. /\ timers[i] = 1 /\ timers' = [timers EXCEPT ![i] = 0]
          /\ queue' = Append(queue, i) /\ UNCHANGED <<state, records, workVars>>
      BY <1>6, <2>0 DEF TimerFires, taskVars
    <2>2. PICK r \in Records : r = records[i] /\ IdOf[r] = i
      BY <1>a, <1>b, <2>1 DEF Known
    <2>3. Place(r) /\ Sleeping(r)
      BY <2>1, <2>2 DEF Work, Sleeping
    <2>4. ~Queued(r) /\ ~Held(r) /\ ~Holds(queue, i)
      BY <2>2, <2>3 DEF Place, Queued, Holds
    <2>5. Once(queue') /\ Holds(queue', i)
          /\ \A j \in Ids \ {i} : Holds(queue', j) <=> Holds(queue, j)
      <3>1. Ids \subseteq Jobs
        BY DEF Jobs
      <3> QED BY <1>a, <1>b, <2>1, <2>4, <3>1, PutsOnce
    <2>6. /\ timers'[i] = 0 /\ \A j \in Ids \ {i} : timers'[j] = timers[j]
          /\ \A w \in Workers, x \in Records : HeldBy(w, x)' <=> HeldBy(w, x)
      BY <1>a, <2>1 DEF HeldBy, workVars
    <2>7. ASSUME NEW x \in Records \ {r} PROVE Place(x)'
      <3>1. Place(x) /\ IdOf[x] \in Ids \ {i}
        BY <2>2, SchedulerAssumption DEF Work, UniqueIds
      <3> QED BY <2>1, <2>5, <2>6, <3>1, PlaceKept
    <2>8. Place(r)'
      <3>1. Queued(r)' /\ ~Sleeping(r)' /\ ~Held(r)'
        BY <2>2, <2>4, <2>5, <2>6 DEF Queued, Holds, Sleeping, Held
      <3>2. state'[r] = state[r] /\ state[r] = "PENDING"
        BY <2>1, <2>3, <2>4 DEF Place
      <3> QED BY <2>3, <2>6, <3>1, <3>2 DEF Place
    <2>9. Known' /\ Holders'
      <3>1. \A j \in Ids : Holds(queue', j) \/ timers'[j] > 0 => records[j] # NoOne
        BY <1>b, <2>2, <2>5, <2>6, SchedulerAssumption DEF Known
      <3>2. Known'
        BY <1>b, <2>1, <3>1 DEF Known, Holds
      <3>3. Holders'
        BY <1>b, <2>1 DEF Holders, workVars
      <3> QED BY <3>2, <3>3
    <2>10. \A j \in Ids : timers'[j] <= 1
      BY <2>6 DEF Work
    <2> QED BY <2>5, <2>7, <2>8, <2>9, <2>10 DEF Work, Once
  <1>7. ASSUME NEW w \in Workers, WorkerStep(w) PROVE Work'
    <2>1. CASE TakePill(w)
      <3>1. /\ pc[w] = "get" /\ pc' = [pc EXCEPT ![w] = "off"] /\ task' = task
            /\ queue # <<>> /\ Head(queue) = Pill /\ queue' = Tail(queue)
            /\ UNCHANGED <<state, records, timers>>
        BY <2>1 DEF TakePill, taskVars
      <3>2. \A i \in Ids : i # Head(queue)
        BY <3>1, SchedulerAssumption
      <3>3. Once(queue') /\ \A i \in Ids : Holds(queue', i) <=> Holds(queue, i)
        BY <1>a, <1>b, <3>1, <3>2, TakesOnce
      <3>4. \A v \in Workers, x \in Records : HeldBy(v, x)' <=> HeldBy(v, x)
        BY <1>a, <3>1 DEF HeldBy, InFlight, Leased
      <3>5. \A v \in Workers : pc'[v] \in {"acquire", "waiting", "run", "mark"} =>
              pc[v] = pc'[v] /\ task[v] = task'[v]
        BY <1>a, <3>1
      <3>6. UNCHANGED <<state, records, timers>>
        BY <3>1
      <3> QED BY <3>3, <3>4, <3>5, <3>6, WorkQuiet
    <2>2. CASE TakeSkip(w)
      <3>1. PICK r \in Records \cup {NoOne} : Gets(w, r) /\ Skipped(r)
        BY <2>2 DEF TakeSkip
      <3>2. r \in Records /\ state[r] = "PENDING"
        BY <3>1, TakesWaiting
      <3> QED BY <3>1, <3>2, SchedulerAssumption DEF Skipped
    <2>3. CASE TakeAbandon(w)
      <3>1. PICK r \in Records : Gets(w, r) /\ state' = [state EXCEPT ![r] = "ABANDONED"]
        BY <2>3 DEF TakeAbandon
      <3>2. /\ state[r] = "PENDING" /\ timers[IdOf[r]] = 0 /\ Once(queue')
            /\ \A v \in Workers : ~HeldBy(v, r)
            /\ \A i \in Ids : Holds(queue', i) <=> Holds(queue, i) /\ i # IdOf[r]
        BY <3>1, TakesWaiting
      <3>3. /\ pc[w] = "get" /\ UNCHANGED <<records, timers, pc, task>>
            /\ state'[r] = "ABANDONED" /\ \A x \in Records \ {r} : state'[x] = state[x]
        BY <1>a, <2>3, <3>1 DEF TakeAbandon, Gets, workVars
      <3>4. IdOf[r] \in Ids /\ \A v \in Workers, x \in Records : HeldBy(v, x)' <=> HeldBy(v, x)
        BY <3>3, SchedulerAssumption DEF HeldBy
      <3>5. \A x \in Records : ~HeldBy(w, x)
        BY <3>3 DEF HeldBy, InFlight, Leased
      <3> QED BY <3>2, <3>3, <3>4, <3>5, WorkerMoves
    <2>4. CASE TakeAcquire(w)
      <3>1. PICK r \in Records : Gets(w, r) /\ task' = [task EXCEPT ![w] = r]
        BY <2>4 DEF TakeAcquire
      <3>2. /\ state[r] = "PENDING" /\ timers[IdOf[r]] = 0 /\ Once(queue')
            /\ \A v \in Workers : ~HeldBy(v, r)
            /\ \A i \in Ids : Holds(queue', i) <=> Holds(queue, i) /\ i # IdOf[r]
        BY <3>1, TakesWaiting
      <3>3. /\ pc[w] = "get" /\ UNCHANGED <<state, records, timers>>
            /\ pc'[w] = "acquire" /\ task'[w] = r
            /\ \A v \in Workers \ {w} : pc'[v] = pc[v] /\ task'[v] = task[v]
        BY <1>a, <2>4, <3>1 DEF TakeAcquire, Gets, taskVars
      <3>4. IdOf[r] \in Ids
        BY SchedulerAssumption
      <3>5. /\ \A x \in Records : ~HeldBy(w, x)
            /\ \A x \in Records : HeldBy(w, x)' <=> x = r
        BY <3>3 DEF HeldBy, InFlight, Leased
      <3> QED BY <3>2, <3>3, <3>4, <3>5, WorkerMoves
    <2>5. CASE Lease(w) \/ LeaseWait(w) \/ FailBlamed(w)
      <3>1. pc[w] \in InFlight \ {"release"}
        BY <2>5 DEF Lease, LeaseWait, FailBlamed, InFlight, Leased
      <3>2. /\ task[w] \in Records /\ IdOf[task[w]] \in Ids
            /\ ~Holds(queue, IdOf[task[w]]) /\ timers[IdOf[task[w]]] = 0
            /\ \A v \in Workers \ {w} : ~HeldBy(v, task[w])
            /\ \A x \in Records \ {task[w]} : ~HeldBy(w, x)
        BY <3>1, HoldsAlone, SchedulerAssumption
      <3>3. /\ UNCHANGED <<records, queue, timers, task>>
            /\ \A v \in Workers \ {w} : pc'[v] = pc[v]
            /\ \A x \in Records \ {task[w]} : state'[x] = state[x]
        BY <1>a, <2>5 DEF Lease, LeaseWait, FailBlamed, taskVars
      <3>4. \/ pc'[w] = "run" /\ state'[task[w]] = "RUNNING"
            \/ pc'[w] = "waiting" /\ state'[task[w]] = "PENDING"
            \/ pc'[w] = "mark" /\ state'[task[w]] = "RUNNING"
        BY <1>a, <1>b, <2>5, <3>2 DEF Lease, LeaseWait, FailBlamed, taskVars, Holders
      <3>5. \A x \in Records : HeldBy(w, x)' <=> x = task[w]
        BY <3>3, <3>4 DEF HeldBy, InFlight, Leased
      <3>6. state[task[w]] # "UNSUBMITTED"
        BY <3>1 DEF Typed, WorkersTyped
      <3> QED BY <1>b, <3>2, <3>3, <3>4, <3>5, <3>6, WorkerMoves
    <2>6. ASSUME pc[w] \in InFlight \ {"release"}, UNCHANGED <<records, queue>>,
                 pc'[w] \in {"get", "release"},
                 \A v \in Workers \ {w} : pc'[v] = pc[v] /\ task'[v] = task[v],
                 \/ /\ timers' = timers /\ state'[task[w]] \in {"SUCCEEDED", "REJECTED"}
                    /\ \A x \in Records \ {task[w]} : state'[x] = state[x]
                 \/ Reschedule(task[w]) \/ Exhaust(task[w])
          PROVE  Work'
      <3>1. /\ task[w] \in Records /\ IdOf[task[w]] \in Ids /\ state[task[w]] # "UNSUBMITTED"
            /\ ~Holds(queue, IdOf[task[w]]) /\ timers[IdOf[task[w]]] = 0
            /\ \A v \in Workers \ {w} : ~HeldBy(v, task[w])
            /\ \A x \in Records \ {task[w]} : ~HeldBy(w, x)
        BY <2>6, HoldsAlone, SchedulerAssumption
      <3>2. /\ \A x \in Records \ {task[w]} : state'[x] = state[x]
            /\ \A i \in Ids \ {IdOf[task[w]]} : timers'[i] = timers[i]
            /\ \/ state'[task[w]] = "PENDING" /\ timers'[IdOf[task[w]]] = 1
               \/ state'[task[w]] \in {"SUCCEEDED", "REJECTED", "FAILED"}
                  /\ timers'[IdOf[task[w]]] = 0
        BY <2>6, <3>1, RequeueMoves
      <3>3. \A x \in Records : ~HeldBy(w, x)'
        BY <2>6 DEF HeldBy, InFlight, Leased
      <3> QED BY <1>b, <2>6, <3>1, <3>2, <3>3, WorkerMoves
    <2>7. CASE LeaseTimeoutRetry(w) \/ LeaseTimeoutExhausted(w)
      <3>1. pc[w] \in InFlight \ {"release"}
        BY <2>7 DEF LeaseTimeoutRetry, LeaseTimeoutExhausted, InFlight, Leased
      <3> QED BY <1>a, <2>6, <2>7, <3>1
              DEF LeaseTimeoutRetry, LeaseTimeoutExhausted, WorkerDone
    <2>8. CASE Succeed(w) \/ Reject(w)
      <3>1. pc[w] \in InFlight \ {"release"}
        BY <2>8 DEF Succeed, Reject, Finish, InFlight, Leased
      <3>2. task[w] \in Records
        BY <3>1 DEF Typed, WorkersTyped
      <3> QED BY <1>a, <2>6, <2>8, <3>1, <3>2 DEF Succeed, Reject, Finish
    <2>9. CASE FailBlameless(w) \/ FailOutOfService(w) \/ QuarantineBlamed(w)
      <3>1. pc[w] \in InFlight \ {"release"} /\ AfterFailure(w)
        BY <2>9 DEF FailBlameless, FailOutOfService, QuarantineBlamed, InFlight, Leased
      <3> QED BY <1>a, <2>6, <3>1 DEF AfterFailure, Requeue
    <2>10. CASE Release(w)
      <3>1. /\ pc[w] = "release" /\ UNCHANGED <<state, records, queue, timers>>
            /\ pc'[w] = "get" /\ task'[w] = NoOne
            /\ \A v \in Workers \ {w} : pc'[v] = pc[v] /\ task'[v] = task[v]
        BY <1>a, <2>10 DEF Release, WorkerDone, taskVars
      <3>2. \A v \in Workers, x \in Records : HeldBy(v, x)' <=> HeldBy(v, x)
        BY <3>1 DEF HeldBy, InFlight, Leased
      <3> QED BY <1>b, <3>1, <3>2, WorkQuiet
    <2> QED BY <1>7, <2>1, <2>2, <2>3, <2>4, <2>5, <2>7, <2>8, <2>9, <2>10 DEF WorkerStep
  <1> QED BY <1>1, <1>2, <1>3, <1>4, <1>5, <1>6, <1>7 DEF Next

\* No retry is lost or doubled, no id is queued twice, no two workers run one task:
\* an unfinished task is in exactly one place, as long as no id is submitted twice.
THEOREM WorkIsNeverLost == UniqueIds => (Spec => []WorkConserved)
  <1> SUFFICES ASSUME UniqueIds PROVE Spec => []WorkConserved
    OBVIOUS
  <1>1. Init => Typed /\ Work
    BY TypedInit, WorkInit
  <1>2. Typed /\ Work /\ [Next]_vars => (Typed /\ Work)'
    BY TypedNext, WorkNext
  <1>3. Work => WorkConserved
    BY WorkIsConserved
  <1> QED BY <1>1, <1>2, <1>3, PTL DEF Spec

-----------------------------------------------------------------------------
\* The counters.

Busy  == {w \in Workers : pc[w] \in InFlight}
Awake == {i \in Ids : timers[i] > 0}

Counted ==
    /\ inflight = Cardinality(Busy)
    /\ IsFiniteSet(Awake) /\ pendingRetries = Cardinality(Awake)

LEMMA CountedInit == Init => Counted
  <1> SUFFICES ASSUME Init PROVE Counted
    OBVIOUS
  <1>1. Busy = {} /\ Awake = {}
    BY DEF Init, Busy, Awake, InFlight, Leased
  <1> QED BY <1>1, FS_EmptySet DEF Init, Counted

\* One worker goes in flight, comes back, or neither.
LEMMA BusyCount ==
    ASSUME Counted, NEW w \in Workers, \A v \in Workers \ {w} : pc'[v] = pc[v]
    PROVE  /\ pc[w] \in InFlight /\ pc'[w] \notin InFlight => Cardinality(Busy') = inflight - 1
           /\ pc[w] \notin InFlight /\ pc'[w] \in InFlight => Cardinality(Busy') = inflight + 1
           /\ (pc[w] \in InFlight <=> pc'[w] \in InFlight) => Cardinality(Busy') = inflight
  <1>1. IsFiniteSet(Busy)
    <2>1. Busy \in SUBSET Workers
      BY DEF Busy
    <2> QED BY <2>1, FS_Subset, SchedulerAssumption
  <1>2. ASSUME pc[w] \in InFlight, pc'[w] \notin InFlight PROVE Cardinality(Busy') = inflight - 1
    <2>1. Busy' = Busy \ {w} /\ w \in Busy
      BY <1>2 DEF Busy, InFlight, Leased
    <2> QED BY <1>1, <2>1, FS_RemoveElement DEF Counted
  <1>3. ASSUME pc[w] \notin InFlight, pc'[w] \in InFlight PROVE Cardinality(Busy') = inflight + 1
    <2>1. Busy' = Busy \cup {w} /\ w \notin Busy
      BY <1>3 DEF Busy, InFlight, Leased
    <2> QED BY <1>1, <2>1, FS_AddElement DEF Counted
  <1>4. ASSUME pc[w] \in InFlight <=> pc'[w] \in InFlight PROVE Cardinality(Busy') = inflight
    <2>1. Busy' = Busy
      BY <1>4 DEF Busy, InFlight, Leased
    <2> QED BY <2>1 DEF Counted
  <1> QED BY <1>2, <1>3, <1>4

\* A retry falls asleep, wakes, or neither.
LEMMA AwakeCount ==
    ASSUME Counted, NEW i \in Ids, \A j \in Ids \ {i} : timers'[j] = timers[j]
    PROVE  /\ IsFiniteSet(Awake')
           /\ timers[i] > 0 /\ ~(timers'[i] > 0) => Cardinality(Awake') = pendingRetries - 1
           /\ ~(timers[i] > 0) /\ timers'[i] > 0 => Cardinality(Awake') = pendingRetries + 1
           /\ (timers[i] > 0 <=> timers'[i] > 0) => Cardinality(Awake') = pendingRetries
  <1>1. ASSUME timers[i] > 0, ~(timers'[i] > 0)
        PROVE  IsFiniteSet(Awake') /\ Cardinality(Awake') = pendingRetries - 1
    <2>1. Awake' = Awake \ {i} /\ i \in Awake
      BY <1>1 DEF Awake
    <2> QED BY <2>1, FS_RemoveElement DEF Counted
  <1>2. ASSUME ~(timers[i] > 0), timers'[i] > 0
        PROVE  IsFiniteSet(Awake') /\ Cardinality(Awake') = pendingRetries + 1
    <2>1. Awake' = Awake \cup {i} /\ i \notin Awake
      BY <1>2 DEF Awake
    <2> QED BY <2>1, FS_AddElement DEF Counted
  <1>3. ASSUME timers[i] > 0 <=> timers'[i] > 0
        PROVE  IsFiniteSet(Awake') /\ Cardinality(Awake') = pendingRetries
    <2>1. Awake' = Awake
      BY <1>3 DEF Awake
    <2> QED BY <2>1 DEF Counted
  <1> QED BY <1>1, <1>2, <1>3

\* Rescheduling an idle timer counts one retry more, giving up counts none.
LEMMA RequeueCounts ==
    ASSUME Typed, Counted, NEW r \in Records, timers[IdOf[r]] = 0, Reschedule(r) \/ Exhaust(r)
    PROVE  IsFiniteSet(Awake') /\ pendingRetries' = Cardinality(Awake')
  <1>1. timers \in [Ids -> Nat] /\ IdOf[r] \in Ids
    BY SchedulerAssumption DEF Typed, TypeOK, PoolTypeOK
  <1>2. CASE Reschedule(r)
    <2>1. /\ timers'[IdOf[r]] = 1 /\ pendingRetries' = pendingRetries + 1
          /\ \A j \in Ids \ {IdOf[r]} : timers'[j] = timers[j]
      BY <1>1, <1>2 DEF Reschedule
    <2>2. ~(timers[IdOf[r]] > 0) /\ timers'[IdOf[r]] > 0
      BY <2>1
    <2> QED BY <1>1, <2>1, <2>2, AwakeCount
  <1>3. CASE Exhaust(r)
    <2>1. Awake' = Awake /\ pendingRetries' = pendingRetries
      BY <1>3 DEF Exhaust, Awake
    <2> QED BY <2>1 DEF Counted
  <1> QED BY <1>2, <1>3

LEMMA CountedNext == UniqueIds /\ Typed /\ Work /\ Counted /\ [Next]_vars => Counted'
  <1> SUFFICES ASSUME UniqueIds, Typed, Work, Counted, [Next]_vars PROVE Counted'
    OBVIOUS
  <1>a. /\ pc \in [Workers -> WorkerStates] /\ timers \in [Ids -> Nat]
        /\ inflight \in Int /\ pendingRetries \in Int
    BY DEF Typed, TypeOK, WorkTypeOK, PoolTypeOK
  <1>b. UNCHANGED <<timers, pendingRetries>> =>
          IsFiniteSet(Awake') /\ pendingRetries' = Cardinality(Awake')
    BY DEF Counted, Awake
  <1>c. ASSUME UNCHANGED <<pc, inflight, timers, pendingRetries>> PROVE Counted'
    BY <1>c DEF Counted, Busy, Awake
  <1>1. CASE \E r \in Records : SubmitUnroutable(r) \/ Submit(r)
    BY <1>1, <1>c DEF SubmitUnroutable, Submit, workVars, countVars
  <1>2. CASE Start
    <2>1. \A w \in Workers : pc[w] \notin InFlight /\ pc'[w] \notin InFlight
      BY <1>2 DEF Start, Typed, WorkersTyped, InFlight, Leased
    <2>2. Busy' = Busy
      BY <2>1 DEF Busy
    <2> QED BY <1>2, <1>b, <2>2 DEF Start, countVars, Counted
  <1>3. CASE Stop \/ StopReturns \/ Drain \/ DrainTrue \/ DrainTimeout \/ HealthForces \/ Inventory
    BY <1>3, <1>c DEF Stop, StopReturns, Drain, DrainTrue, DrainTimeout, HealthForces,
       Inventory, workVars, countVars
  <1>4. CASE UNCHANGED vars
    BY <1>4, <1>c DEF vars, workVars, countVars
  <1>5. ASSUME NEW i \in Ids, TimerFires(i) PROVE Counted'
    <2>1. timers[i] > 0 /\ timers[i] <= 1
      BY <1>5 DEF TimerFires, Work
    <2>2. timers[i] = 1
      BY <1>a, <2>1
    <2>3. timers'[i] = 0 /\ \A j \in Ids \ {i} : timers'[j] = timers[j]
      BY <1>a, <1>5, <2>2 DEF TimerFires
    <2>4. timers[i] > 0 /\ ~(timers'[i] > 0)
      BY <2>2, <2>3
    <2>5. pendingRetries' = Cardinality(Awake') /\ IsFiniteSet(Awake')
      BY <1>5, <2>3, <2>4, AwakeCount DEF TimerFires
    <2>6. Busy' = Busy /\ inflight' = inflight
      BY <1>5 DEF TimerFires, workVars, Busy
    <2> QED BY <2>5, <2>6 DEF Counted
  <1>6. ASSUME NEW w \in Workers, WorkerStep(w) PROVE Counted'
    <2>1. CASE TakePill(w) \/ FailBlamed(w) \/ Succeed(w) \/ Reject(w) \/ Lease(w) \/ LeaseWait(w)
      <3>1. /\ UNCHANGED <<inflight, timers, pendingRetries>>
            /\ \A v \in Workers \ {w} : pc'[v] = pc[v]
            /\ pc[w] \in InFlight <=> pc'[w] \in InFlight
        BY <1>a, <2>1 DEF TakePill, FailBlamed, Succeed, Reject, Finish, Lease, LeaseWait,
           countVars, InFlight, Leased
      <3> QED BY <1>b, <3>1, BusyCount DEF Counted
    <2>2. CASE TakeSkip(w) \/ TakeAbandon(w)
      BY <2>2, <1>c DEF TakeSkip, TakeAbandon, workVars, countVars
    <2>3. CASE TakeAcquire(w)
      <3>1. /\ UNCHANGED <<timers, pendingRetries>> /\ inflight' = inflight + 1
            /\ \A v \in Workers \ {w} : pc'[v] = pc[v]
            /\ pc[w] \notin InFlight /\ pc'[w] \in InFlight
        BY <1>a, <2>3 DEF TakeAcquire, Gets, InFlight, Leased
      <3> QED BY <1>b, <3>1, BusyCount DEF Counted
    <2>4. ASSUME pc[w] \in InFlight \ {"release"}, Reschedule(task[w]) \/ Exhaust(task[w])
          PROVE  IsFiniteSet(Awake') /\ pendingRetries' = Cardinality(Awake')
      <3>1. task[w] \in Records /\ timers[IdOf[task[w]]] = 0
        BY <2>4, HoldsAlone
      <3> QED BY <2>4, <3>1, RequeueCounts
    <2>5. CASE LeaseTimeoutRetry(w) \/ LeaseTimeoutExhausted(w)
      <3>1. /\ inflight' = inflight - 1 /\ \A v \in Workers \ {w} : pc'[v] = pc[v]
            /\ pc[w] \in InFlight \ {"release"} /\ pc'[w] \notin InFlight
            /\ Reschedule(task[w]) \/ Exhaust(task[w])
        BY <1>a, <2>5 DEF LeaseTimeoutRetry, LeaseTimeoutExhausted, WorkerDone, InFlight, Leased
      <3>2. inflight' = Cardinality(Busy')
        BY <3>1, BusyCount
      <3> QED BY <2>4, <3>1, <3>2 DEF Counted
    <2>6. CASE FailBlameless(w) \/ FailOutOfService(w) \/ QuarantineBlamed(w)
      <3>1. /\ inflight' = inflight /\ \A v \in Workers \ {w} : pc'[v] = pc[v]
            /\ pc[w] \in InFlight \ {"release"} /\ pc'[w] \in InFlight
            /\ Reschedule(task[w]) \/ Exhaust(task[w])
        BY <1>a, <2>6 DEF FailBlameless, FailOutOfService, QuarantineBlamed, AfterFailure,
           Requeue, InFlight, Leased
      <3>2. inflight' = Cardinality(Busy')
        BY <3>1, BusyCount
      <3> QED BY <2>4, <3>1, <3>2 DEF Counted
    <2>7. CASE Release(w)
      <3>1. /\ inflight' = inflight - 1 /\ UNCHANGED <<timers, pendingRetries>>
            /\ \A v \in Workers \ {w} : pc'[v] = pc[v]
            /\ pc[w] \in InFlight /\ pc'[w] \notin InFlight
        BY <1>a, <2>7 DEF Release, WorkerDone, InFlight, Leased
      <3> QED BY <1>b, <3>1, BusyCount DEF Counted
    <2> QED BY <1>6, <2>1, <2>2, <2>3, <2>5, <2>6, <2>7 DEF WorkerStep
  <1> QED BY <1>1, <1>2, <1>3, <1>4, <1>5, <1>6 DEF Next

\* What drain() counts is what there is: the tasks in flight and the retries that
\* sleep out their backoff.
THEOREM CountersStayExact == UniqueIds => (Spec => []CountersExact)
  <1> SUFFICES ASSUME UniqueIds PROVE Spec => []CountersExact
    OBVIOUS
  <1>1. Init => Typed /\ Work /\ Counted
    BY TypedInit, WorkInit, CountedInit
  <1>2. Typed /\ Work /\ Counted /\ [Next]_vars => (Typed /\ Work /\ Counted)'
    BY TypedNext, WorkNext, CountedNext
  <1>3. Counted => CountersExact
    BY DEF Counted, CountersExact, Busy, Awake
  <1> QED BY <1>1, <1>2, <1>3, PTL DEF Spec

-----------------------------------------------------------------------------
\* Idle means done.

Quiet == queue = <<>> /\ inflight = 0 /\ pendingRetries = 0
Over  == \A r \in Records : state[r] \notin {"PENDING", "RUNNING"}

\* When nothing is queued, in flight or asleep, no task is unfinished.
LEMMA NothingLeft == Typed /\ Work /\ Counted /\ Quiet => Over
  <1> SUFFICES ASSUME Typed, Work, Counted, Quiet, NEW r \in Records
               PROVE  state[r] \notin {"PENDING", "RUNNING"}
    BY DEF Over
  <1>1. ~Queued(r)
    BY DEF Quiet, Queued
  <1>2. ~Sleeping(r)
    <2>1. Awake = {}
      BY FS_EmptySet DEF Counted, Quiet
    <2> QED BY <2>1, SchedulerAssumption DEF Awake, Sleeping
  <1>3. ~Held(r)
    <2>1. Busy \in SUBSET Workers
      BY DEF Busy
    <2>2. IsFiniteSet(Busy)
      BY <2>1, FS_Subset, SchedulerAssumption
    <2>3. Busy = {}
      BY <2>2, FS_EmptySet DEF Counted, Quiet
    <2> QED BY <2>3 DEF Busy, Held, HeldBy
  <1> QED BY <1>1, <1>2, <1>3 DEF Work, Place

\* What a step does to the records: it never takes an end back, it never forgets
\* one, and it starts nothing new while the idle event stays set.
LEMMA EndsKept ==
    ASSUME UniqueIds, Typed, Work, [Next]_vars
    PROVE  /\ \A r \in Records : state[r] \in Terminal => state'[r] = state[r]
           /\ \A r \in Records : state[r] # "UNSUBMITTED" => state'[r] # "UNSUBMITTED"
           /\ Over /\ idle' => Over'
  <1> DEFINE Goal == /\ \A r \in Records : state[r] \in Terminal => state'[r] = state[r]
                     /\ \A r \in Records : state[r] # "UNSUBMITTED" => state'[r] # "UNSUBMITTED"
                     /\ Over /\ idle' => Over'
  <1> SUFFICES Goal
    OBVIOUS
  <1>a. /\ state \in [Records -> RecordStates]
        /\ pc \in [Workers -> WorkerStates] /\ queue \in Seq(Jobs)
    BY QueueTyped DEF Typed, TypeOK, TaskTypeOK, WorkTypeOK
  <1>b. state' = state => Goal
    BY DEF Over
  <1>c. ASSUME NEW r \in Records, state[r] \in {"PENDING", "RUNNING"}, state'[r] # "UNSUBMITTED",
               \A x \in Records \ {r} : state'[x] = state[x]
        PROVE  Goal
    BY <1>c DEF Over, Terminal
  <1>1. ASSUME NEW r \in Records, SubmitUnroutable(r) PROVE Goal
    <2>1. /\ state[r] = "UNSUBMITTED" /\ state'[r] = "REJECTED"
          /\ \A x \in Records \ {r} : state'[x] = state[x]
      BY <1>a, <1>1 DEF SubmitUnroutable
    <2> QED BY <2>1 DEF Over, Terminal
  <1>2. ASSUME NEW r \in Records, Submit(r) PROVE Goal
    <2>1. /\ state[r] = "UNSUBMITTED" /\ state'[r] = "PENDING" /\ idle' = FALSE
          /\ \A x \in Records \ {r} : state'[x] = state[x]
      BY <1>a, <1>2 DEF Submit
    <2> QED BY <2>1 DEF Terminal
  <1>3. CASE Start \/ Stop \/ StopReturns \/ Drain \/ DrainTrue \/ DrainTimeout
             \/ HealthForces \/ Inventory \/ UNCHANGED vars
             \/ \E i \in Ids : TimerFires(i)
    BY <1>3, <1>b DEF Start, Stop, StopReturns, Drain, DrainTrue, DrainTimeout,
       HealthForces, Inventory, vars, TimerFires, taskVars
  <1>4. ASSUME NEW w \in Workers, WorkerStep(w) PROVE Goal
    <2>1. CASE TakePill(w) \/ TakeSkip(w) \/ TakeAcquire(w) \/ LeaseWait(w) \/ FailBlamed(w)
               \/ Release(w)
      BY <2>1, <1>b DEF TakePill, TakeSkip, TakeAcquire, LeaseWait, FailBlamed, Release, taskVars
    <2>2. CASE TakeAbandon(w)
      <3>1. PICK r \in Records : Gets(w, r) /\ state' = [state EXCEPT ![r] = "ABANDONED"]
        BY <2>2 DEF TakeAbandon
      <3>2. state[r] = "PENDING"
        BY <3>1, TakesWaiting
      <3> QED BY <1>a, <1>c, <3>1, <3>2
    <2>3. CASE Lease(w) \/ LeaseTimeoutRetry(w) \/ LeaseTimeoutExhausted(w) \/ Succeed(w)
               \/ Reject(w) \/ FailBlameless(w) \/ FailOutOfService(w) \/ QuarantineBlamed(w)
      <3>1. pc[w] \in InFlight \ {"release"}
        BY <2>3 DEF Lease, LeaseTimeoutRetry, LeaseTimeoutExhausted, Succeed, Reject, Finish,
           FailBlameless, FailOutOfService, QuarantineBlamed, InFlight, Leased
      <3>2. task[w] \in Records /\ state[task[w]] \in {"PENDING", "RUNNING"}
        BY <3>1, HoldsAlone
      <3>3. \E c \in {"RUNNING", "SUCCEEDED", "REJECTED", "PENDING", "FAILED"} :
              state' = [state EXCEPT ![task[w]] = c]
        BY <2>3 DEF Lease, LeaseTimeoutRetry, LeaseTimeoutExhausted, Succeed, Reject, Finish,
           FailBlameless, FailOutOfService, QuarantineBlamed, AfterFailure, Requeue,
           Reschedule, Exhaust
      <3>4. state'[task[w]] # "UNSUBMITTED" /\ \A x \in Records \ {task[w]} : state'[x] = state[x]
        BY <1>a, <3>2, <3>3
      <3> QED BY <1>c, <3>2, <3>4
    <2> QED BY <1>4, <2>1, <2>2, <2>3 DEF WorkerStep
  <1> QED BY <1>1, <1>2, <1>3, <1>4 DEF Next

\* With unique ids a rejected task stays rejected: nothing queues or leases it again.
THEOREM RejectionIsFinal == UniqueIds => (Spec => RejectedIsFinal)
  <1> SUFFICES ASSUME UniqueIds PROVE Spec => RejectedIsFinal
    OBVIOUS
  <1>1. Init => Typed /\ Work
    BY TypedInit, WorkInit
  <1>2. Typed /\ Work /\ [Next]_vars => (Typed /\ Work)'
    BY TypedNext, WorkNext
  <1>3. Typed /\ Work /\ [Next]_vars =>
          [\A r \in Records : state[r] = "REJECTED" => state'[r] = "REJECTED"]_vars
    BY EndsKept DEF Terminal
  <1> QED BY <1>1, <1>2, <1>3, PTL DEF Spec, RejectedIsFinal

\* What a step does to the idle event and to the caller of drain().
LEMMA Settles ==
    ASSUME [Next]_vars
    PROVE  /\ idle' => idle \/ Quiet'
           /\ \/ /\ watched' = watched
                 /\ drainer' \in {"woken", "true"} => drainer \in {"woken", "true"} \/ Quiet'
              \/ watched' = Submitted /\ state' = state /\ (drainer' = "waiting" \/ idle)
  <1> DEFINE Goal ==
        /\ idle' => idle \/ Quiet'
        /\ \/ /\ watched' = watched
              /\ drainer' \in {"woken", "true"} => drainer \in {"woken", "true"} \/ Quiet'
           \/ watched' = Submitted /\ state' = state /\ (drainer' = "waiting" \/ idle)
  <1> SUFFICES Goal
    OBVIOUS
  <1>a. ASSUME SettleIdle(queue', inflight', pendingRetries') PROVE Goal
    BY <1>a DEF SettleIdle, Quiet
  <1>b. ASSUME idle' = idle \/ idle' = FALSE, UNCHANGED drainVars PROVE Goal
    BY <1>b DEF drainVars
  <1>1. CASE \E r \in Records : SubmitUnroutable(r) \/ Submit(r)
    BY <1>1, <1>b DEF SubmitUnroutable, Submit
  <1>2. CASE Start \/ Stop \/ StopReturns \/ HealthForces \/ Inventory \/ UNCHANGED vars
    BY <1>2, <1>b DEF Start, Stop, StopReturns, HealthForces, Inventory, vars
  <1>3. CASE Drain \/ DrainTrue \/ DrainTimeout
    BY <1>3 DEF Drain, DrainTrue, DrainTimeout, Submitted, taskVars
  <1>4. CASE \E i \in Ids : TimerFires(i)
    BY <1>4, <1>a DEF TimerFires
  <1>5. ASSUME NEW w \in Workers, WorkerStep(w) PROVE Goal
    <2>1. CASE TakePill(w) \/ TakeAcquire(w) \/ Lease(w) \/ LeaseWait(w) \/ LeaseTimeoutRetry(w)
               \/ Succeed(w) \/ Reject(w) \/ FailBlamed(w)
      BY <2>1, <1>b DEF TakePill, TakeAcquire, Lease, LeaseWait, LeaseTimeoutRetry, Succeed,
         Reject, Finish, FailBlamed
    <2>2. CASE TakeSkip(w) \/ TakeAbandon(w)
      BY <2>2, <1>a DEF TakeSkip, TakeAbandon, Gets, countVars
    <2>3. CASE LeaseTimeoutExhausted(w)
      BY <2>3, <1>a DEF LeaseTimeoutExhausted, Exhaust
    <2>4. CASE FailBlameless(w) \/ FailOutOfService(w) \/ QuarantineBlamed(w)
      BY <2>4, <1>b DEF FailBlameless, FailOutOfService, QuarantineBlamed, AfterFailure, Requeue
    <2>5. CASE Release(w)
      BY <2>5, <1>a DEF Release
    <2> QED BY <1>5, <2>1, <2>2, <2>3, <2>4, <2>5 DEF WorkerStep
  <1> QED BY <1>1, <1>2, <1>3, <1>4, <1>5 DEF Next

\* The event is set only when all work is over, and so was all work drain() watches
\* when it was woken.
Settled ==
    /\ idle => Over
    /\ watched \subseteq Submitted
    /\ drainer \in {"woken", "true"} => \A r \in watched : state[r] \in Terminal

LEMMA OverIsTerminal == Typed /\ Over => \A r \in Submitted : state[r] \in Terminal
  BY DEF Typed, TypeOK, TaskTypeOK, Over, Submitted, RecordStates, TaskStates

LEMMA SettledInit == Init => Settled
  BY DEF Init, Settled, Over, Submitted

LEMMA SettledNext ==
    UniqueIds /\ Typed /\ Work /\ Counted /\ Settled /\ [Next]_vars => Settled'
  <1> SUFFICES ASSUME UniqueIds, Typed, Work, Counted, Settled, [Next]_vars PROVE Settled'
    OBVIOUS
  <1>1. Typed' /\ Work' /\ Counted'
    BY TypedNext, WorkNext, CountedNext
  <1>2. Quiet' => Over'
    <2>1. (Typed /\ Work /\ Counted /\ Quiet => Over)'
      BY NothingLeft, PTL
    <2> QED BY <1>1, <2>1
  <1>3. Over' => \A r \in Submitted' : state'[r] \in Terminal
    <2>1. (Typed /\ Over => \A r \in Submitted : state[r] \in Terminal)'
      BY OverIsTerminal, PTL
    <2> QED BY <1>1, <2>1
  <1>4. (idle => Over)'
    BY <1>2, EndsKept, Settles DEF Settled
  <1>5. (watched \subseteq Submitted)'
    <2>1. Submitted \subseteq Submitted'
      BY EndsKept DEF Submitted
    <2> QED BY <2>1, Settles DEF Settled
  <1>6. ASSUME drainer' \in {"woken", "true"}, NEW r \in watched' PROVE state'[r] \in Terminal
    <2>1. CASE Quiet'
      BY <1>2, <1>3, <1>5, <1>6, <2>1
    <2>2. CASE watched' = watched /\ drainer \in {"woken", "true"}
      BY <1>6, <2>2, EndsKept DEF Settled, Submitted
    <2>3. CASE watched' = Submitted /\ state' = state /\ idle
      BY <1>6, <2>3, OverIsTerminal DEF Settled
    <2> QED BY <1>6, <2>1, <2>2, <2>3, Settles
  <1> QED BY <1>4, <1>5, <1>6 DEF Settled

LEMMA SettledAlways == UniqueIds => (Spec => [](Typed /\ Settled))
  <1> SUFFICES ASSUME UniqueIds PROVE Spec => [](Typed /\ Settled)
    OBVIOUS
  <1> DEFINE All == Typed /\ Work /\ Counted /\ Settled
  <1>1. Init => All
    BY TypedInit, WorkInit, CountedInit, SettledInit
  <1>2. All /\ [Next]_vars => All'
    BY TypedNext, WorkNext, CountedNext, SettledNext
  <1>3. All => Typed /\ Settled
    OBVIOUS
  <1> HIDE DEF All
  <1> QED BY <1>1, <1>2, <1>3, PTL DEF Spec

\* The idle event is never set while a task is queued, in flight or sleeping out a
\* backoff.
THEOREM IdleIsDone == UniqueIds => (Spec => []IdleMeansDone)
  <1> SUFFICES ASSUME UniqueIds PROVE Spec => []IdleMeansDone
    OBVIOUS
  <1>1. Typed /\ Settled => IdleMeansDone
    BY OverIsTerminal DEF Settled, IdleMeansDone
  <1> QED BY <1>1, SettledAlways, PTL

\* drain() answers True only when every task submitted before it was called has ended.
THEOREM DrainIsDone == UniqueIds => (Spec => []DrainMeansDone)
  <1> SUFFICES ASSUME UniqueIds PROVE Spec => []DrainMeansDone
    OBVIOUS
  <1>1. Typed /\ Settled => DrainMeansDone
    BY DEF Settled, DrainMeansDone
  <1> QED BY <1>1, SettledAlways, PTL

-----------------------------------------------------------------------------
\* How an end is announced.

\* The workers that still have the lease of an attempt at r to give back: each will
\* announce r once more if it has ended by then.
Parting(r) == {w \in Workers : pc[w] = "release" /\ task[w] = r}

\* Whoever is about to release a lease ran the task, so nobody joins them once the
\* task has ended.
LEMMA PartingShrinks ==
    ASSUME Typed, Work, [Next]_vars, NEW r \in Records, state[r] \in Terminal
    PROVE  Parting(r)' \subseteq Parting(r)
  <1> USE DEF Typed, TypeOK, WorkTypeOK
  <1> DEFINE Comes == \A v \in Workers : pc'[v] = "release" =>
                        pc[v] \in {"run", "mark", "release"} /\ task'[v] = task[v]
  <1>1. Comes
    <2>1. CASE \E x \in Records : SubmitUnroutable(x) \/ Submit(x)
      BY <2>1 DEF SubmitUnroutable, Submit, workVars
    <2>2. CASE Start
      BY <2>2 DEF Start
    <2>3. CASE Stop \/ StopReturns \/ Drain \/ DrainTrue \/ DrainTimeout \/ HealthForces
               \/ Inventory \/ UNCHANGED vars \/ \E i \in Ids : TimerFires(i)
      BY <2>3 DEF Stop, StopReturns, Drain, DrainTrue, DrainTimeout, HealthForces,
         Inventory, vars, TimerFires, workVars
    <2>4. ASSUME NEW w \in Workers, WorkerStep(w) PROVE Comes
      <3>1. CASE TakePill(w) \/ TakeSkip(w) \/ TakeAbandon(w) \/ TakeAcquire(w)
        BY <3>1 DEF TakePill, TakeSkip, TakeAbandon, TakeAcquire, workVars
      <3>2. CASE Lease(w) \/ LeaseWait(w) \/ LeaseTimeoutRetry(w) \/ LeaseTimeoutExhausted(w)
        BY <3>2 DEF Lease, LeaseWait, LeaseTimeoutRetry, LeaseTimeoutExhausted, WorkerDone
      <3>3. CASE Succeed(w) \/ Reject(w) \/ FailBlamed(w) \/ Release(w)
        BY <3>3 DEF Succeed, Reject, Finish, FailBlamed, Release, WorkerDone
      <3>4. CASE FailBlameless(w) \/ FailOutOfService(w) \/ QuarantineBlamed(w)
        BY <3>4 DEF FailBlameless, FailOutOfService, QuarantineBlamed, AfterFailure
      <3> QED BY <2>4, <3>1, <3>2, <3>3, <3>4 DEF WorkerStep
    <2> QED BY <2>1, <2>2, <2>3, <2>4 DEF Next
  <1>2. \A v \in Workers : pc[v] \in {"run", "mark"} => task[v] # r
    BY DEF Work, Holders, Terminal
  <1> QED BY <1>1, <1>2 DEF Parting

\* What one step lets subscribers hear of a task: nothing, or the state it is in; and
\* an end is heard of again only from a worker that parts with its lease.
LEMMA EndsHeard ==
    ASSUME UniqueIds, Typed, Work, [Next]_vars, NEW r \in Records
    PROVE  /\ shown'[r] = shown[r] \/ shown'[r] = state'[r]
           /\ \/ finals'[r] = finals[r]
              \/ /\ state'[r] \in Terminal /\ finals'[r] = finals[r] + 1
                 /\ state[r] \in Terminal => \E w \in Parting(r) : w \notin Parting(r)'
  <1> DEFINE Goal == /\ shown'[r] = shown[r] \/ shown'[r] = state'[r]
                     /\ \/ finals'[r] = finals[r]
                        \/ /\ state'[r] \in Terminal /\ finals'[r] = finals[r] + 1
                           /\ state[r] \in Terminal => \E w \in Parting(r) : w \notin Parting(r)'
  <1> SUFFICES Goal
    OBVIOUS
  <1>a. /\ state \in [Records -> RecordStates] /\ finals \in [Records -> Nat]
        /\ shown \in [Records -> TaskStates \cup {"UNSEEN"}]
        /\ pc \in [Workers -> WorkerStates] /\ task \in [Workers -> Records \cup {NoOne}]
    BY DEF Typed, TypeOK, TaskTypeOK, CallerTypeOK, WorkTypeOK
  <1>b. UNCHANGED feedVars => Goal
    BY DEF feedVars
  <1>c. ASSUME NEW x \in Records, NEW s \in TaskStates, state[x] \notin Terminal,
               state' = [state EXCEPT ![x] = s], Announce(x, s)
        PROVE  Goal
    <2>1. CASE x = r
      <3>1. state'[r] = s /\ shown'[r] = s /\ (s \notin Terminal => finals'[r] = finals[r])
            /\ (s \in Terminal => finals'[r] = finals[r] + 1)
        BY <1>a, <1>c, <2>1 DEF Announce
      <3> QED BY <1>c, <2>1, <3>1
    <2>2. CASE x # r
      BY <1>a, <1>c, <2>2 DEF Announce
    <2> QED BY <2>1, <2>2
  <1>1. CASE \E x \in Records : SubmitUnroutable(x) \/ Submit(x)
    BY <1>1, <1>b DEF SubmitUnroutable, Submit
  <1>2. CASE Start \/ Stop \/ StopReturns \/ Drain \/ DrainTrue \/ DrainTimeout \/ HealthForces
             \/ Inventory \/ UNCHANGED vars \/ \E i \in Ids : TimerFires(i)
    BY <1>2, <1>b DEF Start, Stop, StopReturns, Drain, DrainTrue, DrainTimeout, HealthForces,
       Inventory, vars, TimerFires
  <1>3. ASSUME NEW w \in Workers, WorkerStep(w) PROVE Goal
    <2>1. CASE TakePill(w) \/ TakeSkip(w) \/ TakeAcquire(w) \/ LeaseWait(w) \/ Succeed(w)
               \/ Reject(w) \/ FailBlamed(w)
      BY <2>1, <1>b DEF TakePill, TakeSkip, TakeAcquire, LeaseWait, Succeed, Reject, Finish,
         FailBlamed
    <2>2. CASE TakeAbandon(w)
      <3>1. PICK x \in Records : /\ Gets(w, x) /\ state' = [state EXCEPT ![x] = "ABANDONED"]
                                 /\ Announce(x, "ABANDONED")
        BY <2>2 DEF TakeAbandon
      <3>2. state[x] = "PENDING"
        BY <3>1, TakesWaiting
      <3> QED BY <1>c, <3>1, <3>2 DEF TaskStates, Terminal
    <2>3. CASE Lease(w) \/ LeaseTimeoutRetry(w) \/ LeaseTimeoutExhausted(w)
               \/ FailBlameless(w) \/ FailOutOfService(w) \/ QuarantineBlamed(w)
      <3>1. pc[w] \in InFlight \ {"release"}
        BY <2>3 DEF Lease, LeaseTimeoutRetry, LeaseTimeoutExhausted, FailBlameless,
           FailOutOfService, QuarantineBlamed, InFlight, Leased
      <3>2. task[w] \in Records /\ state[task[w]] \in {"PENDING", "RUNNING"}
        BY <3>1, HoldsAlone
      <3>3. \E c \in {"RUNNING", "PENDING", "FAILED"} :
              state' = [state EXCEPT ![task[w]] = c] /\ Announce(task[w], c)
        BY <2>3 DEF Lease, LeaseTimeoutRetry, LeaseTimeoutExhausted, FailBlameless,
           FailOutOfService, QuarantineBlamed, AfterFailure, Requeue, Reschedule, Exhaust
      <3> QED BY <1>c, <3>2, <3>3 DEF TaskStates, Terminal
    <2>4. CASE Release(w)
      <3>1. /\ pc[w] = "release" /\ pc'[w] = "get" /\ state' = state
            /\ task[w] \in Records
        BY <1>a, <2>4 DEF Release, WorkerDone, taskVars, Typed, WorkersTyped, InFlight, Leased
      <3>2. CASE state[task[w]] = "PENDING"
        BY <1>b, <2>4, <3>2 DEF Release
      <3>3. CASE state[task[w]] # "PENDING"
        <4>1. Announce(task[w], state[task[w]])
          BY <2>4, <3>3 DEF Release
        <4>2. CASE task[w] = r
          <5>1. shown'[r] = state'[r]
            BY <1>a, <3>1, <4>1, <4>2 DEF Announce
          <5>2. w \in Parting(r) /\ w \notin Parting(r)'
            BY <3>1, <4>2 DEF Parting
          <5>3. \/ finals'[r] = finals[r]
                \/ state'[r] \in Terminal /\ finals'[r] = finals[r] + 1
            BY <1>a, <3>1, <4>1, <4>2 DEF Announce
          <5> QED BY <5>1, <5>2, <5>3
        <4>3. CASE task[w] # r
          BY <1>a, <4>1, <4>3 DEF Announce
        <4> QED BY <4>2, <4>3
      <3> QED BY <3>2, <3>3
    <2> QED BY <1>3, <2>1, <2>2, <2>3, <2>4 DEF WorkerStep
  <1> QED BY <1>1, <1>2, <1>3 DEF Next

\* What was announced as an end is the end.
EndsTrue == \A r \in Records : shown[r] \in Terminal => state[r] = shown[r]

\* Once subscribers were told that a task ended, and how, nothing they hear of it later
\* says otherwise: no retry that was still asleep, no worker late with its release, no
\* resubmission.
AnnouncedEndsStand ==
    [][\A r \in Records : shown[r] \in Terminal => shown'[r] = shown[r]]_vars

THEOREM EndsAreNotTakenBack == UniqueIds => (Spec => AnnouncedEndsStand)
  <1> SUFFICES ASSUME UniqueIds PROVE Spec => AnnouncedEndsStand
    OBVIOUS
  <1> DEFINE Stands == \A r \in Records : shown[r] \in Terminal => shown'[r] = shown[r]
  <1>1. Init => Typed /\ Work /\ EndsTrue
    BY TypedInit, WorkInit DEF Init, EndsTrue, Terminal
  <1>2. Typed /\ Work /\ EndsTrue /\ [Next]_vars => (Typed /\ Work /\ EndsTrue)'
    <2> SUFFICES ASSUME Typed, Work, EndsTrue, [Next]_vars PROVE EndsTrue'
      BY TypedNext, WorkNext
    <2> QED BY EndsHeard, EndsKept DEF EndsTrue
  <1>3. Typed /\ Work /\ EndsTrue /\ [Next]_vars => [Stands]_vars
    BY EndsHeard, EndsKept DEF EndsTrue
  <1> QED BY <1>1, <1>2, <1>3, PTL DEF Spec, AnnouncedEndsStand

\* EndAnnouncedOnce is violated, but not without bound: no task is announced as ended
\* before it has, and then at most once by whoever ended it and once by each worker that
\* still had the lease of an attempt to give back.
AnnouncementsBounded ==
    \A r \in Records :
      IF state[r] \in Terminal
      THEN finals[r] + Cardinality(Parting(r)) <= Cardinality(Workers) + 1
      ELSE finals[r] = 0

LEMMA PartingFinite ==
    \A r \in Records :
      /\ IsFiniteSet(Parting(r)) /\ Cardinality(Parting(r)) \in Nat
      /\ Cardinality(Parting(r)) <= Cardinality(Workers) /\ Cardinality(Workers) \in Nat
  <1> SUFFICES ASSUME NEW r \in Records
               PROVE  /\ IsFiniteSet(Parting(r)) /\ Cardinality(Parting(r)) \in Nat
                      /\ Cardinality(Parting(r)) <= Cardinality(Workers)
                      /\ Cardinality(Workers) \in Nat
    OBVIOUS
  <1>1. Parting(r) \subseteq Workers
    BY DEF Parting
  <1> QED BY <1>1, FS_Subset, FS_CardinalityType, SchedulerAssumption

LEMMA BoundedNext ==
    UniqueIds /\ Typed /\ Work /\ AnnouncementsBounded /\ [Next]_vars => AnnouncementsBounded'
  <1> SUFFICES ASSUME UniqueIds, Typed, Work, AnnouncementsBounded, [Next]_vars, NEW r \in Records
               PROVE  IF state'[r] \in Terminal
                      THEN finals'[r] + Cardinality(Parting(r)') <= Cardinality(Workers) + 1
                      ELSE finals'[r] = 0
    BY DEF AnnouncementsBounded
  <1>1. finals[r] \in Nat
    BY DEF Typed, TypeOK, CallerTypeOK
  <1>2. /\ Cardinality(Parting(r)') \in Nat /\ IsFiniteSet(Parting(r)')
        /\ Cardinality(Parting(r)') <= Cardinality(Workers) /\ Cardinality(Workers) \in Nat
    <2>1. Parting(r)' \subseteq Workers
      BY DEF Parting
    <2> QED BY <2>1, FS_Subset, FS_CardinalityType, SchedulerAssumption
  <1>3. CASE state[r] \notin Terminal
    <2>1. finals[r] = 0
      BY <1>3 DEF AnnouncementsBounded
    <2>2. finals'[r] = 0 \/ (state'[r] \in Terminal /\ finals'[r] = 1)
      BY <2>1, EndsHeard
    <2> QED BY <1>2, <2>2
  <1>4. CASE state[r] \in Terminal
    <2>1. state'[r] \in Terminal /\ Parting(r)' \subseteq Parting(r)
      BY <1>4, EndsKept, PartingShrinks
    <2>2. /\ finals[r] + Cardinality(Parting(r)) <= Cardinality(Workers) + 1
          /\ IsFiniteSet(Parting(r)) /\ Cardinality(Parting(r)) \in Nat
      BY <1>4, PartingFinite DEF AnnouncementsBounded
    <2>3. Cardinality(Parting(r)') <= Cardinality(Parting(r))
      BY <2>1, <2>2, FS_Subset
    <2>4. CASE finals'[r] = finals[r]
      BY <1>1, <1>2, <2>1, <2>2, <2>3, <2>4
    <2>5. CASE finals'[r] # finals[r]
      <3>1. finals'[r] = finals[r] + 1 /\ \E w \in Parting(r) : w \notin Parting(r)'
        BY <1>4, <2>5, EndsHeard
      <3>2. PICK w \in Parting(r) : w \notin Parting(r)'
        BY <3>1
      <3>3. /\ IsFiniteSet(Parting(r) \ {w}) /\ Parting(r)' \subseteq Parting(r) \ {w}
            /\ Cardinality(Parting(r) \ {w}) = Cardinality(Parting(r)) - 1
        BY <2>1, <2>2, <3>2, FS_RemoveElement
      <3>4. Cardinality(Parting(r)') <= Cardinality(Parting(r)) - 1
        BY <3>3, FS_Subset
      <3> QED BY <1>1, <1>2, <2>1, <2>2, <3>1, <3>4
    <2> QED BY <2>4, <2>5
  <1> QED BY <1>3, <1>4

THEOREM RepeatsAreBounded == UniqueIds => (Spec => []AnnouncementsBounded)
  <1> SUFFICES ASSUME UniqueIds PROVE Spec => []AnnouncementsBounded
    OBVIOUS
  <1>1. Init => Typed /\ Work /\ AnnouncementsBounded
    BY TypedInit, WorkInit DEF Init, AnnouncementsBounded, Terminal
  <1>2. Typed /\ Work /\ AnnouncementsBounded /\ [Next]_vars
          => (Typed /\ Work /\ AnnouncementsBounded)'
    BY TypedNext, WorkNext, BoundedNext
  <1> QED BY <1>1, <1>2, PTL DEF Spec

-----------------------------------------------------------------------------
\* The pills.

PillsIn(q) == {n \in DOMAIN q : q[n] = Pill}
Live == {w \in Workers : pc[w] # "off"}

LEMMA PillsFinite == ASSUME NEW q \in Seq(Jobs) PROVE IsFiniteSet(PillsIn(q))
  <1>1. DOMAIN q = 1..Len(q) /\ Len(q) \in Nat
    OBVIOUS
  <1>2. IsFiniteSet(1..Len(q))
    BY <1>1, FS_Interval
  <1>3. PillsIn(q) \in SUBSET (1..Len(q))
    BY <1>1 DEF PillsIn
  <1> QED BY <1>2, <1>3, FS_Subset

\* An id behind the queue adds no pill.
LEMMA PillsAppend ==
    ASSUME NEW q \in Seq(Jobs), NEW i \in Ids
    PROVE  PillsIn(Append(q, i)) = PillsIn(q)
  <1> DEFINE p == Append(q, i)
  <1>1. i # Pill
    BY SchedulerAssumption
  <1>2. /\ DOMAIN q = 1..Len(q) /\ DOMAIN p = 1..(Len(q) + 1) /\ Len(q) \in Nat
        /\ p[Len(q) + 1] = i /\ \A k \in 1..Len(q) : p[k] = q[k]
    BY DEF Jobs
  <1> HIDE DEF p
  <1>3. ASSUME NEW k \in 1..(Len(q) + 1), p[k] = Pill PROVE k \in 1..Len(q)
    BY <1>1, <1>2, <1>3
  <1>4. 1..Len(q) \subseteq 1..(Len(q) + 1)
    BY <1>2
  <1> QED BY <1>2, <1>3, <1>4 DEF PillsIn, p

\* The head takes its pill along, if it is one.
LEMMA PillsTail ==
    ASSUME NEW q \in Seq(Jobs), q # <<>>
    PROVE  Cardinality(PillsIn(Tail(q))) =
             IF Head(q) = Pill THEN Cardinality(PillsIn(q)) - 1 ELSE Cardinality(PillsIn(q))
  <1> DEFINE n == Len(q) - 1  p == Tail(q)  S == PillsIn(p)  T == PillsIn(q) \ {1}
  <1>1. /\ p \in Seq(Jobs) /\ DOMAIN p = 1..n /\ DOMAIN q = 1..(n + 1) /\ n \in Nat
        /\ Head(q) = q[1] /\ \A k \in 1..n : p[k] = q[k + 1]
    OBVIOUS
  <1> HIDE DEF p, n
  <1>2. IsFiniteSet(S) /\ IsFiniteSet(PillsIn(q))
    BY <1>1, PillsFinite
  <1> DEFINE F == [k \in S |-> k + 1]
  <1>3. \A k \in S : k \in 1..n /\ q[k + 1] = Pill
    BY <1>1 DEF PillsIn
  <1>4. ASSUME NEW k \in S PROVE k + 1 \in T
    <2>1. k \in 1..n /\ q[k + 1] = Pill
      BY <1>3, <1>4
    <2>2. k + 1 \in 1..(n + 1) /\ k + 1 # 1
      BY <1>1, <2>1
    <2> QED BY <1>1, <2>1, <2>2 DEF PillsIn
  <1>5. ASSUME NEW a \in S, NEW b \in S, F[a] = F[b] PROVE a = b
    <2>1. a \in Int /\ b \in Int
      BY <1>1, <1>3
    <2> QED BY <1>5, <2>1
  <1>6. ASSUME NEW t \in T PROVE \E k \in S : F[k] = t
    <2>1. t \in 1..(n + 1) /\ t # 1 /\ q[t] = Pill
      BY <1>1, <1>6 DEF PillsIn
    <2>2. t - 1 \in 1..n /\ (t - 1) + 1 = t
      BY <1>1, <2>1
    <2>3. t - 1 \in S
      BY <1>1, <2>1, <2>2 DEF PillsIn
    <2> QED BY <2>2, <2>3
  <1>7. F \in [S -> T]
    BY <1>4
  <1>8. ExistsBijection(S, T)
    <2> HIDE DEF F, S, T
    <2>1. F \in Bijection(S, T)
      BY <1>5, <1>6, <1>7, Fun_IsBij
    <2> QED BY <2>1, Fun_ExistsBij
  <1>9. Cardinality(T) = Cardinality(S)
    BY <1>2, <1>8, FS_Bijection
  <1>10. 1 \in PillsIn(q) <=> q[1] = Pill
    BY <1>1 DEF PillsIn
  <1> QED BY <1>1, <1>2, <1>9, <1>10, FS_RemoveElement DEF p

\* stop() puts as many pills as it says behind a queue that has none.
LEMMA PillsConcat ==
    ASSUME NEW q \in Seq(Jobs), PillsIn(q) = {}, NEW m \in Nat
    PROVE  Cardinality(PillsIn(q \o [k \in 1..m |-> Pill])) = m
  <1> DEFINE b == [k \in 1..m |-> Pill]  p == q \o b
  <1>0. b \in Seq(Jobs) /\ Len(b) = m /\ \A k \in 1..m : b[k] = Pill
    BY DEF Jobs
  <1> HIDE DEF b
  <1>1. /\ DOMAIN q = 1..Len(q) /\ Len(q) \in Nat
        /\ DOMAIN p = 1..(Len(q) + m)
        /\ \A k \in 1..Len(q) : p[k] = q[k]
        /\ \A k \in 1..(Len(q) + m) : k \notin 1..Len(q) => p[k] = Pill
    BY <1>0
  <1> HIDE DEF p
  <1>2. \A k \in 1..Len(q) : p[k] # Pill
    BY <1>1 DEF PillsIn
  <1>3. \A k \in 1..(Len(q) + m) : p[k] = Pill <=> k \in (Len(q) + 1)..(Len(q) + m)
    <2> SUFFICES ASSUME NEW k \in 1..(Len(q) + m)
                 PROVE  p[k] = Pill <=> k \in (Len(q) + 1)..(Len(q) + m)
      OBVIOUS
    <2>1. k \in 1..Len(q) <=> k \notin (Len(q) + 1)..(Len(q) + m)
      BY <1>1
    <2> QED BY <1>1, <1>2, <2>1
  <1>4. (Len(q) + 1)..(Len(q) + m) \subseteq 1..(Len(q) + m)
    BY <1>1
  <1>5. PillsIn(p) = (Len(q) + 1)..(Len(q) + m)
    BY <1>1, <1>3, <1>4 DEF PillsIn
  <1>6. Cardinality((Len(q) + 1)..(Len(q) + m)) = m
    BY <1>1, FS_Interval
  <1> QED BY <1>5, <1>6 DEF p, b

\* While the scheduler is up every worker lives.
Pilled == PillsMatchWorkers /\ (phase = "UP" => \A w \in Workers : pc[w] # "off")

LEMMA PilledIs ==
    PillsMatchWorkers <=>
      Cardinality(PillsIn(queue)) = IF phase = "STOPPING" THEN Cardinality(Live) ELSE 0
  BY DEF PillsMatchWorkers, PillsIn, Live

LEMMA LiveFinite == IsFiniteSet(Live) /\ Cardinality(Live) \in Nat
  <1>1. Live \in SUBSET Workers
    BY DEF Live
  <1> QED BY <1>1, FS_Subset, FS_CardinalityType, SchedulerAssumption

LEMMA PilledNext == Typed /\ Pilled /\ [Next]_vars => Pilled'
  <1> SUFFICES ASSUME Typed, Pilled, [Next]_vars PROVE Pilled'
    OBVIOUS
  <1>a. pc \in [Workers -> WorkerStates] /\ queue \in Seq(Jobs)
    BY QueueTyped DEF Typed, TypeOK, WorkTypeOK
  <1>b. Cardinality(PillsIn(queue)) = IF phase = "STOPPING" THEN Cardinality(Live) ELSE 0
    BY PilledIs DEF Pilled
  <1>c. PillsMatchWorkers' <=>
          Cardinality(PillsIn(queue')) = IF phase' = "STOPPING" THEN Cardinality(Live') ELSE 0
    BY DEF PillsMatchWorkers, PillsIn, Live
  <1>d. IsFiniteSet(PillsIn(queue)) /\ IsFiniteSet(Live) /\ Cardinality(Live) \in Nat
    BY <1>a, PillsFinite, LiveFinite
  <1>e. ASSUME Cardinality(PillsIn(queue')) = Cardinality(PillsIn(queue)), phase' = phase,
               \A w \in Workers : pc'[w] = "off" <=> pc[w] = "off"
        PROVE  Pilled'
    <2>1. Live' = Live
      BY <1>e DEF Live
    <2> QED BY <1>b, <1>c, <1>e, <2>1 DEF Pilled
  <1>1. ASSUME NEW r \in Records, SubmitUnroutable(r) \/ Submit(r) PROVE Pilled'
    BY <1>1, <1>a, <1>e, PillsAppend, SchedulerAssumption DEF SubmitUnroutable, Submit, workVars
  <1>2. CASE Start
    <2>1. phase = "DOWN" /\ phase' = "UP" /\ queue' = queue /\ \A w \in Workers : pc'[w] # "off"
      BY <1>2 DEF Start
    <2> QED BY <1>b, <1>c, <2>1 DEF Pilled
  <1>3. CASE Stop
    <2>1. /\ phase = "UP" /\ phase' = "STOPPING" /\ pc' = pc
          /\ queue' = queue \o [k \in 1..Cardinality(Workers) |-> Pill]
      BY <1>3 DEF Stop, workVars
    <2>2. PillsIn(queue) = {}
      BY <1>b, <1>d, <2>1, FS_EmptySet
    <2>3. Live' = Workers
      BY <2>1 DEF Pilled, Live
    <2>4. Cardinality(Workers) \in Nat
      BY FS_CardinalityType, SchedulerAssumption
    <2>5. Cardinality(PillsIn(queue')) = Cardinality(Workers)
      BY <1>a, <2>1, <2>2, <2>4, PillsConcat
    <2> QED BY <1>c, <2>1, <2>3, <2>5 DEF Pilled
  <1>4. CASE StopReturns
    <2>1. /\ phase = "STOPPING" /\ phase' = "DOWN" /\ queue' = queue
          /\ \A w \in Workers : pc[w] = "off"
      BY <1>4 DEF StopReturns
    <2>2. Live = {}
      BY <2>1 DEF Live
    <2>3. Cardinality(Live) = 0
      BY <2>2, FS_EmptySet
    <2> QED BY <1>b, <1>c, <2>1, <2>3 DEF Pilled
  <1>5. CASE Drain \/ DrainTrue \/ DrainTimeout \/ HealthForces \/ Inventory \/ UNCHANGED vars
    BY <1>5, <1>e DEF Drain, DrainTrue, DrainTimeout, HealthForces, Inventory, vars, workVars
  <1>6. ASSUME NEW i \in Ids, TimerFires(i) PROVE Pilled'
    BY <1>6, <1>a, <1>e, PillsAppend DEF TimerFires, workVars
  <1>7. ASSUME NEW w \in Workers, WorkerStep(w) PROVE Pilled'
    <2>1. CASE TakePill(w)
      <3>1. /\ pc[w] = "get" /\ pc' = [pc EXCEPT ![w] = "off"] /\ phase' = phase
            /\ queue # <<>> /\ Head(queue) = Pill /\ queue' = Tail(queue)
        BY <2>1 DEF TakePill
      <3>2. Cardinality(PillsIn(queue')) = Cardinality(PillsIn(queue)) - 1
        BY <1>a, <3>1, PillsTail
      <3>3. PillsIn(queue) # {}
        <4>1. 1 \in DOMAIN queue /\ queue[1] = Pill
          BY <1>a, <3>1
        <4> QED BY <4>1 DEF PillsIn
      <3>4. Cardinality(PillsIn(queue)) # 0
        BY <1>d, <3>3, FS_EmptySet
      <3>5. phase = "STOPPING"
        BY <1>b, <3>4
      <3>6. Live' = Live \ {w} /\ w \in Live
        BY <1>a, <3>1 DEF Live
      <3>7. Cardinality(Live') = Cardinality(Live) - 1
        BY <1>d, <3>6, FS_RemoveElement
      <3> QED BY <1>b, <1>c, <3>1, <3>2, <3>5, <3>7 DEF Pilled
    <2>2. CASE TakeSkip(w) \/ TakeAbandon(w) \/ TakeAcquire(w)
      <3>1. queue # <<>> /\ Head(queue) # Pill /\ queue' = Tail(queue) /\ pc[w] = "get"
        BY <2>2 DEF TakeSkip, TakeAbandon, TakeAcquire, Gets
      <3>2. Cardinality(PillsIn(queue')) = Cardinality(PillsIn(queue))
        BY <1>a, <3>1, PillsTail
      <3>3. phase' = phase /\ \A v \in Workers : pc'[v] = "off" <=> pc[v] = "off"
        BY <1>a, <2>2, <3>1 DEF TakeSkip, TakeAbandon, TakeAcquire, workVars
      <3> QED BY <1>e, <3>2, <3>3
    <2>3. ASSUME pc[w] # "off", queue' = queue, phase' = phase,
                 \E c \in WorkerStates \ {"off"} : pc' = [pc EXCEPT ![w] = c]
          PROVE  Pilled'
      <3>1. \A v \in Workers : pc'[v] = "off" <=> pc[v] = "off"
        BY <1>a, <2>3
      <3> QED BY <1>e, <2>3, <3>1
    <2>4. CASE Lease(w) \/ LeaseWait(w) \/ FailBlamed(w)
      BY <2>3, <2>4 DEF Lease, LeaseWait, FailBlamed, WorkerStates
    <2>5. CASE LeaseTimeoutRetry(w) \/ LeaseTimeoutExhausted(w) \/ Release(w)
      BY <2>3, <2>5 DEF LeaseTimeoutRetry, LeaseTimeoutExhausted, Release, WorkerDone,
         WorkerStates
    <2>6. CASE Succeed(w) \/ Reject(w)
      BY <2>3, <2>6 DEF Succeed, Reject, Finish, WorkerStates
    <2>7. CASE FailBlameless(w) \/ FailOutOfService(w) \/ QuarantineBlamed(w)
      BY <2>3, <2>7 DEF FailBlameless, FailOutOfService, QuarantineBlamed, AfterFailure,
         WorkerStates
    <2> QED BY <1>7, <2>1, <2>2, <2>4, <2>5, <2>6, <2>7 DEF WorkerStep
  <1> QED BY <1>1, <1>2, <1>3, <1>4, <1>5, <1>6, <1>7 DEF Next

\* stop() stops each worker once and leaves no pill behind for the next start().
THEOREM PillsStopEachOnce == Spec => []PillsMatchWorkers
  <1>1. Init => Typed /\ Pilled
    <2> SUFFICES ASSUME Init PROVE Pilled
      BY TypedInit
    <2>1. PillsIn(queue) = {} /\ phase = "DOWN"
      BY DEF Init, PillsIn
    <2> QED BY <2>1, PilledIs, FS_EmptySet DEF Pilled
  <1>2. Typed /\ Pilled /\ [Next]_vars => (Typed /\ Pilled)'
    BY TypedNext, PilledNext
  <1>3. Pilled => PillsMatchWorkers
    BY DEF Pilled
  <1> QED BY <1>1, <1>2, <1>3, PTL DEF Spec

\* stop() is never stuck behind an empty queue: as long as a worker lives there is a
\* pill to end it with.
StopHasPills ==
    phase = "STOPPING" /\ Live # {} => \E n \in DOMAIN queue : queue[n] = Pill

\* While stop() waits for a worker there is a pill in the queue for it to find, however
\* many tasks, retries and lease timeouts are around it: the part of StopEnds that is
\* not fairness (scheduler.py:141-151).
THEOREM StopNeverStarves == Spec => []StopHasPills
  <1>1. PillsMatchWorkers => StopHasPills
    <2> SUFFICES ASSUME PillsMatchWorkers, phase = "STOPPING", Live # {},
                        \A n \in DOMAIN queue : queue[n] # Pill
                 PROVE  FALSE
      BY DEF StopHasPills
    <2>1. PillsIn(queue) = {}
      BY DEF PillsIn
    <2>2. Cardinality(Live) = 0
      BY <2>1, PilledIs, FS_EmptySet
    <2> QED BY <2>2, LiveFinite, FS_EmptySet
  <1> QED BY <1>1, PillsStopEachOnce, PTL

-----------------------------------------------------------------------------
\* The scheduler implements the lifecycle.

Using == [r \in Records |-> IF state[r] = "RUNNING" THEN attemptDev[r] ELSE NoOne]

\* The last attempt of a running task names the device its worker leases, and a task
\* that waits has an attempt left or has made none.
Attempting ==
    /\ \A w \in Workers : pc[w] \in {"run", "mark"} => attemptDev[task[w]] = dev[w]
    /\ \A r \in Records : state[r] \in {"UNSUBMITTED", "PENDING"} =>
         attempts[r] = 0 \/ attempts[r] < MaxAttempts[r]

LEMMA AttemptingInit == Init => Attempting
  BY DEF Init, Attempting

LEMMA AttemptingNext == UniqueIds /\ Typed /\ Work /\ Attempting /\ [Next]_vars => Attempting'
  <1> SUFFICES ASSUME UniqueIds, Typed, Work, Attempting, [Next]_vars PROVE Attempting'
    OBVIOUS
  <1>a. /\ pc \in [Workers -> WorkerStates] /\ task \in [Workers -> Records \cup {NoOne}]
        /\ dev \in [Workers -> Devices \cup {NoOne}] /\ state \in [Records -> RecordStates]
        /\ attempts \in [Records -> Nat] /\ attemptDev \in [Records -> Devices \cup {NoOne}]
    BY DEF Typed, TypeOK, WorkTypeOK, TaskTypeOK
  <1>b. ASSUME UNCHANGED <<attempts, attemptDev>>,
               \A w \in Workers : pc'[w] \in {"run", "mark"} =>
                 pc[w] \in {"run", "mark"} /\ task'[w] = task[w] /\ dev'[w] = dev[w],
               \A r \in Records : state'[r] \in {"UNSUBMITTED", "PENDING"} =>
                 state[r] \in {"UNSUBMITTED", "PENDING"} \/ attempts[r] < MaxAttempts[r]
        PROVE  Attempting'
    BY <1>b DEF Attempting
  <1>1. ASSUME NEW r \in Records, SubmitUnroutable(r) \/ Submit(r) PROVE Attempting'
    BY <1>1, <1>a, <1>b DEF SubmitUnroutable, Submit, workVars
  <1>2. CASE Start
    BY <1>2, <1>b DEF Start, taskVars
  <1>3. CASE Stop \/ StopReturns \/ Drain \/ DrainTrue \/ DrainTimeout \/ HealthForces
             \/ Inventory \/ UNCHANGED vars \/ \E i \in Ids : TimerFires(i)
    BY <1>3, <1>b DEF Stop, StopReturns, Drain, DrainTrue, DrainTimeout, HealthForces,
       Inventory, vars, TimerFires, taskVars, workVars
  <1>4. ASSUME NEW w \in Workers, WorkerStep(w) PROVE Attempting'
    <2>1. CASE TakePill(w) \/ TakeSkip(w) \/ LeaseWait(w) \/ FailBlamed(w) \/ Release(w)
      BY <2>1, <1>a, <1>b DEF TakePill, TakeSkip, LeaseWait, FailBlamed, Release, WorkerDone,
         taskVars, workVars
    <2>2. CASE TakeAbandon(w)
      BY <2>2, <1>a, <1>b DEF TakeAbandon, workVars
    <2>3. CASE TakeAcquire(w)
      <3>1. pc' = [pc EXCEPT ![w] = "acquire"] /\ dev' = dev
            /\ \E r \in Records : task' = [task EXCEPT ![w] = r]
        BY <2>3 DEF TakeAcquire
      <3> QED BY <2>3, <3>1, <1>a, <1>b DEF TakeAcquire, taskVars
    <2>4. CASE Lease(w)
      <3>1. /\ pc[w] \in InFlight \ {"release"}
            /\ task[w] \in Records
            /\ \A v \in Workers \ {w} : ~HeldBy(v, task[w])
        BY <2>4, HoldsAlone DEF Lease, InFlight, Leased
      <3>2. PICK d \in Devices : /\ attemptDev' = [attemptDev EXCEPT ![task[w]] = d]
                                 /\ dev' = [dev EXCEPT ![w] = d]
        BY <2>4 DEF Lease
      <3>3. /\ pc' = [pc EXCEPT ![w] = "run"] /\ task' = task
            /\ state' = [state EXCEPT ![task[w]] = "RUNNING"]
            /\ attempts' = [attempts EXCEPT ![task[w]] = @ + 1]
        BY <2>4 DEF Lease
      <3>4. ASSUME NEW v \in Workers, pc'[v] \in {"run", "mark"}
            PROVE  attemptDev'[task'[v]] = dev'[v]
        <4>1. CASE v = w
          BY <1>a, <3>1, <3>2, <3>3, <4>1
        <4>2. CASE v # w
          <5>1. pc[v] \in {"run", "mark"}
            BY <1>a, <3>3, <3>4, <4>2
          <5>2. task[v] \in Records /\ HeldBy(v, task[v])
            BY <5>1 DEF HeldBy, Typed, WorkersTyped, InFlight, Leased
          <5>3. task[v] # task[w]
            BY <3>1, <4>2, <5>2
          <5> QED BY <1>a, <3>2, <3>3, <4>2, <5>1, <5>2, <5>3 DEF Attempting
        <4> QED BY <4>1, <4>2
      <3>5. ASSUME NEW r \in Records, state'[r] \in {"UNSUBMITTED", "PENDING"}
            PROVE  attempts'[r] = 0 \/ attempts'[r] < MaxAttempts[r]
        <4>1. r # task[w] /\ state'[r] = state[r] /\ attempts'[r] = attempts[r]
          BY <1>a, <3>3, <3>5
        <4> QED BY <3>5, <4>1 DEF Attempting
      <3> QED BY <3>4, <3>5 DEF Attempting
    <2>5. ASSUME NEW r \in Records, Reschedule(r) \/ Exhaust(r)
          PROVE  \A x \in Records : state'[x] \in {"UNSUBMITTED", "PENDING"} =>
                   state[x] \in {"UNSUBMITTED", "PENDING"} \/ attempts[x] < MaxAttempts[x]
      BY <1>a, <2>5 DEF Reschedule, Exhaust
    <2>6. CASE LeaseTimeoutRetry(w) \/ LeaseTimeoutExhausted(w)
      <3>1. task[w] \in Records /\ (Reschedule(task[w]) \/ Exhaust(task[w]))
        BY <2>6 DEF LeaseTimeoutRetry, LeaseTimeoutExhausted, Typed, WorkersTyped, InFlight
      <3> QED BY <1>a, <1>b, <2>5, <2>6, <3>1
              DEF LeaseTimeoutRetry, LeaseTimeoutExhausted, WorkerDone
    <2>7. CASE Succeed(w) \/ Reject(w)
      <3>1. task[w] \in Records
        BY <2>7 DEF Succeed, Reject, Finish, Typed, WorkersTyped, InFlight, Leased
      <3> QED BY <1>a, <1>b, <2>7, <3>1 DEF Succeed, Reject, Finish
    <2>8. CASE FailBlameless(w) \/ FailOutOfService(w) \/ QuarantineBlamed(w)
      <3>1. AfterFailure(w) /\ task[w] \in Records
        BY <2>8 DEF FailBlameless, FailOutOfService, QuarantineBlamed, Typed, WorkersTyped,
           InFlight, Leased
      <3> QED BY <1>a, <1>b, <2>5, <3>1 DEF AfterFailure, Requeue
    <2> QED BY <1>4, <2>1, <2>2, <2>3, <2>4, <2>6, <2>7, <2>8 DEF WorkerStep
  <1> QED BY <1>1, <1>2, <1>3, <1>4 DEF Next

LEMMA LifecycleInit == Init => Lifecycle!Init
  BY DEF Init, Lifecycle!Init

\* Every step of the scheduler is a step of the lifecycle or invisible in it.
LEMMA LifecycleStep ==
    UniqueIds /\ Typed /\ LeasesMatchWorkers /\ Work /\ Attempting /\ [Next]_vars
      => [Lifecycle!Next]_(Lifecycle!vars)
  <1> SUFFICES ASSUME UniqueIds, Typed, LeasesMatchWorkers, Work, Attempting, [Next]_vars
               PROVE  Lifecycle!Next \/ UNCHANGED <<state, attempts, Using>>
    BY DEF Lifecycle!vars, Using
  <1> DEFINE Goal == Lifecycle!Next \/ UNCHANGED <<state, attempts, Using>>
  <1>a. /\ pc \in [Workers -> WorkerStates] /\ state \in [Records -> RecordStates]
        /\ attempts \in [Records -> Nat] /\ attemptDev \in [Records -> Devices \cup {NoOne}]
        /\ dev \in [Workers -> Devices \cup {NoOne}]
    BY DEF Typed, TypeOK, WorkTypeOK, TaskTypeOK
  <1>b. UNCHANGED <<state, attempts, attemptDev>> => UNCHANGED <<state, attempts, Using>>
    BY DEF Using
  <1>c. ASSUME NEW r \in Records, NEW s \in RecordStates \ {"RUNNING"}, state[r] # "RUNNING",
               state' = [state EXCEPT ![r] = s], attemptDev' = attemptDev
        PROVE  Using' = Using
    <2>1. \A x \in Records : state'[x] = "RUNNING" <=> state[x] = "RUNNING"
      BY <1>a, <1>c
    <2> QED BY <1>c, <2>1 DEF Using
  <1>d. ASSUME NEW r \in Records, NEW s \in RecordStates \ {"RUNNING"},
               state' = [state EXCEPT ![r] = s], attemptDev' = attemptDev
        PROVE  Using' = [Using EXCEPT ![r] = NoOne]
    <2>1. state'[r] # "RUNNING" /\ \A x \in Records \ {r} : state'[x] = state[x]
      BY <1>a, <1>d
    <2> QED BY <1>d, <2>1 DEF Using
  <1>1. ASSUME NEW r \in Records, SubmitUnroutable(r) \/ Submit(r) PROVE Goal
    <2>1. PICK s \in {"PENDING", "REJECTED"} : state' = [state EXCEPT ![r] = s]
      BY <1>1 DEF SubmitUnroutable, Submit
    <2>2. state[r] = "UNSUBMITTED" /\ UNCHANGED <<attempts, attemptDev>>
      BY <1>1 DEF SubmitUnroutable, Submit
    <2>3. s \in RecordStates \ {"RUNNING"}
      BY DEF RecordStates, TaskStates, Terminal
    <2>4. Using' = Using
      BY <1>c, <2>1, <2>2, <2>3
    <2>5. Lifecycle!Submit(r)
      BY <2>1, <2>2, <2>4 DEF Lifecycle!Submit, Using
    <2> QED BY <2>5 DEF Lifecycle!Next
  <1>2. CASE Start \/ Stop \/ StopReturns \/ Drain \/ DrainTrue \/ DrainTimeout \/ HealthForces
             \/ Inventory \/ UNCHANGED vars \/ \E i \in Ids : TimerFires(i)
    BY <1>2, <1>b DEF Start, Stop, StopReturns, Drain, DrainTrue, DrainTimeout, HealthForces,
       Inventory, vars, TimerFires, taskVars
  <1>3. ASSUME NEW w \in Workers, WorkerStep(w) PROVE Goal
    <2>1. CASE TakePill(w) \/ TakeSkip(w) \/ TakeAcquire(w) \/ LeaseWait(w) \/ FailBlamed(w)
               \/ Release(w)
      BY <2>1, <1>b DEF TakePill, TakeSkip, TakeAcquire, LeaseWait, FailBlamed, Release, taskVars
    <2>2. CASE TakeAbandon(w)
      <3>1. PICK r \in Records : Gets(w, r) /\ state' = [state EXCEPT ![r] = "ABANDONED"]
        BY <2>2 DEF TakeAbandon
      <3>2. state[r] = "PENDING" /\ UNCHANGED <<attempts, attemptDev>>
        BY <2>2, <3>1, TakesWaiting DEF TakeAbandon
      <3>3. Using' = Using
        BY <1>c, <3>1, <3>2 DEF RecordStates, TaskStates, Terminal
      <3>4. Lifecycle!Abandon(r)
        BY <3>1, <3>2, <3>3 DEF Lifecycle!Abandon, Using
      <3> QED BY <3>4 DEF Lifecycle!Next
    <2>3. CASE Lease(w)
      <3>1. task[w] \in Records /\ state[task[w]] = "PENDING"
        BY <2>3 DEF Lease, Typed, WorkersTyped, InFlight, Work, Holders
      <3>2. PICK d \in Devices : /\ AcquireFree(w, Selector[task[w]], d)
                                 /\ attemptDev' = [attemptDev EXCEPT ![task[w]] = d]
        BY <2>3 DEF Lease
      <3>3. d \in Selector[task[w]] /\ leases[d] = NoOne
        BY <3>2 DEF AcquireFree, FindFree
      <3>4. /\ attempts' = [attempts EXCEPT ![task[w]] = @ + 1]
            /\ state' = [state EXCEPT ![task[w]] = "RUNNING"]
        BY <2>3 DEF Lease
      <3>5. attempts[task[w]] < MaxAttempts[task[w]] \/ attempts[task[w]] = 0
        BY <3>1 DEF Attempting
      <3>6. ASSUME NEW x \in Records, state[x] = "RUNNING" PROVE attemptDev[x] # d
        <4>1. PICK v \in Workers : HeldBy(v, x)
          BY <3>6 DEF Work, Place, Held
        <4>2. pc[v] \in {"run", "mark"} /\ task[v] = x
          BY <3>6, <4>1 DEF HeldBy, InFlight, Leased, Work, Holders
        <4>3. attemptDev[x] = dev[v] /\ dev[v] \in Devices
          BY <4>2 DEF Attempting, Typed, WorkersTyped, Leased
        <4>4. leases[dev[v]] = v
          BY <4>2, <4>3 DEF LeasesMatchWorkers, Leased
        <4> QED BY <3>3, <4>3, <4>4, NoOneAssumption
      <3>7. \A x \in Records : Using[x] # d
        BY <3>6, NoOneAssumption DEF Using
      <3>8. Using' = [Using EXCEPT ![task[w]] = d]
        <4>1. /\ state'[task[w]] = "RUNNING" /\ attemptDev'[task[w]] = d
              /\ \A x \in Records \ {task[w]} :
                   state'[x] = state[x] /\ attemptDev'[x] = attemptDev[x]
          BY <1>a, <3>1, <3>2, <3>4
        <4> QED BY <3>1, <4>1 DEF Using
      <3>9. Lifecycle!Begin(task[w], d)
        BY <3>1, <3>3, <3>4, <3>5, <3>7, <3>8 DEF Lifecycle!Begin, Using
      <3> QED BY <3>1, <3>9 DEF Lifecycle!Next
    <2>4. ASSUME NEW r \in Records, Reschedule(r) \/ Exhaust(r)
          PROVE  \/ attempts[r] < MaxAttempts[r] /\ state' = [state EXCEPT ![r] = "PENDING"]
                 \/ attempts[r] >= MaxAttempts[r] /\ state' = [state EXCEPT ![r] = "FAILED"]
      BY <2>4 DEF Reschedule, Exhaust
    <2>5. CASE LeaseTimeoutRetry(w) \/ LeaseTimeoutExhausted(w)
      <3>1. /\ task[w] \in Records /\ state[task[w]] = "PENDING"
            /\ UNCHANGED <<attempts, attemptDev>>
        BY <2>5 DEF LeaseTimeoutRetry, LeaseTimeoutExhausted, Typed, WorkersTyped, InFlight,
           Work, Holders
      <3>2. \/ state' = state
            \/ /\ attempts[task[w]] >= MaxAttempts[task[w]]
               /\ state' = [state EXCEPT ![task[w]] = "FAILED"]
        BY <1>a, <2>4, <2>5, <3>1 DEF LeaseTimeoutRetry, LeaseTimeoutExhausted
      <3>3. CASE state' = state
        BY <1>b, <3>1, <3>3
      <3>4. CASE /\ attempts[task[w]] >= MaxAttempts[task[w]]
                 /\ state' = [state EXCEPT ![task[w]] = "FAILED"]
        <4>1. Using' = Using
          BY <1>c, <3>1, <3>4 DEF RecordStates, TaskStates, Terminal
        <4>2. Lifecycle!FailUntried(task[w])
          BY <3>1, <3>4, <4>1 DEF Lifecycle!FailUntried, Using
        <4> QED BY <3>1, <4>2 DEF Lifecycle!Next
      <3> QED BY <3>2, <3>3, <3>4
    <2>6. ASSUME task[w] \in Records, pc[w] \in {"run", "mark"},
                 UNCHANGED <<attempts, attemptDev>>,
                 \E s \in {"SUCCEEDED", "REJECTED", "PENDING", "FAILED"} :
                   /\ s = "PENDING" => attempts[task[w]] < MaxAttempts[task[w]]
                   /\ s = "FAILED" => attempts[task[w]] >= MaxAttempts[task[w]]
                   /\ state' = [state EXCEPT ![task[w]] = s]
          PROVE  Goal
      <3>1. state[task[w]] = "RUNNING"
        BY <2>6 DEF Work, Holders
      <3>2. Using' = [Using EXCEPT ![task[w]] = NoOne]
        BY <1>d, <2>6 DEF RecordStates, TaskStates, Terminal
      <3>3. Lifecycle!End(task[w])
        BY <2>6, <3>1, <3>2 DEF Lifecycle!End, Using
      <3>4. task[w] \in Records
        BY <2>6
      <3> QED BY <3>3, <3>4 DEF Lifecycle!Next, Lifecycle!End
    <2>7. CASE Succeed(w) \/ Reject(w)
      <3>1. task[w] \in Records /\ pc[w] \in {"run", "mark"} /\ UNCHANGED <<attempts, attemptDev>>
        BY <2>7 DEF Succeed, Reject, Finish, Typed, WorkersTyped, InFlight, Leased
      <3> QED BY <2>6, <2>7, <3>1 DEF Succeed, Reject, Finish
    <2>8. CASE FailBlameless(w) \/ FailOutOfService(w) \/ QuarantineBlamed(w)
      <3>1. AfterFailure(w) /\ task[w] \in Records /\ pc[w] \in {"run", "mark"}
        BY <2>8 DEF FailBlameless, FailOutOfService, QuarantineBlamed, Typed, WorkersTyped,
           InFlight, Leased
      <3>2. UNCHANGED <<attempts, attemptDev>> /\ (Reschedule(task[w]) \/ Exhaust(task[w]))
        BY <3>1 DEF AfterFailure, Requeue
      <3> QED BY <2>4, <2>6, <3>1, <3>2
    <2> QED BY <1>3, <2>1, <2>2, <2>3, <2>5, <2>7, <2>8 DEF WorkerStep
  <1> QED BY <1>1, <1>2, <1>3 DEF Next

\* The scheduler implements the lifecycle the task contract promises: with unique ids
\* a task runs on one device at a time and a device runs one task, an attempt starts
\* only while one is left, and an end is final.
THEOREM SchedulerImplementsLifecycle == UniqueIds => (Spec => ImplementsLifecycle)
  <1> SUFFICES ASSUME UniqueIds PROVE Spec => ImplementsLifecycle
    OBVIOUS
  <1> DEFINE All == Typed /\ LeasesMatchWorkers /\ Work /\ Attempting
  <1>1. Init => All
    BY TypedInit, WorkInit, AttemptingInit, NoOneAssumption
       DEF Init, RegistryInit, LeasesMatchWorkers, Leased
  <1>2. All /\ [Next]_vars => All'
    BY TypedNext, LeasesNext, WorkNext, AttemptingNext
  <1>3. All /\ [Next]_vars => [Lifecycle!Next]_(Lifecycle!vars)
    BY LifecycleStep
  <1>4. Init => Lifecycle!Init
    BY LifecycleInit
  <1> HIDE DEF All
  <1> QED BY <1>1, <1>2, <1>3, <1>4, PTL DEF Spec, ImplementsLifecycle, Lifecycle!Spec

-----------------------------------------------------------------------------
\* What the lifecycle comes to.

\* The lifecycle alone keeps its promises: one device a task, one task a device, an
\* attempt only while one is left.
LEMMA LifecyclePromises == Lifecycle!Spec => []Lifecycle!Promises
  <1> DEFINE Shape == /\ state \in [Records -> RecordStates]
                      /\ attempts \in [Records -> Nat]
                      /\ Using \in [Records -> Devices \cup {NoOne}]
             Kept == Shape /\ Lifecycle!Promises
  <1>1. Lifecycle!Init => Kept
    <2> SUFFICES ASSUME Lifecycle!Init PROVE Kept
      OBVIOUS
    <2>1. /\ state = [r \in Records |-> "UNSUBMITTED"]
          /\ attempts = [r \in Records |-> 0]
          /\ Using = [r \in Records |-> NoOne]
      BY DEF Lifecycle!Init, Using
    <2>2. Shape
      BY <2>1 DEF RecordStates
    <2> QED BY <2>1, <2>2, SchedulerAssumption DEF Lifecycle!Promises, Using
  <1>2. Kept /\ [Lifecycle!Next]_(Lifecycle!vars) => Kept'
    <2> SUFFICES ASSUME Shape, Lifecycle!Promises, Lifecycle!Next PROVE Kept'
      BY DEF Lifecycle!vars, Lifecycle!Promises, Using
    <2>1. PICK r \in Records :
            \/ Lifecycle!Submit(r) \/ Lifecycle!Abandon(r) \/ Lifecycle!End(r)
            \/ Lifecycle!FailUntried(r) \/ \E d \in Devices : Lifecycle!Begin(r, d)
      BY DEF Lifecycle!Next
    <2>2. /\ Selector[r] \subseteq Devices /\ MaxAttempts[r] \in Nat
          /\ \A x \in Records : Using[x] # NoOne =>
               Using[x] \in Selector[x] /\ \A y \in Records \ {x} : Using[y] # Using[x]
          /\ \A x \in Records : state[x] = "RUNNING" <=> Using[x] # NoOne
      BY SchedulerAssumption DEF Lifecycle!Promises, Using
    <2>3. ASSUME NEW c \in RecordStates, state' = [state EXCEPT ![r] = c],
                 c # "RUNNING", Using' = [Using EXCEPT ![r] = NoOne], attempts' = attempts,
                 c = "FAILED" => attempts[r] >= MaxAttempts[r],
                 c = "SUCCEEDED" => state[r] = "RUNNING"
          PROVE  Kept'
      <3>1. Shape'
        BY <2>3
      <3>2. ASSUME NEW x \in Records
            PROVE  /\ state'[x] = "RUNNING" <=> Using'[x] # NoOne
                   /\ Using'[x] # NoOne =>
                        Using'[x] \in Selector[x] /\ \A y \in Records \ {x} : Using'[y] # Using'[x]
        BY <2>2, <2>3
      <3>3. ASSUME NEW x \in Records
            PROVE  /\ attempts[x] <= MaxAttempts[x] \/ attempts[x] = 1
                   /\ state'[x] = "FAILED" => attempts[x] >= MaxAttempts[x]
                   /\ state'[x] \in {"RUNNING", "SUCCEEDED"} => attempts[x] > 0
        <4>1. /\ attempts[x] <= MaxAttempts[x] \/ attempts[x] = 1
              /\ state[x] = "FAILED" => attempts[x] >= MaxAttempts[x]
              /\ state[x] \in {"RUNNING", "SUCCEEDED"} => attempts[x] > 0
          BY DEF Lifecycle!Promises
        <4> QED BY <2>3, <4>1
      <3> QED BY <2>3, <3>1, <3>2, <3>3 DEF Lifecycle!Promises, Using
    <2>4. CASE Lifecycle!Submit(r) \/ Lifecycle!Abandon(r) \/ Lifecycle!FailUntried(r)
      <3>1. PICK c \in {"PENDING", "REJECTED", "ABANDONED", "FAILED"} :
              /\ state' = [state EXCEPT ![r] = c]
              /\ c = "FAILED" => attempts[r] >= MaxAttempts[r]
        BY <2>4 DEF Lifecycle!Submit, Lifecycle!Abandon, Lifecycle!FailUntried
      <3>2. state[r] # "RUNNING" /\ Using' = Using /\ attempts' = attempts
        BY <2>4 DEF Lifecycle!Submit, Lifecycle!Abandon, Lifecycle!FailUntried, Using
      <3>3. Using' = [Using EXCEPT ![r] = NoOne]
        BY <2>2, <3>2
      <3> QED BY <2>3, <3>1, <3>2, <3>3 DEF RecordStates, TaskStates, Terminal
    <2>5. CASE Lifecycle!End(r)
      <3>1. PICK c \in {"SUCCEEDED", "REJECTED", "PENDING", "FAILED"} :
              /\ state' = [state EXCEPT ![r] = c]
              /\ c = "FAILED" => attempts[r] >= MaxAttempts[r]
        BY <2>5 DEF Lifecycle!End
      <3>2. /\ state[r] = "RUNNING" /\ attempts' = attempts
            /\ Using' = [Using EXCEPT ![r] = NoOne]
        BY <2>5 DEF Lifecycle!End, Using
      <3> QED BY <2>3, <3>1, <3>2 DEF RecordStates, TaskStates, Terminal
    <2>6. ASSUME NEW d \in Devices, Lifecycle!Begin(r, d) PROVE Kept'
      <3>1. /\ d \in Selector[r] /\ \A x \in Records : Using[x] # d
            /\ attempts[r] < MaxAttempts[r] \/ attempts[r] = 0
            /\ state' = [state EXCEPT ![r] = "RUNNING"]
            /\ attempts' = [attempts EXCEPT ![r] = @ + 1]
            /\ Using' = [Using EXCEPT ![r] = d]
        BY <2>6 DEF Lifecycle!Begin, Using
      <3>2. Shape'
        BY <3>1 DEF RecordStates, TaskStates
      <3>3. ASSUME NEW x \in Records
            PROVE  /\ state'[x] = "RUNNING" <=> Using'[x] # NoOne
                   /\ Using'[x] # NoOne =>
                        Using'[x] \in Selector[x] /\ \A y \in Records \ {x} : Using'[y] # Using'[x]
        BY <2>2, <3>1, NoOneAssumption
      <3>4. ASSUME NEW x \in Records
            PROVE  /\ attempts'[x] <= MaxAttempts[x] \/ attempts'[x] = 1
                   /\ state'[x] = "FAILED" => attempts'[x] >= MaxAttempts[x]
                   /\ state'[x] \in {"RUNNING", "SUCCEEDED"} => attempts'[x] > 0
        <4>1. /\ attempts[x] <= MaxAttempts[x] \/ attempts[x] = 1
              /\ state[x] = "FAILED" => attempts[x] >= MaxAttempts[x]
              /\ state[x] \in {"RUNNING", "SUCCEEDED"} => attempts[x] > 0
              /\ attempts[x] \in Nat /\ MaxAttempts[x] \in Nat
          BY SchedulerAssumption DEF Lifecycle!Promises
        <4>2. CASE x = r
          <5>1. attempts'[r] = attempts[r] + 1 /\ state'[r] = "RUNNING"
            BY <3>1
          <5> QED BY <3>1, <4>1, <4>2, <5>1
        <4>3. CASE x # r
          BY <3>1, <4>1, <4>3
        <4> QED BY <4>2, <4>3
      <3> QED BY <3>2, <3>3, <3>4 DEF Lifecycle!Promises, Using
    <2> QED BY <2>1, <2>4, <2>5, <2>6
  <1>3. Kept => Lifecycle!Promises
    OBVIOUS
  <1> HIDE DEF Kept
  <1> QED BY <1>1, <1>2, <1>3, PTL DEF Lifecycle!Spec

\* So the scheduler keeps them: whatever happens to its workers, leases and timers, a
\* submitted task never runs twice at a time, nor on a device it did not ask for or
\* another task is on, gets no attempt too many, and is not given up too early.
THEOREM TasksGetWhatIsPromised == UniqueIds => (Spec => []Lifecycle!Promises)
  BY SchedulerImplementsLifecycle, LifecyclePromises, PTL DEF ImplementsLifecycle
=============================================================================
