----------------------------- MODULE HealthMonitor -----------------------------
(***************************************************************************)
(* The health monitor of src/core/health.py over the device registry: a    *)
(* loop that refreshes the inventory and probes every device in a sweep,   *)
(* callers that quarantine a device they blame, and a background recovery  *)
(* episode per quarantined device that reconnects, probes, restores the    *)
(* device, gives up for a while, or retires it.                            *)
(*                                                                         *)
(* The callers are the scheduler's workers, reduced to what the monitor    *)
(* sees of them: they lease a device, may blame it, and release it.        *)
(*                                                                         *)
(* A coroutine is suspended in an adb call, a sleep, or on the lock of the *)
(* registry's condition; the steps between are atomic.  The lock is held   *)
(* across a suspension by asyncio.wait_for() around Condition.wait() in    *)
(* CPython up to 3.11, the version of the Docker image, so set_state() may *)
(* have to wait for it between a decision and its effect.                  *)
(***************************************************************************)
EXTENDS DeviceRegistry, FiniteSets

CONSTANTS FailuresToQuarantine,   \* HealthPolicy.failures_to_quarantine
          RecoveryAttempts,       \* HealthPolicy.recovery_attempts
          RetireAfter,            \* HealthPolicy.retire_after_recoveries
          Ordered,                \* the event loop's order of resumption is kept
          MaxEpisodes,            \* bound: recovery tasks that exist at a time
          MaxFlips,               \* bound: how often devices break or come back
          MaxStarts               \* bound: calls of start()

ASSUME HealthAssumption ==
    /\ FailuresToQuarantine \in Nat \ {0}
    /\ RecoveryAttempts \in Nat \ {0}
    /\ RetireAfter \in Nat \ {0}
    /\ Ordered \in BOOLEAN
    /\ MaxEpisodes \in Nat \ {0}
    /\ MaxFlips \in Nat /\ MaxStarts \in Nat

Episodes == 1..MaxEpisodes    \* the recovery tasks; a number is used again
NoEpisode == 0

VARIABLES
  virtual,     \* Device.transport is not in ADB_TRANSPORTS
  answers,     \* ground truth: an adb round trip to the device comes back
  phase,       \* DOWN, UP, or STOPPING while stop() awaits what it cancelled
  loop,        \* where _loop() is: off, poll, sweep or sleep
  check,       \* where _check_one() of the current sweep is, per device
  failures,    \* DeviceHealth.consecutive_failures, up to the threshold
  recent,      \* len(recovery_times) in the window, up to RetireAfter
  recoveries,  \* Device.recoveries, the lifetime count, up to RetireAfter
  backoff,     \* time.monotonic() < DeviceHealth.next_recovery_at
  episode,     \* the _attempt_recovery() coroutines
  registered,  \* HealthMonitor._recoveries
  cancelling,  \* the episodes stop() has yet to cancel and await
  caller,      \* where each worker is: out, run, mark or release
  event,       \* the last event the monitor published for a device
  before,      \* who must resume before whom, of those who are suspended
  flips, starts

countVars == <<failures, recent, recoveries, backoff>>
episodeVars == <<episode, registered>>
loopVars == <<phase, loop, check>>
boundVars == <<flips, starts>>
vars == <<registryVars, virtual, answers, loopVars, countVars, episodeVars,
          cancelling, caller, event, before, boundVars>>

\* ready: gather() made its task.  probe: in the adb ping.  restore, mark:
\* waiting for the registry's lock in set_state().
CheckStates == {"none", "ready", "probe", "restore", "mark"}

\* done: the coroutine returned and its done callback is yet to run.
EpisodeStates == {"free", "created", "reconnect", "probe", "sleep",
                  "restore", "retire", "done"}
Running == EpisodeStates \ {"free", "done"}
EpisodeRecords == [dev : Devices \cup {NoOne}, pc : EpisodeStates, attempt : 1..RecoveryAttempts]
FreeEpisode == [dev |-> NoOne, pc |-> "free", attempt |-> 1]

\* In the event loop's ready queue: tasks to start and callbacks to run.
Ready ==
    {<<"check", d, check[d]>> : d \in {d \in Devices : check[d] = "ready"}}
    \cup {<<"episode", e, episode[e].pc>> : e \in
            {e \in Episodes : episode[e].pc \in {"created", "done"}}}

\* Waiting for I/O or a timer.
Slow ==
    {<<"caller", w, caller[w]>> : w \in {w \in Workers : caller[w] = "run"}}
    \cup {<<"check", d, check[d]>> : d \in {d \in Devices : check[d] = "probe"}}
    \cup {<<"episode", e, episode[e].pc>> : e \in
            {e \in Episodes : episode[e].pc \in {"reconnect", "probe", "sleep"}}}
    \cup {<<"loop", NoOne, loop>> : l \in {l \in {loop} : l \in {"poll", "sleep"}}}
    \cup {<<"backoff", d, "on">> : d \in {d \in Devices : backoff[d]}}

\* Waiting for the registry's lock in set_state().
Lockers ==
    {<<"check", d, check[d]>> : d \in {d \in Devices : check[d] \in {"restore", "mark"}}}
    \cup {<<"episode", e, episode[e].pc>> : e \in
            {e \in Episodes : episode[e].pc \in {"restore", "retire"}}}
    \cup {<<"caller", w, caller[w]>> : w \in {w \in Workers : caller[w] = "mark"}}

Suspended == Ready \cup Slow \cup Lockers

LoopTypeOK ==
    /\ phase \in {"DOWN", "UP", "STOPPING"}
    /\ loop \in {"off", "poll", "sweep", "sleep"}
    /\ check \in [Devices -> CheckStates]

CountTypeOK ==
    /\ failures \in [Devices -> 0..FailuresToQuarantine]
    /\ recent \in [Devices -> 0..RetireAfter]
    /\ recoveries \in [Devices -> 0..RetireAfter]
    /\ backoff \in [Devices -> BOOLEAN]

EpisodeTypeOK ==
    /\ episode \in [Episodes -> EpisodeRecords]
    /\ registered \in [Devices -> Episodes \cup {NoEpisode}]
    /\ cancelling \subseteq Episodes

OutsideTypeOK ==
    /\ virtual \in [Devices -> BOOLEAN] /\ answers \in [Devices -> BOOLEAN]
    /\ caller \in [Workers -> {"out", "run", "mark", "release"}]
    /\ event \in [Devices -> {"none", "quarantined", "failed", "restored", "retired"}]
    /\ flips \in 0..MaxFlips /\ starts \in 0..MaxStarts

OrderTypeOK ==
    /\ before \subseteq Suspended \X Suspended
    /\ ~Ordered => before = {}

TypeOK == RegistryTypeOK /\ LoopTypeOK /\ CountTypeOK /\ EpisodeTypeOK
            /\ OutsideTypeOK /\ OrderTypeOK

Init ==
    /\ RegistryInit
    /\ virtual \in [Devices -> BOOLEAN]
    /\ answers \in [Devices -> BOOLEAN]
    /\ phase = "DOWN" /\ loop = "off"
    /\ check = [d \in Devices |-> "none"]
    /\ failures = [d \in Devices |-> 0]
    /\ recent = [d \in Devices |-> 0]
    /\ recoveries = [d \in Devices |-> 0]
    /\ backoff = [d \in Devices |-> FALSE]
    /\ episode = [e \in Episodes |-> FreeEpisode]
    /\ registered = [d \in Devices |-> NoEpisode]
    /\ cancelling = {}
    /\ caller = [w \in Workers |-> "out"]
    /\ event = [d \in Devices |-> "none"]
    /\ before = {}
    /\ flips = 0 /\ starts = 0

-----------------------------------------------------------------------------
\* What several coroutines do.

\* The order of the event loop, when Ordered.  Its ready queue is first in, first
\* out, so what begins to wait behind a ready task or callback does not resume
\* before it has run.  asyncio.Lock is first come, first served, and handed over
\* before any I/O begun meanwhile ends.  Without Ordered anything may resume.
InOrder ==
    LET now == Suspended
        next == Suspended'
        behind == (Ready \X (Ready' \ now)) \cup ((Ready \cup Ready') \X (Slow' \ now))
        later == Lockers \X ((Lockers \cup Slow)' \ now)
    IN IF Ordered
       THEN /\ phase' = "UP" => \A p \in before : p[2] \in next
            /\ before' = {p \in before \cup behind \cup later : p[1] \in next /\ p[2] \in next}
       ELSE UNCHANGED before

UpTo(bound, n) == IF n > bound THEN bound ELSE n

\* A poll: browser slots are always listed as usable, phones as adb likes.
Poll == \E seen \in SUBSET Devices : \E up \in SUBSET seen :
            LET slots == {d \in Devices : virtual[d]}
            IN Refresh(seen \cup slots, up \cup slots)

\* An adb round trip.  One beside a task on the device may fail for no reason
\* (health.py:181-183).
Pings(d) == answers[d]
PingFails(d) == ~answers[d] \/ leases[d] # NoOne

\* set_state() and the event behind it: nothing suspends between them.
Transition(d, s, kind) ==
    /\ SetState(d, s)
    /\ event' = [event EXCEPT ![d] = kind]

\* _restore() up to its set_state(): the backoff is forgotten at once.
BeginRestore(d) == backoff' = [backoff EXCEPT ![d] = FALSE]

\* _spawn_recovery(): nothing while the registered episode runs or the backoff
\* lasts, else a new task.
Spawn(d) ==
    IF backoff[d] \/ (registered[d] # NoEpisode /\ episode[registered[d]].pc # "done")
    THEN UNCHANGED episodeVars
    ELSE \E e \in Episodes :
           /\ episode[e].pc = "free"
           /\ \A f \in Episodes : f < e => episode[f].pc # "free"
           /\ episode' = [episode EXCEPT ![e] = [dev |-> d, pc |-> "created", attempt |-> 1]]
           /\ registered' = [registered EXCEPT ![d] = e]

\* quarantine(), the lock held: marked, announced, and a recovery spawned.
Quarantine(d) == Transition(d, "QUARANTINED", "quarantined") /\ Spawn(d)

-----------------------------------------------------------------------------
\* The loop and its sweeps.

\* Orchestrator.start(): a refresh, then start() creates the loop.
Start ==
    /\ phase = "DOWN" /\ starts < MaxStarts
    /\ Poll
    /\ phase' = "UP" /\ loop' = "poll"
    /\ starts' = starts + 1
    /\ UNCHANGED <<virtual, answers, check, countVars, episodeVars, cancelling,
                   caller, event, flips>>
    /\ InOrder

\* Mutant: the sweep looks at the devices in service only.
SweptOnline == {"ONLINE"}

\* The states whose devices a sweep checks.
Swept == {"ONLINE", "QUARANTINED"}

\* refresh() returns and _sweep() gathers a check for every device in service or
\* in quarantine.
LoopSweeps ==
    /\ loop = "poll"
    /\ Poll
    /\ check' = [d \in Devices |-> IF devState'[d] \in Swept THEN "ready" ELSE "none"]
    /\ loop' = "sweep"
    /\ UNCHANGED <<virtual, answers, phase, countVars, episodeVars, cancelling,
                   caller, event, boundVars>>
    /\ InOrder

\* The poll raises: logged, and the loop goes to sleep.
LoopPollFails ==
    /\ loop = "poll"
    /\ loop' = "sleep"
    /\ UNCHANGED <<registryVars, virtual, answers, phase, check, countVars,
                   episodeVars, cancelling, caller, event, boundVars>>
    /\ InOrder

\* Every check returned; the loop waits out the interval and starts over.
LoopSleeps ==
    /\ loop = "sweep" /\ \A d \in Devices : check[d] = "none"
    /\ loop' = "sleep"
    /\ UNCHANGED <<registryVars, virtual, answers, phase, check, countVars,
                   episodeVars, cancelling, caller, event, boundVars>>
    /\ InOrder

LoopWakes ==
    /\ loop = "sleep"
    /\ loop' = "poll"
    /\ UNCHANGED <<registryVars, virtual, answers, phase, check, countVars,
                   episodeVars, cancelling, caller, event, boundVars>>
    /\ InOrder

\* _check_one(), the probe answered.
Healthy(d) ==
    /\ failures' = [failures EXCEPT ![d] = 0]
    /\ IF devState[d] = "QUARANTINED"
       THEN BeginRestore(d) /\ check' = [check EXCEPT ![d] = "restore"]
       ELSE UNCHANGED backoff /\ check' = [check EXCEPT ![d] = "none"]
    /\ UNCHANGED <<recent, recoveries, episodeVars>>

\* _check_one(), the probe failed: counted, and a device in service is marked at
\* the threshold, one in quarantine gets a recovery.
Sick(d) ==
    /\ failures' = [failures EXCEPT ![d] = UpTo(FailuresToQuarantine, @ + 1)]
    /\ IF devState[d] = "ONLINE" /\ failures'[d] = FailuresToQuarantine
       THEN check' = [check EXCEPT ![d] = "mark"]
       ELSE check' = [check EXCEPT ![d] = "none"]
    /\ IF devState[d] = "QUARANTINED" THEN Spawn(d) ELSE UNCHANGED episodeVars
    /\ UNCHANGED <<recent, recoveries, backoff>>

\* _run_probe() has no opinion on a device adb cannot reach.
NoOpinion(d) == virtual[d]

\* _check_one() begins: a leased device is left alone, a virtual slot is healthy
\* by definition, any other is pinged.
CheckBegins(d) ==
    /\ check[d] = "ready"
    /\ CASE leases[d] # NoOne -> check' = [check EXCEPT ![d] = "none"]
                                 /\ UNCHANGED <<countVars, episodeVars>>
         [] leases[d] = NoOne /\ NoOpinion(d) -> Healthy(d)
         [] OTHER -> check' = [check EXCEPT ![d] = "probe"]
                     /\ UNCHANGED <<countVars, episodeVars>>
    /\ UNCHANGED <<registryVars, virtual, answers, phase, loop, cancelling,
                   caller, event, boundVars>>
    /\ InOrder

\* The ping comes back, or does not in time.
CheckPinged(d) ==
    /\ check[d] = "probe"
    /\ (Pings(d) /\ Healthy(d)) \/ (PingFails(d) /\ Sick(d))
    /\ UNCHANGED <<registryVars, virtual, answers, phase, loop, cancelling,
                   caller, event, boundVars>>
    /\ InOrder

CheckRestores(d) ==
    /\ check[d] = "restore"
    /\ Transition(d, "ONLINE", "restored")
    /\ check' = [check EXCEPT ![d] = "none"]
    /\ UNCHANGED <<virtual, answers, phase, loop, countVars, episodeVars,
                   cancelling, caller, boundVars>>
    /\ InOrder

CheckMarks(d) ==
    /\ check[d] = "mark"
    /\ Quarantine(d)
    /\ check' = [check EXCEPT ![d] = "none"]
    /\ UNCHANGED <<virtual, answers, phase, loop, countVars, cancelling, caller,
                   boundVars>>
    /\ InOrder

-----------------------------------------------------------------------------
\* A recovery episode: _attempt_recovery() on episode[e].dev.

\* Once it has left the attempt loop its count says nothing and is reset.
Goto(e, pc) ==
    episode' = [episode EXCEPT ![e] = [dev |-> @.dev, pc |-> pc,
        attempt |-> IF pc \in {"restore", "retire", "done"} THEN 1 ELSE @.attempt]]

\* The top of the attempt loop: an episode whose device is not in quarantine any
\* more has nothing to say.
Attempt(e, n) ==
    IF devState[episode[e].dev] = "QUARANTINED"
    THEN episode' = [episode EXCEPT ![e].attempt = n, ![e].pc = "reconnect"]
    ELSE Goto(e, "done")

EpisodeBegins(e) ==
    LET d == episode[e].dev IN
    /\ episode[e].pc = "created"
    /\ CASE recent[d] = RetireAfter -> Goto(e, "retire") /\ UNCHANGED backoff
         [] recent[d] # RetireAfter /\ virtual[d] -> Goto(e, "restore") /\ BeginRestore(d)
         [] OTHER -> Attempt(e, 1) /\ UNCHANGED backoff
    /\ UNCHANGED <<registryVars, virtual, answers, loopVars, failures, recent,
                   recoveries, registered, cancelling, caller, event, boundVars>>
    /\ InOrder

\* Mutant: the verdict is published whatever became of the device.
AttemptFailsLoudly(e) ==
    LET d == episode[e].dev IN
    IF episode[e].attempt < RecoveryAttempts
    THEN Goto(e, "sleep") /\ UNCHANGED <<backoff, event>>
    ELSE /\ Goto(e, "done")
         /\ backoff' = [backoff EXCEPT ![d] = TRUE]
         /\ event' = [event EXCEPT ![d] = "failed"]

\* Mutant: one attempt too many.
AttemptFailsOnceMore(e) ==
    LET d == episode[e].dev IN
    IF episode[e].attempt <= RecoveryAttempts
    THEN Goto(e, "sleep") /\ UNCHANGED <<backoff, event>>
    ELSE /\ Goto(e, "done")
         /\ backoff' = [backoff EXCEPT ![d] = TRUE]
         /\ UNCHANGED event

\* An attempt failed: sleep before the next one; after the last the episode backs
\* off and says so, if the device is still in quarantine.
AttemptFails(e) ==
    LET d == episode[e].dev IN
    IF episode[e].attempt < RecoveryAttempts
    THEN Goto(e, "sleep") /\ UNCHANGED <<backoff, event>>
    ELSE /\ Goto(e, "done")
         /\ IF devState[d] = "QUARANTINED"
            THEN /\ backoff' = [backoff EXCEPT ![d] = TRUE]
                 /\ event' = [event EXCEPT ![d] = "failed"]
            ELSE UNCHANGED <<backoff, event>>

\* adb reconnect: it may fail on a good device and succeed on a wedged one.
EpisodeReconnects(e) ==
    /\ episode[e].pc = "reconnect"
    /\ \/ Goto(e, "probe") /\ UNCHANGED <<backoff, event>>
       \/ AttemptFails(e)
    /\ UNCHANGED <<registryVars, virtual, answers, loopVars, failures, recent,
                   recoveries, registered, cancelling, caller, boundVars>>
    /\ InOrder

\* Mutant: a recovery is counted before the probe says that it is one.
EpisodePingedCountingAll(e) ==
    LET d == episode[e].dev IN
    /\ episode[e].pc = "probe"
    /\ recent' = [recent EXCEPT ![d] = UpTo(RetireAfter, @ + 1)]
    /\ \/ /\ Pings(d)
          /\ recoveries' = [recoveries EXCEPT ![d] = UpTo(RetireAfter, @ + 1)]
          /\ failures' = [failures EXCEPT ![d] = 0]
          /\ BeginRestore(d)
          /\ Goto(e, "restore")
          /\ UNCHANGED event
       \/ /\ PingFails(d)
          /\ AttemptFails(e)
          /\ UNCHANGED <<failures, recoveries>>
    /\ UNCHANGED <<registryVars, virtual, answers, loopVars, registered,
                   cancelling, caller, boundVars>>
    /\ InOrder

\* The probe behind a reconnect.  A success counts as a recovery and is restored
\* without another look at the device's state.
EpisodePinged(e) ==
    LET d == episode[e].dev IN
    /\ episode[e].pc = "probe"
    /\ \/ /\ Pings(d)
          /\ recent' = [recent EXCEPT ![d] = UpTo(RetireAfter, @ + 1)]
          /\ recoveries' = [recoveries EXCEPT ![d] = UpTo(RetireAfter, @ + 1)]
          /\ failures' = [failures EXCEPT ![d] = 0]
          /\ BeginRestore(d)
          /\ Goto(e, "restore")
          /\ UNCHANGED event
       \/ /\ PingFails(d)
          /\ AttemptFails(e)
          /\ UNCHANGED <<failures, recent, recoveries>>
    /\ UNCHANGED <<registryVars, virtual, answers, loopVars, registered,
                   cancelling, caller, boundVars>>
    /\ InOrder

\* Mutant: the attempt is not counted.
EpisodeWakesUncounted(e) ==
    /\ episode[e].pc = "sleep"
    /\ Attempt(e, episode[e].attempt)
    /\ UNCHANGED <<registryVars, virtual, answers, loopVars, countVars,
                   registered, cancelling, caller, event, boundVars>>
    /\ InOrder

EpisodeWakes(e) ==
    /\ episode[e].pc = "sleep"
    /\ Attempt(e, episode[e].attempt + 1)
    /\ UNCHANGED <<registryVars, virtual, answers, loopVars, countVars,
                   registered, cancelling, caller, event, boundVars>>
    /\ InOrder

EpisodeRestores(e) ==
    /\ episode[e].pc = "restore"
    /\ Transition(episode[e].dev, "ONLINE", "restored")
    /\ Goto(e, "done")
    /\ UNCHANGED <<virtual, answers, loopVars, countVars, registered, cancelling,
                   caller, boundVars>>
    /\ InOrder

EpisodeRetires(e) ==
    /\ episode[e].pc = "retire"
    /\ Transition(episode[e].dev, "RETIRED", "retired")
    /\ Goto(e, "done")
    /\ UNCHANGED <<virtual, answers, loopVars, countVars, registered, cancelling,
                   caller, boundVars>>
    /\ InOrder

\* Mutant: the callback leaves the table alone.
EpisodeForgotten(e) ==
    /\ episode[e].pc = "done"
    /\ episode' = [episode EXCEPT ![e] = FreeEpisode]
    /\ UNCHANGED <<registryVars, virtual, answers, loopVars, countVars,
                   registered, cancelling, caller, event, boundVars>>
    /\ InOrder

\* The done callback: whichever episode is registered for the device goes.
EpisodeCallback(e) ==
    /\ episode[e].pc = "done"
    /\ registered' = [registered EXCEPT ![episode[e].dev] = NoEpisode]
    /\ episode' = [episode EXCEPT ![e] = FreeEpisode]
    /\ UNCHANGED <<registryVars, virtual, answers, loopVars, countVars,
                   cancelling, caller, event, boundVars>>
    /\ InOrder

-----------------------------------------------------------------------------
\* stop().

\* Mutant: the loop is cancelled and the checks it gathered are not.
StopLoopOnly ==
    /\ phase = "UP" /\ \A w \in Workers : caller[w] = "out"
    /\ phase' = "STOPPING" /\ loop' = "off"
    /\ cancelling' = {registered[d] : d \in Devices} \ {NoEpisode}
    /\ UNCHANGED <<registryVars, virtual, answers, check, countVars, episodeVars,
                   caller, event, boundVars>>
    /\ InOrder

\* The loop is cancelled, with the checks it gathered; the episodes to cancel are
\* the ones registered now.  Orchestrator.stop() has stopped the workers before.
Stop ==
    /\ phase = "UP" /\ \A w \in Workers : caller[w] = "out"
    /\ phase' = "STOPPING" /\ loop' = "off"
    /\ check' = [d \in Devices |-> "none"]
    /\ cancelling' = {registered[d] : d \in Devices} \ {NoEpisode}
    /\ UNCHANGED <<registryVars, virtual, answers, countVars, episodeVars,
                   caller, event, boundVars>>
    /\ InOrder

StopCancels(e) ==
    /\ e \in cancelling
    /\ cancelling' = cancelling \ {e}
    /\ IF episode[e].pc \in Running THEN Goto(e, "done") ELSE UNCHANGED episode
    /\ UNCHANGED <<registryVars, virtual, answers, loopVars, countVars,
                   registered, caller, event, boundVars>>
    /\ InOrder

StopReturns ==
    /\ phase = "STOPPING" /\ cancelling = {}
    /\ phase' = "DOWN"
    /\ registered' = [d \in Devices |-> NoEpisode]
    /\ UNCHANGED <<registryVars, virtual, answers, loop, check, countVars,
                   episode, cancelling, caller, event, boundVars>>
    /\ InOrder

-----------------------------------------------------------------------------
\* The environment: workers, devices, the clock, and refreshes by the API.

CallerLeases(w, d) ==
    /\ phase = "UP" /\ caller[w] = "out"
    /\ AcquireFree(w, Devices, d)
    /\ caller' = [caller EXCEPT ![w] = "run"]
    /\ UNCHANGED <<virtual, answers, loopVars, countVars, episodeVars,
                   cancelling, event, boundVars>>
    /\ InOrder

\* _after_failure(): a blamed device that is in service is quarantined.
CallerBlames(w, d) ==
    /\ caller[w] = "run" /\ leases[d] = w /\ devState[d] = "ONLINE"
    /\ caller' = [caller EXCEPT ![w] = "mark"]
    /\ UNCHANGED <<registryVars, virtual, answers, loopVars, countVars,
                   episodeVars, cancelling, event, boundVars>>
    /\ InOrder

CallerMarks(w, d) ==
    /\ caller[w] = "mark" /\ leases[d] = w
    /\ Quarantine(d)
    /\ caller' = [caller EXCEPT ![w] = "release"]
    /\ UNCHANGED <<virtual, answers, loopVars, countVars, cancelling, boundVars>>
    /\ InOrder

CallerReleases(w, d) ==
    /\ caller[w] \in {"run", "release"} /\ leases[d] = w
    /\ ReleaseLease(w, d)
    /\ caller' = [caller EXCEPT ![w] = "out"]
    /\ UNCHANGED <<virtual, answers, loopVars, countVars, episodeVars,
                   cancelling, event, boundVars>>
    /\ InOrder

DeviceFlips(d) ==
    /\ flips < MaxFlips /\ ~virtual[d]
    /\ answers' = [answers EXCEPT ![d] = ~@]
    /\ flips' = flips + 1
    /\ UNCHANGED <<registryVars, virtual, loopVars, countVars, episodeVars,
                   cancelling, caller, event, starts>>
    /\ InOrder

\* A recovery grows older than recovery_window_s and stops counting.
WindowSlides(d) ==
    /\ recent[d] > 0
    /\ recent' = [recent EXCEPT ![d] = @ - 1]
    /\ UNCHANGED <<registryVars, virtual, answers, loopVars, failures, recoveries,
                   backoff, episodeVars, cancelling, caller, event, boundVars>>
    /\ InOrder

BackoffEnds(d) ==
    /\ backoff[d]
    /\ backoff' = [backoff EXCEPT ![d] = FALSE]
    /\ UNCHANGED <<registryVars, virtual, answers, loopVars, failures, recent,
                   recoveries, episodeVars, cancelling, caller, event, boundVars>>
    /\ InOrder

\* A refresh outside the loop: the route and the commands that ask for one.
ApiRefresh ==
    /\ phase = "UP"
    /\ Poll
    /\ UNCHANGED <<virtual, answers, loopVars, countVars, episodeVars,
                   cancelling, caller, event, boundVars>>
    /\ InOrder

Check(d) == CheckBegins(d) \/ CheckPinged(d) \/ CheckRestores(d) \/ CheckMarks(d)
Episode(e) ==
    \/ EpisodeBegins(e) \/ EpisodeReconnects(e) \/ EpisodePinged(e) \/ EpisodeWakes(e)
    \/ EpisodeRestores(e) \/ EpisodeRetires(e) \/ EpisodeCallback(e)
Ends(w) == \E d \in Devices : CallerMarks(w, d) \/ CallerReleases(w, d)

Next ==
    \/ Start \/ LoopSweeps \/ LoopPollFails \/ LoopSleeps \/ LoopWakes
    \/ \E d \in Devices : Check(d)
    \/ \E e \in Episodes : Episode(e) \/ StopCancels(e)
    \/ Stop \/ StopReturns
    \/ \E w \in Workers : Ends(w) \/ \E d \in Devices : CallerLeases(w, d) \/ CallerBlames(w, d)
    \/ \E d \in Devices : DeviceFlips(d) \/ WindowSlides(d) \/ BackoffEnds(d)
    \/ ApiRefresh

Spec == Init /\ [][Next]_vars

\* The event loop runs what is ready, adb calls and sleeps are bounded, tasks end,
\* and polls do not fail for ever.  No fairness for the backoff, the window, the
\* devices, or anybody who starts, stops, leases or blames.
Fairness ==
    /\ SF_vars(LoopSweeps) /\ WF_vars(LoopSleeps) /\ WF_vars(LoopWakes)
    /\ \A d \in Devices : WF_vars(Check(d))
    /\ \A e \in Episodes : WF_vars(Episode(e)) /\ WF_vars(StopCancels(e))
    /\ \A w \in Workers : WF_vars(Ends(w))

FairSpec == Spec /\ Fairness

-----------------------------------------------------------------------------
\* Properties.

\* What the feed last said of a device is what the table says: no recovery verdict
\* is published for a device something else brought back, nothing is announced
\* that did not happen (health.py:295-300, README.md:202-209).
FeedMatchesTable ==
    \A d \in Devices :
        /\ event[d] \in {"quarantined", "failed"} <=> devState[d] = "QUARANTINED"
        /\ event[d] = "retired" <=> devState[d] = "RETIRED"

\* A device is retired only after it was recovered as often as the policy says;
\* failed episodes, probes and blame do not count (health.py:10-16).
RetiredOscillated ==
    \A d \in Devices : devState[d] = "RETIRED" => recoveries[d] = RetireAfter

\* stop() leaves no check and no registered episode behind.
StopIsClean ==
    phase = "DOWN" => \A d \in Devices : check[d] = "none" /\ registered[d] = NoEpisode

\* The table of recoveries names live episodes of the device itself, so no ghost
\* ever keeps a device from being recovered.
RegisteredIsAlive ==
    \A d \in Devices : registered[d] # NoEpisode =>
        episode[registered[d]].pc # "free" /\ episode[registered[d]].dev = d

\* A quarantined device that answers again is noticed by the sweeps however long
\* its backoff lasts and whatever its episodes do (README.md:218-221).
Answering(d) == (virtual[d] \/ answers[d]) /\ loop # "off"
SickDeviceComesBack ==
    \A d \in Devices :
        devState[d] = "QUARANTINED" /\ Answering(d) ~> devState[d] # "QUARANTINED" \/ ~Answering(d)

\* Every recovery episode comes to an end.
EpisodesEnd == \A e \in Episodes : episode[e].pc \in Running ~> episode[e].pc \notin Running

\* "one recovery per device at a time" (health.py:266).
OneEpisodePerDevice ==
    \A e, f \in Episodes :
        episode[e].pc \in Running /\ episode[f].pc \in Running
            /\ episode[e].dev = episode[f].dev => e = f

\* A retired device "stays there until a human intervenes" (README.md:191).
RetirementIsFinal ==
    [][\A d \in Devices : devState[d] = "RETIRED" => devState'[d] = "RETIRED"]_vars
=============================================================================
