# Verification of device-orchestrator

TLA+ models of the orchestrator in `src/`, checked with TLC on small instances
and, where it matters most, proved with TLAPS for every instance. Paths below
are relative to `src/`.

1. [Inventory](#1-inventory)
2. [Modules and how they correspond to the code](#2-modules-and-code)
3. [What the runs show](#3-what-the-runs-show)
4. [Bounds](#4-bounds)
5. [Fairness](#5-fairness)
6. [What is proved](#6-what-is-proved)
7. [Findings](#7-findings)
8. [Abstractions and what is not modelled](#8-abstractions-and-what-is-not-modelled)
9. [Plan](#9-plan)

## 1. Inventory

The program runs UI tasks on phones and browser slots. It is one asyncio event
loop: a coroutine runs alone until an `await` that suspends, and everything
below interleaves at those points only.

| Component | State it keeps | Operations | Makes it correct |
|---|---|---|---|
| Scheduler (`core/scheduler.py`) | records, queue of ids, workers, in-flight and retry counters, idle event | `submit`, `start`, `stop`, `drain`, worker loop, retry timers | no task lost or run twice at once, bounded attempts, `drain` tells the truth, every servable task ends |
| Device registry (`core/device.py`) | device table, leases, a condition | `refresh`, `acquire`, `release`, `set_state` | one holder per device, no leaked lease, no lost wake-up, no overruled quarantine |
| Health monitor (`core/health.py`) | failure counts, recovery tasks, backoff, recovery window | sweep, probe, `quarantine`, recovery episode, restore, retire, `start`, `stop` | the transitions of its header and no other, one episode per device, retirement is earned and final, the feed does not lie |
| Session manager (`core/session.py`) | cached handle, generation and lock per device and kind | `ensure`, `invalidate`, `close_all` | never a stale handle, generations grow |
| Token cache, cookie jar, credential store (`core/auth.py`) | tokens, locks, cookies per realm | `get`, `invalidate`, `save`, `live`, `resolve` | one refresh per token however many ask, a lock that always comes free, a jar that keeps realms apart and does not promise a dead session |
| Event hub (`api/ws.py`) | ring buffer, bounded subscriber queues | `publish`, `subscribe`, `stream` | the publisher never blocks, drops are accounted for |
| APK target (`targets/apk.py`) | the hashing semaphore; per attempt a digest | `install`, `verify`, `uninstall`, `launch`, `stop`, `clear` | green means deployed, a failure is filed under its cause, slots come back |
| Web target (`targets/web.py`) | the browser of a slot, which outlives tasks | page steps, `auth`, `capture_session` | a restored session is the realm's own, a bad credential is not retried |
| Android target (`targets/android.py`) | an Appium session | `tap`, `type`, `type_secret`, `read`, `wait`, `dump` | a script's failure is not held against the phone |
| Orchestrator, server, CLI (`core/orchestrator.py`, `api/server.py`, `cli.py`) | wiring | `start`, `stop`, routes, commands | start and stop order, nothing left behind |

Interaction: the server and the CLI submit to the scheduler; a worker leases
from the registry, runs a target, and on a failure that blames the device calls
`HealthMonitor.quarantine` before it gives the lease back; the monitor forces
device states in the registry and invalidates sessions; targets ask the session
manager for sessions and the token cache for tokens; scheduler and monitor
publish to the hub, which never suspends its publisher. Targets act on a world
that moves on its own: CI overwrites the build on the host, a vendor updates the
app on a phone, logins run out.

Hard behaviour: interleavings of workers, sweeps, recoveries and refreshes over
shared device state; decisions taken before an `await` and applied after it;
timeouts racing notifications; retries that are nowhere while they sleep; stop
and restart around all of it. `PROJECT.json` lists each hazard at its line, with
the properties that catch it.

## 2. Modules and code

| Module | Models | Used by |
|---|---|---|
| `DeviceRegistry` | `core/device.py`, the registry, as actions on its table, leases and sleepers | `Scheduler`, `HealthMonitor` (EXTENDS) |
| `Scheduler` | `core/scheduler.py` over the registry | `MCScheduler`, `SchedulerProofs` |
| `TaskLifecycle` | the contract of `core/task.py`: what a caller may observe of a task | instantiated by `Scheduler` |
| `HealthMonitor` | `core/health.py` over the registry | `MCHealth`, `HealthProofs` |
| `SessionManager` | `core/session.py` under its callers and the monitor | `MCSession`, `SessionProofs` |
| `EventHub` | `api/ws.py` with its clients | `MCEventHub`, `EventHubProofs` |
| `TargetContract` | the part of `core/task.py` a target sees: steps, deadline, errors and blame | `ApkTarget`, `TokenCache`, `AndroidTarget` (EXTENDS) |
| `ApkTarget` | `targets/apk.py` over `Adb.run()`, with CI, phones and vendor | `Targets` (EXTENDS) |
| `TokenCache` | the token cache of `core/auth.py` | `WebTarget` (EXTENDS) |
| `WebTarget` | `targets/web.py` with the cookie jar of `core/auth.py` | `Targets` (EXTENDS) |
| `AndroidTarget` | `targets/android.py` over Appium's answers | `Targets` (EXTENDS) |
| `Targets` | the three at work under `run` and `deploy` of `cli.py` | `MCTargets`, `TargetsProofs` |
| `SchedulerProofs`, `SchedulerWorkProofs`, `HealthProofs`, `SessionProofs`, `EventHubProofs`, `TargetsProofs`, `RolloutProofs`, `LoginProofs` | theorems | |

Every step of a model is what one coroutine does between two awaits that may
suspend. The definitions of each module are mapped to lines in `PROJECT.json`.

**DeviceRegistry.** `devState` is `_devices[d].state` (`ABSENT`: no entry),
`leases` is `_leases`, `asleep` the callers in `Condition.wait()`. A body under
`async with self._cond` does not await between its first read and its last
write, so `Refresh`, `AcquireFree`, `AcquireSleep`, `AcquireTimeout`,
`ReleaseLease` and `SetState` are one step each; waiting for the lock is the
interleaving before. A selector is the set of devices it matches. `NotifyAll`
empties `asleep`; a worker that was woken looks at the table again in a later
step, so anything may happen between the notification and the look, a timeout
included.

**Scheduler.** A record is an element of `Records`, one per call of `submit()`;
`IdOf` gives its id, so two records may share one. `queue` holds ids and pills,
`timers` counts `_delayed_put()` coroutines, `inflight`, `pendingRetries` and
`idle` are the fields of the same name. `pc[w]` is the await a worker is
suspended in:

| `pc` | awaits | next |
|---|---|---|
| `get` | `queue.get()` | `TakePill`, `TakeSkip`, `TakeAbandon`, `TakeAcquire` |
| `acquire`, `waiting` | the registry | `Lease`, `LeaseWait`, `LeaseTimeoutRetry`, `LeaseTimeoutExhausted` |
| `run` | `target.execute()` | `Succeed`, `Reject`, `FailBlameless`, `FailOutOfService`, `FailBlamed` |
| `mark` | `health.quarantine()` | `QuarantineBlamed` |
| `release` | `registry.release()` | `Release`, which also announces the end and settles the idle event |

`Submit`, `SubmitUnroutable`, `Start`, `Stop`, `StopReturns`, `Drain`,
`DrainTrue`, `DrainTimeout` are the calls; `TimerFires` the end of a backoff.
The monitor is an environment that may force any state on a known device at any
moment (`HealthForces`), the inventory one that may report any poll
(`Inventory`): `Scheduler`'s properties hold whatever `HealthMonitor` does.
`watched`, `shown` and `finals` are history variables.

**TaskLifecycle.** Task states, attempts and the device a task runs on, with no
queue, worker or lease. `ImplementsLifecycle` says `Scheduler` implements it,
`using` mapped to the device of the last attempt of a RUNNING record. `Promises` says
what the contract comes to for whoever submits a task: one device at a time, one it
asked for and nobody else is on, as many attempts as it allows and no early end.

**HealthMonitor.** `loop` is the await of `_loop()`; `check[d]` that of
`_check_one()` in the current sweep (`ready`: task made by `gather`, `probe`: in
the ping, `restore`/`mark`: waiting for the registry's lock in `set_state()`);
`episode[e]` a coroutine of `_attempt_recovery()` with its device, await and
attempt; `registered` is `_recoveries`. `created` and `done` are the two states
in which a task exists without running: before its first step, and between its
return and its done callback. `failures`, `recent`, `recoveries` and `backoff`
are the counts and the deadline the decisions read. `StopCancels` cancels the
registered episodes one at a time, `StopReturns` clears the table. `event[d]` is
the last event published for the device.

The callers are the scheduler's workers, as the monitor sees them: `CallerLeases`,
`CallerBlames`, `CallerMarks`, `CallerReleases`. Devices are in their initial
state phones or browser slots (`virtual`), answering or not (`answers`).

*The lock.* On CPython up to 3.11, the version of the Dockerfile,
`asyncio.wait_for(cond.wait(), t)` runs `wait()` in a task of its own, and the
task that re-acquired the lock and the `acquire()` that releases it run in
different turns of the loop. A `set_state()` called between them has to wait, so
there is a suspension between each decision of the monitor and its effect. The
states `restore`, `mark` and `retire` are that suspension.

*The order of resumption.* `before` records who must resume before whom: the
loop's ready queue and `asyncio.Lock` are first come, first served, and what
begins I/O behind a waiter does not overtake it. With `Ordered = FALSE` any
suspended coroutine may resume next, which contains every real order: the runs
that must pass use it, so they do not depend on details of the event loop. The
runs that end in a violation use `Ordered = TRUE`, so that their traces respect
the loop's order.

**SessionManager.** A driver is its number in the order of opening; `sessions` is
the cache, `generations` the counter per key, `alive` the drivers that answer,
`old` those past `max_age_s`. `caller[c]` is a coroutine in `ensure()` or using
what it returned; its `pc` is the await it is suspended in:

| `pc` | awaits | next |
|---|---|---|
| `lock` | the key's lock | `EnterEmpty`, `EnterOld`, `EnterCached`: by what the cache holds when the lock is taken |
| `check` | `factory.check()` | `CheckPasses` returns the handle, `CheckFails` discards it |
| `close` | `factory.close()` in `_discard()` | `CloseReturns`, into the first attempt to open |
| `open` | `factory.open()` | `OpenSucceeds` stores and returns, `OpenFails` backs off or gives up |
| `backoff` | the sleep | `BackoffEnds`, into the next attempt |
| `use` | the target's work | `UseEnds` |

`DeadlinePasses` and `Cancelled` may hit any of them. `Invalidate` comes from the
monitor at any time and takes no lock; `CloseAll` runs behind a stop of the
scheduler. `leased`, chosen in the initial state, says whether the callers hold
device leases as the scheduler's do; `InUseNotClosed` depends on it, the lock's
own promise `NeverOverwritten` does not. `born`, `closed` and `stale` are history.

**EventHub.** An event is its number. `recent` is the ring; `conn[c]` a
`Subscriber` with its queue and drop count, and the coroutine of
`pump_websocket()` that serves it: in `replay`, `send` and `beat` it awaits
`send_json()`, in `get` and `wait` `queue.get()` under the heartbeat's timer.
`Publish` is one step for the ring and all queues, because `publish()` awaits
nothing that suspends; `Connect` is one step for the subscription and the copy of
the ring, for the same reason. `start`, `last` and `sent` are history. `Vanish`
takes the client away without the coroutine hearing of it: the reader task of
`api/server.py:153` ends, but the pump does not await it, so the next failing send
(`SendFails`) is what ends the subscription.

**TargetContract.** One attempt as `execute()` sees it: `at[t]` is the await its
coroutine is suspended in, `step[t]` the steps behind it; `Goes`, `Advances` and
`Ends` are the three things a step can do. `Ends(t, o, c)` is what the scheduler
makes of the return or the exception (`ok`, `retry`, `blame`, `fatal`); `c` is
history: what had gone wrong in the world, which the code cannot see and the
properties compare with what it made of it. The queue, the leases and the
consequences of blame are in `Scheduler`; here a task that may run again waits for
a free device. A plan is the set of specs of a behaviour, chosen in its initial
state; realm, credential and expected version are per task.

**ApkTarget.** A build is a number, `file` the one at the path, `installed[d]` the
one on a phone, `digest[t]` the one hashed. `_install()` is four awaits: `slot` and
`hash` (the semaphore and the thread), `install` (`adb install`), and the phone
takes the build (`PhoneTakesBuild`) at some moment before adb reports it, or
reports nothing (`Lost`: killed, vanished, cut short). Why a phone refuses a build
is a matter of the world (`Refusals`: it is one of the `Broken` builds, a newer
version is installed, the phone is of the wrong kind, or unwell), what the package
manager calls it one of `CodesFor` that cause, and adb's exit code is either. Each
set of codes of `apk.py:53-91` has a representative, fatal ones two, and a parse
failure stands for the codes that are in none of the sets. `Classify` and `RaiseFor`
are `classify_install_output()` and `raise_for_install_code()`: the outcome is
computed from the code, never from the cause.

**TokenCache.** Per realm a token that is absent, fresh or stale, and the holder of
the lock. `TokenHit` and `TokenMiss` are `get()` up to its first await,
`GetsLock` the re-check behind the lock, `Refreshed`, `RefreshFails` and
`TokenCancelled` the ways out of the refresh. `asked` and `lost` are history.
The refresh is the seam `web.py:343` describes, a call to a token endpoint: the
function there today returns at once.

**WebTarget.** `cookies` are all cookies that sites ever set, each a login or
another one, of a site of one realm; a cookie is its place in that sequence.
`expired` are those whose date has passed (`DatePasses`; one without a date never
does). `jar[r]` is what is stored under realm `r`, `browser[d]` what the browser of a
slot holds; it outlives tasks and may be a new one whenever a session is asked for.
`PageSetsCookie` happens while a page is called, whatever becomes of the call.
`SaveCookies` takes every cookie the browser holds, of whichever realm,
`CookieRestores` puts what is good of the jar into it; a browser forgets a cookie
whose date has passed, a jar keeps it. `Live` is `live()`: some stored cookie has not
expired. Whether a site still honours a login is not part of the state, because
nothing in the code can see it.

**AndroidTarget.** Appium's answers are a set (`Answers`), `Raised` is what `_http()`
and `find()` make of each, `Behind` what may be the reason for it (a server that does
not answer is down on the host, or its phone is gone), and the secret of
`type_secret` is resolved between the element and the keystroke.

**Targets.** `RunSubmits`/`RunRefused`, `DeploySubmits` and `Exits` are the two
commands; `StartFails` is the first poll without adb. Attempts, the clock and the
world are at work only while the command drains.

## 3. What the runs show

Passing runs (each checks deadlock unless said otherwise):

| Run | Instance | Shows |
|---|---|---|
| `scheduler` | 2 tasks (2 and 1 attempts), 2 workers, 1 phone, one stop and restart; 194k states | tasks are in exactly one place until they end (`WorkConserved`), leases match workers, counters count, one pill per live worker, the idle event and `drain()` tell the truth, the feed is current; every servable task ends and `stop()` returns |
| `scheduler_fleet` | 2 phones, one task pinned to one of them, one with `max_attempts` 0, one of an unknown kind under another's id; 546k states | no wake-up is lost, a blamed phone leaves the pool before its lease is given back, the scheduler implements `TaskLifecycle` |
| `health` | 1 device of either kind, 1 worker, 2 recovery tasks, 2 starts, devices that do not change; 266k states | the feed matches the table, only an oscillating device is retired, stop leaves nothing, the table has no ghosts |
| `health_liveness` | the same device breaking and coming back, 1 start; 30k states | a quarantined device that answers is noticed whatever its backoff; every episode ends |
| `sessions` | 2 callers, 1 key, 2 attempts to open, 2 drivers; 57k states | the cache never holds a closed, invalidated or superseded session, no session is overwritten by another, generations name sessions, `ensure()` returns what answered, nobody's session is closed under a lease, every call ends |
| `event_hub` | 2 clients, queues of 2, a ring of 2, 4 events; 32k states | every event is sent, pending or counted as dropped, in order, the newest is never dropped; readers catch up, clients that are gone are dropped, the drop count is told |
| `targets` | 2 tasks on 2 phones or slots, 2 realms, 11 plans of 1 to 3 steps each; 166k states | a green task put a build on its phone in that attempt and exit 0 means all of them did (`GreenIsDeployed`); one refresh per token (`RefreshesEarned`); faults are sorted by what caused them (`FaultsAreSorted`); realms that share no slot never see each other's cookies (`RealmsStayApart`); no attempt waits for ever for a slot or a lock (`AttemptsEnd`) |

`CHECK_DEADLOCK FALSE` in the sessions, hub and targets runs: when the events are
published, nobody calls, or the command has exited, nothing has to happen. `CHECK_DEADLOCK FALSE` in the health runs: a monitor that has been started and
stopped `MaxStarts` times and whose devices are all quiet has nothing to do.

Runs that end in a violation: `rejected_retried`, `end_announced_twice`,
`two_episodes`, `retired_restored`, `spent_login_reused`. See [Findings](#7-findings).

Each property of a passing run has a mutant in `PROJECT.json`: a plausible bug
in one definition (a dropped guard, a missing `notify_all`, a retry that is not
counted) under which the same run finds the property violated.

The plans of `targets`: a rollout to two phones; a retried install beside a phone
the build is not made for; uninstall and install beside the shell steps on one phone;
a token for two slots, taken by a bearer step and by a capture, and one whose
credential is refused to one of them; a login that a task on another slot restores;
two realms that meet in one slot, and two with a slot each; missing credentials and
unknown steps; scripts over two phones with and without their secret. Tasks of
different kinds share nothing but the command, which does not look at kinds, so no
plan mixes them.

## 4. Bounds

| Bound | Value | Why it is enough |
|---|---|---|
| `MaxChurn` (Scheduler) | 2 | the monitor and the inventory change the fleet twice: enough to bring a phone up and take it away under a lease, or take one away and bring it back under a sleeper. Blame by workers is not counted against it |
| `MaxStops` | 1 | stop, restart, and what the first life left behind |
| records, workers, devices | 2-3, 2, 1-2 | contention needs two workers for one phone; a sleeper that waits for the other phone needs two phones; the queue, the timers and the pills are unbounded by themselves and bounded by the records |
| `MaxEpisodes` | 2, 1 | one registered and one that is over or lost. With one, `Spawn` is disabled while the old task is not collected: `health_liveness` therefore looks at one episode at a time; overlapping ones are looked at by `health` |
| `MaxFlips` | 0, 2, 1 | in `health` the outcome of a ping may fail beside a lease and a reconnect is arbitrary, so the counts vary without flips; the liveness run needs a device that breaks and comes back |
| `MaxStarts` | 2, 1 | the second start finds what stop left |
| devices (health) | 1 | devices share the sweep's barrier and the lock only; the theorems of section 6 hold for any number |
| `FailuresToQuarantine`, `RecoveryAttempts`, `RetireAfter` | 2, 2, 1 | each loop is taken once more than once; retirement at the second episode |
| `Capacity`, `Replay` | 2, 2 | both overflow with the four events of `MaxEvents`, and a replay is still being sent when its ring has moved on |
| `MaxJoins` | 1 | a connection keeps nothing of the one before it |
| `MaxDrivers` | 2 | one session and its successor: recycled, discarded, invalidated, and opened behind a caller that still uses the first |
| `MaxOpenAttempts` | 2 | one that backs off, one that gives up |
| `MaxBuilds`, `Broken` | 3, {2} | the build hashed and the one that replaced it before it was shipped, one that no phone takes among them |
| `HashSlots` | 1 | in the code 2 (`apk.py:100`); two tasks contend for one |
| `MaxLost` | 2 | a token goes stale or is thrown away under a waiter, and once more under the next; refreshes that fail or are cancelled are not bounded by it |
| `MaxCookies` | 2 | a login and another cookie of one realm, or one of each of two realms, in one browser; any of them may run out at any time |
| plans | 11 | listed in section 3; every action of a target fires in one of them; of ops that are one action (`launch`, `stop`, `clear`; `goto`, `click`, `fill`, `read`; `type`, `tap`) one stands for the others |
| keys | 1 | keys share nothing but `invalidate()` of a device and `close_all()`; the theorems hold for any number |

Counters in `HealthMonitor` saturate at the thresholds they are compared with.
The bounds are constants of the modules and the theorems hold for all of them.

## 5. Fairness

`Scheduler`: weak fairness of each worker, each timer, and of the returns of
`stop()` and `drain()`: the event loop runs whatever is ready, `acquire()` and
`execute()` are under a timeout (`scheduler.py`, `asyncio.wait_for`), and a
backoff is a bounded sleep. Nothing is assumed of callers, of the monitor or of
the inventory; `EveryTaskEnds` instead carries its condition in the formula: from
some point on the scheduler is up and each task has a matching device ONLINE.
Without it the code promises nothing, because a lease timeout makes no attempt.

`HealthMonitor`: weak fairness of each check, each episode, each cancelled
episode, each caller that has a device, and of the loop's sleep. Strong fairness
of `LoopSweeps` says that polls do not fail for ever; a poll is an adb call with
a timeout and `_loop()` goes on after an exception. No fairness for the end of a
backoff, the window, the devices, other refreshes, `start()`, `stop()`, leases or
blame: `SickDeviceComesBack` holds although the backoff may never end, because a
sweep probes quarantined devices too.

`SessionManager`: weak fairness of the returns of `check`, `close` and `open`,
which `session.py:60` and the timeouts of `targets/android.py` ask of a factory,
and of the backoff's sleep; strong fairness of taking the lock, which
`asyncio.Lock` hands out first come, first served. No deadline need ever pass, so
`EnsureEnds` rests on the count of attempts alone.

`EventHub`: weak fairness of sends to clients that read and of `queue.get()` under
its timer; strong fairness of `SendFails`, because the socket of a client that is
gone notices in the end although single sends may seem to succeed. Nothing is
assumed of publishers and clients. `DropsAdmitted` says in the formula that
publishing ends: a feed that is never idle never sends a heartbeat.

`Targets`: weak fairness of each task's steps: adb, Appium, browsers and token
endpoints answer or fail in the end, which the timeouts of `Adb.run()`, `_http()`
and Playwright's budgets see to, and whatever is ready is run. Strong fairness of
`GetsSlot` and `GetsLock`: `asyncio.Semaphore` and `asyncio.Lock` serve their
waiters first come, first served. The clock is not fair: `AttemptsEnd` holds
although no deadline need ever pass.

## 6. What is proved

TLAPS proves these for every value of the constants that satisfies
the assumptions of its module: `NoOneAssumption` (the sentinel is neither a worker
nor a device) and `SchedulerAssumption` or `HealthAssumption` (typing of the
parameters; finitely many workers, at least one; positive thresholds),
`SessionAssumption` (at least one attempt to open), `HubAssumption` (queues hold
at least one event; the ring may hold none), `ContractAssumption`, `ApkAssumption`,
`TokenAssumption` and `WebAssumption` (typing of plans, at least one hashing slot).

| Theorem | Of | Argument |
|---|---|---|
| `TypeCorrect` | Scheduler | `TypeOK` alone is not inductive: a worker's `task` and `dev` are typed as possibly `NoOne`. `WorkersTyped` adds what `pc` says of them: in flight means a submitted record, leased means a device, asleep means waiting |
| `LeasesCorrect` | Scheduler | `LeasesMatchWorkers` is inductive beside the types: a worker gains or loses its lease in `Lease` and `Release` only, all other steps fall under `LeasesKept` |
| `NoWakeupIsLost` | Scheduler | a step either notifies everybody, or frees no device and puts nobody to sleep (`SleepersKept`), or is `LeaseWait`, which looked and found nothing |
| `TypeCorrect` | HealthMonitor | needs `EpisodesTyped`: a task that exists has a device, one that sleeps has an attempt left (otherwise the count runs over); the order of resumption stays within the suspended (`OrderNext`) |
| `StopLeavesNothing` | HealthMonitor | `Phased`: sweeps and callers are at work only while the monitor is up, so nothing spawns an episode between `Stop` and `StopReturns` |
| `NoGhostEpisode` | HealthMonitor | an episode is freed only by its callback, which clears its device's entry |
| `FeedIsTrue` | HealthMonitor | `StateStep` sorts all steps into a refresh, a forced state, a verdict, or nothing; `Known` adds that whatever is checked, leased or recovered is in the table, so that `set_state()` never ignores it while the event is published |
| `RetirementIsEarned` | HealthMonitor | `Counted`: the window counts no more than the lifetime count, and an episode about to retire a device saw the window full; the lifetime count never falls, so the decision is still right when the lock is free |
| `TypeCorrect`, `CacheIsFresh`, `GenerationsName` | SessionManager | inductive together: `GenerationsCounted` says the counter of a key is at least every generation given out, and `Exclusive` that at most one caller holds a key's lock, so what a caller decided about the cache under the lock still holds when it stores |
| `NoSessionLost` | SessionManager | from `Exclusive` and `Sane`: whoever stores saw the cache empty under the lock, and only the holder fills it |
| `UseIsSafe`, `EnsureIsVerified` | SessionManager | `Sane` says what each `pc` implies of the caller's driver; under leases no other caller of the device is at work |
| `TypeCorrect`, `BooksBalance`, `FeedInOrder`, `NewestReaches` | EventHub | `Balanced`: the queue is the newest events without a gap (`UpToTop`), the rest of the replay goes on from what was sent, and what is in front of the queue is older than it, and the newest of all when the queue is empty. Order and newest follow from the shape of the feed (`FeedShape`), the account from its lengths |
| `FeedStaysCurrent` | Scheduler | `FeedIsCurrent` exempts a record whose worker still has to give the lease back; `FeedAux` adds that a task waiting for a retry was announced as waiting already, so two workers on one record cannot leave a stale announcement behind |
| `WorkIsNeverLost` | Scheduler, unique ids | `Work`: a record is in exactly one place (`Place`) - in the queue once, with a worker, or asleep with one timer - or has ended, or was never submitted; each step moves one record from one place to another |
| `CountersStayExact` | Scheduler, unique ids | `Counted`: the in-flight counter is the size of the set of busy workers, the retry counter that of the set of ids with a timer, and a step moves at most one worker or one id into or out of its set; two timers of one id would break the second, hence `Work` |
| `RejectionIsFinal` | Scheduler, unique ids | from `Work`: a record that has ended is in no place, so nothing can take it up again |
| `IdleIsDone`, `DrainIsDone` | Scheduler, unique ids | `Settled`: while the event is set nothing is queued, in flight or asleep, so every submitted record has ended, and so had all that a waiter of `drain()` watches when it was woken; an end is final by `Work` |
| `PillsStopEachOnce` | Scheduler | `Pilled`: a worker that takes a pill leaves with it, so the pills and the live workers fall together; while the scheduler is up no worker has left |
| `SchedulerImplementsLifecycle` | Scheduler, unique ids | one step per action of `Next`, each a step of the contract or a stutter, from `Work` and `Attempting`: the last attempt of a RUNNING record names the device its worker leases, and a record that waits has an attempt left or has made none |
| `TargetsTypeCorrect` | Targets | the slots: free ones and attempts that hash add up to `HashSlots` (`SlotsCount`), else `slots + 1` leaves its type; a task's `at` belongs to its kind |
| `TokensAreRefreshedOnce` | Targets | `LockIsRefresh`: the holder of a realm's lock awaits that realm's refresh, nobody else does, and no fresh token is ever being refreshed; so a refresh begins only where the last one has come to nothing |
| `EveryFaultIsSorted` | Targets | the outcome of an install is computed from what adb printed, its cause from the file, the phone and what is on it: `ReasonsAreSorted` goes through every code the package manager has for every reason, with either exit code, `SilenceIsSorted` through every way an answer is cut short. In the other endings the code's own branch fixes both |
| `GreenMeansDeployed` | Targets | past its install step an attempt has a digest and shipped a build no older (`written` only grows and the file is its newest or gone); between the install's report and the end of the task nothing forgets either; `Code` looks at every submitted task |
| `RealmsKeepTheirCookies` | Targets | inductive beside the types: a task runs only in slots that serve its realm, so a set of realms that stands apart from the others and has a part in the slot has the task's realm too; then what is restored into the slot, captured from it and set in it is of the set, or was there before |

Beyond what the runs check, these say how far the findings of section 7 reach and what
is left of liveness when fairness is taken away:

| Theorem | Of | What it says, and the argument |
|---|---|---|
| `BlameTakesEffect` | Scheduler | `BlamedLeavesPool`, by cases on `Next`: only `QuarantineBlamed` ends the await, the lease is the worker's by `LeasesMatchWorkers`, and whatever state it finds it leaves QUARANTINED, or no entry |
| `EndsAreNotTakenBack` | Scheduler, unique ids | an end once announced is only ever repeated. `EndsTrue` (an announced end is the record's state) is inductive beside `Work`: a record that has ended is in no place, so no step announces anything else of it |
| `RepeatsAreBounded` | Scheduler, unique ids | an end is announced at most once by what brought it about and once by each worker with a lease of the record to give back, `Workers` + 1 times in all. `finals` plus the size of `Parting(r)`, the workers in `release`, is bounded: who announces from there leaves the set |
| `TasksGetWhatIsPromised` | Scheduler, unique ids | `Promises` is an invariant of `TaskLifecycle`, proved there once; through `SchedulerImplementsLifecycle` it holds of the scheduler, with no further look at queue, workers or timers |
| `StopNeverStarves` | Scheduler | while `stop()` waits for a worker there is a pill in the queue, from `Pilled`: the pills are as many as the live workers |
| `OnlyTheLateUndo`, `RetiredForGoodIsFinal` | HealthMonitor | `Late(d)` are the checks, episodes and callers that took their decision about `d` before it was retired. While `d` is retired nobody joins them, and a step that brings `d` back takes one out. When the set is empty RETIRED is final |
| `EpisodeIsBounded` | HealthMonitor | `MovesLeft`, at most 3 `RecoveryAttempts` + 2: each move of an episode makes it smaller, nobody else's changes it |
| `NeverReinstated` | SessionManager | who stores a session has just opened it: the only step that fills the cache stores the session that `open()` returned in that step, which is new; all others leave a key's entry or empty it |
| `EnsureIsBounded` | SessionManager | `StepsLeft`, at most 2 `MaxOpenAttempts` + 2, falls with every move of a caller, whatever others do to the cache |
| `FeedNeverFallsBack`, `LineStaysShort` | EventHub | a step sends the head of the line, or each place in the line keeps its event or gets a newer one (`Forward`); `PendingAt` gives the n-th pending event in closed form, so that the two cases of an overflow can be compared place by place. The line is never longer than ring, queue and the event on its way (`ShortReplay`) |
| `NobodyWaitsInVain` | Targets | no free slot means an attempt that hashes (`SlotsCount`), a held lock one that refreshes that realm's token (`LockIsRefresh`), and neither waits for a slot or lock: no deadlock among targets |
| `AttemptIsBounded` | Targets | `AwaitsLeft`, at most 7 per step and 8: within a step the awaits have a `Depth`, a step goes on to the next and never back |
| `BlameIsAccountedFor` | Targets | `BlameIsExplained`: no device is blamed for a spec, build or credential that is no good, for being of the wrong kind, for a host without adb or for a site. What else is held against it than itself and the deadline it let pass is listed in `Accountable`, each at its line: a host without Playwright, without its Appium or without its build, Appium's 404, an app that is not on the phone. One lemma per kind of target |

The strengthenings were checked with TLC, as invariants or action properties of the
instances of section 4, before they were proved.

One assumption is part of the statements and not of the modules: `UniqueIds`
(different submissions have different ids) is true of ids made by `_new_task_id()`
and of callers that do not reuse one; without it the run `rejected_retried` shows
what goes wrong, and the `scheduler_fleet` run checks the refinement with a reused
id of an unknown kind. `RealmsStayApart` speaks of realms that share no browser slot;
section 7 says what happens to those that do.

Every invariant and every action property of a passing run is a theorem. Only
model-checked is liveness (`EveryTaskEnds`, `StopEnds`, `SickDeviceComesBack`,
`EpisodesEnd`, `EnsureEnds`, `CatchesUp`, `GoneIsUnsubscribed`, `DropsAdmitted`,
`AttemptsEnd`): fairness and ENABLED are out of TLAPS's reach. For five of these the
part that is not fairness is proved, so that what is left to TLC is that somebody
who can move does: `StopNeverStarves` for `StopEnds`, `EpisodeIsBounded` for
`EpisodesEnd`, `EnsureIsBounded` for `EnsureEnds`, `NobodyWaitsInVain` and
`AttemptIsBounded` for `AttemptsEnd`, `FeedNeverFallsBack` and `LineStaysShort` for
`CatchesUp`.
Induction over data and RECURSIVE operators are out of the prover's reach too; the
modules use neither.

## 7. Findings

Each is a run that ends in a violation of something the repository says.

1. `end_announced_twice` - when attempts run out, `_requeue` announces FAILED and
   the `finally` of `_run_once` announces it again (`core/scheduler.py:329`
   against the comment at 299-301). `RepeatsAreBounded` and `EndsAreNotTakenBack` say
   that the end is repeated a bounded number of times and never contradicted.
2. `rejected_retried` - `submit()` of an id that is queued or running puts it in
   the queue twice; two workers share a record and one overwrites the REJECTED of
   the other (`core/scheduler.py:101` against `core/task.py:41`, 68).
3. `two_episodes` - the done callback removes whatever is registered for the
   device, also a newer episode, and the next failed probe starts one more
   (`core/health.py:276` against 266).
4. `retired_restored` - a probe that answered while the device was in quarantine
   waits for the lock behind the episode that retires it, then sets it ONLINE
   (`core/device.py:420`, `core/health.py:362` against `README.md:191`).
   `OnlyTheLateUndo` says that nobody else can, `RetiredForGoodIsFinal` that RETIRED is
   final once they are through.
5. `spent_login_reused` - `live()` returns True for the first stored cookie that has
   not expired, whatever it is for, and `capture_session` stores every cookie the
   browser holds, so a jar whose login has run out is live on the strength of any
   other (`core/auth.py:374` against its docstring, 361-365). A cookie without a date
   never stops counting. What a login is only the site knows; nothing in `src/` names
   the cookie that matters.

Met while modelling, with no run of their own:

- A device is blamed for what is not its doing, against `core/task.py:57-60` ("a buggy
  script cannot take a healthy phone out of the pool"). The protocol answers a search
  for an element that is not on the screen with status 404, and its path is a
  session's, so `_http()` takes it for a session that is gone
  (`targets/android.py:99` against 97-98). An Appium server that is down on the host
  is a SessionGone too (102-103), and every failed open becomes a SessionError that
  blames, also that of `PlaywrightSessionFactory.open()` for a missing playwright,
  which says it does not (`targets/web.py:105`). A build that goes away from the host
  (the item on digests below) and an app that `verify` does not find, whoever removed
  it (`targets/apk.py:273-280`), are the others. `BlameIsAccountedFor` says the list
  is complete for what the model tells apart; the deadline it takes for the device's
  own, whoever spent the time, a script's long `wait` included.
- After `stop()` `drain()` never reports quiet: the pills behind the last task keep
  it from settling the idle event, and a worker that takes a pill does not settle it
  (`core/scheduler.py:166` against 154). `DrainMeansDone` says only that True is
  never a lie.
- A lease timeout makes no attempt (`core/scheduler.py:219`), so a task pinned to a
  phone that stays away is requeued for ever, whatever its `max_attempts`.
- The digest of a deploy is taken before `adb install` is given the path
  (`targets/apk.py:232`, 248), so it may name an older build than the one that went
  to the phone; `README.md:276-278` calls it the SHA-256 of the bytes that shipped.
  `GreenIsDeployed` says what does hold: never a newer one. A file that goes away
  between `isfile()` and the hash or `getsize()` raises an OSError, and the phone is
  blamed for it.
- `README.md:261` counts "parse failures" as fatal; of the codes that begin with
  INSTALL_PARSE_FAILED three are (`targets/apk.py:62-64`), the others are retried
  (161), and a broken build with them. `FaultsAreSorted` makes this exception.
- Two realms in one browser slot: `capture_session` keeps every cookie the browser
  holds, so a jar may hold the other realm's cookies only, and `live()` reports a
  session (`core/auth.py:372-375`). `RealmsStayApart` says how far this reaches: to
  realms whose tasks share a slot, directly or by way of other realms.
- A login that the far side has ended, with its cookie's date in the future or with
  none, is reported live as long as the date allows.
- `_auth` falls back from `realm` to `credential` to "default" (`targets/web.py:317`),
  `_capture_session` from `realm` to "default" (361): a step that names its
  credential only looks for its session where no capture puts it. The model's specs
  name the realm in both.
- A captured token is thrown away while a fresh one is cached (`targets/web.py:373`
  goes through `get()`), also when the login it comes from was a newer one.
- Cookie tasks that start together all find the jar empty and all log in: the jar
  has no single-flight (`README.md:309-310`: "N tasks do not mean N logins").
- A hashing thread outlives the cancelled attempt whose slot is free again
  (`targets/apk.py:115`), so more threads may read than the semaphore has slots.
- `launch`, `stop` and `clear` look at adb's timeout and not at its result.
- `run` with an empty list of tasks exits 0.

## 8. Abstractions and what is not modelled

- `acquire()` takes the first free device in table order; the model leaves open
  which one.
- UNAUTHORIZED is folded into OFFLINE: no code path tells them apart. ASSIGNED is
  declared in `core/task.py` and never set.
- A poll is any set of devices; the output of `adb devices` and its parsing are
  data. A poll that raises is `LoopPollFails`, or `StartFails` when it is the first.
- Backoffs and time are on or off: how long a backoff grows is left out.
- In `Scheduler` `execute()` ends in any way the contract has, at any time; what the
  targets do inside is `Targets`, where in turn the queue, the leases and what
  becomes of a blamed device are left out.
- A step without an argument its op needs is an op nobody knows: both are fatal. Of
  a cookie its realm counts, whether it is the login, and whether its date has
  passed; of a page which cookie it sets; of an element only whether it is found.
- Two cookies of one realm and kind have one name, so a browser keeps the later one.
  That a site ends a login is invisible to the code and no part of the state; the
  property about spent logins speaks of dates only.
- The basic and bearer modes put headers into a browser that keeps them; nothing in
  `src/` takes them out or relies on it.
- `TokenCache.invalidate()` is called by nobody in `src/`; the model lets it happen
  at any time, so a deployment that calls it on a 401 is covered.
- What `serve` and `demo` add to the targets (the fakes, the hooks that darken a
  phone) stands in for devices and is left out.
- A probe injected by a test, cancelling a worker from outside (nothing in
  `src/` does), and the wording of events are left out.
- `quarantine()` also invalidates sessions; that step does not suspend and its
  effect belongs to the session manager.
- `invalidate()` and `close_all()` forget drivers without closing them, and an
  `open()` that is cancelled may leave a session on the far side; what becomes of
  drivers nobody can reach is not followed.
- A session whose `open()` was under way when its device was invalidated is cached
  as a new one (`session.py:172`), as the code does; `CachedIsCurrent` counts from
  the moment a driver is stored. A handle invalidated while its check is in flight
  is returned (`session.py:115`): it answered, which is what `ensure()` promises.
- Factories are those of `targets/`: open, check and close may succeed or fail at
  any time. The kind of `invalidate(device, kind)` is left out: `src/` never
  passes one.
- Not modelled: the sealing of secrets (cryptography), the file they are kept in and
  the decoding of a JWT (parsing; a token is fresh, stale or opaque and then fresh),
  logging (formatting), HTTP routes (serialisation of calls that are modelled where
  they land), argument parsing and output of the command line. The order in which
  `Orchestrator.stop()` takes scheduler, monitor and sessions down has no run of its
  own: each is shown to stop by itself, the scheduler under any forcing of states, the
  monitor while callers go on.

## 9. Plan

| Step | State |
|---|---|
| `DeviceRegistry`, `Scheduler`, `TaskLifecycle`, `SchedulerProofs` | done |
| `HealthMonitor`, `HealthProofs` | done |
| `SessionManager`, `SessionProofs` | done |
| `EventHub`, `EventHubProofs` | done |
| `TargetContract`, `ApkTarget`, `TokenCache`, `WebTarget`, `AndroidTarget`, `Targets` and their proofs | done |
| `SchedulerWorkProofs`: `WorkConserved`, the counters, idle and drain, the pills, the refinement | done |
| the action properties, the extent of the findings, and what liveness rests on beside fairness | done |
| an abstract specification of the event feed (what a subscriber may miss) and of the lease table, with `EventHub` and `DeviceRegistry` shown to implement them | next |
| the extent of `two_episodes`: how many episodes of one device can be at work at once | next |
| one module of scheduler and monitor together, in place of the environment each is for the other | open: the product is out of TLC's reach at the bounds that matter, and the scheduler's theorems hold whatever states a monitor forces |
| `Orchestrator`: the order of start and stop as a composition | open |
| parsing of `adb devices` as an operator | open |
