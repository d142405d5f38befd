---------------------------- MODULE SessionManager ----------------------------
(***************************************************************************)
(* The session manager of src/core/session.py: one cached session per      *)
(* device and kind, checked before each use, reopened with a backoff when  *)
(* it does not answer, dropped when the health monitor says so.            *)
(*                                                                         *)
(* Callers are the attempts of src/core/scheduler.py: each runs ensure()   *)
(* and then uses the driver, with a deadline behind which it is cancelled  *)
(* at whatever it awaits.  invalidate() comes from the monitor, at any     *)
(* time.  A driver is its number in the order of opening.                  *)
(***************************************************************************)
EXTENDS Naturals, Sequences

CONSTANTS Devices, Kinds,      \* a key of the cache is a device and a kind
          Callers,             \* attempts that run at a time: scheduler workers
          MaxOpenAttempts,     \* SessionManager._max_open_attempts
          MaxDrivers           \* bound: drivers opened

ASSUME SessionAssumption ==
    /\ MaxOpenAttempts \in Nat \ {0}
    /\ MaxDrivers \in Nat

Keys == Devices \X Kinds
NoKey == <<>>
DeviceOf(key) == key[1]
Drivers == 1..MaxDrivers
NoDriver == 0

VARIABLES
  leased,       \* callers lease the device first, as the scheduler does
  sessions,     \* SessionManager._sessions: the driver of the cached handle
  generations,  \* SessionManager._generations
  caller,       \* the coroutine of each caller
  alive,        \* ground truth: the drivers that answer
  old,          \* the drivers whose handle's age_s is past max_age_s
  born,         \* history: key and generation of each driver that was opened
  closed,       \* history: the drivers given to factory.close()
  stale         \* history: the drivers stored before their device was invalidated

vars == <<leased, sessions, generations, caller, alive, old, born, closed, stale>>
driverVars == <<alive, old, born>>

\* pc is the await a caller is suspended in: the key's lock, factory.check(),
\* factory.close() in _discard(), factory.open(), the backoff's sleep; in use
\* ensure() has returned.  late: ctx.remaining_s() is 0.
CallerPcs == {"idle", "lock", "check", "close", "open", "backoff", "use"}
CallerRecords ==
    [pc : CallerPcs, key : Keys \cup {NoKey}, driver : Drivers \cup {NoDriver},
     attempt : 0..MaxOpenAttempts, late : BOOLEAN]
Idle == [pc |-> "idle", key |-> NoKey, driver |-> NoDriver, attempt |-> 0, late |-> FALSE]

Opened == 1..Len(born)

TypeOK ==
    /\ leased \in BOOLEAN
    /\ sessions \in [Keys -> Opened \cup {NoDriver}]
    /\ generations \in [Keys -> Nat]
    /\ caller \in [Callers -> CallerRecords]
    /\ born \in Seq([key : Keys, generation : Nat]) /\ Len(born) <= MaxDrivers
    /\ alive \subseteq Opened /\ old \subseteq Opened
    /\ closed \subseteq Opened /\ stale \subseteq Opened

Init ==
    /\ leased \in BOOLEAN
    /\ sessions = [key \in Keys |-> NoDriver]
    /\ generations = [key \in Keys |-> 0]
    /\ caller = [c \in Callers |-> Idle]
    /\ alive = {} /\ old = {}
    /\ born = <<>> /\ closed = {} /\ stale = {}

-----------------------------------------------------------------------------
\* What the steps of ensure() are made of.

Busy == {c \in Callers : caller[c].pc # "idle"}

\* The callers inside `async with self._lock_for(key)`.
Holders(key) == {c \in Callers : caller[c].key = key
                                   /\ caller[c].pc \in {"check", "close", "open", "backoff"}}

\* The loop of _open_with_backoff() at an attempt: out of time, or factory.open().
TryOpen(c, attempt) ==
    caller' = [caller EXCEPT ![c] =
        IF @.late THEN Idle
        ELSE [@ EXCEPT !.pc = "open", !.driver = NoDriver, !.attempt = attempt]]

\* Mutant: the cache is cleared when factory.close() has returned.
DiscardLater(c, n) ==
    /\ closed' = closed \cup {n}
    /\ caller' = [caller EXCEPT ![c].pc = "close", ![c].driver = n]
    /\ UNCHANGED sessions

\* _discard(): out of the cache, then factory.close() is awaited.
Discard(c, n) ==
    /\ sessions' = [sessions EXCEPT ![caller[c].key] = NoDriver]
    /\ closed' = closed \cup {n}
    /\ caller' = [caller EXCEPT ![c].pc = "close", ![c].driver = n]

-----------------------------------------------------------------------------
\* ensure().

\* A caller asks for its session.  The scheduler's callers hold the lease of the
\* device, so only those that come around it can meet at the lock.
Ensure(c, key) ==
    /\ caller[c].pc = "idle"
    /\ leased => \A b \in Busy : DeviceOf(caller[b].key) # DeviceOf(key)
    /\ caller' = [caller EXCEPT ![c] = [Idle EXCEPT !.pc = "lock", !.key = key]]
    /\ UNCHANGED <<leased, sessions, generations, driverVars, closed, stale>>

\* Mutant: the lock is not taken.
EntersUnlocked(c) == caller[c].pc = "lock"

Enters(c) == caller[c].pc = "lock" /\ Holders(caller[c].key) = {}

\* The lock is held and nothing is cached: straight to the first attempt.
EnterEmpty(c) ==
    /\ Enters(c) /\ sessions[caller[c].key] = NoDriver
    /\ TryOpen(c, 1)
    /\ UNCHANGED <<leased, sessions, generations, driverVars, closed, stale>>

\* The cached handle is too old and is recycled.
EnterOld(c) ==
    LET n == sessions[caller[c].key]
    IN /\ Enters(c) /\ n \in old
       /\ Discard(c, n)
       /\ UNCHANGED <<leased, generations, driverVars, stale>>

\* Mutant: a cached handle is returned without a check.
EnterTrusting(c) ==
    LET n == sessions[caller[c].key]
    IN /\ Enters(c) /\ n # NoDriver /\ n \notin old
       /\ caller' = [caller EXCEPT ![c].pc = "use", ![c].driver = n]
       /\ UNCHANGED <<leased, sessions, generations, driverVars, closed, stale>>

\* The cached handle is checked.
EnterCached(c) ==
    LET n == sessions[caller[c].key]
    IN /\ Enters(c) /\ n # NoDriver /\ n \notin old
       /\ caller' = [caller EXCEPT ![c].pc = "check", ![c].driver = n]
       /\ UNCHANGED <<leased, sessions, generations, driverVars, closed, stale>>

\* Mutant: the handle that passed is put back into the cache.
CheckPassesStoring(c) ==
    /\ caller[c].pc = "check" /\ caller[c].driver \in alive
    /\ caller' = [caller EXCEPT ![c].pc = "use"]
    /\ sessions' = [sessions EXCEPT ![caller[c].key] = caller[c].driver]
    /\ UNCHANGED <<leased, generations, driverVars, closed, stale>>

\* The driver answered.  Its handle is returned as it is, also when invalidate()
\* dropped it from the cache meanwhile.
CheckPasses(c) ==
    /\ caller[c].pc = "check" /\ caller[c].driver \in alive
    /\ caller' = [caller EXCEPT ![c].pc = "use"]
    /\ UNCHANGED <<leased, sessions, generations, driverVars, closed, stale>>

\* The check says no or raises, which a driver that is alive may do too.
CheckFails(c) ==
    /\ caller[c].pc = "check"
    /\ Discard(c, caller[c].driver)
    /\ UNCHANGED <<leased, generations, driverVars, stale>>

\* factory.close() returned, or raised and left the driver as it was.
CloseReturns(c) ==
    /\ caller[c].pc = "close"
    /\ alive' \in {alive, alive \ {caller[c].driver}}
    /\ TryOpen(c, 1)
    /\ UNCHANGED <<leased, sessions, generations, old, born, closed, stale>>

\* Stored, with the next generation of its key, and returned.
Store(c, generation) ==
    LET key == caller[c].key
        n == Len(born) + 1
    IN /\ caller[c].pc = "open" /\ n \in Drivers
       /\ born' = Append(born, [key |-> key, generation |-> generation])
       /\ alive' = alive \cup {n}
       /\ generations' = [generations EXCEPT ![key] = generation]
       /\ sessions' = [sessions EXCEPT ![key] = n]
       /\ caller' = [caller EXCEPT ![c].pc = "use", ![c].driver = n]
       /\ UNCHANGED <<leased, old, closed, stale>>

\* Mutant: the generation is that of the attempt.
OpenSucceedsAtAttempt(c) == Store(c, caller[c].attempt)

\* factory.open() returned a driver.
OpenSucceeds(c) == Store(c, generations[caller[c].key] + 1)

\* Mutant: one more attempt than allowed.
OpenFailsOnceMore(c) ==
    /\ caller[c].pc = "open"
    /\ caller' = [caller EXCEPT ![c] =
         IF @.attempt > MaxOpenAttempts THEN Idle ELSE [@ EXCEPT !.pc = "backoff"]]
    /\ UNCHANGED <<leased, sessions, generations, driverVars, closed, stale>>

\* factory.open() raised: give up behind the last attempt, else back off.
OpenFails(c) ==
    /\ caller[c].pc = "open"
    /\ caller' = [caller EXCEPT ![c] =
         IF @.attempt = MaxOpenAttempts THEN Idle ELSE [@ EXCEPT !.pc = "backoff"]]
    /\ UNCHANGED <<leased, sessions, generations, driverVars, closed, stale>>

\* Mutant: the attempts are not counted.
BackoffUncounted(c) ==
    /\ caller[c].pc = "backoff"
    /\ TryOpen(c, caller[c].attempt)
    /\ UNCHANGED <<leased, sessions, generations, driverVars, closed, stale>>

BackoffEnds(c) ==
    /\ caller[c].pc = "backoff"
    /\ TryOpen(c, caller[c].attempt + 1)
    /\ UNCHANGED <<leased, sessions, generations, driverVars, closed, stale>>

\* The attempt is over.
UseEnds(c) ==
    /\ caller[c].pc = "use"
    /\ caller' = [caller EXCEPT ![c] = Idle]
    /\ UNCHANGED <<leased, sessions, generations, driverVars, closed, stale>>

\* The deadline of the context passes.
DeadlinePasses(c) ==
    /\ caller[c].pc # "idle" /\ ~caller[c].late
    /\ caller' = [caller EXCEPT ![c].late = TRUE]
    /\ UNCHANGED <<leased, sessions, generations, driverVars, closed, stale>>

\* The scheduler's timeout, a moment later: CancelledError at whichever await.
\* What factory.close() had begun may be done or not.
Cancelled(c) ==
    /\ caller[c].late
    /\ alive' \in (IF caller[c].pc = "close" THEN {alive, alive \ {caller[c].driver}} ELSE {alive})
    /\ caller' = [caller EXCEPT ![c] = Idle]
    /\ UNCHANGED <<leased, sessions, generations, old, born, closed, stale>>

-----------------------------------------------------------------------------
\* Around ensure().

\* The sessions of these keys are gone, and what was opened for them is stale.
Drop(keys) ==
    /\ sessions' = [key \in Keys |-> IF key \in keys THEN NoDriver ELSE sessions[key]]
    /\ stale' = stale \cup {n \in Opened : born[n].key \in keys}
    /\ UNCHANGED <<leased, generations, caller, driverVars>>

\* Mutant: the drivers are closed as well.
InvalidateClosing(d) ==
    /\ closed' = closed \cup {sessions[key] : key \in {k \in Keys : DeviceOf(k) = d /\ sessions[k] # NoDriver}}
    /\ Drop({key \in Keys : DeviceOf(key) = d})

\* invalidate(): the monitor put the device in quarantine or retired it.  The
\* cache forgets its handles, which nobody closes.
Invalidate(d) == Drop({key \in Keys : DeviceOf(key) = d}) /\ UNCHANGED closed

\* close_all(), behind a stop of the scheduler: nobody is at work any more.  It
\* forgets the handles too.
CloseAll ==
    /\ Busy = {}
    /\ Drop(Keys) /\ UNCHANGED closed

\* The drivers that somebody can still reach; what happens to others is not seen.
Cached == {sessions[key] : key \in Keys} \ {NoDriver}
Held == Cached \cup {caller[c].driver : c \in Busy}

\* A session dies without a warning.
DriverDies(n) ==
    /\ n \in alive \cap Held
    /\ alive' = alive \ {n}
    /\ UNCHANGED <<leased, sessions, generations, caller, old, born, closed, stale>>

\* max_age_s passes.
DriverAges(n) ==
    /\ n \in Cached \ old
    /\ old' = old \cup {n}
    /\ UNCHANGED <<leased, sessions, generations, caller, alive, born, closed, stale>>

EnsureStep(c) ==
    EnterEmpty(c) \/ EnterOld(c) \/ EnterCached(c) \/ CheckPasses(c) \/ CheckFails(c)
      \/ CloseReturns(c) \/ OpenSucceeds(c) \/ OpenFails(c) \/ BackoffEnds(c)

Next ==
    \/ \E c \in Callers :
         (\E key \in Keys : Ensure(c, key)) \/ EnsureStep(c) \/ UseEnds(c)
           \/ DeadlinePasses(c) \/ Cancelled(c)
    \/ \E d \in Devices : Invalidate(d)
    \/ CloseAll
    \/ \E n \in Drivers : DriverDies(n) \/ DriverAges(n)

Spec == Init /\ [][Next]_vars

\* check, close and open are bounded by their callers' contract (session.py:63-70,
\* android.py:166, 186), a backoff is a sleep, and the lock is first come, first
\* served: hence the strong fairness of its taker.  No deadline need ever pass.
FairSpec ==
    /\ Spec
    /\ \A c \in Callers :
         /\ WF_vars(CheckPasses(c) \/ CheckFails(c)) /\ WF_vars(CloseReturns(c))
         /\ WF_vars(OpenSucceeds(c) \/ OpenFails(c)) /\ WF_vars(BackoffEnds(c))
         /\ SF_vars(EnterEmpty(c) \/ EnterOld(c) \/ EnterCached(c))

-----------------------------------------------------------------------------
\* Properties.

\* A generation names one session: of two drivers ever opened for a key, the later
\* one has the higher generation, through recycling, failed checks, invalidations
\* and a restart in between, so a caller can tell that a session was rebuilt.
\* (session.py:14-16, 165-172.)
GenerationsGrow ==
    \A i, j \in Opened :
      i < j /\ born[i].key = born[j].key => born[i].generation < born[j].generation

\* What the cache holds is the newest session of its key, was stored after the last
\* invalidation of its device, and was never given to close(), whoever was
\* cancelled where.  (_discard() pops before it awaits, session.py:201-203;
\* invalidate() against a check or an open in flight, 214-228.)
CachedIsCurrent ==
    \A key \in Keys : sessions[key] # NoDriver =>
      LET n == sessions[key]
      IN /\ born[n] = [key |-> key, generation |-> generations[key]]
         /\ n \notin closed /\ n \notin stale

\* A cached session is never overwritten by another: it leaves the cache first, so
\* two callers cannot open two sessions and lose one of them.  (The lock per key,
\* session.py:98-100.)
NeverOverwritten ==
    [][\A key \in Keys :
         sessions[key] = NoDriver \/ sessions'[key] \in {NoDriver, sessions[key]}]_vars

\* ensure() returns a driver that answers at that moment, and one of the caller's
\* key, or it returns nothing.  (session.py:10-12.)
ReturnsLive ==
    [][\A c \in Callers :
         (caller[c].pc # "use" /\ caller'[c].pc = "use") =>
            LET n == caller'[c].driver
            IN n \in alive' /\ born'[n].key = caller[c].key]_vars

\* Under leases nobody closes the session another attempt is using: not a recycling,
\* not a failed check, not an invalidation.  (session.py:198-228, the leases of
\* scheduler.py:214.)
InUseNotClosed ==
    leased => \A c \in Callers : caller[c].pc = "use" => caller[c].driver \notin closed

\* Every call of ensure() comes to an end, also when no attempt to open succeeds and
\* no deadline cuts it short.  (The bounded loop of session.py:134-161.)
EnsureEnds ==
    \A c \in Callers :
      caller[c].pc \notin {"idle", "use"} ~> caller[c].pc \in {"idle", "use"}
=============================================================================
