---------------------------- MODULE DeviceRegistry ----------------------------
(***************************************************************************)
(* The device inventory of src/core/device.py: which devices exist, what   *)
(* state each is in, who holds the exclusive lease on it, and which callers *)
(* of acquire() sleep on the registry's asyncio.Condition.                 *)
(*                                                                         *)
(* The module gives the registry's operations as actions on its own three  *)
(* variables; Scheduler and the modules composed with it call them.  A     *)
(* body under `async with self._cond` never awaits between its first read  *)
(* and its last write, so each operation is one atomic step; waiting for   *)
(* the condition's lock is the interleaving before it.                     *)
(***************************************************************************)
EXTENDS Naturals

CONSTANTS Devices,    \* device ids (adb serials, browser slots)
          Workers,    \* the coroutines that lease devices: scheduler workers
          NoOne       \* "nobody": the owner of an unleased device

ASSUME NoOneAssumption == NoOne \notin Workers /\ NoOne \notin Devices

VARIABLES devState,   \* the table: DeviceRegistry._devices[d].state, or ABSENT
          leases,     \* DeviceRegistry._leases: who holds d, or NoOne
          asleep      \* the callers suspended in `await self._cond.wait()`

registryVars == <<devState, leases, asleep>>

\* ABSENT is a device the source never reported, so it has no table entry.
\* UNAUTHORIZED is folded into OFFLINE: no code path tells the two apart.
TableStates == {"ONLINE", "OFFLINE", "QUARANTINED", "RETIRED"}
DeviceStates == TableStates \cup {"ABSENT"}

RegistryTypeOK ==
    /\ devState \in [Devices -> DeviceStates]
    /\ leases \in [Devices -> Workers \cup {NoOne}]
    /\ asleep \subseteq Workers

RegistryInit ==
    /\ devState = [d \in Devices |-> "ABSENT"]
    /\ leases = [d \in Devices |-> NoOne]
    /\ asleep = {}

-----------------------------------------------------------------------------
\* A selector is the set of devices it matches.

\* Mutant: leased devices are not skipped.
FindFreeOrLeased(selector) == {d \in selector : devState[d] = "ONLINE"}

\* _find_free(): the unleased ONLINE devices that match.  The code takes the
\* first of them in table order; which one that is, is left open here.
FindFree(selector) ==
    {d \in selector : leases[d] = NoOne /\ devState[d] = "ONLINE"}

\* could_ever_match(): some known device that is not RETIRED matches.
CouldEverMatch(selector) ==
    \E d \in selector : devState[d] \notin {"ABSENT", "RETIRED"}

\* self._cond.notify_all(): every sleeper is made runnable.
NotifyAll == asleep' = {}

\* acquire(), a free device found: the lease is recorded and returned.
AcquireFree(w, selector, d) ==
    /\ w \notin asleep
    /\ d \in FindFree(selector)
    /\ leases' = [leases EXCEPT ![d] = w]
    /\ UNCHANGED <<devState, asleep>>

\* acquire(), none free: suspend on the condition.
AcquireSleep(w, selector) ==
    /\ w \notin asleep
    /\ FindFree(selector) = {}
    /\ asleep' = asleep \cup {w}
    /\ UNCHANGED <<devState, leases>>

\* acquire(), the deadline passed: None, without another look at the table.
\* The timer may also beat a notification that is already on its way.
AcquireTimeout(w) ==
    /\ asleep' = asleep \ {w}
    /\ UNCHANGED <<devState, leases>>

\* release(): drop the lease if it is still the caller's, wake the sleepers.
ReleaseLease(w, d) ==
    /\ leases' = IF leases[d] = w THEN [leases EXCEPT ![d] = NoOne] ELSE leases
    /\ NotifyAll
    /\ UNCHANGED devState

\* Mutant: the state changes without notify_all().
SetStateSilently(d, s) ==
    /\ devState' = IF devState[d] = "ABSENT" THEN devState ELSE [devState EXCEPT ![d] = s]
    /\ UNCHANGED <<leases, asleep>>

\* set_state(): no guard on the transition; a known device in another state
\* changes and the sleepers wake, anything else is a no-op.
SetState(d, s) ==
    /\ IF devState[d] \in {"ABSENT", s}
       THEN UNCHANGED <<devState, asleep>>
       ELSE devState' = [devState EXCEPT ![d] = s] /\ NotifyAll
    /\ UNCHANGED leases

\* refresh(): reconcile the table with a poll.  `seen` is what the source
\* reported, `up` the part of it in adb state "device".  QUARANTINED and
\* RETIRED are not overruled, and a device that vanished stays, OFFLINE.
Refresh(seen, up) ==
    /\ devState' = [d \in Devices |->
         IF devState[d] \in {"QUARANTINED", "RETIRED"} THEN devState[d]
         ELSE IF d \in up THEN "ONLINE"
         ELSE IF d \in seen \/ devState[d] = "ONLINE" THEN "OFFLINE"
         ELSE devState[d]]
    /\ NotifyAll
    /\ UNCHANGED leases
=============================================================================
