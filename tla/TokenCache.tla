----------------------------- MODULE TokenCache -----------------------------
(***************************************************************************)
(* TokenCache of src/core/auth.py: one token per realm, refreshed under a  *)
(* lock per realm.  Its callers are the attempts of the web target: the    *)
(* bearer step, which brings a refresh that talks to a token endpoint (the *)
(* seam of src/targets/web.py), and the capture step, which stores what    *)
(* the browser holds and never waits for anything but the lock.            *)
(***************************************************************************)
EXTENDS TargetContract

CONSTANT MaxLost    \* bound: the world makes a realm's token useless so often

ASSUME TokenAssumption == MaxLost \in Nat

VARIABLES
  token,  \* per realm: none, fresh, or stale (expired, or within the skew)
  lock,   \* per realm: the task that holds the lock across its refresh
  asked,  \* history: refreshes begun
  lost    \* history: reasons to refresh: tokens gone stale or thrown away,
          \* refreshes that came to nothing

tokenVars == <<token, lock, asked, lost>>

TokenTypeOK ==
    /\ token \in [Realms -> {"none", "fresh", "stale"}]
    /\ lock \in [Realms -> Tasks \cup {NoOne}]
    /\ asked \in [Realms -> Nat]
    /\ lost \in [Realms -> Nat]

TokenInit ==
    /\ token = [r \in Realms |-> "none"]
    /\ lock = [r \in Realms |-> NoOne]
    /\ asked = [r \in Realms |-> 0]
    /\ lost = [r \in Realms |-> 0]

Fresh(r) == token[r] = "fresh"
Loses(r) == lost' = [lost EXCEPT ![r] = @ + 1]

\* asyncio.Lock: free, and nobody before us in the queue.
Waits(t, r) == at[t] = "lock" /\ Realm(t) = r
LockFree(r) == lock[r] = NoOne /\ \A u \in Tasks : ~Waits(u, r)

\* refresh() is called, the lock stays with t until it returns.
StartsRefresh(t) ==
    /\ lock' = [lock EXCEPT ![Realm(t)] = t]
    /\ asked' = [asked EXCEPT ![Realm(t)] = @ + 1]
    /\ Goes(t, "refresh")
    /\ UNCHANGED <<token, lost>>

\* get(): a cached token is served without the lock.
TokenHit(t) ==
    /\ Fresh(Realm(t))
    /\ Goes(t, "headers")
    /\ UNCHANGED tokenVars

TokenMiss(t) ==
    /\ ~Fresh(Realm(t))
    /\ IF LockFree(Realm(t)) THEN StartsRefresh(t)
                             ELSE Goes(t, "lock") /\ UNCHANGED tokenVars

\* What the browser held is stored: still good, or expired already.
Stores(r) ==
    /\ \E held \in {"fresh", "stale"} : token' = [token EXCEPT ![r] = held]
    /\ UNCHANGED <<lock, asked, lost>>

\* get() from capture_session: a cached token wins over the captured one.
CaptureHit(t) ==
    /\ Fresh(Realm(t))
    /\ Advances(t)
    /\ UNCHANGED tokenVars

CaptureMiss(t) ==
    /\ ~Fresh(Realm(t))
    /\ IF LockFree(Realm(t)) THEN Stores(Realm(t)) /\ Advances(t)
                             ELSE Goes(t, "lock") /\ UNCHANGED tokenVars

Captures(t) == Op(t) = "capture"

\* Mutant: the winner of the lock does not look again.
GetsLockNoRecheck(t) ==
    /\ at[t] = "lock" /\ lock[Realm(t)] = NoOne
    /\ IF Captures(t) THEN Stores(Realm(t)) /\ Advances(t) ELSE StartsRefresh(t)

\* The lock came free: whoever held it may have done the refresh.
GetsLock(t) ==
    /\ at[t] = "lock" /\ lock[Realm(t)] = NoOne
    /\ CASE Fresh(Realm(t)) /\ Captures(t) -> Advances(t) /\ UNCHANGED tokenVars
         [] Fresh(Realm(t)) /\ ~Captures(t) -> Goes(t, "headers") /\ UNCHANGED tokenVars
         [] ~Fresh(Realm(t)) /\ Captures(t) -> Stores(Realm(t)) /\ Advances(t)
         [] OTHER -> StartsRefresh(t)

Frees(t) == lock' = [lock EXCEPT ![Realm(t)] = NoOne]

\* refresh() returned a token, one that may be about to expire.
Refreshed(t) ==
    /\ at[t] = "refresh" /\ plan[t].credential # "refused"
    /\ \/ token' = [token EXCEPT ![Realm(t)] = "fresh"] /\ UNCHANGED lost
       \/ token' = [token EXCEPT ![Realm(t)] = "stale"] /\ Loses(Realm(t))
    /\ Frees(t)
    /\ Goes(t, "headers")
    /\ UNCHANGED asked

\* refresh() raised: an AuthError where the credential is not accepted, or anything
\* else on the way to the endpoint.
RefreshFails(t) ==
    /\ at[t] = "refresh"
    /\ \/ plan[t].credential = "refused" /\ Ends(t, "fatal", "item")
       \/ Ends(t, "retry", "far")
    /\ Frees(t) /\ Loses(Realm(t))
    /\ UNCHANGED <<token, asked>>

\* Mutant: a cancelled refresh leaves its lock taken.
CancelledHoldingLock(t) ==
    IF at[t] = "refresh" THEN Loses(Realm(t)) /\ UNCHANGED <<token, lock, asked>>
                         ELSE UNCHANGED tokenVars

\* Cancelled in get(): `async with` gives the lock back.
TokenCancelled(t) ==
    IF at[t] = "refresh" THEN Frees(t) /\ Loses(Realm(t)) /\ UNCHANGED <<token, asked>>
                         ELSE UNCHANGED tokenVars

-----------------------------------------------------------------------------
\* The world: time passes, somebody answers 401.

TokenExpires(r) ==
    /\ Fresh(r) /\ lost[r] < MaxLost
    /\ token' = [token EXCEPT ![r] = "stale"]
    /\ Loses(r)
    /\ UNCHANGED <<lock, asked>>

Invalidate(r) ==
    /\ token[r] # "none" /\ lost[r] < MaxLost
    /\ token' = [token EXCEPT ![r] = "none"]
    /\ IF Fresh(r) THEN Loses(r) ELSE UNCHANGED lost
    /\ UNCHANGED <<lock, asked>>
=============================================================================
