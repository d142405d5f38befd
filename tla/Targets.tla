------------------------------- MODULE Targets -------------------------------
(***************************************************************************)
(* The three targets at work beside each other, under one command: run and *)
(* deploy of src/cli.py start the orchestrator, submit their tasks, drain  *)
(* the scheduler and exit with a code.  deploy submits one task pinned per *)
(* phone it finds.                                                         *)
(***************************************************************************)
EXTENDS ApkTarget, WebTarget, AndroidTarget

VARIABLES
  cli,      \* start, draining, or the exit code
  targets   \* the tasks the command submitted

cliVars == <<cli, targets>>
vars == <<taskVars, apkVars, tokenVars, webVars, cliVars>>

CliStates == {"start", "draining", "0", "1", "2", "crashed"}

Init ==
    /\ ContractInit /\ ApkInit /\ TokenInit /\ WebInit
    /\ cli = "start" /\ targets = {}

-----------------------------------------------------------------------------
\* The command.

KeepTargets == UNCHANGED <<apkVars, tokenVars, webVars>>

\* Orchestrator.start() polls the devices first; without adb that raises.
StartFails ==
    /\ cli = "start" /\ cli' = "crashed"
    /\ UNCHANGED <<taskVars, targets>> /\ KeepTargets

\* run: a spec is refused; what was submitted before it is stopped unstarted.
RunRefused ==
    /\ cli = "start" /\ cli' = "2"
    /\ UNCHANGED <<taskVars, targets>> /\ KeepTargets

RunSubmits ==
    /\ cli = "start" /\ cli' = "draining"
    /\ targets' = Tasks
    /\ Submits(Tasks)
    /\ KeepTargets

\* deploy: a task for each phone the first poll found, if any.
IsRollout ==
    /\ \A t \in Tasks : plan[t].kind = "apk" /\ \E d \in Devices : plan[t].where = {d}
    /\ \A t, u \in Tasks : plan[t].where = plan[u].where => t = u

DeploySubmits ==
    /\ IsRollout
    /\ cli = "start"
    /\ \E found \in SUBSET Tasks :
         IF found = {}
         THEN cli' = "2" /\ UNCHANGED <<taskVars, targets>>
         ELSE cli' = "draining" /\ targets' = found /\ Submits(found)
    /\ KeepTargets

\* Mutant: only what ended badly counts as a failure.
CodeOfFailures ==
    IF \E t \in targets : status[t] \in {"failed", "rejected"} THEN "1" ELSE "0"

\* A partial rollout is a failure, and so is one that is not done.
Code == IF \A t \in targets : status[t] = "succeeded" THEN "0" ELSE "1"

\* drain() returned: nothing is left, or its timeout passed.  stop() ends the rest.
Exits ==
    /\ cli = "draining" /\ cli' = Code
    /\ UNCHANGED <<taskVars, targets>> /\ KeepTargets

-----------------------------------------------------------------------------
\* Attempts.

Steps(t) ==
    /\ cli = "draining"
    /\ \/ (Begins(t) \/ Returns(t)) /\ KeepTargets
       \/ ApkStep(t) /\ UNCHANGED <<tokenVars, webVars>>
       \/ WebStep(t) /\ UNCHANGED apkVars
       \/ AndroidStep(t) /\ KeepTargets
    /\ UNCHANGED cliVars

\* The clock: no time left at the head of the loop, or within an await.
Clock(t) ==
    /\ cli = "draining"
    /\ \/ RunsOutOfTime(t) /\ Forgets(t) /\ UNCHANGED <<worldVars, slots, tokenVars, webVars>>
       \/ ApkTimesOut(t) /\ UNCHANGED <<tokenVars, webVars>>
       \/ WebTimesOut(t) /\ UNCHANGED apkVars
       \/ AndroidTimesOut(t) /\ KeepTargets
    /\ UNCHANGED cliVars

\* Only what matters to the kinds of task there are.
Has(kind) == \E t \in Tasks : Kind(t) = kind

World ==
    /\ cli = "draining"
    /\ \/ /\ Has("apk")
          /\ CIWrites \/ CIRemoves \/ \E d \in Devices : VendorUpdates(d)
          /\ UNCHANGED <<taskVars, tokenVars, webVars>>
       \/ \E t \in Tasks : PhoneTakesBuild(t) /\ UNCHANGED <<tokenVars, webVars>>
       \/ /\ Has("web")
          /\ \E r \in Realms : TokenExpires(r) \/ Invalidate(r)
          /\ UNCHANGED <<taskVars, apkVars, webVars>>
       \/ (\E t \in Tasks : PageSetsCookie(t)) /\ UNCHANGED apkVars
       \/ (\E c \in DOMAIN cookies : DatePasses(c)) /\ UNCHANGED apkVars
    /\ UNCHANGED cliVars

Next ==
    \/ StartFails \/ RunRefused \/ RunSubmits \/ DeploySubmits \/ Exits
    \/ \E t \in Tasks : Steps(t) \/ Clock(t)
    \/ World

Spec == Init /\ [][Next]_vars

\* A coroutine that can go on does.  The queues of the hashing semaphore and of the
\* token locks are FIFO, so nobody is passed over for ever.
Fairness ==
    \A t \in Tasks :
      /\ WF_vars(Steps(t))
      /\ SF_vars(GetsSlot(t) /\ Steps(t))
      /\ SF_vars(GetsLock(t) /\ Steps(t))

FairSpec == Spec /\ Fairness

-----------------------------------------------------------------------------
\* Every variable holds what it should.
TypeOK ==
    /\ ContractTypeOK /\ ApkTypeOK /\ TokenTypeOK /\ WebTypeOK
    /\ cli \in CliStates /\ targets \subseteq Tasks

\* One refresh per token: a realm's token endpoint is asked at most once more than
\* there were reasons to (a token gone stale, one thrown away, a refresh that failed
\* or was cancelled), however many attempts need the token at once (auth.py:271).
RefreshInFlight(r) == lock[r] # NoOne
RefreshesEarned ==
    \A r \in Realms : asked[r] <= lost[r] + (IF Fresh(r) \/ RefreshInFlight(r) THEN 1 ELSE 0)

\* A task that succeeded after an install step put a build on its phone in that very
\* attempt, whatever adb's exit code was; the digest it reports is never of a build
\* newer than that one (it may be of an older one, apk.py:232 and 248); and a command
\* that exits 0 has every task it submitted done (apk.py:126-146, cli.py:409-424).
Installs(t) == \E i \in DOMAIN plan[t].steps : plan[t].steps[i] = "install"
GreenIsDeployed ==
    /\ \A t \in Tasks :
         (Kind(t) = "apk" /\ Installs(t) /\ status[t] = "succeeded")
           => digest[t] \in 1..shipped[t]
    /\ cli = "0" => \A t \in targets : status[t] = "succeeded"

\* No task is given up at its first attempt for what another attempt or phone could
\* cure: only for a spec, build or credential that is no good, or another version on
\* the phone.  Nothing of that, no healthy phone of the wrong kind, no host without adb
\* and no site is held against a device, whatever codes the package manager has for
\* it and whatever adb's exit code is (apk.py:149-163, 215-218, web.py:287-301).  A
\* broken build is given up at once for the codes on the code's list, and retried for
\* any other (apk.py:161), though README.md:261 calls parse failures fatal.
FaultsAreSorted ==
    \A t \in Tasks :
      /\ outcome[t] = "fatal" => cause[t] \in {"item", "version"}
      /\ cause[t] = "item" => outcome[t] = "fatal" \/ (Kind(t) = "apk" /\ outcome[t] = "retry")
      /\ cause[t] \in {"misfit", "adb", "far"} => outcome[t] = "retry"

\* Realms that share no browser slot with the others, directly or through one another,
\* never see the others' cookies: not in the browsers of their slots, not in a jar,
\* however often sessions are captured, restored and left behind in a browser
\* (auth.py:338-358, web.py:316-320, 361-363).
Serves(d, r) == \E t \in Tasks : Kind(t) = "web" /\ d \in plan[t].where /\ Realm(t) = r
Apart(R) ==
    \A d \in Devices : \A q \in R, r \in Realms \ R : ~(Serves(d, q) /\ Serves(d, r))
CookiesOf(R) == {c \in DOMAIN cookies : cookies[c].of \in R}
RealmsStayApart ==
    \A R \in SUBSET Realms : Apart(R) =>
      /\ \A r \in R : jar[r] \subseteq CookiesOf(R)
      /\ \A d \in Devices : (\E r \in R : Serves(d, r)) => browser[d] \subseteq CookiesOf(R)

\* src/core/auth.py:361-365: live() says whether the stored session still has an
\* unexpired session cookie, so once all its logins have expired it is not live.
SpentLoginIsNotLive ==
    \A r \in Realms :
      LET logins == {c \in jar[r] : cookies[c].login}
      IN  logins # {} /\ logins \subseteq expired => ~Live(r)

\* No attempt hangs, whether or not a deadline comes to its rescue: the hashing slot
\* and the token lock it waits for come back whatever happens to their holders
\* (apk.py:114-115, auth.py:297-301).
AttemptsEnd ==
    \A t \in Tasks : status[t] = "running" ~> (status[t] # "running" \/ cli # "draining")
=============================================================================
