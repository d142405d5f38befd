---------------------------- MODULE TargetContract ----------------------------
(***************************************************************************)
(* Attempts at tasks as a target sees them (src/core/task.py): execute()   *)
(* runs the steps of a spec on a leased device and returns, or raises one  *)
(* of the errors the scheduler sorts.  What the scheduler does around it   *)
(* (queue, leases, blame) is module Scheduler; here a task that may run    *)
(* again simply waits for a free device.                                   *)
(*                                                                         *)
(* `at` is the await a task's coroutine is suspended in.  "next" is the    *)
(* head of the loop over the steps: no suspension of its own, but what     *)
(* happens there reads nothing the await before it produced.               *)
(***************************************************************************)
EXTENDS Naturals, Sequences, FiniteSets

CONSTANTS Tasks, Devices, Realms,
          NoOne,      \* no device, no task
          Plans       \* the specs that may be submitted together, per task

Kinds == {"apk", "web", "android"}

\* A TaskSpec as far as the targets look at it: where its selector lets it run, how
\* many attempts it has, its steps' ops, and of their arguments the realm and whether
\* verify was given an expected version.  And what is true of it in the world: the
\* phones its build is made for, and whether its credential resolves and is accepted.
Specs == [kind: Kinds, where: SUBSET Devices, attempts: Nat, steps: Seq(STRING),
          realm: Realms, expect: BOOLEAN,
          fits: SUBSET Devices, credential: {"good", "missing", "refused"}]

ASSUME ContractAssumption ==
    /\ IsFiniteSet(Tasks)
    /\ NoOne \notin Devices \cup Tasks
    /\ Plans \subseteq [Tasks -> Specs]

VARIABLES
  plan,     \* the specs of this behaviour
  status,   \* TaskRecord.state: new, waiting, running, or how it ended
  tries,    \* attempts begun
  dev,      \* the device the running attempt's lease is on
  at,       \* where the attempt's coroutine is suspended
  step,     \* steps finished in this attempt
  outcome,  \* how the last attempt ended, as the scheduler sorts it
  cause     \* history: what had gone wrong in the world when it ended

taskVars == <<plan, status, tries, dev, at, step, outcome, cause>>

Outcomes == {"none", "ok", "retry", "blame", "fatal"}

\* What is wrong, whatever the code makes of it.  item: the spec, the build or the
\* credential.  misfit: a healthy phone of the wrong kind.  device: the phone or the
\* browser.  app: the app shows something else than the script expects.  far: a site
\* or its token endpoint.  adb: the host has no adb.  host: it has no Playwright, its
\* Appium is down, or the build went away.  version: another one is on the phone, or
\* none.  time: the task has none left.
Causes == {"none", "item", "misfit", "device", "app", "far", "adb", "host",
           "version", "time"}

AtStates == {"idle", "next", "session",
             "slot", "hash", "install", "verify", "uninstall", "shell",
             "restore", "headers", "lock", "refresh", "page", "cookies", "storage",
             "find", "act"}

ContractTypeOK ==
    /\ plan \in Plans
    /\ status \in [Tasks -> {"new", "waiting", "running", "succeeded", "failed", "rejected"}]
    /\ tries \in [Tasks -> Nat]
    /\ dev \in [Tasks -> Devices \cup {NoOne}]
    /\ at \in [Tasks -> AtStates]
    /\ step \in [Tasks -> Nat]
    /\ outcome \in [Tasks -> Outcomes]
    /\ cause \in [Tasks -> Causes]

ContractInit ==
    /\ plan \in Plans
    /\ status = [t \in Tasks |-> "new"]
    /\ tries = [t \in Tasks |-> 0]
    /\ dev = [t \in Tasks |-> NoOne]
    /\ at = [t \in Tasks |-> "idle"]
    /\ step = [t \in Tasks |-> 0]
    /\ outcome = [t \in Tasks |-> "none"]
    /\ cause = [t \in Tasks |-> "none"]

Kind(t) == plan[t].kind
Realm(t) == plan[t].realm

\* The attempt suspends in another await.
Goes(t, a) ==
    /\ at' = [at EXCEPT ![t] = a]
    /\ UNCHANGED <<plan, status, tries, dev, step, outcome, cause>>

\* _run_step() returned: on to the next one.
Advances(t) ==
    /\ at' = [at EXCEPT ![t] = "next"]
    /\ step' = [step EXCEPT ![t] = @ + 1]
    /\ UNCHANGED <<plan, status, tries, dev, outcome, cause>>

\* execute() ended with outcome o: what the scheduler makes of it.
Ends(t, o, c) ==
    /\ outcome' = [outcome EXCEPT ![t] = o]
    /\ cause' = [cause EXCEPT ![t] = c]
    /\ status' = [status EXCEPT ![t] =
         CASE o = "ok"    -> "succeeded"
           [] o = "fatal" -> "rejected"
           [] OTHER       -> IF tries[t] >= plan[t].attempts THEN "failed" ELSE "waiting"]
    /\ at' = [at EXCEPT ![t] = "idle"]
    /\ step' = [step EXCEPT ![t] = 0]
    /\ dev' = [dev EXCEPT ![t] = NoOne]
    /\ UNCHANGED <<plan, tries>>

\* The spec is accepted.
Submits(T) ==
    /\ \A t \in T : status[t] = "new"
    /\ status' = [t \in Tasks |-> IF t \in T THEN "waiting" ELSE status[t]]
    /\ UNCHANGED <<plan, tries, dev, at, step, outcome, cause>>

\* A worker leased a device and called execute().  The UI targets ask the session
\* manager for a session first, ApkTarget goes straight to its steps.
Begins(t) ==
    /\ status[t] = "waiting"
    /\ \E d \in plan[t].where :
         /\ \A u \in Tasks : dev[u] # d
         /\ dev' = [dev EXCEPT ![t] = d]
    /\ status' = [status EXCEPT ![t] = "running"]
    /\ tries' = [tries EXCEPT ![t] = @ + 1]
    /\ outcome' = [outcome EXCEPT ![t] = "none"]
    /\ cause' = [cause EXCEPT ![t] = "none"]
    /\ at' = [at EXCEPT ![t] = IF Kind(t) = "apk" THEN "next" ELSE "session"]
    /\ UNCHANGED <<plan, step>>

\* The loop is through: execute() returns.
Returns(t) ==
    /\ at[t] = "next" /\ step[t] >= Len(plan[t].steps)
    /\ Ends(t, "ok", "none")

\* The op of the step the attempt is at.
Op(t) == plan[t].steps[step[t] + 1]

\* The head of the loop at a step with op o.
AtOp(t, o) == at[t] = "next" /\ step[t] < Len(plan[t].steps) /\ Op(t) = o

\* No time left between two steps: nobody's fault.
RunsOutOfTime(t) ==
    /\ at[t] = "next" /\ step[t] < Len(plan[t].steps)
    /\ Ends(t, "retry", "time")

\* An op the target does not know; it stands for a step without an argument its op
\* needs (path, package, locator, url), too.
UnknownOp(t, known) ==
    /\ \A o \in known : ~AtOp(t, o)
    /\ at[t] = "next" /\ step[t] < Len(plan[t].steps)
    /\ Ends(t, "fatal", "item")

\* ensure() raised SessionError: the device is blamed, whether the phone or the browser
\* did not come up, the host has nothing to open a session with, or time ran out.
SessionFails(t) ==
    /\ at[t] = "session"
    /\ \E c \in {"device", "host", "time"} : Ends(t, "blame", c)

\* The scheduler's wait_for cancels execute() in whatever it awaits, at most once
\* per attempt; a device that let the deadline pass is blamed.
TimesOut(t) ==
    /\ at[t] \notin {"idle", "next"}
    /\ Ends(t, "blame", "time")
=============================================================================
