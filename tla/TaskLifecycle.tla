---------------------------- MODULE TaskLifecycle ----------------------------
(***************************************************************************)
(* What the task contract promises (src/core/task.py): the states a task   *)
(* may pass through, one device per running task and one running task per  *)
(* device, and a bounded number of attempts.  No queue, no workers, no     *)
(* leases, no timers: a caller of the orchestrator can observe all of it.  *)
(***************************************************************************)
EXTENDS Naturals

CONSTANTS Records, Devices, Selector, MaxAttempts, NoOne

VARIABLES state,     \* TaskRecord.state, or UNSUBMITTED
          attempts,  \* TaskRecord.attempt_count
          using      \* the device a RUNNING task runs on, else NoOne

vars == <<state, attempts, using>>

Init ==
    /\ state = [r \in Records |-> "UNSUBMITTED"]
    /\ attempts = [r \in Records |-> 0]
    /\ using = [r \in Records |-> NoOne]

\* A spec is accepted, or refused because nothing can run its kind.
Submit(r) ==
    /\ state[r] = "UNSUBMITTED"
    /\ \E s \in {"PENDING", "REJECTED"} : state' = [state EXCEPT ![r] = s]
    /\ UNCHANGED <<attempts, using>>

\* No device could ever satisfy the selector.
Abandon(r) ==
    /\ state[r] = "PENDING"
    /\ state' = [state EXCEPT ![r] = "ABANDONED"]
    /\ UNCHANGED <<attempts, using>>

\* An attempt starts on a matching device no other task is running on.
Begin(r, d) ==
    /\ state[r] = "PENDING"
    /\ d \in Selector[r]
    /\ \A s \in Records : using[s] # d
    /\ attempts[r] < MaxAttempts[r] \/ attempts[r] = 0
    /\ state' = [state EXCEPT ![r] = "RUNNING"]
    /\ attempts' = [attempts EXCEPT ![r] = @ + 1]
    /\ using' = [using EXCEPT ![r] = d]

\* The attempt ends: with a result, with a FatalError, or with a failure that is
\* retried while attempts are left and final when they are used up.
End(r) ==
    /\ state[r] = "RUNNING"
    /\ \E s \in {"SUCCEEDED", "REJECTED", "PENDING", "FAILED"} :
         /\ s = "PENDING" => attempts[r] < MaxAttempts[r]
         /\ s = "FAILED" => attempts[r] >= MaxAttempts[r]
         /\ state' = [state EXCEPT ![r] = s]
    /\ using' = [using EXCEPT ![r] = NoOne]
    /\ UNCHANGED attempts

\* A task that allows no attempts fails without one.
FailUntried(r) ==
    /\ state[r] = "PENDING" /\ attempts[r] >= MaxAttempts[r]
    /\ state' = [state EXCEPT ![r] = "FAILED"]
    /\ UNCHANGED <<attempts, using>>

Next == \E r \in Records :
    \/ Submit(r) \/ Abandon(r) \/ End(r) \/ FailUntried(r)
    \/ \E d \in Devices : Begin(r, d)

Spec == Init /\ [][Next]_vars

-----------------------------------------------------------------------------
\* What this comes to for whoever submits a task: it runs on one device at a time,
\* one that its selector matches and no other task is on; it is tried as often as it
\* allows and no more, or once; it fails for good only when its attempts are used up
\* and succeeds only by an attempt.  (task.py:34-44, 103-137.)
Promises ==
    \A r \in Records :
      /\ state[r] = "RUNNING" <=> using[r] # NoOne
      /\ using[r] # NoOne =>
           using[r] \in Selector[r] /\ \A s \in Records \ {r} : using[s] # using[r]
      /\ attempts[r] <= MaxAttempts[r] \/ attempts[r] = 1
      /\ state[r] = "FAILED" => attempts[r] >= MaxAttempts[r]
      /\ state[r] \in {"RUNNING", "SUCCEEDED"} => attempts[r] > 0
=============================================================================
