----------------------------- MODULE MCScheduler -----------------------------
(* Constants for the scheduler's runs.  r1 takes any device, r2 is pinned to   *)
(* d1 and r3 names a kind without a target; one device d1 is contended.        *)
EXTENDS Scheduler, TLC

CONSTANTS r1, r2, r3, i1, i2, i3, d1, d2, w1, w2

\* One id per record, as uuid ids give.
OwnId == [r \in Records |-> IF r = r1 THEN i1 ELSE IF r = r2 THEN i2 ELSE i3]

\* Two records submitted under one caller-chosen id.
SharedId == [r \in Records |-> i1]

\* r3 comes under the id of r1.
RejectedTwin == [r \in Records |-> IF r = r2 THEN i2 ELSE i1]

AnyOrPinned == [r \in Records |-> IF r = r2 THEN {d1} ELSE Devices]
EveryDevice == [r \in Records |-> Devices]

\* Attempts per task.
TwoAndOne == [r \in Records |-> IF r = r1 THEN 2 ELSE 1]
TwoAndNone == [r \in Records |-> IF r = r1 THEN 2 ELSE 0]
TwoEach == [r \in Records |-> 2]

WorkerSymmetry == Permutations(Workers)
=============================================================================
