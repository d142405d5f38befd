------------------------------- MODULE MCHealth -------------------------------
(* Constants for the runs of the health monitor: one device, one worker.       *)
EXTENDS HealthMonitor

CONSTANTS d1, d2, w1, w2
=============================================================================
