------------------------------ MODULE MCEventHub ------------------------------
(* Constants for the runs of the event hub.                                    *)
EXTENDS EventHub

CONSTANTS c1, c2
=============================================================================
