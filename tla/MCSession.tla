------------------------------ MODULE MCSession ------------------------------
(* Constants for the runs of the session manager.                              *)
EXTENDS SessionManager

CONSTANTS d1, d2, web, android, c1, c2
=============================================================================
