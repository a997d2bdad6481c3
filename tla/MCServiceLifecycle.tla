------------------------ MODULE MCServiceLifecycle --------------------------
(* Instances of ServiceLifecycle for TLC. *)
EXTENDS ServiceLifecycle

CONSTANTS q1, q2        \* REST requests
=============================================================================
