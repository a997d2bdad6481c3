---------------------------- MODULE MCHarnessLoop ---------------------------
(* Instances of HarnessLoop for TLC. *)
EXTENDS HarnessLoop, TLC

CONSTANTS r1, r2        \* runs
=============================================================================
