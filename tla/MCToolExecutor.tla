--------------------------- MODULE MCToolExecutor ---------------------------
(* Instances of ToolExecutor for TLC. *)
EXTENDS ToolExecutor, TLC

CONSTANTS write,    \* a non-idempotent action that must not be retried
          deliver,  \* a non-idempotent action that may be retried
          look      \* an idempotent action that may be retried
=============================================================================
