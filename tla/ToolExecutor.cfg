\* Four calls of execute, with every outcome of the tool.
CONSTANTS
  write = write
  deliver = deliver
  look = look
  NoAction = NoAction
  Action = {write, deliver, look}
  NonIdempotent = {write, deliver}
  RetrySafe = {deliver, look}
  MaxAttempts = 3
  MaxCalls = 4
SPECIFICATION Spec
INVARIANTS TypeOK RepeatsNeedFailures
CHECK_DEADLOCK FALSE
