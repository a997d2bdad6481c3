\* One image for the RF-DETR backend.
CONSTANTS
  Backend = {"local"}
  MaxFrames = 0
  MaxJobs = 1
  MaxCrashes = 0
  MaxRetries = 0
  TimeoutSeconds = 1
  BaseDelay = 0
  MaxCalls = 1
SPECIFICATION Spec
INVARIANT LocalBackendAnalyzesImages
CHECK_DEADLOCK FALSE
