\* Every backend, two jobs of every kind, videos of up to two frames.
CONSTANTS
  Backend = {"harness", "roboflow", "local"}
  MaxFrames = 2
  MaxJobs = 2
  MaxCrashes = 1
  MaxRetries = 2
  TimeoutSeconds = 1
  BaseDelay = 1
  MaxCalls = 6
SPECIFICATION FairSpec
INVARIANTS TypeOK OutcomeMatchesFaults TempFilesAccounted OverlapCostsTimeouts
PROPERTY AnalysisEnds
CHECK_DEADLOCK FALSE
