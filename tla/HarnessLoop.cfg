\* Two runs, one after the other or the second after a crash.
CONSTANTS
  r1 = r1
  r2 = r2
  NoRun = NoRun
  Run = {r1, r2}
  MaxAttempts = 2
  MaxCrashes = 1
SPECIFICATION FairSpec
INVARIANTS TypeOK VerdictMatchesDisk ResumeTruthful
PROPERTIES FollowsTable RunEnds
CHECK_DEADLOCK FALSE
