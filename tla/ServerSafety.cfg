\* One process; a job that runs, one that is refused, one for the edge.
CONSTANTS
  good = good
  bad = bad
  alien = alien
  garbled = garbled
  disp = disp
  img = img
  img2 = img2
  vid = vid
  NoMessage = NoMessage
  Job = {good, bad, alien, garbled}
  Consumer = {disp, img, vid}
  Subscription <- MCSubscription
  Media <- MCMedia
  Kind <- MCKind
  RetryLimit = 1
  MaxLosses = 1
SPECIFICATION Spec
INVARIANTS TypeOK Accountable LossesBoundDuplicates
PROPERTY KeepsLedger
CHECK_DEADLOCK FALSE
