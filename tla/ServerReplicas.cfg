\* One job that may be retried twice, two containers that compete for the
\* image queue, two connections lost.
CONSTANTS
  good = good
  bad = bad
  alien = alien
  garbled = garbled
  disp = disp
  img = img
  img2 = img2
  vid = vid
  NoMessage = NoMessage
  Job = {good}
  Consumer = {disp, img, img2}
  Subscription <- MCSubscription
  Media <- MCMedia
  Kind <- MCKind
  RetryLimit = 2
  MaxLosses = 2
SPECIFICATION FairSpec
INVARIANT LossesBoundDuplicates
PROPERTY EveryJobSettles
CHECK_DEADLOCK FALSE
