\* Two containers compete for the image queue; one connection may be lost.
\* Three jobs, each delivered up to twice, two posts a callback.
CONSTANTS
  photo = photo
  clip = clip
  alien = alien
  garbled = garbled
  disp = disp
  img = img
  img2 = img2
  vid = vid
  NoJob = NoJob
  NoMessage = NoMessage
  Job = {photo, alien, garbled}
  Consumer = {disp, img, img2}
  Subscription <- MCSubscription
  Media <- MCMedia
  Kind <- MCKind
  RetryLimit = 0
  MaxLosses = 1
  Attempts = 2
SPECIFICATION FairSpec
INVARIANTS TypeOK OnlyFailuresVanish CallbacksBoundedByLosses
PROPERTY EveryJobSettles
CHECK_DEADLOCK FALSE
