\* Two workers, two deliveries, two detections in the same frame.
CONSTANTS
  w1 = w1
  w2 = w2
  Worker = {w1, w2}
  FrameOf <- MCFrameOf
  MaxDeliveries = 2
SPECIFICATION StoreSpec
INVARIANTS StoreTypeOK CropsAreWhole RaceHealsItself
CHECK_DEADLOCK FALSE
