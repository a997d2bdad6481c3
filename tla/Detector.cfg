\* Every second frame of up to five, two of them, three detections of two
\* classes, at most two per class, overlap threshold one half.
CONSTANTS
  crack = crack
  rust = rust
  none = none
  NoCategory = none
  Width = 4
  Height = 2
  Scale = 2
  Interval = 2
  MaxFrames = 2
  Cap = 2
  Threshold = 2
  Num = 1
  Den = 2
  Prediction <- MCPrediction
  MaxLength = 5
  MaxFound = 3
SPECIFICATION Spec
INVARIANTS TypeOK SamplesEvenly KeptIsGreedy FaultsStayVisible
CHECK_DEADLOCK FALSE
