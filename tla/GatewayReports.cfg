\* Two tracks, two labels, two places that overlap themselves; a post may take
\* as long as half the window and a report is two posts.
CONSTANTS
  t1 = t1
  t2 = t2
  damaged = damaged
  normal = normal
  left = left
  right = right
  Track = {t1, t2}
  Label = {damaged, normal}
  Fault = {damaged}
  Place = {left, right}
  Overlapping <- MCOverlapping
  Persist = 2
  Cleanup = 1
  Window = 2
  Cooldown = 2
  SendTime = {0, 2}
  FrameTime = {0, 1}
SPECIFICATION FairSpec
INVARIANTS TypeOK SettledOnce ReportsSpaced
PROPERTIES LastingFaultReported
CHECK_DEADLOCK FALSE
