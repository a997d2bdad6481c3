\* Both runtimes with and without a broker, two requests, two crashes.
CONSTANTS
  q1 = q1
  q2 = q2
  Request = {q1, q2}
  MaxCrashes = 2
SPECIFICATION FairSpec
INVARIANTS TypeOK NoWorkWithoutModel
PROPERTIES ConsumersComeUp AcceptedSettles
CHECK_DEADLOCK FALSE
