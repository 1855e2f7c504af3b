SPECIFICATION Spec
CONSTANTS
  MaxBoots = 1
  QueueLen = 10
  Copies = {0, 1}
  Faults = {}
  Timely = TRUE
  Strays <- NoStrays
  Builds <- GenuineBuilds
INVARIANTS PassAfterRoundTrip
CHECK_DEADLOCK FALSE
