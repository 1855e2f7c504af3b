SPECIFICATION Spec
CONSTANTS
  MaxBoots = 1
  QueueLen = 2
  Copies = {1}
  Faults = {"prepare"}
  Timely = FALSE
  Strays <- SomeStrays
  Builds <- GenuineBuilds
INVARIANTS TypeOK PhaseInStep ConfirmedInOrder
PROPERTIES FailedSticky
CHECK_DEADLOCK FALSE
