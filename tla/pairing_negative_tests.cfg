SPECIFICATION Spec
CONSTANTS
  MaxBoots = 1
  QueueLen = 10
  Copies = {1}
  Faults = {}
  Timely = TRUE
  Strays <- NoStrays
  Builds <- KeyBuilds
INVARIANTS EditedNeverPasses
CHECK_DEADLOCK FALSE
