SPECIFICATION FairSpec
CONSTANTS
  MaxBoots = 2
  QueueLen = 10
  Copies = {1, 2}
  Faults = {}
  Timely = TRUE
  Strays <- NoStrays
  Builds <- GenuineBuilds
PROPERTIES FreshPairCompletes
CHECK_DEADLOCK FALSE
