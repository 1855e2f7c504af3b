SPECIFICATION FairSpec
CONSTANTS
  MaxBoots = 1
  QueueLen = 10
  Copies = {1, 2}
  Faults = {}
  Timely = TRUE
  Strays <- NoStrays
  Builds <- AllBuilds
INVARIANTS NoKeyWithoutMutualAuth CorruptionNeverPasses
PROPERTIES PairingCompletes ImpostorRejected CorruptionStalls
CHECK_DEADLOCK FALSE
