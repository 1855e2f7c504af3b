SPECIFICATION Spec
CONSTANTS
  MaxBoots = 1
  QueueLen = 2
  Rooms = {2}
  Libraries = {"matching"}
  PeerMacs <- SomePeerMacs
  FaultSets <- NoneOrAll
  Flashes = {"good"}
INVARIANTS CallsFromOneTask
CHECK_DEADLOCK FALSE
