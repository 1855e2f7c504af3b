SPECIFICATION FairSpec
CONSTANTS
  MaxBoots = 2
  QueueLen = 2
  Rooms = {0, 1, 2}
  Libraries = {"matching", "another"}
  PeerMacs <- SomePeerMacs
  FaultSets <- NoneOrAll
  Flashes = {"good", "full", "newer", "broken"}
INVARIANTS TypeOK JobOutlivesWorker StatusTrue OneTaskInLibrary BootOrder
PROPERTIES BootImplementsBoard BootEnds BootCompletes
CHECK_DEADLOCK FALSE
