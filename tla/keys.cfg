SPECIFICATION Spec
CONSTANTS
  Keys = {k1, k2, k3}
  Faults = {"set_pmk", "put_peer", "ignored", "get_peer"}
  MaxBoots = 3
INVARIANTS PairingOutcomes FramesUnderLmk OnlyFaultsFail
CHECK_DEADLOCK FALSE
