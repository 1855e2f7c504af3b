SPECIFICATION Spec
CONSTANTS
  MaxBoots = 3
  QueueLen = 10
  Copies = {0, 1, 2}
  Faults = {"refused", "unread"}
  Timely = FALSE
  Strays <- NoStrays
  Builds <- GenuineBuilds
INVARIANTS PhaseInStep NeverWrongState ConfirmedInOrder KeyTestSealed CompleteAgree
PROPERTIES ConfirmationOrder
CHECK_DEADLOCK FALSE
