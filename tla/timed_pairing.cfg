SPECIFICATION TimedSpec
CONSTANTS
  MaxBoots = 1
  QueueLen = 10
  Copies = {1, 2}
  Faults = {}
  Timely = FALSE
  Strays <- NoStrays
  Builds <- GenuineBuilds
  StartDelay = 40
  SwitchDelay = 5
  TestDelay = 15
  MaxTx = 4
  MaxRun = 9
  MaxSkew = 39
PROPERTIES DelaysSuffice PairingCompletes
CHECK_DEADLOCK FALSE
