SPECIFICATION Spec
CONSTANTS
  Macs <- TwoMacs
  Channels = {0, 1, 14, 15}
  OwnCreds = {"original", "altered", "unparsable"}
  MaxSessions = 3
INVARIANTS TypeOK OneAnswerPerEphemeral ResponderFollowsInitiator ExportsAgree
PROPERTIES FailedCallsKeepOrKill PhasesInOrder
