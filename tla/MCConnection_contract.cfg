SPECIFICATION FairSpec
CONSTANTS
  Users = {u1}
  MaxChannelId = 2
  PartialSends = FALSE
  MaxCalls = 2
  MaxFaults = 1
  Unsolicited = {"Close", "ConnClose", "Unknown"}
  BrokerRefuses = TRUE
  SocketFails = TRUE
PROPERTIES
  KeepsContract
  FailureNoticed
CHECK_DEADLOCK FALSE
