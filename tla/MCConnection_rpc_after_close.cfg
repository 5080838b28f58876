SPECIFICATION FairSpec
CONSTANTS
  Users = {u1}
  MaxChannelId = 1
  PartialSends = FALSE
  MaxCalls = 2
  MaxFaults = 0
  Unsolicited = {}
  BrokerRefuses = TRUE
  SocketFails = FALSE
PROPERTIES
  RpcEnds
CHECK_DEADLOCK FALSE
