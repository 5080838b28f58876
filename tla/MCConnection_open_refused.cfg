SPECIFICATION Spec
CONSTANTS
  Users = {u1}
  MaxChannelId = 2
  PartialSends = FALSE
  MaxCalls = 1
  MaxFaults = 0
  Unsolicited = {}
  BrokerRefuses = TRUE
  SocketFails = FALSE
INVARIANTS
  OpenedOnReturn
CHECK_DEADLOCK FALSE
