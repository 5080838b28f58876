SPECIFICATION Spec
CONSTANTS
  Users = {u1}
  MaxChannelId = 2
  PartialSends = FALSE
  MaxCalls = 1
  MaxFaults = 1
  Unsolicited = {"Close"}
  BrokerRefuses = FALSE
  SocketFails = FALSE
INVARIANTS
  NoAbort
CHECK_DEADLOCK FALSE
