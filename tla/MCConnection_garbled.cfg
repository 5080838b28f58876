SPECIFICATION Spec
CONSTANTS
  Users = {u1, u2}
  MaxChannelId = 2
  PartialSends = TRUE
  MaxCalls = 1
  MaxFaults = 0
  Unsolicited = {}
  BrokerRefuses = FALSE
  SocketFails = FALSE
INVARIANTS
  NoGarbage
CHECK_DEADLOCK FALSE
