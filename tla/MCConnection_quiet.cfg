SPECIFICATION FairSpec
CONSTANTS
  Users = {u1, u2}
  MaxChannelId = 2
  PartialSends = FALSE
  MaxCalls = 2
  MaxFaults = 0
  Unsolicited = {}
  BrokerRefuses = FALSE
  SocketFails = FALSE
INVARIANTS
  NoAbort
  LegalOnWire
  OpenedOnReturn
  ChannelsNotShared
  NoWaitInVain
PROPERTIES
  KeepsContract
  OpenChannelReturns
  RpcEnds
  DroppedIsClosed
CHECK_DEADLOCK FALSE
