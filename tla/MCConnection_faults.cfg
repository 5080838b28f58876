SPECIFICATION Spec
CONSTANTS
  Users = {u1}
  MaxChannelId = 2
  PartialSends = TRUE
  MaxCalls = 1
  MaxFaults = 1
  Unsolicited = {"Close", "Flow", "ConnClose", "Heartbeat", "Unknown", "Malformed", "Stray"}
  BrokerRefuses = TRUE
  SocketFails = TRUE
INVARIANTS
  TypeOK
  ReadExclusive
  ReadLoopAlive
  NeverQueued
  ErrorsAreReal
  ChannelsHeld
PROPERTIES
  NoWriteOnceClosed
CHECK_DEADLOCK FALSE
