SPECIFICATION FairSpec
CONSTANTS
  EndpointLists <- MCEndpointLists
  Versions <- MCVersions
  MechanismLists <- MCMechanismLists
  Limits = {0, 1}
  Unsolicited = {"Start", "Tune", "Close", "Heartbeat", "Malformed"}
  MaxFaults = 1
INVARIANTS
  TypeOK
  NeverOutOfTurn
  Agreement
PROPERTIES
  ConnectEnds
  SoundBrokerConnects
  ThrowsForAReason
CHECK_DEADLOCK FALSE
