SPECIFICATION Spec
CONSTANTS
  Base = 256
  LittleEndian = FALSE
  SentTypes = {1, 8}
  ChannelNumbers = {258}
  Payloads <- MCPayloads
  MaxFrames = 2
INVARIANTS
  TypeOK
  Faithful
  ThrowsOnlyAtFault
  NothingIsStuck
PROPERTIES
  Delivered
  FaultNoticed
CHECK_DEADLOCK FALSE
