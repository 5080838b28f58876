SPECIFICATION FairSpec
CONSTANTS
  Threads = {t1, t2}
  IoThread = io
  MaxCalls = 3
INVARIANTS
  TypeOK
  HeldIsAlive
  SerialCallsAreSafe
  NothingAfterClose
  NobodyStranded
PROPERTIES
  CallsEnd
  DroppedIsClosed
CHECK_DEADLOCK FALSE
