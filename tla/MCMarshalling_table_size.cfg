SPECIFICATION Spec
CONSTANTS
  Base = 14
  LittleEndian = TRUE
  OctetBits = 2
  MaxKey = 2
  Signatures <- MCSignatures
  Known <- MCKnown
  FieldValues <- MCFieldValues
  Keys <- MCKeys
  Values <- MCValues
  Weights = {0, 15}
  Leftovers = {0, 13}
  MaxEntries = 2
INVARIANTS
  SizeIsWritten
CHECK_DEADLOCK FALSE
