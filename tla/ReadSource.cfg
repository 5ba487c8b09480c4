CONSTANTS
  Bytes = {71, 0}
  Sync = 71
  PacketSize = 3
  MaxBytes = 12
SPECIFICATION Spec
INVARIANTS
  CleanStartsFound
PROPERTIES
  Framed
CHECK_DEADLOCK FALSE
