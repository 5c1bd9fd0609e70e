SPECIFICATION MCSpec
CONSTANTS
  ERRORBUS_SIZE = 3
  Severities = {0, 1}
  CtrlIds = {0}
  MaxPosts = 4
  Second = 2
  PERSIST_INTERVAL = 5
  Wrap = 13
  MaxPass = 2
  MaxWorked = 20
  MaxWrites = 4
  MaxRestarts = 2
  CONFIG_BUFFER_SIZE = 2
  IdSpace = 4
  MaxLength = 4
  MaxDocs = 3
  MaxOnWire = 2
  MaxSenderRestarts = 1
INVARIANTS
  ServicesTypeOK
  TracksWork
  WholeDocument
PROPERTIES
  RefinesFifo
  Drains
CHECK_DEADLOCK FALSE
