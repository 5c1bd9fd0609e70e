SPECIFICATION Spec
CONSTANTS
  Messages <- MCMessages
  SeqSpace = 5
  MaxRetries = 2
  MaxSends = 2
  MaxInFlight = 2
  MaxDamage = 1
  MaxRestarts = 1
INVARIANTS
  TypeOK
  AckMeansHandled
  HandledAtMost
PROPERTIES
  SlotFreed
  LineFallsSilent
CHECK_DEADLOCK FALSE
