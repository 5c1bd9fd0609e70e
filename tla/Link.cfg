CONSTANTS
  Bindings = {b1, b2}
  Mcus = {m1}
  None = None
  TwoChip = TRUE
  MaxRestarts = 1
SPECIFICATION Spec
INVARIANTS
  TypeOK
  LocalFollowsIdentity
  SecretStaysWiped
  ClientHasNoOtherSecret
PROPERTIES
  RadioOutlivesOnlyRevoke
  RefinesOwnership
