CONSTANTS
  Bindings = {b1, b2}
  Mcus = {m1}
  None = None
  TwoChip = FALSE
  MaxRestarts = 0
SPECIFICATION Spec
INVARIANTS
  ClientHasIdentity
