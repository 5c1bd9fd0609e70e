CONSTANTS
  e1 = e1
  e2 = e2
  r1 = r1
  Images = {e1, r1}
  Factory = Factory
  NoImage = NoImage
  TargetOf <- PairedTarget
  MajorOf <- PairedMajor
  ChunksOf <- PairedChunks
  HasUart = TRUE
  MaxRetries = 1
  MaxInFlight = 1
  MaxDepth = 2
SPECIFICATION Spec
INVARIANTS
  GateClosed
PROPERTIES
  MajorBumpOnlyOnCommit
