CONSTANTS
  e1 = e1
  e2 = e2
  r1 = r1
  Images = {e1, e2}
  Factory = Factory
  NoImage = NoImage
  TargetOf <- SoloTarget
  MajorOf <- SoloMajor
  ChunksOf <- SoloChunks
  HasUart = FALSE
  MaxRetries = 2
  MaxInFlight = 1
  MaxDepth = 2
SPECIFICATION FairSpec
INVARIANTS
  NeverRunsCorrupt
  FlashFollowsSession
PROPERTIES
  VerdictSound
  RestartHappens
