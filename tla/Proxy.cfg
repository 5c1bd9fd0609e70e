CONSTANTS
  e1 = e1
  e2 = e2
  r1 = r1
  Images = {r1}
  Factory = Factory
  NoImage = NoImage
  TargetOf <- ProxyTarget
  MajorOf <- ProxyMajor
  ChunksOf <- ProxyChunks
  HasUart = TRUE
  MaxRetries = 2
  MaxInFlight = 1
  MaxDepth = 2
SPECIFICATION FairSpec
INVARIANTS
  TypeOK
  RadioBalanced
  ProgressNotAhead
PROPERTIES
  PushTerminates
