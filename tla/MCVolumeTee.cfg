SPECIFICATION FairSpec
CONSTANTS
  Streams <- Unpadded
  MaxChunk = 3
CHECK_DEADLOCK FALSE
INVARIANTS
  TypeOK
  IndexIsOfObject
  FailureObserved
PROPERTIES
  Returns
