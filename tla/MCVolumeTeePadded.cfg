SPECIFICATION FairSpec
CONSTANTS
  Streams <- Padded
  MaxChunk = 3
CHECK_DEADLOCK FALSE
PROPERTIES
  Returns
