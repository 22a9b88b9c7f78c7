SPECIFICATION FairSpec
CONSTANTS
  PayloadLen = 4
  Chunkings <- MCChunkings
  Interim = TRUE
  Apart = TRUE
  Cuts = 1
  Timeouts = TRUE
  Retries = 1
  HeadMax = 24
  TempMax = 7
  BUF_SIZE = 8
  Block = 3
INVARIANTS Faithful Delivered Closed
PROPERTIES Ends
CHECK_DEADLOCK FALSE
