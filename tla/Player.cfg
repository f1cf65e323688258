SPECIFICATION FairPlayerSpec
CONSTANTS
  Files <- SomeFiles
  DecoderDelay = 1
  QueueMax = 3
  MaxKeys = 3
INVARIANTS
  Inv
  AllFramesShown
PROPERTY Ends
CHECK_DEADLOCK FALSE
