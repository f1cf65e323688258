SPECIFICATION FairSpec
CONSTANTS
  Streams <- SmallFiles
  FrameMax = 13
  PktMax = 3
  SeqLimit = 3
  TimeLimit = 4
  TimeStep = 1
INVARIANTS
  TypeOK
  CutsAtNalus
PROPERTIES
  NaluReceived
  LastIsSent
