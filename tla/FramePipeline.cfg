SPECIFICATION FairSpec
CONSTANTS
  w1 = w1
  w2 = w2
  Timer = timer
  Free = free
  H264Sources <- AacFirst
  NumSources = 2
  FrameNum = 2
  Workers <- TwoWorkers
  File <- MixedFiles
INVARIANTS
  TypeOK
  FrameConservation
  NoTaskWithoutFrame
PROPERTIES
  FilledFrameKept
  SentInFileOrder
  StreamNeverStops
