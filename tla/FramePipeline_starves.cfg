SPECIFICATION FairSpec
CONSTANTS
  w1 = w1
  w2 = w2
  Timer = timer
  Free = free
  H264Sources <- H264Only
  NumSources = 1
  FrameNum = 4
  Workers <- OneWorker
  File <- OneBadFile
PROPERTIES
  InputFrameFilled
