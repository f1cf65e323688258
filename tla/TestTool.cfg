SPECIFICATION FairToolSpec
CONSTANTS
  c1 = c1
  c2 = c2
  Threads <- TwoThreads
  Types = {0, 1}
  Nobody = Nobody
INVARIANTS
  CountCorrect
  Resourced
PROPERTY ToolEnds
CHECK_DEADLOCK FALSE
