SPECIFICATION FairSpec
CONSTANTS
  e1 = e1
  e2 = e2
  Events <- TwoEvents
  Delays <- FewDelays
  Moments <- FewMoments
  Intervals <- FewIntervals
  IntMod = 8
  MaxTime = 3
  MaxId = 3
INVARIANTS
  TypeOK
  MapsAgree
PROPERTIES
  OnlyDueCalls
  LateTimerServed
CHECK_DEADLOCK FALSE
