SPECIFICATION FairSpec
CONSTANTS
  w1 = w1
  w2 = w2
  main = main
  timer = timer
  t1 = t1
  t2 = t2
  t3 = t3
  Workers <- PoolWorkers
  Callers <- PoolCallers
  Tasks <- PoolTasks
  NoTask = noTask
INVARIANTS
  TypeOK
  NoLostWakeup
  DrainedWhenDone
PROPERTIES
  ImplementsService
  EveryTaskHandled
  CancelReturns
CHECK_DEADLOCK FALSE
