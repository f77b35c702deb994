CONSTANTS
  w1 = w1
  w2 = w2
  t1 = t1
  t2 = t2
  t3 = t3
  Workers <- TwoWorkers
  Tasks <- ThreeTasks
  Failing <- FailingTask
  NoTask = NoTask
  Ticks = 3
  MaxPosted = 3
SPECIFICATION MCSpec
CHECK_DEADLOCK FALSE
INVARIANTS
  QueueOrder
  NoLostWakeup
  WorkersSurvive
PROPERTIES
  EveryTaskStarts
  ShutdownReturns
  PictureCatchesUp
  ProcessEnds
