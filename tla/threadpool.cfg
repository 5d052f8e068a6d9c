SPECIFICATION FairSpec
CONSTANTS
  p1 = p1
  p2 = p2
  t1 = t1
  t2 = t2
  Exit = Exit
  Worker = Worker
  NULL = NULL
  Threads <- TwoThreads
  Tasks <- TwoTasks
  MaxQueue = 1
  MaxTasks = 3
  MaxFaults = 1
INVARIANTS ThreadPoolIsSound
PROPERTIES ImplementsExecutor TasksAndExitEnd
CHECK_DEADLOCK FALSE
