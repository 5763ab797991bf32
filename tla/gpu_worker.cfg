\* Processor with a shared GPUWorker: two tasks and two copies.
CONSTANTS
  t1 = t1
  t2 = t2
  kill = kill
  c1 = c1
  c2 = c2
  h2d = h2d
  d2h = d2h
  th1 = th1
  th2 = th2
  NoThread = NoThread
  NoTask = NoTask
  Tasks <- MCTasks
  KillTask <- kill
  Copies <- MCCopiesTwo
  CopyKind <- MCCopyKindTwo
  Kinds <- MCKinds
  Threads <- MCThreads
  NumTaskStreams = 2
  UseWorker = TRUE
SPECIFICATION Spec
INVARIANTS TypeOK SingleRunner WorkHasRunner FinishAfterDevice
PROPERTIES AllJobsFinish
CHECK_DEADLOCK FALSE
