\* Processor without a worker: one task and one copy; the copy is never issued.
CONSTANTS
  t1 = t1
  t2 = t2
  kill = kill
  c1 = c1
  c2 = c2
  h2d = h2d
  d2h = d2h
  th1 = th1
  th2 = th2
  NoThread = NoThread
  NoTask = NoTask
  Tasks <- MCOneTask
  KillTask <- kill
  Copies <- MCCopiesOne
  CopyKind <- MCCopyKindOne
  Kinds <- MCKinds
  Threads <- MCThreads
  NumTaskStreams = 2
  UseWorker = FALSE
SPECIFICATION Spec
PROPERTIES AllJobsFinish
CHECK_DEADLOCK FALSE
