\* Processor without a worker, two tasks, no copies, with the CUDA runtime
\* emulation: a start-up binary and a binary a task loads, one kernel and one variable each,
\* kernel calls nested two deep with up to two arguments.
CONSTANTS
  t1 = t1
  t2 = t2
  kill = kill
  c1 = c1
  c2 = c2
  h2d = h2d
  d2h = d2h
  th1 = th1
  th2 = th2
  b0 = b0
  b1 = b1
  f0 = f0
  f1 = f1
  v0 = v0
  v1 = v1
  NoThread = NoThread
  NoTask = NoTask
  Tasks <- MCTasks
  KillTask <- kill
  Copies <- MCNoCopies
  CopyKind <- MCNoCopyKind
  Kinds <- MCKinds
  Threads <- MCThreads
  NumTaskStreams = 2
  UseWorker = FALSE
  StartupBins = {b0}
  TaskBins = {b1}
  BinFuncs <- MCBinFuncs
  BinVars <- MCBinVars
  ArgSizes = {1, 2}
  InitBufSize = 2
  MaxArgs = 2
  MaxDepth = 2
  MaxCalls = 2
SPECIFICATION RtSpec
INVARIANTS WorkHasRunner RegistryTypeOK KernelLaunchesIntact ModulesOwned
PROPERTIES AllJobsFinish
CHECK_DEADLOCK FALSE
