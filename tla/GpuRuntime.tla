------------------------------ MODULE GpuRuntime ------------------------------
(***************************************************************************)
(* A GPUProcessor together with its CUDA runtime emulation                *)
(* (src/runtime/lowlevel_gpu.cc).  The two share the execution of a GPU   *)
(* task: execute_gpu takes the task from the queue (ExecuteTake), runs    *)
(* GPUTask::execute, whose host code may register binaries and functions  *)
(* and make kernel calls (the registry's TaskStep, while the thread is in *)
(* its launch state), then records task_modules in the task and finishes *)
(* the jobs it drained (Launch).  A task's finish_job unloads its        *)
(* modules.  The composition is of the processor without a GPUWorker:   *)
(* finish_job then runs in execute_gpu or for the kill pill, on the      *)
(* running thread.  With a worker it runs on the worker thread,          *)
(* unsynchronised with the registry, a data race not expressed here.     *)
(* The first GPU thread runs initialize_processor, which loads what the   *)
(* static initializers deferred, before its loop.                         *)
(***************************************************************************)
EXTENDS GpuProcessor

CONSTANTS StartupBins, TaskBins, BinFuncs, BinVars, ArgSizes, InitBufSize, MaxArgs,
          MaxDepth, MaxCalls

VARIABLES initialized, deferredMods, deferredFuncs, deferredVars, modules,
          devFuncs, devVars, registered, regFuncs, regVars, tstage, taskModules, recorded, launchConfigs,
          argBuf, bufSize, argSize, callStack, nextCall, launched

ASSUME ~UseWorker

R == INSTANCE GpuModuleRegistry WITH Owners <- Tasks, NoOwner <- NoTask

rvars == <<initialized, deferredMods, deferredFuncs, deferredVars, modules,
           devFuncs, devVars, registered, regFuncs, regVars, tstage, taskModules, recorded, launchConfigs,
           argBuf, bufSize, argSize, callStack, nextCall, launched>>
allVars == <<vars, rvars>>

(* The tasks among the jobs drained for finish_job.                       *)
TasksIn(s) == ToSet(s) \cap Tasks

RtInit == Init /\ R!Init

(* Static initializers before the runtime starts: the hooks defer.        *)
RtStartup ==
  /\ \/ \E b \in StartupBins : R!DeferModuleLoad(b)
     \/ \E b \in StartupBins, f \in R!Funcs : R!DeferFunctionLoad(b, f)
     \/ \E b \in StartupBins, v \in R!Vars : R!DeferVarLoad(b, v)
  /\ UNCHANGED vars

(* The static initializers of the start-up binaries have all run: they   *)
(* run before main, so before the runtime starts and any task exists.     *)
StartupDone ==
  \A b \in StartupBins :
     /\ b \in registered
     /\ {b} \X BinFuncs[b] \subseteq regFuncs
     /\ {b} \X BinVars[b] \subseteq regVars

(* GPUThread::thread_main of the first thread: initialize_processor.     *)
RtInitialize == StartupDone /\ R!InitializeProcessor /\ UNCHANGED vars

(* execute_gpu under the mutex; taking a task starts its execution.       *)
RtExecuteTake(t) ==
  /\ ExecuteTake(t)
  /\ IF pendTask'[t] \in Tasks THEN R!BeginTask(pendTask'[t])
     ELSE UNCHANGED rvars

(* execute_gpu after the unlock: the task's execute returns, its modules *)
(* are recorded, and finish_job runs on the drained jobs.                 *)
RtLaunch(t) ==
  /\ Launch(t)
  /\ R!Complete(IF pendTask[t] \in Tasks THEN pendTask[t] ELSE NoTask,
                TasksIn(pendComplete[t]))

(* The kill pill finishes the drained jobs.                                *)
RtKill(t) == Kill(t) /\ R!Complete(NoTask, TasksIn(pendComplete[t]))

RtThreadStep(t) ==
  /\ initialized
  /\ \/ ExecuteIdle(t) /\ UNCHANGED rvars
     \/ RtExecuteTake(t)
     \/ RtLaunch(t)
     \/ RtKill(t)
     \/ (Sleep(t) \/ Resume(t)) /\ UNCHANGED rvars

(* The host code of the task thread t is executing.                       *)
RtTaskBody(t) ==
  /\ tstate[t] = "launch"
  /\ pendTask[t] \in Tasks
  /\ R!TaskStep
  /\ UNCHANGED vars

(* Steps of other threads and of the device, which leave the registry.    *)
RtOther ==
  /\ StartupDone
  /\ \/ \E t \in Tasks : SubmitTask(t)
     \/ SubmitKill
     \/ \E c \in Copies : SubmitCopy(c) \/ StartEventTriggered(c)
     \/ \E s \in StreamIds : StreamCallback(s)
  /\ UNCHANGED rvars

RtNext ==
  \/ RtStartup
  \/ RtInitialize
  \/ RtOther
  \/ \E t \in Threads : RtThreadStep(t) \/ RtTaskBody(t)

(* The fairness of GpuProcessor, and the same for the task's host code    *)
(* (it runs on the scheduled GPU thread) and for initialize_processor     *)
(* (the first thread runs it before its loop).                             *)
RtFairness ==
  /\ \A s \in StreamIds : WF_allVars(StreamCallback(s) /\ UNCHANGED rvars)
  /\ \A c \in Copies : WF_allVars(StartEventTriggered(c) /\ UNCHANGED rvars)
  /\ \A t \in Threads : WF_allVars(RtThreadStep(t)) /\ WF_allVars(RtTaskBody(t))
  /\ WF_allVars(RtInitialize) /\ WF_allVars(RtStartup)

RtSpec == RtInit /\ [][RtNext]_allVars /\ RtFairness

-----------------------------------------------------------------------------
(* The registry state keeps its types; in particular kernel_arg_size      *)
(* never exceeds kernel_buffer_size and the argument buffer has exactly   *)
(* kernel_buffer_size cells (the growth in internal_setup_argument).      *)
RegistryTypeOK == R!TypeOK

(* Every kernel launch a task makes gets the launch configuration and the *)
(* arguments its own call set up, through nested calls and buffer growth  *)
(* (see GpuModuleRegistry).                                                *)
KernelLaunchesIntact == R!KernelLaunchesIntact

(* The modules a task loads are unloaded once, by that task's finish_job *)
(* after execute_gpu recorded them, and device_functions never names an  *)
(* unloaded module (see GpuModuleRegistry).                                *)
ModulesOwned == R!ModulesOwned
=============================================================================
