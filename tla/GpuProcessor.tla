---------------------------- MODULE GpuProcessor ----------------------------
(***************************************************************************)
(* The legacy GPU processor of src/runtime/lowlevel_gpu.cc: one           *)
(* GPUProcessor with its task queue, its queue of copies, its list of     *)
(* completed jobs and its pool of GPUThreads, the device streams the      *)
(* work is put on, the stream callbacks the device runs on a foreign      *)
(* thread, and (when configured) the shared GPUWorker DMA thread.         *)
(*                                                                         *)
(* Jobs are model values: a task (GPUTask) or a copy (GPUMemcpy).  A      *)
(* stream is the sequence of jobs whose completion callback was put on    *)
(* it, with a count of how many of them the device has completed.         *)
(***************************************************************************)
EXTENDS Integers, Sequences, SequencesExt, FiniteSets

CONSTANTS
  Tasks,           \* application tasks given to the processor
  KillTask,        \* the shutdown "kill pill" (func_id 0), not in Tasks
  Copies,          \* GPUMemcpy jobs
  CopyKind,        \* [Copies -> Kinds]: which DMA stream a copy uses
  Kinds,           \* GPUMemcpyKind values used by Copies
  NumTaskStreams,  \* task_streams.size()
  Threads,         \* GPUThreads the processor may create (bound)
  UseWorker,       \* gpu_worker != 0: a shared GPUWorker handles DMA
  NoThread, NoTask \* "NULL" values

ASSUME NumTaskStreams \in Nat \ {0}
ASSUME CopyKind \in [Copies -> Kinds]
ASSUME UseWorker \in BOOLEAN

Jobs == Tasks \cup {KillTask} \cup Copies
(* The task streams, and one DMA stream per copy kind: the GPUMemcpy     *)
(* constructor picks local_stream by kind.                                *)
StreamIds == (0 .. NumTaskStreams - 1) \cup Kinds

VARIABLES
  taskQueue,      \* task_queue
  copies,         \* copies (processor-local, used when there is no worker)
  completeJobs,   \* complete_jobs (processor-local, no worker)
  runningThread,  \* running_thread
  available,      \* available_threads (a stack: push_back / back)
  tstate,         \* each GPUThread: unstarted, loop, launch, presleep, asleep, exited
  woken,          \* an awake() delivered since prepare_to_sleep()
  pendTask,       \* gpu_task local of execute_gpu between unlock and launch
  pendComplete,   \* to_complete local of execute_gpu
  currentStream,  \* current_stream
  streamLog,      \* jobs whose finish callback was added to each stream
  streamDone,     \* how many of them the device has completed
  wCopies,        \* GPUWorker::copies[proc]
  wJobs,          \* GPUWorker::complete_jobs[proc]
  copiesEmpty,    \* GPUWorker::copies_empty
  jobsEmpty,      \* GPUWorker::jobs_empty
  wShutdown,      \* GPUWorker::worker_shutdown_requested
  wState,         \* worker thread: wait (loop head), busy, exited
  wReady,         \* worker thread's ready_copies
  wToComplete,    \* worker thread's to_complete
  submitted,      \* jobs handed to the processor
  waiting,        \* copies whose start event has not triggered yet
  finished        \* jobs whose finish event has been triggered

vars == <<taskQueue, copies, completeJobs, runningThread, available, tstate,
          woken, pendTask, pendComplete, currentStream, streamLog, streamDone,
          wCopies, wJobs, copiesEmpty, jobsEmpty, wShutdown, wState, wReady,
          wToComplete, submitted, waiting, finished>>

procVars == <<taskQueue, copies, completeJobs, runningThread, available,
              tstate, woken, pendTask, pendComplete, currentStream>>
workerVars == <<wCopies, wJobs, copiesEmpty, jobsEmpty, wShutdown, wState,
                wReady, wToComplete>>
threadVars == <<runningThread, available, tstate, woken>>

-----------------------------------------------------------------------------
(* The device has completed the job: its callback is on a stream at a     *)
(* position the device has passed.                                         *)
DeviceDone(j) ==
  \E s \in StreamIds :
    \E i \in 1 .. streamDone[s] : streamLog[s][i] = j

(* Mutant: a waker that does not check running_thread and so may start a *)
(* second thread while one is running.                                     *)
WakeOrStartUnguarded ==
  \/ /\ available # <<>>
     /\ LET t == Last(available) IN
          /\ runningThread' = t
          /\ available' = Front(available)
          /\ woken' = [woken EXCEPT ![t] = TRUE]
          /\ UNCHANGED tstate
  \/ /\ available = <<>>
     /\ \E t \in Threads :
          /\ tstate[t] = "unstarted"
          /\ runningThread' = t
          /\ tstate' = [tstate EXCEPT ![t] = "loop"]
          /\ UNCHANGED <<available, woken>>

(* Mutant: a waker that only reuses parked threads and never creates one. *)
WakeOrStartNoCreate ==
  \/ /\ runningThread # NoThread
     /\ UNCHANGED threadVars
  \/ /\ runningThread = NoThread
     /\ available # <<>>
     /\ LET t == Last(available) IN
          /\ runningThread' = t
          /\ available' = Front(available)
          /\ woken' = [woken EXCEPT ![t] = TRUE]
          /\ UNCHANGED tstate
  \/ /\ runningThread = NoThread
     /\ available = <<>>
     /\ UNCHANGED threadVars

(* "Make sure there is a running thread": if none is running, wake the    *)
(* most recently parked one, otherwise create and start a new one.        *)
(* Done under the processor mutex; awake()/start_thread() follow the      *)
(* unlock but only touch the chosen thread, so they are part of the step. *)
WakeOrStart ==
  \/ /\ runningThread # NoThread
     /\ UNCHANGED threadVars
  \/ /\ runningThread = NoThread
     /\ available # <<>>
     /\ LET t == Last(available) IN
          /\ runningThread' = t
          /\ available' = Front(available)
          /\ woken' = [woken EXCEPT ![t] = TRUE]
          /\ UNCHANGED tstate
  \/ /\ runningThread = NoThread
     /\ available = <<>>
     /\ \E t \in Threads :
          /\ tstate[t] = "unstarted"
          /\ runningThread' = t
          /\ tstate' = [tstate EXCEPT ![t] = "loop"]
          /\ UNCHANGED <<available, woken>>

(* LocalProcessor::enqueue_task: the task joins task_queue and a thread   *)
(* is made to run.                                                         *)
SubmitTask(t) ==
  /\ t \in Tasks
  /\ t \notin submitted
  /\ taskQueue' = Append(taskQueue, t)
  /\ submitted' = submitted \cup {t}
  /\ WakeOrStart
  /\ UNCHANGED <<copies, completeJobs, pendTask, pendComplete, currentStream,
                 streamLog, streamDone, workerVars, waiting, finished>>

(* Runtime shutdown hands the kill pill to the processor once everything  *)
(* else it was given has finished.                                         *)
SubmitKill ==
  /\ KillTask \notin submitted
  /\ submitted = Tasks \cup Copies
  /\ finished = submitted
  /\ taskQueue' = Append(taskQueue, KillTask)
  /\ submitted' = submitted \cup {KillTask}
  /\ WakeOrStart
  /\ UNCHANGED <<copies, completeJobs, pendTask, pendComplete, currentStream,
                 streamLog, streamDone, workerVars, waiting, finished>>

(* GPUWorker::enqueue_copy, under worker_lock: queue the copy for the    *)
(* processor, clear copies_empty and signal the worker.                   *)
WorkerEnqueueCopy(c) ==
  /\ wCopies' = Append(wCopies, c)
  /\ copiesEmpty' = FALSE
  /\ UNCHANGED <<wJobs, jobsEmpty, wShutdown, wState, wReady, wToComplete>>

(* GPUWorker::handle_complete_job, under worker_lock: queue the job,      *)
(* clear jobs_empty and signal the worker.                                 *)
WorkerHandleCompleteJob(j) ==
  /\ wJobs' = Append(wJobs, j)
  /\ jobsEmpty' = FALSE
  /\ UNCHANGED <<wCopies, copiesEmpty, wShutdown, wState, wReady, wToComplete>>

(* GPUProcessor::issue_copies: execute each copy in order; its           *)
(* do_span goes on the stream of its kind and post_execute adds the      *)
(* finish callback behind it.                                              *)
IssueCopies(ready) ==
  [s \in StreamIds |-> streamLog[s] \o SelectSeq(ready, LAMBDA c : CopyKind[c] = s)]

(* finish_job of each job: trigger its finish event (then delete it).    *)
FinishJobs(done) == finished \cup ToSet(done)

(* Mutant: enqueue_copy that forgets to clear copies_empty.              *)
EnqueueCopyNoFlag(c) ==
  IF UseWorker
  THEN /\ wCopies' = Append(wCopies, c)
       /\ UNCHANGED <<copiesEmpty, wJobs, jobsEmpty, wShutdown, wState, wReady,
                      wToComplete, procVars>>
  ELSE /\ copies' = Append(copies, c)
       /\ WakeOrStart
       /\ UNCHANGED <<taskQueue, completeJobs, pendTask, pendComplete,
                      currentStream, workerVars>>

(* GPUProcessor::enqueue_copy: hand the copy to the worker, or queue it   *)
(* locally and make sure a thread runs.                                    *)
EnqueueCopy(c) ==
  IF UseWorker
  THEN /\ WorkerEnqueueCopy(c)
       /\ UNCHANGED procVars
  ELSE /\ copies' = Append(copies, c)
       /\ WakeOrStart
       /\ UNCHANGED <<taskQueue, completeJobs, pendTask, pendComplete,
                      currentStream, workerVars>>

(* copy_to_fb, copy_from_fb, copy_within_fb, copy_to_peer and their 2-D *)
(* forms create a GPUMemcpy and call run_or_wait: enqueue                 *)
(* now if the start event has triggered, else add a waiter.               *)
SubmitCopy(c) ==
  /\ c \notin submitted
  /\ KillTask \notin submitted
  /\ submitted' = submitted \cup {c}
  /\ \/ /\ EnqueueCopy(c)
        /\ UNCHANGED waiting
     \/ /\ waiting' = waiting \cup {c}
        /\ UNCHANGED <<procVars, workerVars>>
  /\ UNCHANGED <<streamLog, streamDone, finished>>

(* GPUMemcpy::event_triggered: the start event fired.                     *)
StartEventTriggered(c) ==
  /\ c \in waiting
  /\ waiting' = waiting \ {c}
  /\ EnqueueCopy(c)
  /\ UNCHANGED <<streamLog, streamDone, submitted, finished>>

-----------------------------------------------------------------------------
(* Mutant: an idle test that looks at the task queue only.               *)
ExecuteIdleTasksOnly(t) ==
  /\ tstate[t] = "loop"
  /\ taskQueue = <<>>
  /\ available' = Append(available, t)
  /\ runningThread' = NoThread
  /\ tstate' = [tstate EXCEPT ![t] = "presleep"]
  /\ woken' = [woken EXCEPT ![t] = FALSE]
  /\ UNCHANGED <<taskQueue, copies, completeJobs, pendTask, pendComplete,
                 currentStream, streamLog, streamDone, workerVars, submitted,
                 waiting, finished>>

(* execute_gpu, first half, under the mutex.  Nothing to do: park on      *)
(* available_threads, clear running_thread, unlock, then sleep.           *)
ExecuteIdle(t) ==
  /\ tstate[t] = "loop"
  /\ taskQueue = <<>>
  /\ UseWorker \/ (copies = <<>> /\ completeJobs = <<>>)
  /\ available' = Append(available, t)
  /\ runningThread' = NoThread
  /\ tstate' = [tstate EXCEPT ![t] = "presleep"]
  /\ woken' = [woken EXCEPT ![t] = FALSE]
  /\ UNCHANGED <<taskQueue, copies, completeJobs, pendTask, pendComplete,
                 currentStream, streamLog, streamDone, workerVars, submitted,
                 waiting, finished>>

(* Mutant: the drain of complete_jobs also skipped, like the copies.      *)
ExecuteTakeNoJobs(t) ==
  /\ tstate[t] = "loop"
  /\ ~(taskQueue = <<>> /\ (UseWorker \/ (copies = <<>> /\ completeJobs = <<>>)))
  /\ pendComplete' = [pendComplete EXCEPT ![t] = <<>>]
  /\ UNCHANGED completeJobs
  /\ IF taskQueue # <<>>
     THEN /\ taskQueue' = Tail(taskQueue)
          /\ pendTask' = [pendTask EXCEPT ![t] = Head(taskQueue)]
     ELSE UNCHANGED <<taskQueue, pendTask>>
  /\ tstate' = [tstate EXCEPT ![t] = "launch"]
  /\ UNCHANGED <<copies, runningThread, available, woken, currentStream,
                 streamLog, streamDone, workerVars, submitted, waiting, finished>>

(* execute_gpu, first half, with work.  ready_copies is a fresh local     *)
(* vector, so the test !ready_copies.empty() never holds and the queued   *)
(* copies are left where they are; complete_jobs is drained (when there   *)
(* is no worker) and one task is popped.                                   *)
ExecuteTake(t) ==
  /\ tstate[t] = "loop"
  /\ ~(taskQueue = <<>> /\ (UseWorker \/ (copies = <<>> /\ completeJobs = <<>>)))
  /\ IF UseWorker
     THEN /\ pendComplete' = [pendComplete EXCEPT ![t] = <<>>]
          /\ UNCHANGED completeJobs
     ELSE /\ pendComplete' = [pendComplete EXCEPT ![t] = completeJobs]
          /\ completeJobs' = <<>>
  /\ IF taskQueue # <<>>
     THEN /\ taskQueue' = Tail(taskQueue)
          /\ pendTask' = [pendTask EXCEPT ![t] = Head(taskQueue)]
     ELSE UNCHANGED <<taskQueue, pendTask>>
  /\ tstate' = [tstate EXCEPT ![t] = "launch"]
  /\ UNCHANGED <<copies, runningThread, available, woken, currentStream,
                 streamLog, streamDone, workerVars, submitted, waiting, finished>>

(* Mutant: the task's completion event triggered as soon as the kernel   *)
(* is launched, rather than from the stream callback.                      *)
LaunchEager(t) ==
  /\ tstate[t] = "launch"
  /\ pendTask[t] # KillTask
  /\ LET task == pendTask[t] IN
       IF task # NoTask
       THEN /\ streamLog' = [streamLog EXCEPT ![currentStream] = Append(@, task)]
            /\ currentStream' = (currentStream + 1) % NumTaskStreams
            /\ finished' = finished \cup {task} \cup ToSet(pendComplete[t])
       ELSE /\ UNCHANGED <<streamLog, currentStream>>
            /\ finished' = finished \cup ToSet(pendComplete[t])
  /\ pendTask' = [pendTask EXCEPT ![t] = NoTask]
  /\ pendComplete' = [pendComplete EXCEPT ![t] = <<>>]
  /\ tstate' = [tstate EXCEPT ![t] = "loop"]
  /\ UNCHANGED <<taskQueue, copies, completeJobs, runningThread, available,
                 woken, streamDone, workerVars, submitted, waiting>>

(* Mutant: the round-robin wrap tested with > instead of >=.             *)
LaunchWrapLate(t) ==
  /\ tstate[t] = "launch"
  /\ pendTask[t] # KillTask
  /\ LET task == pendTask[t] IN
       IF task # NoTask
       THEN /\ streamLog' = [streamLog EXCEPT ![currentStream] = Append(@, task)]
            /\ currentStream' = IF currentStream + 1 > NumTaskStreams
                                THEN 0 ELSE currentStream + 1
       ELSE UNCHANGED <<streamLog, currentStream>>
  /\ finished' = finished \cup ToSet(pendComplete[t])
  /\ pendTask' = [pendTask EXCEPT ![t] = NoTask]
  /\ pendComplete' = [pendComplete EXCEPT ![t] = <<>>]
  /\ tstate' = [tstate EXCEPT ![t] = "loop"]
  /\ UNCHANGED <<taskQueue, copies, completeJobs, runningThread, available,
                 woken, streamDone, workerVars, submitted, waiting>>

(* execute_gpu, second half, with the mutex released: launch the task on *)
(* task_streams[current_stream] (GPUTask::execute adds handle_finish to  *)
(* the stream after the kernels), advance current_stream round-robin,    *)
(* then finish_job every drained job (trigger its finish event).          *)
Launch(t) ==
  /\ tstate[t] = "launch"
  /\ pendTask[t] # KillTask
  /\ LET task == pendTask[t] IN
       IF task # NoTask
       THEN /\ streamLog' = [streamLog EXCEPT ![currentStream] = Append(@, task)]
            /\ currentStream' = (currentStream + 1) % NumTaskStreams
       ELSE UNCHANGED <<streamLog, currentStream>>
  /\ finished' = FinishJobs(pendComplete[t])
  /\ pendTask' = [pendTask EXCEPT ![t] = NoTask]
  /\ pendComplete' = [pendComplete EXCEPT ![t] = <<>>]
  /\ tstate' = [tstate EXCEPT ![t] = "loop"]
  /\ UNCHANGED <<taskQueue, copies, completeJobs, runningThread, available,
                 woken, streamDone, workerVars, submitted, waiting>>

(* The kill pill (func_id 0): finished() and shutdown_trigger are set     *)
(* under the mutex, the pill's finish event is triggered, the drained     *)
(* complete jobs are finished, and execute_gpu returns true: the thread   *)
(* leaves its loop (finalize_processor then synchronizes the context).    *)
(* running_thread is left naming the exited thread.                       *)
Kill(t) ==
  /\ tstate[t] = "launch"
  /\ pendTask[t] = KillTask
  /\ finished' = FinishJobs(pendComplete[t]) \cup {KillTask}
  /\ pendTask' = [pendTask EXCEPT ![t] = NoTask]
  /\ pendComplete' = [pendComplete EXCEPT ![t] = <<>>]
  /\ tstate' = [tstate EXCEPT ![t] = "exited"]
  /\ UNCHANGED <<taskQueue, copies, completeJobs, runningThread, available,
                 woken, currentStream, streamLog, streamDone, workerVars,
                 submitted, waiting>>

(* thread->sleep() after prepare_to_sleep(): block unless an awake()      *)
(* already arrived.                                                        *)
Sleep(t) ==
  /\ tstate[t] = "presleep"
  /\ ~woken[t]
  /\ tstate' = [tstate EXCEPT ![t] = "asleep"]
  /\ UNCHANGED <<taskQueue, copies, completeJobs, runningThread, available,
                 woken, pendTask, pendComplete, currentStream, streamLog,
                 streamDone, workerVars, submitted, waiting, finished>>

(* The thread returns from sleep() once awake() was delivered and goes   *)
(* back to the top of its loop.                                            *)
Resume(t) ==
  /\ tstate[t] \in {"presleep", "asleep"}
  /\ woken[t]
  /\ tstate' = [tstate EXCEPT ![t] = "loop"]
  /\ woken' = [woken EXCEPT ![t] = FALSE]
  /\ UNCHANGED <<taskQueue, copies, completeJobs, runningThread, available,
                 pendTask, pendComplete, currentStream, streamLog, streamDone,
                 workerVars, submitted, waiting, finished>>

-----------------------------------------------------------------------------
(* The device reaches the next callback on stream s and runs it on its   *)
(* own thread: handle_finish -> GPUProcessor::handle_complete_job, which  *)
(* hands the job to the worker or appends it to complete_jobs and makes  *)
(* sure a thread runs.                                                     *)
StreamCallback(s) ==
  /\ streamDone[s] < Len(streamLog[s])
  /\ streamDone' = [streamDone EXCEPT ![s] = @ + 1]
  /\ LET j == streamLog[s][streamDone[s] + 1] IN
       IF UseWorker
       THEN /\ WorkerHandleCompleteJob(j)
            /\ UNCHANGED procVars
       ELSE /\ completeJobs' = Append(completeJobs, j)
            /\ WakeOrStart
            /\ UNCHANGED <<taskQueue, copies, pendTask, pendComplete,
                           currentStream, workerVars>>
  /\ UNCHANGED <<streamLog, submitted, waiting, finished>>

-----------------------------------------------------------------------------
(* GPUWorker::thread_main, under worker_lock: if there is work, move     *)
(* every queued copy and completed job to the thread's locals and mark   *)
(* both lists empty.                                                       *)
WorkerTake ==
  /\ wState = "wait"
  /\ ~(copiesEmpty /\ jobsEmpty)
  /\ wReady' = wCopies
  /\ wToComplete' = wJobs
  /\ wCopies' = <<>>
  /\ wJobs' = <<>>
  /\ copiesEmpty' = TRUE
  /\ jobsEmpty' = TRUE
  /\ wState' = "busy"
  /\ UNCHANGED <<wShutdown, procVars, streamLog, streamDone, submitted,
                 waiting, finished>>

(* Nothing queued and shutdown requested: leave the loop.                 *)
WorkerExit ==
  /\ wState = "wait"
  /\ copiesEmpty /\ jobsEmpty
  /\ wShutdown
  /\ wState' = "exited"
  /\ UNCHANGED <<wCopies, wJobs, copiesEmpty, jobsEmpty, wShutdown, wReady,
                 wToComplete, procVars, streamLog, streamDone, submitted,
                 waiting, finished>>

(* With the lock released: issue_copies executes each copy on the stream *)
(* of its kind (do_span, then post_execute adds the finish callback),     *)
(* then finish_jobs triggers the finish event of each completed job.      *)
WorkerIssue ==
  /\ wState = "busy"
  /\ streamLog' = IssueCopies(wReady)
  /\ finished' = FinishJobs(wToComplete)
  /\ wReady' = <<>>
  /\ wToComplete' = <<>>
  /\ wState' = "wait"
  /\ UNCHANGED <<wCopies, wJobs, copiesEmpty, jobsEmpty, wShutdown, procVars,
                 streamDone, submitted, waiting>>

(* stop_gpu_worker_thread -> GPUWorker::shutdown, at runtime shutdown,    *)
(* once every job handed to the processor has finished.                   *)
WorkerShutdown ==
  /\ ~wShutdown
  /\ finished = submitted
  /\ KillTask \in submitted
  /\ wShutdown' = TRUE
  /\ UNCHANGED <<wCopies, wJobs, copiesEmpty, jobsEmpty, wState, wReady,
                 wToComplete, procVars, streamLog, streamDone, submitted,
                 waiting, finished>>

-----------------------------------------------------------------------------
Init ==
  /\ taskQueue = <<>>
  /\ copies = <<>>
  /\ completeJobs = <<>>
  /\ runningThread = NoThread
  /\ available = <<>>
  /\ tstate = [t \in Threads |-> "unstarted"]
  /\ woken = [t \in Threads |-> FALSE]
  /\ pendTask = [t \in Threads |-> NoTask]
  /\ pendComplete = [t \in Threads |-> <<>>]
  /\ currentStream = 0
  /\ streamLog = [s \in StreamIds |-> <<>>]
  /\ streamDone = [s \in StreamIds |-> 0]
  /\ wCopies = <<>>
  /\ wJobs = <<>>
  /\ copiesEmpty = TRUE
  /\ jobsEmpty = TRUE
  /\ wShutdown = FALSE
  /\ wState = IF UseWorker THEN "wait" ELSE "exited"
  /\ wReady = <<>>
  /\ wToComplete = <<>>
  /\ submitted = {}
  /\ waiting = {}
  /\ finished = {}

ThreadStep(t) ==
  \/ ExecuteIdle(t)
  \/ ExecuteTake(t)
  \/ Launch(t)
  \/ Kill(t)
  \/ Sleep(t)
  \/ Resume(t)

WorkerStep ==
  \/ WorkerTake
  \/ WorkerIssue
  \/ WorkerExit

Next ==
  \/ \E t \in Tasks : SubmitTask(t)
  \/ SubmitKill
  \/ \E c \in Copies : SubmitCopy(c) \/ StartEventTriggered(c)
  \/ \E t \in Threads : ThreadStep(t)
  \/ \E s \in StreamIds : StreamCallback(s)
  \/ UseWorker /\ (WorkerStep \/ WorkerShutdown)

(* The device completes queued work, start events eventually trigger,     *)
(* and the OS keeps scheduling a runnable GPUThread and the worker:       *)
(* weak fairness on each.  Submissions and shutdown are the               *)
(* application's choice and are not fair.                                  *)
Fairness ==
  /\ \A s \in StreamIds : WF_vars(StreamCallback(s))
  /\ \A c \in Copies : WF_vars(StartEventTriggered(c))
  /\ \A t \in Threads : WF_vars(ThreadStep(t))
  /\ WF_vars(WorkerStep)

Spec == Init /\ [][Next]_vars /\ Fairness

-----------------------------------------------------------------------------
TypeOK ==
  /\ taskQueue \in Seq(Tasks \cup {KillTask})
  /\ copies \in Seq(Copies)
  /\ completeJobs \in Seq(Jobs)
  /\ runningThread \in Threads \cup {NoThread}
  /\ available \in Seq(Threads)
  /\ tstate \in [Threads -> {"unstarted", "loop", "launch", "presleep",
                             "asleep", "exited"}]
  /\ woken \in [Threads -> BOOLEAN]
  /\ pendTask \in [Threads -> Tasks \cup {KillTask, NoTask}]
  /\ pendComplete \in [Threads -> Seq(Jobs)]
  /\ currentStream \in 0 .. NumTaskStreams - 1
  /\ streamLog \in [StreamIds -> Seq(Jobs)]
  /\ \A s \in StreamIds : streamDone[s] \in 0 .. Len(streamLog[s])
  /\ wCopies \in Seq(Copies) /\ wJobs \in Seq(Jobs)
  /\ wReady \in Seq(Copies) /\ wToComplete \in Seq(Jobs)
  /\ {copiesEmpty, jobsEmpty, wShutdown} \subseteq BOOLEAN
  /\ wState \in {"wait", "busy", "exited"}
  /\ submitted \subseteq Jobs /\ waiting \subseteq Copies
  /\ finished \subseteq submitted

(* Only the thread named by running_thread executes execute_gpu: the     *)
(* stream round-robin (current_stream) and task_modules are touched      *)
(* outside the mutex and rely on it.  Callbacks from the device thread   *)
(* and submissions from other threads race with a thread parking itself. *)
SingleRunner ==
  \A t \in Threads :
    tstate[t] \in {"loop", "launch"} => runningThread = t

(* A job's finish event is triggered only after the device has reached   *)
(* its completion callback on the stream (the kill pill, which never     *)
(* reaches the device, excepted).                                          *)
FinishAfterDevice ==
  \A j \in finished \ {KillTask} : DeviceDone(j)

(* Work never sits unattended: whenever the task queue, or (without a    *)
(* worker) the copy queue or complete_jobs, is non-empty, running_thread *)
(* names a thread.  A thread parks only after finding all of them empty   *)
(* under the mutex, and every producer (enqueue, stream callback) wakes   *)
(* or starts a thread when none is running; a lost wakeup breaks this.    *)
WorkHasRunner ==
  (taskQueue # <<>> \/ (~UseWorker /\ (copies # <<>> \/ completeJobs # <<>>)))
    => runningThread # NoThread

(* Every job handed to the processor eventually has its finish event      *)
(* triggered.                                                              *)
AllJobsFinish ==
  \A j \in Jobs : (j \in submitted) ~> (j \in finished)

=============================================================================
