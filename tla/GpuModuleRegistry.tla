-------------------------- MODULE GpuModuleRegistry --------------------------
(***************************************************************************)
(* The CUDA runtime emulation of one GPUProcessor in                       *)
(* src/runtime/lowlevel_gpu.cc: the fat binaries, functions and their     *)
(* device handles that the __cudaRegister* hooks hand to the processor,   *)
(* and the configure_call / setup_argument / launch triple that replaces  *)
(* cudaConfigureCall, cudaSetupArgument and cudaLaunch.                   *)
(*                                                                         *)
(* A hook called on a thread that is not a GPU thread (find_local_gpu()   *)
(* returns NULL: the static initializers at start-up) defers the binary   *)
(* or function; initialize_processor loads what was deferred.  A hook     *)
(* called while a GPU task runs loads the binary at once and adds it to   *)
(* task_modules; execute_gpu hands task_modules to the task               *)
(* (record_modules) and the task's finish_job unloads them.               *)
(*                                                                         *)
(* Device variables (__cudaRegisterVar) follow the same path as         *)
(* functions into device_variables.                                       *)
(*                                                                         *)
(* A binary is a model value and stands for its handle (a static          *)
(* initializer registers a binary once).  A kernel call is numbered; a   *)
(* launch configuration is the number of the call that pushed it, and a  *)
(* cell of the pinned argument buffer holds <<call, argument index>>.    *)
(***************************************************************************)
EXTENDS Integers, Sequences, SequencesExt, FiniteSets, Functions

CONSTANTS
  StartupBins,   \* fat binaries registered by static initializers at start-up
  TaskBins,      \* fat binaries registered by code a GPU task loads
  BinFuncs,      \* [StartupBins \cup TaskBins -> SUBSET functions]: host stubs
  BinVars,       \* [StartupBins \cup TaskBins -> SUBSET variables]: host shadows
  Owners,        \* GPU tasks
  NoOwner,       \* no task
  ArgSizes,      \* argument sizes (buffer cells) given to setup_argument
  InitBufSize,   \* kernel_buffer_size set by the GPUProcessor constructor
  MaxArgs,       \* bound: arguments of one kernel call
  MaxDepth,      \* bound: kernel calls nested in argument evaluation
  MaxCalls       \* bound: kernel calls in a behaviour

Bins == StartupBins \cup TaskBins
Funcs == UNION {BinFuncs[b] : b \in Bins}
Vars == UNION {BinVars[b] : b \in Bins}
Junk == <<0, 0>>   \* a buffer cell no argument was copied into

ASSUME StartupBins \cap TaskBins = {} /\ Funcs \cap Vars = {} /\ NoOwner \notin Owners

VARIABLES
  initialized,    \* initialize_processor has run
  deferredMods,   \* get_deferred_modules() (and deferred cubins)
  deferredFuncs,  \* get_deferred_functions(), in order
  deferredVars,   \* get_deferred_variables(), in order
  modules,        \* modules: loaded binary -> host_aliases \cup var_aliases
  devFuncs,       \* device_functions: host stub -> binary it was loaded from
  devVars,        \* device_variables: host shadow -> binary it was loaded from
  registered,     \* binaries whose static initializer has run (history)
  regFuncs,       \* <<binary, function>> pairs registered (history)
  regVars,        \* <<binary, variable>> pairs registered (history)
  tstage,         \* each task: idle, running, ended (executed), finished
  taskModules,    \* task_modules
  recorded,       \* each GPUTask's modules (record_modules)
  launchConfigs,  \* launch_configs (push_back / back / pop_back)
  argBuf,         \* kernel_arg_buffer: cell -> <<call, argument>> or Junk
  bufSize,        \* kernel_buffer_size
  argSize,        \* kernel_arg_size
  callStack,      \* the task's kernel calls in progress, innermost last
  nextCall,       \* number of the next kernel call
  launched        \* what each launch handed to cuLaunchKernel (history)

rvars == <<initialized, deferredMods, deferredFuncs, deferredVars, modules,
           devFuncs, devVars, registered, regFuncs, regVars, tstage, taskModules, recorded, launchConfigs,
           argBuf, bufSize, argSize, callStack, nextCall, launched>>

varVars == <<deferredVars, devVars, regVars>>

bufVars == <<launchConfigs, argBuf, bufSize, argSize, callStack, nextCall,
             launched>>

Running == {o \in Owners : tstage[o] = "running"}

(* Offsets of a kernel call's arguments: each follows the previous one.   *)
PrefixSum(s, i) == FoldSeq(+, 0, SubSeq(s, 1, i))
ArgEnd(c) == PrefixSum(c.args, Len(c.args))

(* The buffer cells a call's arguments fill, in order.                    *)
CallCells(c) ==
  [k \in 0 .. ArgEnd(c) - 1 |->
     <<c.id, CHOOSE i \in DOMAIN c.args :
               PrefixSum(c.args, i - 1) <= k /\ k < PrefixSum(c.args, i)>>]

-----------------------------------------------------------------------------
(* internal_register_function on a [mods, funcs] pair: a stub that is     *)
(* already known is left alone, otherwise it becomes an alias of the      *)
(* binary's module and is resolved from it.                               *)
AddFunction(st, b, f) ==
  IF f \in DOMAIN st.funcs THEN st
  ELSE [mods |-> [st.mods EXCEPT ![b] = @ \cup {f}],
        funcs |-> (f :> b) @@ st.funcs]

(* internal_register_var on a [mods, vars] pair: a shadow already in     *)
(* device_variables is left alone, otherwise it is resolved from the     *)
(* binary's module (cuModuleGetGlobal) and becomes one of its var_aliases.*)
AddVariable(st, b, v) ==
  IF v \in DOMAIN st.vars THEN st
  ELSE [mods |-> [st.mods EXCEPT ![b] = @ \cup {v}],
        vars |-> (v :> b) @@ st.vars]

Init ==
  /\ initialized = FALSE
  /\ deferredMods = {}
  /\ deferredFuncs = <<>>
  /\ deferredVars = <<>>
  /\ devVars = [v \in {} |-> NoOwner]
  /\ regVars = {}
  /\ modules = [b \in {} |-> {}]
  /\ devFuncs = [f \in {} |-> NoOwner]
  /\ registered = {}
  /\ regFuncs = {}
  /\ tstage = [o \in Owners |-> "idle"]
  /\ taskModules = {}
  /\ recorded = [o \in Owners |-> {}]
  /\ launchConfigs = <<>>
  /\ argBuf = [k \in 0 .. InitBufSize - 1 |-> Junk]
  /\ bufSize = InitBufSize
  /\ argSize = 0
  /\ callStack = <<>>
  /\ nextCall = 1
  /\ launched = {}

(* register_fat_binary / register_cuda_binary with no local GPU:         *)
(* defer_module_load records the binary for initialize_processor.         *)
DeferModuleLoad(b) ==
  /\ ~initialized
  /\ b \in StartupBins \ registered
  /\ deferredMods' = deferredMods \cup {b}
  /\ registered' = registered \cup {b}
  /\ UNCHANGED <<initialized, deferredFuncs, modules, devFuncs, regFuncs,
                 tstage, taskModules, recorded, varVars, bufVars>>

(* register_function with no local GPU: defer_function_load.              *)
DeferFunctionLoad(b, f) ==
  /\ ~initialized
  /\ b \in deferredMods
  /\ f \in BinFuncs[b]
  /\ <<b, f>> \notin regFuncs
  /\ deferredFuncs' = Append(deferredFuncs, <<b, f>>)
  /\ regFuncs' = regFuncs \cup {<<b, f>>}
  /\ UNCHANGED <<initialized, deferredMods, modules, devFuncs, registered,
                 tstage, taskModules, recorded, varVars, bufVars>>

(* register_var with no local GPU: defer_variable_load.                   *)
DeferVarLoad(b, v) ==
  /\ ~initialized
  /\ b \in deferredMods
  /\ v \in BinVars[b]
  /\ <<b, v>> \notin regVars
  /\ deferredVars' = Append(deferredVars, <<b, v>>)
  /\ regVars' = regVars \cup {<<b, v>>}
  /\ UNCHANGED <<initialized, deferredMods, deferredFuncs, modules, devFuncs,
                 devVars, registered, regFuncs, tstage, taskModules,
                 recorded, bufVars>>

(* initialize_processor: load every deferred module, then register the   *)
(* deferred functions in order, then the deferred variables.              *)
InitializeProcessor ==
  /\ ~initialized
  /\ LET fs == FoldLeft(LAMBDA acc, x : AddFunction(acc, x[1], x[2]),
                        [mods |-> [b \in deferredMods |-> {}],
                         funcs |-> devFuncs],
                        deferredFuncs)
         vs == FoldLeft(LAMBDA acc, x : AddVariable(acc, x[1], x[2]),
                        [mods |-> fs.mods, vars |-> devVars],
                        deferredVars)
     IN /\ modules' = vs.mods
        /\ devFuncs' = fs.funcs
        /\ devVars' = vs.vars
  /\ initialized' = TRUE
  /\ UNCHANGED <<deferredMods, deferredFuncs, deferredVars, registered,
                 regFuncs, regVars, tstage, taskModules, recorded,
                 bufVars>>

-----------------------------------------------------------------------------
(* execute_gpu starts a GPU task; task_modules must be empty (asserted).  *)
BeginTask(o) ==
  /\ initialized
  /\ Running = {}
  /\ tstage[o] = "idle"
  /\ tstage' = [tstage EXCEPT ![o] = "running"]
  /\ UNCHANGED <<varVars, initialized, deferredMods, deferredFuncs, modules, devFuncs,
                 registered, regFuncs, taskModules, recorded, bufVars>>

(* The static initializer of a binary the task loads registers it, then   *)
(* its functions and variables, and returns before the code that loaded   *)
(* the binary goes on.                                                     *)
InitializersDone ==
  \A b \in taskModules : /\ {b} \X BinFuncs[b] \subseteq regFuncs
                         /\ {b} \X BinVars[b] \subseteq regVars

(* internal_register_fat_binary (or _cuda_binary) from the running task: *)
(* load the module now and note it in task_modules.  A static            *)
(* initializer is outside any kernel call.                                *)
RegisterFatBinary(b) ==
  /\ Running # {}
  /\ b \in TaskBins \ registered
  /\ callStack = <<>>
  /\ InitializersDone
  /\ modules' = (b :> {}) @@ modules
  /\ taskModules' = taskModules \cup {b}
  /\ registered' = registered \cup {b}
  /\ UNCHANGED <<varVars, initialized, deferredMods, deferredFuncs, devFuncs, regFuncs,
                 tstage, recorded, bufVars>>

(* internal_register_function from the running task, for a binary its    *)
(* own static initializer just registered.                                *)
RegisterFunction(b, f) ==
  /\ Running # {}
  /\ b \in taskModules
  /\ f \in BinFuncs[b]
  /\ <<b, f>> \notin regFuncs
  /\ callStack = <<>>
  /\ LET st == AddFunction([mods |-> modules, funcs |-> devFuncs], b, f)
     IN /\ modules' = st.mods
        /\ devFuncs' = st.funcs
  /\ regFuncs' = regFuncs \cup {<<b, f>>}
  /\ UNCHANGED <<varVars, initialized, deferredMods, deferredFuncs, registered, tstage,
                 taskModules, recorded, bufVars>>

(* internal_register_var from the running task, for a binary its own     *)
(* static initializer just registered.                                    *)
RegisterVar(b, v) ==
  /\ Running # {}
  /\ b \in taskModules
  /\ v \in BinVars[b]
  /\ <<b, v>> \notin regVars
  /\ callStack = <<>>
  /\ LET st == AddVariable([mods |-> modules, vars |-> devVars], b, v)
     IN /\ modules' = st.mods
        /\ devVars' = st.vars
  /\ regVars' = regVars \cup {<<b, v>>}
  /\ UNCHANGED <<initialized, deferredMods, deferredFuncs, deferredVars,
                 devFuncs, registered, regFuncs, tstage,
                 taskModules, recorded, bufVars>>

(* Application assumption, not code of the runtime: the running task    *)
(* calls kernels of the start-up binaries and of the binaries it loaded   *)
(* itself.  internal_launch (1427-1429) looks the stub up in              *)
(* device_functions and otherwise passes the host stub to cuLaunchKernel, *)
(* which fails (CHECK_CU aborts); a task that called into a library an    *)
(* earlier task loaded, and whose finish_job unloaded it, would end there.*)
TaskCallable == {p[2] : p \in {q \in regFuncs : q[1] \in StartupBins \cup taskModules}}

(* configure_call: push a LaunchConfig.  The arguments of a kernel call   *)
(* are evaluated after it (and may make a kernel call of their own), and  *)
(* before its stub's first setup_argument.                                *)
ConfigureCall(f) ==
  /\ Running # {}
  /\ f \in TaskCallable
  /\ InitializersDone
  /\ nextCall <= MaxCalls
  /\ Len(callStack) < MaxDepth
  /\ IF callStack = <<>> THEN TRUE ELSE Last(callStack).phase = "eval"
  /\ launchConfigs' = Append(launchConfigs, nextCall)
  /\ callStack' = Append(callStack, [id |-> nextCall, f |-> f, args |-> <<>>,
                                     phase |-> "eval"])
  /\ nextCall' = nextCall + 1
  /\ UNCHANGED <<argBuf, bufSize, argSize, launched>>
  /\ UNCHANGED <<varVars, initialized, deferredMods, deferredFuncs, modules, devFuncs,
                 registered, regFuncs, tstage, taskModules, recorded>>

(* Mutant: a buffer that is too small is replaced without copying the    *)
(* arguments already in it.                                                *)
SetupGrowNoCopy(size) ==
  LET c == Last(callStack)
      off == ArgEnd(c)
      required == off + size
      grown == IF required > bufSize
               THEN [k \in 0 .. 2 * required - 1 |-> Junk] ELSE argBuf
  IN /\ argBuf' = [k \in DOMAIN grown |->
                     IF off <= k /\ k < required THEN <<c.id, Len(c.args) + 1>>
                     ELSE grown[k]]
     /\ bufSize' = IF required > bufSize THEN 2 * required ELSE bufSize
     /\ argSize' = IF required > argSize THEN required ELSE argSize

(* Mutant: the new buffer is allocated with the required size while       *)
(* kernel_buffer_size is set to twice that.                               *)
SetupGrowShortAlloc(size) ==
  LET c == Last(callStack)
      off == ArgEnd(c)
      required == off + size
      grown == IF required > bufSize
               THEN [k \in 0 .. required - 1 |->
                       IF k < argSize THEN argBuf[k] ELSE Junk]
               ELSE argBuf
  IN /\ argBuf' = [k \in DOMAIN grown |->
                     IF off <= k /\ k < required THEN <<c.id, Len(c.args) + 1>>
                     ELSE grown[k]]
     /\ bufSize' = IF required > bufSize THEN 2 * required ELSE bufSize
     /\ argSize' = IF required > argSize THEN required ELSE argSize

(* internal_setup_argument(arg, size, offset): grow the buffer to twice   *)
(* what is required, copying the kernel_arg_size bytes in use, then copy  *)
(* the argument in and extend kernel_arg_size.                            *)
SetupGrow(size) ==
  LET c == Last(callStack)
      off == ArgEnd(c)
      required == off + size
      grown == IF required > bufSize
               THEN [k \in 0 .. 2 * required - 1 |->
                       IF k < argSize THEN argBuf[k] ELSE Junk]
               ELSE argBuf
  IN /\ argBuf' = [k \in DOMAIN grown |->
                     IF off <= k /\ k < required THEN <<c.id, Len(c.args) + 1>>
                     ELSE grown[k]]
     /\ bufSize' = IF required > bufSize THEN 2 * required ELSE bufSize
     /\ argSize' = IF required > argSize THEN required ELSE argSize

(* The kernel stub of the innermost call passes its next argument.        *)
SetupArgument(size) ==
  /\ Running # {}
  /\ callStack # <<>>
  /\ Len(Last(callStack).args) < MaxArgs
  /\ SetupGrow(size)
  /\ callStack' = [callStack EXCEPT ![Len(callStack)] =
                     [@ EXCEPT !.args = Append(@, size), !.phase = "setup"]]
  /\ UNCHANGED <<launchConfigs, nextCall, launched>>
  /\ UNCHANGED <<varVars, initialized, deferredMods, deferredFuncs, modules, devFuncs,
                 registered, regFuncs, tstage, taskModules, recorded>>

(* Mutant: launch leaves kernel_arg_size as it was.                       *)
LaunchKernelNoReset ==
  LET c == Last(callStack)
  IN /\ Running # {}
     /\ callStack # <<>>
     /\ launchConfigs # <<>>
     /\ launched' = launched \cup
          {[call |-> c.id, config |-> Last(launchConfigs),
            args |-> [k \in 0 .. argSize - 1 |-> argBuf[k]],
            want |-> CallCells(c)]}
     /\ launchConfigs' = Front(launchConfigs)
     /\ callStack' = Front(callStack)
     /\ UNCHANGED <<argBuf, bufSize, argSize, nextCall>>
     /\ UNCHANGED <<varVars, initialized, deferredMods, deferredFuncs, modules, devFuncs,
                    registered, regFuncs, tstage, taskModules, recorded>>

(* internal_launch: the kernel stub of the innermost call launches it     *)
(* with launch_configs.back() and the first kernel_arg_size bytes of the  *)
(* buffer (the function lookup is the one TaskCallable assumes succeeds); *)
(* then pops the configuration and resets kernel_arg_size.                *)
LaunchKernel ==
  LET c == Last(callStack)
  IN /\ Running # {}
     /\ callStack # <<>>
     /\ launchConfigs # <<>>
     /\ launched' = launched \cup
          {[call |-> c.id, config |-> Last(launchConfigs),
            args |-> [k \in 0 .. argSize - 1 |-> argBuf[k]],
            want |-> CallCells(c)]}
     /\ launchConfigs' = Front(launchConfigs)
     /\ argSize' = 0
     /\ callStack' = Front(callStack)
     /\ UNCHANGED <<argBuf, bufSize, nextCall>>
     /\ UNCHANGED <<varVars, initialized, deferredMods, deferredFuncs, modules, devFuncs,
                    registered, regFuncs, tstage, taskModules, recorded>>

(* Mutant: execute_gpu hands task_modules to the task without clearing it. *)
KeptModules(o) == taskModules

(* GPUTask::execute of task o returned (o = NoOwner: no task ran):       *)
(* record_modules(task_modules), then task_modules.clear().               *)
KeptAfterRun(o) == IF o = NoOwner THEN taskModules ELSE {}

(* After execute_gpu ran task o (or NoOwner) and then finish_job on the   *)
(* tasks S whose completion it drained: o records task_modules, and each  *)
(* task of S unloads its recorded modules (internal_unregister_fat_binary *)
(* erases the module's host aliases from device_functions and the module *)
(* itself).                                                                *)
Complete(o, S) ==
  LET gone == UNION {recorded[x] : x \in S}
      aliases == UNION {modules[b] : b \in gone \cap DOMAIN modules}
  IN /\ IF o = NoOwner THEN TRUE
        ELSE tstage[o] = "running" /\ callStack = <<>> /\ InitializersDone
     /\ o \notin S
     /\ \A x \in S : tstage[x] = "ended"
     /\ tstage' = [x \in Owners |-> IF x \in S THEN "finished"
                                    ELSE IF x = o THEN "ended" ELSE tstage[x]]
     /\ recorded' = [x \in Owners |-> IF x \in S THEN {}
                                      ELSE IF x = o THEN taskModules
                                      ELSE recorded[x]]
     /\ taskModules' = KeptAfterRun(o)
     /\ modules' = Restrict(modules, DOMAIN modules \ gone)
     /\ devFuncs' = Restrict(devFuncs, DOMAIN devFuncs \ aliases)
     /\ devVars' = Restrict(devVars, DOMAIN devVars \ aliases)
     /\ UNCHANGED <<initialized, deferredMods, deferredFuncs, deferredVars,
                    registered, regFuncs, regVars, bufVars>>

(* A step of the running task's own code.                                 *)
TaskStep ==
  \/ \E b \in TaskBins : RegisterFatBinary(b)
  \/ \E b \in TaskBins, f \in Funcs : RegisterFunction(b, f)
  \/ \E b \in TaskBins, v \in Vars : RegisterVar(b, v)
  \/ \E f \in Funcs : ConfigureCall(f)
  \/ \E size \in ArgSizes : SetupArgument(size)
  \/ LaunchKernel

Next ==
  \/ \E b \in StartupBins : DeferModuleLoad(b)
  \/ \E b \in StartupBins, f \in Funcs : DeferFunctionLoad(b, f)
  \/ \E b \in StartupBins, v \in Vars : DeferVarLoad(b, v)
  \/ InitializeProcessor
  \/ \E o \in Owners : BeginTask(o)
  \/ TaskStep
  \/ \E o \in Owners : Complete(o, {})
  \/ \E o \in Owners : Complete(NoOwner, {o})

Spec == Init /\ [][Next]_rvars

-----------------------------------------------------------------------------
TypeOK ==
  /\ initialized \in BOOLEAN
  /\ deferredMods \subseteq StartupBins
  /\ deferredFuncs \in Seq(StartupBins \X Funcs)
  /\ DOMAIN modules \subseteq Bins
  /\ deferredVars \in Seq(StartupBins \X Vars)
  /\ \A b \in DOMAIN modules : modules[b] \subseteq BinFuncs[b] \cup BinVars[b]
  /\ DOMAIN devFuncs \subseteq Funcs /\ DOMAIN devVars \subseteq Vars
  /\ tstage \in [Owners -> {"idle", "running", "ended", "finished"}]
  /\ recorded \in [Owners -> SUBSET TaskBins]
  /\ launchConfigs \in Seq(1 .. MaxCalls) /\ Len(launchConfigs) <= MaxDepth
  /\ DOMAIN argBuf = 0 .. bufSize - 1
  /\ argSize \in 0 .. bufSize
  /\ nextCall \in 1 .. MaxCalls + 1

(* Every kernel launch gets what its own kernel call set up: the launch   *)
(* configuration that call pushed (launch_configs is a stack shared by    *)
(* the calls nested in argument evaluation), exactly its arguments in the *)
(* pinned buffer (which setup_argument may have reallocated, and whose    *)
(* kernel_arg_size a previous launch must have reset).                    *)
KernelLaunchesIntact ==
  \A l \in launched : l.config = l.call /\ l.args = l.want

(* The modules a task loads are owned by exactly one party, so that they  *)
(* are unloaded once and only by that task's finish_job: task_modules     *)
(* while the task runs (and empty between tasks, as execute_gpu asserts), *)
(* the task's record after it ran.  device_functions only names loaded    *)
(* modules, and every function registered on a loaded module resolves;   *)
(* the same holds for device_variables and registered variables.          *)
ModulesOwned ==
  /\ Running = {} => taskModules = {}
  /\ \A b \in DOMAIN modules \cap TaskBins :
       Cardinality({o \in Owners : b \in recorded[o]})
         + (IF b \in taskModules THEN 1 ELSE 0) = 1
  /\ \A f \in DOMAIN devFuncs : devFuncs[f] \in DOMAIN modules
  /\ \A q \in regFuncs : q[1] \in DOMAIN modules => q[2] \in DOMAIN devFuncs
  /\ \A v \in DOMAIN devVars : devVars[v] \in DOMAIN modules
  /\ \A q \in regVars : q[1] \in DOMAIN modules => q[2] \in DOMAIN devVars
=============================================================================
