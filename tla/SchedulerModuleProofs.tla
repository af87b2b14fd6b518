------------------------ MODULE SchedulerModuleProofs ------------------------
(***************************************************************************)
(* Proofs about SchedulerModule, for any number of threads, schedules and  *)
(* reloads.                                                                *)
(***************************************************************************)
EXTENDS SchedulerModule, SimpleSchedulerProofs

(***************************************************************************)
(* The module's part of the inductive invariant.  No thread is left        *)
(* between the join and the next start; the handler is set whenever there  *)
(* may be one.                                                             *)
(***************************************************************************)
Resting == {"off", "threads", "add", "start", "startThreads", "stopped", "clear", "clearQueue", "halted", "gone"}
Stopping == {"prepare", "prepareWake", "stop", "stopWake", "join", "stopped"}
Halted == (Resting \cup Stopping) \ {"startThreads", "prepare"}
Configured == {"add", "start", "startThreads", "started", "loaded", "startModule", "up"}

OwnerInv ==
  /\ mpc \in Resting => Live = {}
  /\ mpc \in Halted => ~running
  /\ mpc \in Configured \ {"add"} => handler
  /\ mpc \in Stopping => goal # "none"
  /\ HandlerOutlivesCalls

\* A pool that runs has had its watchdog started, once start has got there.
WatchInv ==
  /\ mpc = "startThreads" => ~stopRequested
  /\ running /\ mpc # "startThreads" => hasWatchdog

(***************************************************************************)
(* A schedule is dormant until run_startup_tasks queues it; every other    *)
(* one that is configured has its one instance, and nothing else has any.  *)
(***************************************************************************)
Dormant == IF mpc = "startModule" THEN todo ELSE IF mpc = "up" THEN {} ELSE startup

ScheduleInv ==
  /\ \A id \in tasks \cup startup \cup todo : id <= lastId
  /\ mpc \in {"off", "threads"} => tasks = {} /\ startup = {}
  /\ mpc = "clearQueue" => tasks = {}
  /\ mpc # "startModule" => todo = {}

Counted(id) ==
  /\ Chains(id) <= 1
  /\ id > lastId \/ mpc \in {"off", "threads"} => Chains(id) = 0
  /\ mpc \in Configured =>
       /\ id \in Dormant => Chains(id) = 0
       /\ id \in tasks \ Dormant => Chains(id) = 1
       /\ id \notin tasks \cup dropped => Chains(id) = 0

ChainInv == \A id \in Ids : Counted(id)

IInv == TypeOK /\ PoolInv /\ OwnerInv /\ WatchInv /\ ScheduleInv /\ ChainInv

-----------------------------------------------------------------------------
(* The kinds of steps *)

PoolAct(s) == PoolStep(s) /\ UNCHANGED moduleVars
HandlerAct(s) == (\E ok \in BOOLEAN : HandleSchedule(s, ok)) \/ CallSelf(s) \/ Dispatched(s)
OwnerAct == (OwnerStep \/ Join(FALSE)) /\ UNCHANGED moduleVars
Lifecycle ==
  \/ LoadModule \/ SetHandler \/ LoadReturns \/ StartModule \/ Stopped \/ UnloadHalted
  \/ \E why \in {"reload", "shutdown", "unload"} : StopFor(why)
TaskAct == AddSchedule \/ RunStartupTasks \/ Destroy \/ Clear \/ ClearQueue

LEMMA Steps ==
  [Next]_vars => \/ UNCHANGED vars \/ OwnerAct \/ Configure \/ Lifecycle \/ TaskAct
                 \/ \E s \in Slots : PoolAct(s) \/ HandlerAct(s)
BY Zenon DEF Next, Manager, PoolAct, HandlerAct, OwnerAct, Lifecycle, TaskAct

\* A schedule's command returns with its instance still in the worker's hand.
LEMMA HandlerKeeps ==
  ASSUME TypeOK, PoolInv, NEW s \in Slots, HandlerAct(s)
  PROVE  /\ SchedulerTypes' /\ PoolInv' /\ UNCHANGED <<queue, hold, lastId, role, running, handler, mpc>>
         /\ UNCHANGED <<goal, startup, todo, reloading>>
         /\ hold[s] \in Ids /\ pc[s] \in {"run", "call"}
         /\ \A u \in Slots \ {s} : pc'[u] = pc[u]
         /\ \/ UNCHANGED <<tasks, dropped>>
            \/ tasks' = tasks \ {hold[s]} /\ dropped' = dropped \cup {hold[s]}
<1>1. /\ pc[s] \in {"run", "call"} /\ hold' = hold /\ (Go(s, "run") \/ Go(s, "call") \/ Go(s, "push"))
      /\ UNCHANGED <<lastId, queue, role, flagVars, threadCount, handler, gaveUp, mpc>>
      /\ UNCHANGED <<goal, startup, todo, reloading>>
      /\ \/ UNCHANGED <<tasks, dropped>>
         \/ tasks' = tasks \ {hold[s]} /\ dropped' = dropped \cup {hold[s]}
  BY Zenon DEF HandlerAct, HandleSchedule, HandlerReturns, CallSelf, Dispatched, taskVars, moduleVars
<1>2. tasks' \subseteq Ids
  BY <1>1, Zenon DEF TypeOK, SchedulerTypes
<1>3. /\ SchedulerTypes' /\ PoolInv' /\ hold[s] \in Ids
      /\ \A u \in Slots \ {s} : pc'[u] = pc[u]
  BY <1>1, <1>2, HandlerMoves, Zenon DEF TypeOK
<1> QED
  BY <1>1, <1>3, Zenon DEF flagVars

-----------------------------------------------------------------------------
(* The pool and the types *)

LEMMA TypesStep ==
  ASSUME TypeOK, PoolInv, OwnerInv, [Next]_vars
  PROVE  TypeOK' /\ PoolInv'
<1>1. CASE UNCHANGED vars
  <2>1. PoolInv'
    BY <1>1, Idles, Zenon DEF vars, schedulerVars
  <2> QED
    BY <1>1, <2>1, Zenon DEF TypeOK, SchedulerTypes, vars, schedulerVars, taskVars, poolVars, flagVars, moduleVars
<1>2. CASE OwnerAct
  <2>1. mpc = "start" => Live = {}
    BY Zenon DEF OwnerInv, Resting
  <2>2. SchedulerTypes' /\ PoolInv'
    BY <1>2, <2>1, OwnerMoves, Zenon DEF OwnerAct, TypeOK
  <2> QED
    BY <1>2, <2>2, Zenon DEF TypeOK, OwnerAct, moduleVars
<1>3. CASE Configure
  <2>1. PICK n \in ThreadSettings : SetThreads(n)
    BY <1>3, Zenon DEF Configure
  <2>2. /\ UNCHANGED <<tasks, lastId, queue, hold, running, stopRequested, handler>> /\ UNCHANGED moduleVars
        /\ ~running /\ handler' \in BOOLEAN
    BY <1>3, Zenon DEF Configure, taskVars, OwnerInv, Resting, Halted, TypeOK, SchedulerTypes
  <2>3. SchedulerTypes' /\ PoolInv'
    BY <2>1, <2>2, SetThreadsKeeps, ModuleAssumption, Zenon DEF TypeOK
  <2> QED
    BY <2>2, <2>3, Zenon DEF TypeOK, moduleVars
<1>4. CASE Lifecycle
  <2>1. /\ UNCHANGED <<taskVars, poolVars, flagVars, threadCount, gaveUp>> /\ handler' \in BOOLEAN
        /\ goal' \in {"none", "reload", "shutdown", "unload"} /\ reloading' \in BOOLEAN
        /\ UNCHANGED <<startup, dropped>> /\ todo' \in {todo, startup}
    BY <1>4, Zenon DEF Lifecycle, LoadModule, SetHandler, LoadReturns, StartModule, Stopped, UnloadHalted, StopFor,
       moduleVars, TypeOK, SchedulerTypes
  <2>2. PoolInv'
    BY <2>1, Idles, Zenon
  <2> QED
    BY <2>1, <2>2, Zenon DEF TypeOK, SchedulerTypes, taskVars, poolVars, flagVars
<1>5. CASE TaskAct
  <2>1. UNCHANGED poolVars /\ UNCHANGED <<running, hasWatchdog, handler, reloading>>
    BY <1>5, Zenon DEF TaskAct, AddSchedule, RunStartupTasks, Destroy, Clear, ClearQueue, flagVars,
       moduleVars
  <2>2. UNCHANGED flagVars \/ Destroy
    BY <1>5, Zenon DEF TaskAct, AddSchedule, RunStartupTasks, Clear, ClearQueue
  <2>3. PoolInv'
    <3>1. CASE UNCHANGED flagVars
      BY <2>1, <3>1, Idles, Zenon
    <3>2. CASE Destroy
      <4>1. Live = {} /\ ~running
        BY <3>2, Zenon DEF Destroy, OwnerInv, Resting, Halted
      <4>2. UNCHANGED <<role, pc, hold>> /\ ~running' /\ ~hasWatchdog'
        BY <2>1, <4>1, Zenon DEF PoolInv, poolVars
      <4> QED
        BY <4>2, Zenon DEF PoolInv
    <3> QED
      BY <2>2, <3>1, <3>2, Zenon
  <2>4. tasks' \subseteq Ids /\ startup' \subseteq Ids /\ todo' \subseteq Ids /\ dropped' \subseteq Ids
        /\ lastId' \in 0..MaxIds /\ queue' \in [Ids -> Nat]
    <3>1. CASE AddSchedule
      <4>1. lastId + 1 \in Ids
        BY <3>1, PoolAssumption DEF AddSchedule, AddTask, TypeOK, SchedulerTypes, Ids
      <4>2. lastId + 1 \in 0..MaxIds
        BY <4>1, PoolAssumption DEF Ids
      <4>3. queue' \in [Ids -> Nat]
        BY <3>1, <4>1 DEF AddSchedule, AddTask, Push, TypeOK, SchedulerTypes
      <4> QED
        BY <3>1, <4>1, <4>2, <4>3, Zenon DEF AddSchedule, AddTask, TypeOK, SchedulerTypes
    <3>2. CASE RunStartupTasks
      <4>1. queue' \in [Ids -> Nat]
        BY <3>2 DEF RunStartupTasks, RunNow, Push, TypeOK, SchedulerTypes
      <4> QED
        BY <3>2, <4>1, Zenon DEF RunStartupTasks, TypeOK, SchedulerTypes
    <3>3. CASE Destroy \/ Clear \/ ClearQueue
      BY <3>3, PoolAssumption DEF Destroy, Clear, ClearQueue, TypeOK, SchedulerTypes, moduleVars
    <3> QED
      BY <1>5, <3>1, <3>2, <3>3, Zenon DEF TaskAct
  <2>5. threadCount' \in Nat /\ stopRequested' \in BOOLEAN /\ gaveUp' \in BOOLEAN /\ goal' \in {goal, "none"}
    BY <1>5, PoolAssumption, Zenon DEF TaskAct, AddSchedule, RunStartupTasks, Destroy, Clear, ClearQueue, flagVars,
       moduleVars, TypeOK, SchedulerTypes
  <2> QED
    BY <2>1, <2>3, <2>4, <2>5, Zenon DEF TypeOK, SchedulerTypes, poolVars
<1>6. ASSUME NEW s \in Slots, PoolAct(s) PROVE TypeOK' /\ PoolInv'
  BY <1>6, PoolMoves, Zenon DEF PoolAct, TypeOK, moduleVars
<1>7. ASSUME NEW s \in Slots, HandlerAct(s) PROVE TypeOK' /\ PoolInv'
  BY <1>7, HandlerKeeps, Zenon DEF TypeOK
<1> QED
  BY <1>1, <1>2, <1>3, <1>4, <1>5, <1>6, <1>7, Steps, Zenon

-----------------------------------------------------------------------------
(* The threads that are left, and the handler *)

LEMMA OwnerInvStep ==
  ASSUME TypeOK, PoolInv, OwnerInv, [Next]_vars
  PROVE  OwnerInv'
<1>1. ASSUME UNCHANGED <<role, pc, running>>, mpc' \in Resting => mpc \in Resting, mpc' \in Halted => mpc \in Halted,
             \/ handler' = handler /\ (mpc' \in Configured \ {"add"} => mpc \in Configured \ {"add"})
             \/ handler',
             mpc' \in Stopping => goal' # "none"
      PROVE  OwnerInv'
  <2>1. HandlerOutlivesCalls' /\ (mpc' \in Configured \ {"add"} => handler')
    <3>1. CASE handler'
      BY <3>1, Zenon DEF HandlerOutlivesCalls
    <3>2. CASE handler' = handler /\ (mpc' \in Configured \ {"add"} => mpc \in Configured \ {"add"})
      BY <1>1, <3>2, Zenon DEF OwnerInv, HandlerOutlivesCalls
    <3> QED
      BY <1>1, <3>1, <3>2, Zenon
  <2>2. (mpc' \in Resting => Live' = {}) /\ (mpc' \in Halted => ~running')
    BY <1>1, Zenon DEF OwnerInv, Live
  <2> QED
    BY <1>1, <2>1, <2>2, Zenon DEF OwnerInv
<1>2. CASE UNCHANGED vars
  BY <1>1, <1>2, Zenon DEF vars, schedulerVars, poolVars, flagVars, moduleVars, OwnerInv
<1>3. CASE OwnerAct
  <2>1. mpc = "start" => Live = {}
    BY Zenon DEF OwnerInv, Resting
  <2>2. /\ UNCHANGED handler /\ (mpc # "startThreads" => UNCHANGED role)
        /\ \A s \in Slots : pc'[s] \in {"run", "call"} => pc'[s] = pc[s]
    BY <1>3, <2>1, OwnerMoves, Zenon DEF OwnerAct, TypeOK
  <2>3. HandlerOutlivesCalls'
    BY <2>2, Zenon DEF OwnerInv, HandlerOutlivesCalls
  <2>4. goal' = goal
    BY <1>3, Zenon DEF OwnerAct, moduleVars
  <2>5. CASE Start \/ StartThreads
    BY <1>3, <2>2, <2>3, <2>4, <2>5, Zenon DEF Start, StartThreads, OwnerInv, Resting, Halted, Configured, Stopping,
       Live
  <2>6. CASE PrepareShutdown \/ PrepareWake \/ Stop \/ StopWake
    <3>1. mpc' \in {"prepareWake", "stop", "stopWake", "join"} /\ mpc \in Stopping
      BY <2>6, Zenon DEF PrepareShutdown, PrepareWake, Stop, StopWake, Stopping
    <3>2. ~running'
      BY <2>6, Zenon DEF PrepareShutdown, PrepareWake, Stop, StopWake, StopFlags, OwnerInv, Halted, Stopping, flagVars
    <3> QED
      BY <2>3, <2>4, <3>1, <3>2, Zenon DEF OwnerInv, Resting, Configured
  <2>7. CASE Join(FALSE)
    BY <1>3, <2>2, <2>3, <2>4, <2>7, Zenon DEF Join, OwnerInv, Resting, Halted, Configured, Stopping,
       Live, poolVars, flagVars
  <2> QED
    BY <1>3, <2>5, <2>6, <2>7, Zenon DEF OwnerAct, OwnerStep
<1>4. CASE Configure
  <2>1. PICK n \in ThreadSettings : SetThreads(n)
    BY <1>4, Zenon DEF Configure
  <2>2. UNCHANGED <<running, handler, goal>> /\ ~running /\ UNCHANGED <<role, pc>>
    BY <1>4, <2>1, Zenon DEF Configure, SetThreads, SpawnMissing, OwnerInv, Resting, Halted, moduleVars
  <2> QED
    BY <1>1, <1>4, <2>2, Zenon DEF Configure, Resting, Halted, Configured, Stopping
<1>5. CASE LoadModule \/ LoadReturns \/ StartModule \/ UnloadHalted \/ SetHandler
  BY <1>1, <1>5, Zenon DEF LoadModule, LoadReturns, StartModule, UnloadHalted, SetHandler, moduleVars, poolVars,
     flagVars, Resting, Halted, Configured, Stopping
<1>6. ASSUME NEW why \in {"reload", "shutdown", "unload"}, StopFor(why) PROVE OwnerInv'
  BY <1>1, <1>6, Zenon DEF StopFor, poolVars, flagVars, Resting, Halted, Configured, Stopping
<1>7. CASE Stopped
  <2>1. mpc = "stopped" /\ goal \in {"reload", "shutdown", "unload"} /\ Live = {} /\ ~running
    BY <1>7, Zenon DEF Stopped, OwnerInv, Resting, Halted, Stopping, TypeOK
  <2>2. mpc' \in {"clear", "halted", "gone"}
    BY <1>7, <2>1 DEF Stopped
  <2>3. \A s \in Slots : pc[s] = "none"
    BY <2>1, Zenon DEF PoolInv, Fits, Live
  <2> QED
    BY <1>7, <2>1, <2>2, <2>3, Zenon DEF Stopped, poolVars, flagVars, OwnerInv, Resting, Halted, Configured,
       Stopping, Live, HandlerOutlivesCalls
<1>8. CASE TaskAct
  <2>1. UNCHANGED <<role, pc, running, handler>>
    BY <1>8, Zenon DEF TaskAct, AddSchedule, RunStartupTasks, Destroy, Clear, ClearQueue, flagVars, poolVars
  <2>2. mpc' \in Stopping => goal' # "none"
    BY <1>8, Zenon DEF TaskAct, AddSchedule, RunStartupTasks, Destroy, Clear, ClearQueue, moduleVars, Stopping
  <2>3. /\ (mpc' \in Resting => mpc \in Resting) /\ (mpc' \in Halted => mpc \in Halted)
        /\ mpc' \in Configured \ {"add"} => mpc \in Configured \ {"add"}
    BY <1>8, Zenon DEF TaskAct, AddSchedule, RunStartupTasks, Destroy, Clear, ClearQueue, Resting, Halted, Configured,
       Stopping
  <2> QED
    BY <1>1, <2>1, <2>2, <2>3, Zenon
<1>9. ASSUME NEW s \in Slots, PoolAct(s) PROVE OwnerInv'
  <2>1. PoolKeeps /\ Calls(s) /\ PoolStep(s) /\ goal' = goal
    BY <1>9, PoolMoves, Zenon DEF PoolAct, TypeOK, moduleVars
  <2>2. HandlerOutlivesCalls'
    BY <2>1, Zenon DEF PoolKeeps, Calls, OwnerInv, HandlerOutlivesCalls
  <2>3. s \in Live
    <3>1. pc[s] # "none"
      BY <2>1, Zenon DEF PoolStep, WorkerStep, WatchdogStep, WorkerLoop, WorkerPop, WorkerIdle, WorkerWait,
         WorkerCall,
         Reschedule, WorkerDue, WatchdogRound, ScaleUp, WatchdogWait
    <3> QED
      BY <3>1, Zenon DEF PoolInv, Fits, Live
  <2> QED
    BY <2>1, <2>2, <2>3, Zenon DEF PoolKeeps, OwnerInv
<1>10. ASSUME NEW s \in Slots, HandlerAct(s) PROVE OwnerInv'
  <2>1. /\ UNCHANGED <<role, running, handler, mpc, goal>> /\ pc[s] \in {"run", "call"}
        /\ \A u \in Slots \ {s} : pc'[u] = pc[u]
    BY <1>10, HandlerKeeps, Zenon
  <2> QED
    BY <2>1, Zenon DEF OwnerInv, Live, HandlerOutlivesCalls
<1> QED
  BY <1>2, <1>3, <1>4, <1>5, <1>6, <1>7, <1>8, <1>9, <1>10, Steps, Zenon DEF Lifecycle

LEMMA WatchStep ==
  ASSUME TypeOK, PoolInv, OwnerInv, WatchInv, [Next]_vars
  PROVE  WatchInv'
<1>1. ASSUME UNCHANGED <<running, hasWatchdog>>, mpc' # "startThreads", running => mpc # "startThreads"
      PROVE  WatchInv'
  BY <1>1, Zenon DEF WatchInv
<1>2. CASE UNCHANGED vars
  BY <1>2, Zenon DEF vars, schedulerVars, flagVars, WatchInv
<1>3. CASE Start
  BY <1>3, Zenon DEF Start, WatchInv
<1>4. CASE StartThreads
  <2>1. mpc' = "started" /\ (running' => hasWatchdog')
    BY <1>4, Zenon DEF StartThreads, SpawnMissing, WatchInv
  <2> QED
    BY <2>1, Zenon DEF WatchInv
<1>5. CASE PrepareShutdown \/ Stop
  BY <1>5, Zenon DEF PrepareShutdown, Stop, StopFlags, WatchInv
<1>6. CASE PrepareWake \/ StopWake \/ Join(FALSE)
  BY <1>1, <1>6, Zenon DEF PrepareWake, StopWake, Join, flagVars
<1>7. CASE Configure
  <2>1. mpc' = "add" /\ ~running'
    BY <1>7, Zenon DEF Configure, OwnerInv, Resting, Halted
  <2> QED
    BY <2>1, Zenon DEF WatchInv
<1>8. CASE Lifecycle
  <2>1. UNCHANGED <<running, hasWatchdog>> /\ mpc # "startThreads"
    BY <1>8, Zenon DEF Lifecycle, LoadModule, SetHandler, LoadReturns, StartModule, Stopped, UnloadHalted, StopFor,
       flagVars
  <2>2. CASE Stopped
    <3>1. goal \in {"reload", "shutdown", "unload"}
      BY <2>2, Zenon DEF Stopped, OwnerInv, Stopping, TypeOK
    <3>2. mpc' \in {"clear", "halted", "gone"}
      BY <2>2, <3>1 DEF Stopped
    <3> QED
      BY <1>1, <2>1, <3>2, Zenon
  <2>3. CASE ~Stopped
    <3>1. mpc' # "startThreads"
      BY <1>8, <2>3, Zenon DEF Lifecycle, LoadModule, SetHandler, LoadReturns, StartModule, UnloadHalted, StopFor
    <3> QED
      BY <1>1, <2>1, <3>1, Zenon
  <2> QED
    BY <2>2, <2>3, Zenon
<1>9. CASE TaskAct
  <2>1. UNCHANGED <<running, hasWatchdog>> /\ mpc # "startThreads" /\ mpc' # "startThreads"
    BY <1>9, Zenon DEF TaskAct, AddSchedule, RunStartupTasks, Destroy, Clear, ClearQueue, flagVars
  <2> QED
    BY <1>1, <2>1, Zenon
<1>10. ASSUME NEW s \in Slots, PoolAct(s) PROVE WatchInv'
  <2>1. UNCHANGED <<running, stopRequested, mpc>>
    BY <1>10, PoolMoves, Zenon DEF PoolAct, TypeOK, PoolKeeps
  <2>2. hasWatchdog => hasWatchdog'
    BY <1>10, Zenon DEF PoolAct, PoolStep, WorkerStep, WatchdogStep, WorkerLoop, WorkerPop, WorkerIdle, WorkerWait,
       WorkerCall, WaitForStop, Reschedule, WorkerDue, WatchdogRound, ScaleUp, SpawnMissing, WatchdogWait, flagVars
  <2> QED
    BY <2>1, <2>2, Zenon DEF WatchInv
<1>11. ASSUME NEW s \in Slots, HandlerAct(s) PROVE WatchInv'
  <2>1. UNCHANGED <<flagVars, mpc>>
    BY <1>11, Zenon DEF HandlerAct, HandleSchedule, HandlerReturns, CallSelf, Dispatched
  <2> QED
    BY <2>1, Zenon DEF WatchInv, flagVars
<1> QED
  BY <1>2, <1>3, <1>4, <1>5, <1>6, <1>7, <1>8, <1>9, <1>10, <1>11, Steps, Zenon DEF OwnerAct, OwnerStep

-----------------------------------------------------------------------------
(* The schedules and their instances *)

LEMMA ScheduleStep ==
  ASSUME TypeOK, PoolInv, OwnerInv, ScheduleInv, [Next]_vars
  PROVE  ScheduleInv'
<1>1. ASSUME UNCHANGED <<lastId, startup>>, tasks' \subseteq tasks, UNCHANGED todo, mpc # "startModule" \/ mpc' = mpc,
             mpc' \in {"off", "threads"} => mpc \in {"off", "threads"}, mpc' = "clearQueue" => mpc = "clearQueue"
      PROVE  ScheduleInv'
  BY <1>1, Zenon DEF ScheduleInv
<1>2. CASE UNCHANGED vars
  BY <1>1, <1>2, Zenon DEF vars, schedulerVars, taskVars, moduleVars
<1>3. CASE OwnerAct
  BY <1>1, <1>3, Zenon DEF OwnerAct, OwnerStep, Start, StartThreads, PrepareShutdown, PrepareWake, Stop, StopWake,
     Join,
     taskVars, moduleVars
<1>4. CASE Configure
  BY <1>1, <1>4, Zenon DEF Configure, taskVars, moduleVars
<1>5. CASE LoadModule \/ SetHandler \/ LoadReturns \/ UnloadHalted
  BY <1>1, <1>5, Zenon DEF LoadModule, SetHandler, LoadReturns, UnloadHalted, taskVars, moduleVars
<1>6. CASE StartModule
  BY <1>6, Zenon DEF StartModule, taskVars, ScheduleInv
<1>7. CASE Stopped
  <2>1. mpc = "stopped" /\ goal \in {"reload", "shutdown", "unload"}
    BY <1>7, Zenon DEF Stopped, OwnerInv, Stopping, TypeOK
  <2>2. mpc' \in {"clear", "halted", "gone"}
    BY <1>7, <2>1 DEF Stopped
  <2> QED
    BY <1>1, <1>7, <2>1, <2>2, Zenon DEF Stopped, taskVars, moduleVars
<1>8. ASSUME NEW why \in {"reload", "shutdown", "unload"}, StopFor(why) PROVE ScheduleInv'
  BY <1>1, <1>8, Zenon DEF StopFor, taskVars
<1>9. CASE AddSchedule
  <2>1. /\ mpc = "add" /\ mpc' = mpc /\ todo' = todo /\ lastId' = lastId + 1 /\ tasks' = tasks \cup {lastId + 1}
        /\ startup' \subseteq startup \cup {lastId + 1} /\ todo = {}
    BY <1>9, Zenon DEF AddSchedule, AddTask, ScheduleInv
  <2>2. \A id \in tasks' \cup startup' \cup todo' : id <= lastId'
    BY <2>1 DEF ScheduleInv, TypeOK, SchedulerTypes, Ids
  <2> QED
    BY <2>1, <2>2, Zenon DEF ScheduleInv
<1>10. CASE RunStartupTasks
  BY <1>10, Zenon DEF RunStartupTasks, ScheduleInv
<1>11. CASE Destroy
  BY <1>11, Zenon DEF Destroy, ScheduleInv
<1>12. CASE Clear
  BY <1>12, Zenon DEF Clear, ScheduleInv, moduleVars
<1>13. CASE ClearQueue
  BY <1>13, Zenon DEF ClearQueue, ScheduleInv
<1>14. ASSUME NEW s \in Slots, PoolAct(s) PROVE ScheduleInv'
  <2>1. PoolKeeps /\ UNCHANGED moduleVars
    BY <1>14, PoolMoves, Zenon DEF PoolAct, TypeOK
  <2> QED
    BY <1>1, <2>1, Zenon DEF PoolKeeps, moduleVars
<1>15. ASSUME NEW s \in Slots, HandlerAct(s) PROVE ScheduleInv'
  BY <1>1, <1>15, HandlerKeeps, Zenon
<1> QED
  BY <1>2, <1>3, <1>4, <1>5, <1>6, <1>7, <1>8, <1>9, <1>10, <1>11, <1>12, <1>13, <1>14, <1>15, Steps, Zenon
     DEF Lifecycle, TaskAct

\* A thread that has an instance is in a pool that is running or being stopped.
LEMMA NoneAtRest ==
  ASSUME TypeOK, PoolInv, OwnerInv, mpc \in Resting, NEW id \in Ids
  PROVE  Chains(id) = queue[id] /\ \A s \in Slots : hold[s] = 0
<1>1. \A s \in Slots : hold[s] = 0
  BY Zenon DEF OwnerInv, PoolInv, Fits, Live
<1>2. \A s \in Slots : hold[s] # id
  BY <1>1 DEF Ids
<1> QED
  BY <1>1, <1>2, ChainsCount, Zenon DEF TypeOK

LEMMA ChainStep ==
  ASSUME TypeOK, PoolInv, OwnerInv, ScheduleInv, ChainInv, [Next]_vars
  PROVE  ChainInv'
<1> SUFFICES ASSUME NEW id \in Ids PROVE Counted(id)'
  BY Zenon DEF ChainInv
<1>0. Counted(id) /\ Chains(id) \in Nat
  BY ChainsCount, Zenon DEF ChainInv, TypeOK
<1>1. ASSUME Chains(id)' = Chains(id), UNCHANGED <<lastId, startup, todo, dropped, tasks>>, 
             mpc' \in {"off", "threads"} => mpc \in {"off", "threads"},
             mpc' \in Configured => mpc \in Configured /\ Dormant' = Dormant
      PROVE  Counted(id)'
  BY <1>0, <1>1, Zenon DEF Counted
<1>2. CASE UNCHANGED vars
  <2>1. Chains(id)' = Chains(id)
    BY <1>2, Zenon DEF vars, schedulerVars, taskVars, poolVars, Chains
  <2> QED
    BY <1>1, <1>2, <2>1, Zenon DEF vars, schedulerVars, taskVars, moduleVars, Dormant
<1>3. CASE OwnerAct
  <2>1. mpc = "start" => Live = {}
    BY Zenon DEF OwnerInv, Resting
  <2>2. UNCHANGED <<tasks, lastId, queue, hold>>
    BY <1>3, <2>1, OwnerMoves, Zenon DEF OwnerAct, TypeOK
  <2>3. Chains(id)' = Chains(id)
    BY <2>2, Zenon DEF Chains
  <2>4. /\ mpc' \in Configured => mpc \in {"start", "startThreads"} /\ mpc' \in {"startThreads", "started"}
        /\ mpc' \notin {"off", "threads"}
    BY <1>3, Zenon DEF OwnerAct, OwnerStep, Start, StartThreads, PrepareShutdown, PrepareWake, Stop, StopWake, Join,
       Configured
  <2> QED
    BY <1>1, <1>3, <2>2, <2>3, <2>4, Zenon DEF OwnerAct, moduleVars, Dormant, Configured
<1>4. CASE Configure
  <2>1. Chains(id)' = Chains(id)
    BY <1>4, Zenon DEF Configure, taskVars, Chains
  <2>2. mpc = "threads" /\ mpc' = "add" /\ UNCHANGED <<tasks, lastId, startup>> /\ tasks = {} /\ startup = {}
    BY <1>4, Zenon DEF Configure, taskVars, moduleVars, ScheduleInv
  <2> QED
    BY <1>0, <2>1, <2>2 DEF Counted, Dormant
<1>5. CASE Lifecycle
  <2>1. Chains(id)' = Chains(id) /\ UNCHANGED <<lastId, startup, dropped, tasks>>
    BY <1>5, Zenon DEF Lifecycle, LoadModule, SetHandler, LoadReturns, StartModule, Stopped, UnloadHalted, StopFor,
       taskVars, poolVars, moduleVars, Chains
  <2>2. CASE StartModule
    BY <1>0, <2>1, <2>2, Zenon DEF StartModule, Counted, Dormant, Configured
  <2>3. CASE Stopped
    <3>1. mpc = "stopped" /\ goal \in {"reload", "shutdown", "unload"}
      BY <2>3, Zenon DEF Stopped, OwnerInv, Stopping, TypeOK
    <3>2. mpc' \in {"clear", "halted", "gone"}
      BY <2>3, <3>1 DEF Stopped
    <3> QED
      BY <1>1, <2>1, <2>3, <3>2, Zenon DEF Stopped, moduleVars, Configured
  <2>4. CASE LoadModule \/ SetHandler \/ LoadReturns \/ UnloadHalted
    BY <1>1, <2>1, <2>4, Zenon DEF LoadModule, SetHandler, LoadReturns, UnloadHalted, moduleVars, Configured, Dormant
  <2>5. ASSUME NEW why \in {"reload", "shutdown", "unload"}, StopFor(why) PROVE Counted(id)'
    BY <1>1, <2>1, <2>5, Zenon DEF StopFor, Configured
  <2> QED
    BY <1>5, <2>2, <2>3, <2>4, <2>5, Zenon DEF Lifecycle
<1>6. CASE AddSchedule
  <2>1. PICK first \in BOOLEAN : AddTask(first) /\ startup' = IF first THEN startup ELSE startup \cup {lastId + 1}
    BY <1>6, Zenon DEF AddSchedule
  <2>2. /\ mpc = "add" /\ mpc' = "add" /\ UNCHANGED <<hold, dropped>>
        /\ lastId' = lastId + 1 /\ tasks' = tasks \cup {lastId + 1}
        /\ IF first THEN Push(lastId + 1) ELSE UNCHANGED queue
    BY <1>6, <2>1, Zenon DEF AddSchedule, AddTask, poolVars
  <2>3. lastId + 1 \in Ids /\ lastId \in Nat /\ id \in Nat
    BY <2>1, PoolAssumption DEF AddTask, TypeOK, SchedulerTypes, Ids
  <2>4. Chains(id)' = IF first /\ id = lastId + 1 THEN Chains(id) + 1 ELSE Chains(id)
    <3>1. CASE first
      <4>1. Chains(id)' = Chains(id) + IF id = lastId + 1 THEN 1 ELSE 0
        BY <2>2, <2>3, <3>1, ChainsPushed, Zenon DEF TypeOK
      <4> QED
        BY <1>0, <3>1, <4>1
    <3>2. CASE ~first
      BY <2>2, <3>2, Zenon DEF Chains
    <3> QED
      BY <3>1, <3>2, Zenon
  <2>5. CASE id = lastId + 1
    <3>1. Chains(id) = 0 /\ id \notin startup /\ ~(id > lastId')
      BY <1>0, <2>2, <2>3, <2>5 DEF Counted, ScheduleInv
    <3>2. Chains(id)' = IF first THEN 1 ELSE 0
      BY <2>4, <2>5, <3>1
    <3>3. id \in tasks' /\ (id \in Dormant' <=> ~first)
      BY <2>1, <2>2, <2>5, <3>1, Zenon DEF Dormant
    <3> QED
      BY <2>2, <3>1, <3>2, <3>3 DEF Counted
  <2>6. CASE id # lastId + 1
    <3>1. Chains(id)' = Chains(id) /\ (id > lastId' => id > lastId)
      BY <2>2, <2>3, <2>4, <2>6
    <3>2. (id \in tasks' <=> id \in tasks) /\ (id \in Dormant' <=> id \in Dormant)
      BY <2>1, <2>2, <2>6, Zenon DEF Dormant
    <3> QED
      BY <1>0, <2>2, <3>1, <3>2, Zenon DEF Counted
  <2> QED
    BY <2>5, <2>6, Zenon
<1>7. CASE RunStartupTasks
  <2>1. mpc = "startModule" /\ UNCHANGED <<hold, tasks, lastId, startup, dropped>>
    BY <1>7, Zenon DEF RunStartupTasks, poolVars
  <2>2. ASSUME NEW i \in todo, RunNow(i), todo' = todo \ {i}, mpc' = mpc PROVE Counted(id)'
    <3>1. i \in Ids
      BY <2>2, Zenon DEF TypeOK
    <3>2. Chains(id)' = IF i \in tasks /\ id = i THEN Chains(id) + 1 ELSE Chains(id)
      <4>1. CASE i \in tasks
        <5>1. Chains(id)' = Chains(id) + IF id = i THEN 1 ELSE 0
          BY <2>1, <2>2, <3>1, <4>1, ChainsPushed, Zenon DEF TypeOK, RunNow
        <5> QED
          BY <1>0, <4>1, <5>1
      <4>2. CASE i \notin tasks
        BY <2>1, <2>2, <4>2, Zenon DEF RunNow, Chains
      <4> QED
        BY <4>1, <4>2, Zenon
    <3>3. CASE id = i
      <4>1. Chains(id) = 0 /\ ~(id > lastId)
        BY <1>0, <2>1, <2>2, <3>1, <3>3 DEF Counted, Dormant, Configured, ScheduleInv, TypeOK, SchedulerTypes, Ids
      <4>2. Chains(id)' = IF id \in tasks THEN 1 ELSE 0
        BY <3>2, <3>3, <4>1
      <4> QED
        BY <2>1, <2>2, <3>3, <4>1, <4>2 DEF Counted, Dormant
    <3>4. CASE id # i
      <4>1. Chains(id)' = Chains(id) /\ (id \in Dormant' <=> id \in Dormant)
        BY <2>1, <2>2, <3>2, <3>4, Zenon DEF Dormant
      <4> QED
        BY <1>0, <2>1, <2>2, <4>1, Zenon DEF Counted
    <3> QED
      BY <3>3, <3>4, Zenon
  <2>3. CASE todo = {} /\ mpc' = "up" /\ UNCHANGED <<queue, todo>>
    <3>1. Chains(id)' = Chains(id)
      BY <2>1, <2>3, Zenon DEF Chains
    <3> QED
      BY <1>0, <2>1, <2>3, <3>1, Zenon DEF Counted, Dormant, Configured
  <2> QED
    BY <1>7, <2>2, <2>3, Zenon DEF RunStartupTasks
<1>8. CASE Clear
  <2>1. Chains(id)' = Chains(id)
    BY <1>8, Zenon DEF Clear, poolVars, Chains
  <2> QED
    BY <1>0, <1>8, <2>1, Zenon DEF Clear, Counted, Configured
<1>9. CASE Destroy \/ ClearQueue
  <2>1. \A s \in Slots : hold[s] = 0
    BY <1>9, NoneAtRest, Zenon DEF Destroy, ClearQueue, Resting
  <2>2. UNCHANGED hold /\ queue' = [i \in Ids |-> 0] /\ mpc' \in {"off", "threads"}
    BY <1>9, Zenon DEF Destroy, ClearQueue, poolVars
  <2>3. Chains(id)' = 0
    <3>1. {s \in Slots : hold'[s] = id} = {}
      BY <2>1, <2>2 DEF Ids
    <3> QED
      BY <2>2, <3>1, FS_EmptySet DEF Chains
  <2> QED
    BY <2>2, <2>3 DEF Counted, Configured
<1>10. ASSUME NEW s \in Slots, PoolAct(s) PROVE Counted(id)'
  <2>1. PoolKeeps /\ Instances(s) /\ UNCHANGED moduleVars
    BY <1>10, PoolMoves, Zenon DEF PoolAct, TypeOK
  <2>2. CASE Chains(id)' = Chains(id)
    BY <1>1, <2>1, <2>2, Zenon DEF PoolKeeps, moduleVars, Dormant
  <2>3. CASE Drops(s) /\ ~(hold[s] \in tasks /\ handler)
    <3>1. Chains(id)' = Chains(id) - IF id = hold[s] THEN 1 ELSE 0
      BY <2>3, ChainsDropped, Zenon DEF TypeOK
    <3>2. CASE id # hold[s]
      BY <1>0, <2>2, <3>1, <3>2
    <3>3. CASE id = hold[s]
      <4>1. Chains(id) >= 1
        BY <3>3, ChainsCount, Zenon DEF TypeOK
      <4>2. Chains(id) = 1 /\ Chains(id)' = 0
        BY <1>0, <3>1, <3>3, <4>1 DEF Counted
      <4>3. mpc # "add"
        BY <3>3, NoneAtRest DEF Resting, Ids
      <4>4. mpc \in Configured => handler
        BY <4>3, Zenon DEF OwnerInv
      <4>5. mpc' \in Configured => id \notin tasks'
        BY <2>1, <2>3, <3>3, <4>4, Zenon DEF PoolKeeps
      <4> QED
        BY <4>2, <4>5 DEF Counted
    <3> QED
      BY <3>2, <3>3, Zenon
  <2> QED
    BY <2>1, <2>2, <2>3, ChainsKept, Zenon DEF TypeOK, Instances
<1>11. ASSUME NEW s \in Slots, HandlerAct(s) PROVE Counted(id)'
  <2>1. /\ UNCHANGED <<queue, hold, lastId, mpc, startup, todo>>
        /\ \/ UNCHANGED <<tasks, dropped>>
           \/ tasks' = tasks \ {hold[s]} /\ dropped' = dropped \cup {hold[s]}
    BY <1>11, HandlerKeeps, Zenon
  <2>2. Chains(id)' = Chains(id) /\ Dormant' = Dormant
    BY <2>1, Zenon DEF Chains, Dormant
  <2> QED
    BY <1>0, <2>1, <2>2, Zenon DEF Counted
<1> QED
  BY <1>2, <1>3, <1>4, <1>5, <1>6, <1>7, <1>8, <1>9, <1>10, <1>11, Steps, Zenon DEF TaskAct

-----------------------------------------------------------------------------
(* The theorems *)

LEMMA InitIInv == Init => IInv
<1> SUFFICES ASSUME Init PROVE IInv
  OBVIOUS
<1>1. TypeOK
  <2>1. 0 \in 0..MaxIds /\ 0 \in Nat /\ MaxThreads \in Nat
    BY PoolAssumption
  <2> QED
    BY <2>1, Zenon DEF Init, Fresh, TypeOK, SchedulerTypes
<1>2. Live = {} /\ \A s \in Slots : role[s] = "off" /\ pc[s] = "none" /\ hold[s] = 0
  BY Zenon DEF Init, Fresh, Live
<1>3. PoolInv /\ WatchInv
  BY <1>2, Zenon DEF PoolInv, WatchInv, Fits, Init, Fresh
<1>4. OwnerInv
  BY <1>2, Zenon DEF OwnerInv, Init, Fresh, Resting, Stopping, Configured, HandlerOutlivesCalls
<1>5. ScheduleInv
  BY Zenon DEF ScheduleInv, Init, Fresh
<1>6. ASSUME NEW id \in Ids PROVE Chains(id) = 0
  <2>1. Chains(id) = queue[id]
    BY <1>1, <1>3, <1>4, NoneAtRest, Zenon DEF Init, Resting
  <2> QED
    BY <2>1, Zenon DEF Init, Fresh
<1>7. mpc = "off"
  BY Zenon DEF Init
<1>8. ChainInv
  BY <1>6, <1>7 DEF ChainInv, Counted, Configured
<1> QED
  BY <1>1, <1>3, <1>4, <1>5, <1>8, Zenon DEF IInv

\* The inductive invariant holds of the Scheduler module in every state.
THEOREM InvariantHolds == Spec => []IInv
<1>1. IInv /\ [Next]_vars => IInv'
  BY TypesStep, OwnerInvStep, WatchStep, ScheduleStep, ChainStep, Zenon DEF IInv
<1> QED
  BY InitIInv, <1>1, PTL DEF Spec

\* A schedule never has two instances, queued or with a worker: what add_task,
\* run_now and reschedule queue adds up to one, over reloads and startup runs.
THEOREM OneChainEach == Spec => []OneChain
<1>1. IInv => OneChain
  BY Zenon DEF IInv, ChainInv, Counted, OneChain
<1> QED
  BY <1>1, InvariantHolds, PTL

\* While the module is up every schedule has the instance of its next run: no
\* stop, reload or throwing command loses one.
THEOREM SchedulesKept == Spec => []NoScheduleLost
<1>1. IInv => NoScheduleLost
  BY Zenon DEF IInv, TypeOK, SchedulerTypes, ChainInv, Counted, Configured, Dormant, NoScheduleLost
<1> QED
  BY <1>1, InvariantHolds, PTL

\* A reload leaves no instance of a schedule of before it, neither queued nor
\* with a worker: schedules_handler::stop joins them before it clears both.
THEOREM ReloadsClear == Spec => []NoStaleInstance
<1>1. IInv => NoStaleInstance
  BY Zenon DEF IInv, ChainInv, Counted, Configured, NoStaleInstance
<1> QED
  BY <1>1, InvariantHolds, PTL

\* schedules_handler::stop unsets the handler only when no worker is in the
\* module's code, and none gets in before it is set again.
THEOREM HandlerSafe == Spec => []HandlerOutlivesCalls
<1>1. IInv => HandlerOutlivesCalls
  BY Zenon DEF IInv, OwnerInv
<1> QED
  BY <1>1, InvariantHolds, PTL

\* spawn_missing_locked never starts a second watchdog, whoever calls it, and a
\* pool that was started and not yet stopped is never without one.
THEOREM WatchdogAlone == Spec => []OneWatchdog
<1>1. IInv => OneWatchdog
  <2> SUFFICES ASSUME IInv PROVE OneWatchdog
    OBVIOUS
  <2> DEFINE Dogs == {s \in Slots : role[s] = "watchdog"}
  <2>1. TypeOK /\ \A s, t \in Dogs : s = t
    BY Zenon DEF IInv, PoolInv
  <2>2. CASE Dogs = {}
    <3>1. ~(running /\ mpc # "startThreads")
      BY <2>2, Zenon DEF IInv, PoolInv, WatchInv
    <3>2. Cardinality(Dogs) = 0
      BY <2>2, FS_EmptySet, Zenon
    <3> QED
      BY <2>1, <3>1, <3>2 DEF OneWatchdog
  <2>3. ASSUME NEW d \in Dogs PROVE OneWatchdog
    <3>1. Dogs = {d}
      BY <2>1, <2>3, Zenon
    <3>2. Cardinality(Dogs) = 1
      BY <3>1, FS_Singleton, Zenon
    <3> QED
      BY <2>1, <2>3, <3>2 DEF OneWatchdog
  <2> QED
    BY <2>2, <2>3, Zenon
<1> QED
  BY <1>1, InvariantHolds, PTL
=============================================================================
