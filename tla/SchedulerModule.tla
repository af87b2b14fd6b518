-------------------------- MODULE SchedulerModule --------------------------
(***************************************************************************)
(* The Scheduler module (modules/Scheduler/Scheduler.cpp and               *)
(* schedules_handler.cpp) as an owner of SimpleScheduler: it is loaded,    *)
(* started, reloaded, prepared for shutdown and unloaded by the core, one  *)
(* lifecycle call at a time, while its workers run schedules.  A schedule  *)
(* is a command that any module may answer, this one too.                  *)
(***************************************************************************)
EXTENDS SimpleScheduler

CONSTANTS
  ThreadSettings,   \* what "threads" may be configured to
  MaxSchedules,     \* bound: schedules configured at a time
  SelfCalls         \* some schedule runs a command of this module

ASSUME ModuleAssumption ==
  ThreadSettings \subseteq Nat /\ MaxSchedules \in Nat /\ SelfCalls \in BOOLEAN

VARIABLES
  goal,        \* why the pool is being stopped
  startup,     \* the schedules that run on startup
  todo,        \* run_startup_tasks: those still to be queued
  dropped,     \* schedules removed because their command threw
  reloading    \* the core's reload barrier on this module

moduleVars == <<goal, startup, todo, dropped, reloading>>
vars == <<schedulerVars, moduleVars>>

Init ==
  /\ Fresh /\ mpc = "off"
  /\ goal = "none" /\ startup = {} /\ todo = {} /\ dropped = {} /\ reloading = FALSE

-----------------------------------------------------------------------------
(* loadModuleEx and startModule *)

LoadModule ==
  /\ mpc = "off" /\ mpc' = "threads"
  /\ UNCHANGED <<taskVars, poolVars, flagVars, threadCount, handler, gaveUp, moduleVars>>

\* The settings are read: the number of threads, and the schedules.
Configure ==
  /\ mpc = "threads" /\ mpc' = "add"
  /\ \E n \in ThreadSettings : SetThreads(n)
  /\ UNCHANGED <<taskVars, hold, running, stopRequested, handler, moduleVars>>

\* A schedule that runs on startup is not queued before startModule.
AddSchedule ==
  /\ mpc = "add" /\ Cardinality(tasks) < MaxSchedules
  /\ \E first \in BOOLEAN :
       AddTask(first) /\ startup' = IF first THEN startup ELSE startup \cup {lastId + 1}
  /\ UNCHANGED <<poolVars, flagVars, threadCount, handler, gaveUp, mpc, goal, todo, dropped, reloading>>

SetHandler ==
  /\ mpc = "add" /\ mpc' = "start" /\ handler' = TRUE
  /\ UNCHANGED <<taskVars, poolVars, flagVars, threadCount, gaveUp, moduleVars>>

LoadReturns ==
  /\ mpc = "started" /\ mpc' = "loaded" /\ reloading' = FALSE
  /\ UNCHANGED <<taskVars, poolVars, flagVars, threadCount, handler, gaveUp, goal, startup, todo, dropped>>

StartModule ==
  /\ mpc = "loaded" /\ mpc' = "startModule" /\ todo' = startup
  /\ UNCHANGED <<taskVars, poolVars, flagVars, threadCount, handler, gaveUp, goal, startup, dropped, reloading>>

RunStartupTasks ==
  /\ mpc = "startModule"
  /\ \/ \E id \in todo : RunNow(id) /\ todo' = todo \ {id} /\ mpc' = mpc
     \/ todo = {} /\ mpc' = "up" /\ UNCHANGED <<queue, todo>>
  /\ UNCHANGED <<tasks, lastId, poolVars, flagVars, threadCount, handler, gaveUp, goal, startup, dropped, reloading>>

-----------------------------------------------------------------------------
(* Reload, prepareShutdown and unloadModule: each stops the pool first *)

StopFor(why) ==
  /\ mpc \in {"loaded", "up"} /\ mpc' = "prepare"
  /\ goal' = why /\ reloading' = (why = "reload")
  /\ UNCHANGED <<taskVars, poolVars, flagVars, threadCount, handler, gaveUp, startup, todo, dropped>>

\* schedules_handler::stop once the pool is joined.
Stopped ==
  /\ mpc = "stopped" /\ handler' = FALSE
  /\ mpc' = [reload |-> "clear", shutdown |-> "halted", unload |-> "gone"][goal]
  /\ UNCHANGED <<taskVars, poolVars, flagVars, threadCount, gaveUp, moduleVars>>

\* After prepareShutdown the module is unloaded, which stops the pool again.
UnloadHalted ==
  /\ mpc = "halted" /\ mpc' = "prepare" /\ goal' = "unload"
  /\ UNCHANGED <<taskVars, poolVars, flagVars, threadCount, handler, gaveUp, startup, todo, dropped, reloading>>

\* The module's object goes; a later load makes a new one.
Destroy ==
  /\ mpc = "gone" /\ mpc' = "off"
  /\ tasks' = {} /\ lastId' = 0 /\ queue' = [id \in Ids |-> 0]
  /\ threadCount' = MaxThreads /\ stopRequested' = FALSE /\ gaveUp' = FALSE
  /\ startup' = {} /\ dropped' = {} /\ goal' = "none"
  /\ UNCHANGED <<poolVars, running, hasWatchdog, handler, todo, reloading>>

\* Mutant: pending instances survive the reload.
ClearQueueKept ==
  /\ mpc = "clearQueue" /\ mpc' = "threads"
  /\ UNCHANGED queue /\ startup' = {} /\ dropped' = {}
  /\ UNCHANGED <<tasks, lastId, poolVars, flagVars, threadCount, handler, gaveUp, goal, todo, reloading>>

\* A reload drops the tasks, then their pending instances.
Clear ==
  /\ mpc = "clear" /\ mpc' = "clearQueue" /\ tasks' = {}
  /\ UNCHANGED <<lastId, queue, poolVars, flagVars, threadCount, handler, gaveUp, moduleVars>>

ClearQueue ==
  /\ mpc = "clearQueue" /\ mpc' = "threads"
  /\ queue' = [id \in Ids |-> 0] /\ startup' = {} /\ dropped' = {}
  /\ UNCHANGED <<tasks, lastId, poolVars, flagVars, threadCount, handler, gaveUp, goal, todo, reloading>>

-----------------------------------------------------------------------------
(* A schedule's command *)

\* schedules_handler::handle_schedule: a schedule that threw is removed, and
\* still rescheduled once; its last instance finds no task.
HandleSchedule(s, ok) ==
  /\ pc[s] = "run" /\ HandlerReturns(s, TRUE)
  /\ tasks' = IF ok THEN tasks ELSE tasks \ {hold[s]}
  /\ dropped' = IF ok THEN dropped ELSE dropped \cup {hold[s]}
  /\ UNCHANGED <<goal, startup, todo, reloading>>

\* The command is one of this module's own: the worker calls it through the
\* core, whose dispatch_lock waits for a reload to end.
CallSelf(s) ==
  /\ SelfCalls /\ pc[s] = "run" /\ Go(s, "call")
  /\ UNCHANGED <<taskVars, role, hold, flagVars, threadCount, handler, gaveUp, mpc, moduleVars>>

Dispatched(s) ==
  /\ pc[s] = "call" /\ ~reloading /\ Go(s, "run")
  /\ UNCHANGED <<taskVars, role, hold, flagVars, threadCount, handler, gaveUp, mpc, moduleVars>>

-----------------------------------------------------------------------------

Manager ==
  \/ OwnerStep /\ UNCHANGED moduleVars
  \/ Join(FALSE) /\ UNCHANGED moduleVars
  \/ Configure \/ SetHandler \/ LoadReturns \/ RunStartupTasks
  \/ Stopped \/ UnloadHalted \/ Destroy \/ Clear \/ ClearQueue

Next ==
  \/ \E s \in Slots :
       \/ PoolStep(s) /\ UNCHANGED moduleVars
       \/ \E ok \in BOOLEAN : HandleSchedule(s, ok)
       \/ CallSelf(s) \/ Dispatched(s)
  \/ Manager \/ LoadModule \/ AddSchedule \/ StartModule
  \/ \E why \in {"reload", "shutdown", "unload"} : StopFor(why)

Spec == Init /\ [][Next]_vars

\* Threads run, handlers return; nothing makes an instance come due in time.
FairSpec ==
  /\ Spec /\ WF_vars(Manager)
  /\ \A s \in Slots :
       /\ WF_vars((WorkerStep(s) \/ WatchdogStep(s)) /\ UNCHANGED moduleVars)
       /\ WF_vars(\E ok \in BOOLEAN : HandleSchedule(s, ok))

-----------------------------------------------------------------------------
(* Properties *)

\* Types.
TypeOK ==
  /\ SchedulerTypes
  /\ goal \in {"none", "reload", "shutdown", "unload"} /\ reloading \in BOOLEAN
  /\ startup \subseteq Ids /\ todo \subseteq Ids /\ dropped \subseteq Ids

\* A schedule runs once per interval: it never has two instances, queued or
\* with a worker, since each run queues the next one (add_task, run_now and
\* reschedule together; over reloads and the startup runs).
OneChain == \A id \in Ids : Chains(id) <= 1

\* ... and while the module is up none of its schedules has lost its instance.
NoScheduleLost == mpc = "up" => \A id \in tasks : Chains(id) = 1

\* After a reload no instance of a schedule of before it is left, in the queue
\* or with a worker that outlived the stop; a removed schedule may still have
\* the one instance it was rescheduled with.
NoStaleInstance ==
  mpc \in {"start", "loaded", "startModule", "up"} => \A id \in Ids \ (tasks \cup dropped) : Chains(id) = 0

\* No worker is in the module's code after the handler pointer was cleared and
\* the module may be gone (schedules_handler.cpp: stop, then unset_handler).
HandlerOutlivesCalls == (\E s \in Slots : pc[s] \in {"run", "call"}) => handler

\* A pool that was started has its watchdog, the only thread that adds workers
\* later on, until it is stopped; and it never has two: has_watchdog_ is neither
\* left set by a watchdog that ended nor cleared while one is still there.
OneWatchdog ==
  LET dogs == {s \in Slots : role[s] = "watchdog"}
  IN  TypeOK /\ Cardinality(dogs) <= 1 /\ (running /\ mpc # "startThreads" => dogs # {})

\* dll_plugin.cpp says that a reload "cannot wait forever": it never waits for
\* a worker that waits for the reload to end.
ReloadWaitsForNoCaller == ~(mpc = "join" /\ reloading /\ \E s \in Slots : pc[s] = "call")

\* Every reload or unload that stops the pool gets to its end, however far
\* ahead the instances are that the workers sleep for.
StopReturns == mpc = "prepare" ~> mpc \in {"off", "loaded", "up"}
=============================================================================
