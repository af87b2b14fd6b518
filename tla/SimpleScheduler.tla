-------------------------- MODULE SimpleScheduler --------------------------
(***************************************************************************)
(* The thread pool that runs scheduled tasks                               *)
(* (include/scheduler/simple_scheduler.cpp, threads/scoped_thread_group).  *)
(*                                                                         *)
(* Workers take instances of tasks from a queue, sleep until they are due, *)
(* call the owner's handler and queue the next instance.  A watchdog, one  *)
(* of the pool's own threads, adds workers when the queue lags.  The owner *)
(* starts and stops the pool; stop() holds pool_mutex_ over the join.      *)
(*                                                                         *)
(* The two owners, the Scheduler module and the core, are SchedulerModule  *)
(* and CoreScheduler.  Times are abstracted: an instance comes due, and    *)
(* the queue lags, at any time; the queue's timed lock is always got.      *)
(***************************************************************************)
EXTENDS Integers, FiniteSets

CONSTANTS
  Slots,       \* bound: threads alive at a time
  MaxIds,      \* bound: task ids given out by one scheduler object
  MaxThreads   \* the watchdog's limit (10 in the code)

Ids == 1..MaxIds

ASSUME PoolAssumption == IsFiniteSet(Slots) /\ MaxIds \in Nat /\ MaxThreads \in Nat

VARIABLES
  tasks,        \* tasks_: the ids of the tasks there are
  lastId,       \* schedule_id_
  queue,        \* queue_: how many instances of each id are queued
  role,         \* what each thread is: "off", "worker" or "watchdog"
  pc, hold,     \* where it is, and the id of the instance it has taken
  threadCount,  \* thread_count_
  running, stopRequested, hasWatchdog, handler,   \* flags; handler_ is set
  gaveUp,       \* the watchdog has reported that the maximum is reached
  mpc           \* the owner's thread: where it is in starting or stopping

poolVars == <<role, pc, hold>>
taskVars == <<tasks, lastId, queue>>
flagVars == <<running, stopRequested, hasWatchdog>>
schedulerVars == <<taskVars, poolVars, flagVars, threadCount, handler, gaveUp, mpc>>

-----------------------------------------------------------------------------
(* Helpers *)

Live == {s \in Slots : role[s] # "off"}
Workers == {s \in Slots : role[s] = "worker"}

\* Instances of a task: queued, or with a worker.
Chains(id) == queue[id] + Cardinality({s \in Slots : hold[s] = id})

Go(s, to) == pc' = [pc EXCEPT ![s] = to]
Exit(s) == role' = [role EXCEPT ![s] = "off"] /\ Go(s, "none")
Push(id) == queue' = [queue EXCEPT ![id] = @ + 1]

Fresh ==
  /\ tasks = {} /\ lastId = 0 /\ queue = [id \in Ids |-> 0]
  /\ role = [s \in Slots |-> "off"] /\ pc = [s \in Slots |-> "none"] /\ hold = [s \in Slots |-> 0]
  /\ threadCount = MaxThreads /\ running = FALSE /\ stopRequested = FALSE /\ hasWatchdog = FALSE
  /\ handler = FALSE /\ gaveUp = FALSE

-----------------------------------------------------------------------------
(* thread_proc *)

WorkerLoop(s) ==
  /\ pc[s] = "loop"
  /\ IF stopRequested THEN Exit(s) ELSE Go(s, "pop") /\ UNCHANGED role
  /\ UNCHANGED <<taskVars, hold, flagVars, threadCount, handler, gaveUp, mpc>>

WorkerPop(s) ==
  /\ pc[s] = "pop"
  /\ \/ /\ \A id \in Ids : queue[id] = 0
        /\ Go(s, "idle") /\ UNCHANGED <<queue, hold>>
     \/ \E id \in Ids :
          /\ queue[id] > 0
          /\ queue' = [queue EXCEPT ![id] = @ - 1]
          /\ hold' = [hold EXCEPT ![s] = id] /\ Go(s, "wait")
  /\ UNCHANGED <<tasks, lastId, role, flagVars, threadCount, handler, gaveUp, mpc>>

\* The wait on the idle condition lasts at most a second, notified or not.
WorkerIdle(s) ==
  /\ pc[s] = "idle" /\ Go(s, "loop")
  /\ UNCHANGED <<taskVars, role, hold, flagVars, threadCount, handler, gaveUp, mpc>>

\* wait_for_stop evaluates stop_requested_ on entry and whenever it wakes.  A
\* worker that is stopped puts its instance back and ends.
WaitForStop(s, then) ==
  /\ IF stopRequested THEN Push(hold[s]) /\ Exit(s) /\ hold' = [hold EXCEPT ![s] = 0]
                      ELSE Go(s, then) /\ UNCHANGED <<queue, role, hold>>
  /\ UNCHANGED <<tasks, lastId, flagVars, threadCount, handler, gaveUp, mpc>>

WorkerWait(s) == pc[s] = "wait" /\ (WaitForStop(s, "asleep") \/ WaitForStop(s, "due"))
WorkerDue(s) == pc[s] = "asleep" /\ role[s] = "worker" /\ WaitForStop(s, "due")

\* The task is looked up and the handler called, if there still is either.
WorkerCall(s) ==
  /\ pc[s] = "due"
  /\ IF hold[s] \in tasks /\ handler
       THEN Go(s, "run") /\ UNCHANGED hold
       ELSE Go(s, "loop") /\ hold' = [hold EXCEPT ![s] = 0]
  /\ UNCHANGED <<taskVars, role, flagVars, threadCount, handler, gaveUp, mpc>>

\* The handler returned whether to reschedule, or threw, which reschedules.
\* What it did to the tasks is the owner's.
HandlerReturns(s, again) ==
  /\ IF again THEN Go(s, "push") /\ UNCHANGED hold
              ELSE Go(s, "loop") /\ hold' = [hold EXCEPT ![s] = 0]
  /\ UNCHANGED <<lastId, queue, role, flagVars, threadCount, handler, gaveUp, mpc>>

\* Mutant: the next instance is not queued.
RescheduleNone(s) ==
  /\ pc[s] = "push"
  /\ hold' = [hold EXCEPT ![s] = 0] /\ Go(s, "loop")
  /\ UNCHANGED <<taskVars, role, flagVars, threadCount, handler, gaveUp, mpc>>

Reschedule(s) ==
  /\ pc[s] = "push"
  /\ Push(hold[s]) /\ hold' = [hold EXCEPT ![s] = 0] /\ Go(s, "loop")
  /\ UNCHANGED <<tasks, lastId, role, flagVars, threadCount, handler, gaveUp, mpc>>

-----------------------------------------------------------------------------
(* The pool: spawn_missing_locked and the watchdog *)

\* n of the slots that are free.  Free slots are alike, so it does not matter
\* which (and permuting the slots remains a symmetry).
Spawned(n, free) == CHOOSE new \in SUBSET free : Cardinality(new) = n

\* threads_.count() counts every live thread, the watchdog too.
MissingWorkers == IF threadCount > Cardinality(Live) THEN threadCount - Cardinality(Live) ELSE 0

\* Mutant: the watchdog is not remembered.
SpawnMissingDogs(at) ==
  IF ~running \/ stopRequested THEN pc' = at /\ UNCHANGED <<role, hasWatchdog, gaveUp>>
  ELSE LET new == Spawned(MissingWorkers, Slots \ Live)
           dog == Spawned(IF hasWatchdog THEN 0 ELSE 1, Slots \ (Live \cup new)) IN
    /\ Cardinality(Slots \ Live) >= MissingWorkers + IF hasWatchdog THEN 0 ELSE 1
    /\ role' = [s \in Slots |-> IF s \in new THEN "worker" ELSE IF s \in dog THEN "watchdog" ELSE role[s]]
    /\ pc' = [s \in Slots |-> IF s \in new THEN "loop" ELSE IF s \in dog THEN "watch" ELSE at[s]]
    /\ gaveUp' = (gaveUp /\ dog = {}) /\ UNCHANGED hasWatchdog

\* spawn_missing_locked, called by a thread that leaves the pool's threads at
\* "at".
SpawnMissing(at) ==
  IF ~running \/ stopRequested THEN pc' = at /\ UNCHANGED <<role, hasWatchdog, gaveUp>>
  ELSE LET new == Spawned(MissingWorkers, Slots \ Live)
           dog == Spawned(IF hasWatchdog THEN 0 ELSE 1, Slots \ (Live \cup new)) IN
    /\ Cardinality(Slots \ Live) >= MissingWorkers + IF hasWatchdog THEN 0 ELSE 1
    /\ role' = [s \in Slots |-> IF s \in new THEN "worker" ELSE IF s \in dog THEN "watchdog" ELSE role[s]]
    /\ pc' = [s \in Slots |-> IF s \in new THEN "loop" ELSE IF s \in dog THEN "watch" ELSE at[s]]
    /\ gaveUp' = (gaveUp /\ dog = {}) /\ hasWatchdog' = TRUE

\* stop() holds pool_mutex_ from its flags to the end of the join; every
\* other holder takes and gives it back within one step.
PoolLocked == mpc \in {"stopWake", "join"}

\* A round of watch_dog: when the first instance is late, one thread more.
WatchdogRound(s) ==
  /\ pc[s] = "watch"
  /\ \/ stopRequested /\ Exit(s) /\ UNCHANGED <<threadCount, gaveUp>>
     \/ ~stopRequested /\ Go(s, "dogWait") /\ UNCHANGED <<role, threadCount, gaveUp>>
     \/ /\ ~stopRequested /\ \E id \in Ids : queue[id] > 0
        /\ IF threadCount < MaxThreads
             THEN threadCount' = threadCount + 1 /\ Go(s, "scale") /\ UNCHANGED gaveUp
             ELSE gaveUp' = TRUE /\ Go(s, "dogWait") /\ UNCHANGED threadCount
        /\ UNCHANGED role
  /\ UNCHANGED <<taskVars, hold, flagVars, handler, mpc>>

\* scale_up only tries pool_mutex_: the watchdog is one of the threads stop()
\* joins under it.
ScaleUp(s) ==
  /\ pc[s] = "scale"
  /\ LET at == [pc EXCEPT ![s] = "dogWait"] IN
     IF PoolLocked THEN pc' = at /\ UNCHANGED <<role, hasWatchdog, gaveUp>> ELSE SpawnMissing(at)
  /\ UNCHANGED <<taskVars, hold, running, stopRequested, threadCount, handler, mpc>>

\* Five seconds in wait_for_stop between two rounds.
WatchdogWait(s) ==
  /\ \/ pc[s] = "dogWait" /\ (IF stopRequested THEN Exit(s) ELSE Go(s, "asleep") /\ UNCHANGED role)
     \/ /\ pc[s] = "asleep" /\ role[s] = "watchdog"
        /\ IF stopRequested THEN Exit(s) ELSE Go(s, "watch") /\ UNCHANGED role
  /\ UNCHANGED <<taskVars, hold, flagVars, threadCount, handler, gaveUp, mpc>>

-----------------------------------------------------------------------------
(* The owner's operations *)

\* Mutant: a dormant task is queued like any other.
AddTaskQueued(first) ==
  /\ lastId < MaxIds
  /\ lastId' = lastId + 1 /\ tasks' = tasks \cup {lastId + 1}
  /\ Push(lastId + 1)

\* add_task; the id of a dormant one is queued later, by run_now.
AddTask(first) ==
  /\ lastId < MaxIds
  /\ lastId' = lastId + 1 /\ tasks' = tasks \cup {lastId + 1}
  /\ IF first THEN Push(lastId + 1) ELSE UNCHANGED queue

RunNow(id) == IF id \in tasks THEN Push(id) ELSE UNCHANGED queue

SetThreads(n) == threadCount' = n /\ SpawnMissing(pc)

Start ==
  /\ mpc = "start" /\ mpc' = "startThreads"
  /\ running' = TRUE /\ stopRequested' = FALSE
  /\ UNCHANGED <<taskVars, poolVars, hasWatchdog, threadCount, handler, gaveUp>>

StartThreads ==
  /\ mpc = "startThreads" /\ mpc' = "started"
  /\ SpawnMissing(pc)
  /\ UNCHANGED <<taskVars, hold, running, stopRequested, threadCount, handler>>

StopFlags == running' = FALSE /\ stopRequested' = TRUE /\ hasWatchdog' = FALSE

PrepareShutdown ==
  /\ mpc = "prepare" /\ mpc' = "prepareWake"
  /\ StopFlags
  /\ UNCHANGED <<taskVars, poolVars, threadCount, handler, gaveUp>>

\* Mutant: only the watchdog is woken.
WakeAllDog == pc' = [s \in Slots |-> IF pc[s] = "asleep" /\ role[s] = "watchdog" THEN "dogWait" ELSE pc[s]]

\* wake_all: whoever sleeps in wait_for_stop looks at the flag again.
WakeAll ==
  pc' = [s \in Slots |-> IF pc[s] # "asleep" THEN pc[s] ELSE IF role[s] = "worker" THEN "wait" ELSE "dogWait"]

PrepareWake ==
  /\ mpc = "prepareWake" /\ mpc' = "stop"
  /\ WakeAll
  /\ UNCHANGED <<taskVars, role, hold, flagVars, threadCount, handler, gaveUp>>

Stop ==
  /\ mpc = "stop" /\ mpc' = "stopWake"
  /\ StopFlags
  /\ UNCHANGED <<taskVars, poolVars, threadCount, handler, gaveUp>>

StopWake ==
  /\ mpc = "stopWake" /\ mpc' = "join"
  /\ WakeAll
  /\ UNCHANGED <<taskVars, role, hold, flagVars, threadCount, handler, gaveUp>>

\* Mutant: the pool is not waited for.
JoinAtOnce(givingUp) ==
  /\ mpc = "join"
  /\ mpc' = "stopped" /\ threadCount' = 0
  /\ UNCHANGED <<taskVars, poolVars, flagVars, handler, gaveUp>>

\* Every thread is joined, or (with a timeout) given up on.
Join(givingUp) ==
  /\ mpc = "join" /\ (givingUp \/ Live = {})
  /\ mpc' = "stopped" /\ threadCount' = 0
  /\ UNCHANGED <<taskVars, poolVars, flagVars, handler, gaveUp>>

-----------------------------------------------------------------------------

WorkerStep(s) == WorkerLoop(s) \/ WorkerPop(s) \/ WorkerIdle(s) \/ WorkerWait(s) \/ WorkerCall(s) \/ Reschedule(s)
WatchdogStep(s) == WatchdogRound(s) \/ ScaleUp(s) \/ WatchdogWait(s)
PoolStep(s) == WorkerStep(s) \/ WorkerDue(s) \/ WatchdogStep(s)
OwnerStep == Start \/ StartThreads \/ PrepareShutdown \/ PrepareWake \/ Stop \/ StopWake

\* Types of the scheduler's state.
SchedulerTypes ==
  /\ tasks \subseteq Ids /\ lastId \in 0..MaxIds /\ queue \in [Ids -> Nat]
  /\ role \in [Slots -> {"off", "worker", "watchdog"}] /\ hold \in [Slots -> 0..MaxIds]
  /\ pc \in [Slots -> {"none", "loop", "pop", "idle", "wait", "asleep", "due", "run", "call", "push",
                       "watch", "scale", "dogWait"}]
  /\ threadCount \in Nat
  /\ {running, stopRequested, hasWatchdog, handler, gaveUp} \subseteq BOOLEAN
=============================================================================
