--------------------------- MODULE CoreScheduler ---------------------------
(***************************************************************************)
(* The core's own scheduler (service/scheduler_handler.cpp) as an owner of *)
(* SimpleScheduler.  It runs the periodic maintenance (settings, metrics,  *)
(* facts) and the reloads that any thread requests at any time with        *)
(* "delayed,...".  It is started once, at boot, and stopped once, with a   *)
(* timeout, before the modules are unloaded.                               *)
(***************************************************************************)
EXTENDS SimpleScheduler

CONSTANTS
  ThreadSettings,   \* "settings maintenance threads"
  MaxPeriodic       \* bound: periodic tasks

ASSUME CoreAssumption == ThreadSettings \subseteq Nat /\ MaxPeriodic \in Nat

VARIABLES
  source,      \* what each task is: the caller's schedule_metadata
  published,   \* the tasks whose metadata the workers can see
  begun,       \* history: the tasks whose execution has begun
  returned     \* history: how often it has returned (2: more than once)

coreVars == <<source, published, begun, returned>>
vars == <<schedulerVars, coreVars>>

Init ==
  /\ Fresh /\ mpc = "boot"
  /\ source = [id \in Ids |-> "UNKNOWN"] /\ published = {}
  /\ begun = {} /\ returned = [id \in Ids |-> 0]

-----------------------------------------------------------------------------
(* add_task: the task first, then its metadata *)

Add(src) ==
  /\ AddTask(TRUE)
  /\ source' = [source EXCEPT ![lastId + 1] = src]
  /\ UNCHANGED <<poolVars, flagVars, threadCount, handler, gaveUp, mpc, published, begun, returned>>

Publish(id) ==
  /\ id \in tasks \ published /\ published' = published \cup {id}
  /\ UNCHANGED <<schedulerVars, source, begun, returned>>

\* Settings and metrics at boot.
AddPeriodic ==
  /\ mpc = "boot" /\ lastId < MaxPeriodic
  /\ Add("PERIODIC")

\* reload("delayed,..."), from a module, the fleet sync or the settings task.
RequestReload == mpc # "boot" /\ Add("RELOAD")

-----------------------------------------------------------------------------
(* boot and stop_nsclient *)

Boot ==
  /\ mpc = "boot" /\ tasks \subseteq published /\ mpc' = "start"
  /\ \E n \in ThreadSettings : SetThreads(n)
  /\ handler' = TRUE
  /\ UNCHANGED <<taskVars, hold, running, stopRequested, coreVars>>

Shutdown ==
  /\ mpc = "started" /\ mpc' = "stop"
  /\ UNCHANGED <<taskVars, poolVars, flagVars, threadCount, handler, gaveUp, coreVars>>

\* Mutant: stop() without a timeout.
StopTimeoutNone == FALSE

\* Thirty seconds are enough for every thread to end but one that executes a task.
StopTimeout == \A s \in Live : pc[s] = "call"

UnsetHandler ==
  /\ mpc = "stopped" /\ mpc' = "down" /\ handler' = FALSE
  /\ UNCHANGED <<taskVars, poolVars, flagVars, threadCount, gaveUp, coreVars>>

-----------------------------------------------------------------------------
(* handle_schedule *)

\* Mutant: a task without metadata is abandoned.
LookUpAbandons(s) ==
  /\ pc[s] = "run"
  /\ IF hold[s] \in published
       THEN /\ Go(s, "call") /\ begun' = begun \cup {hold[s]}
            /\ UNCHANGED <<taskVars, role, hold, flagVars, threadCount, handler, gaveUp, mpc>>
       ELSE HandlerReturns(s, FALSE) /\ UNCHANGED <<tasks, begun>>
  /\ UNCHANGED <<source, published, returned>>

\* The metadata is looked up; a task that has none yet is kept.
LookUp(s) ==
  /\ pc[s] = "run"
  /\ IF hold[s] \in published
       THEN /\ Go(s, "call") /\ begun' = begun \cup {hold[s]}
            /\ UNCHANGED <<taskVars, role, hold, flagVars, threadCount, handler, gaveUp, mpc>>
       ELSE HandlerReturns(s, TRUE) /\ UNCHANGED <<tasks, begun>>
  /\ UNCHANGED <<source, published, returned>>

Count(id) == returned' = [returned EXCEPT ![id] = IF @ < 2 THEN @ + 1 ELSE 2]

\* Mutant: a task that threw is abandoned.
ExecutedNoRetry(s, threw) ==
  /\ pc[s] = "call" /\ HandlerReturns(s, ~threw /\ source[hold[s]] # "RELOAD")
  /\ IF threw THEN UNCHANGED returned ELSE Count(hold[s])
  /\ UNCHANGED <<tasks, source, published, begun>>

\* The task was executed.  One that threw, which a module's reload may, is
\* queued again whatever it is (a reload to be run again at once); one that
\* returned is, unless it is a reload.
Executed(s, threw) ==
  /\ pc[s] = "call" /\ HandlerReturns(s, threw \/ source[hold[s]] # "RELOAD")
  /\ IF threw THEN UNCHANGED returned ELSE Count(hold[s])
  /\ UNCHANGED <<tasks, source, published, begun>>

Ends(s) == \E threw \in BOOLEAN : Executed(s, threw)

-----------------------------------------------------------------------------

Core ==
  \/ (Start \/ StartThreads \/ Stop \/ StopWake) /\ UNCHANGED coreVars
  \/ Join(StopTimeout) /\ UNCHANGED coreVars
  \/ Boot \/ UnsetHandler

Pool(s) == ((WorkerStep(s) \/ WatchdogStep(s)) /\ UNCHANGED coreVars) \/ LookUp(s)
Due(s) == WorkerDue(s) /\ UNCHANGED coreVars

Next ==
  \/ \E s \in Slots : Pool(s) \/ Due(s) \/ Ends(s)
  \/ Core \/ Shutdown \/ AddPeriodic \/ RequestReload
  \/ \E id \in Ids : Publish(id)

Spec == Init /\ [][Next]_vars

\* The threads run; a task may hang and an instance may never come due.
FairSpec == Spec /\ WF_vars(Core) /\ \A s \in Slots : WF_vars(Pool(s))

\* Tasks return or throw, instances come due, metadata is published right after the
\* task, and the queue, ordered by time, hands every instance out in the end.
TasksReturn ==
  /\ \A s \in Slots : WF_vars(Due(s) \/ Ends(s))
  /\ \A id \in Ids :
       /\ WF_vars(Publish(id))
       /\ SF_vars(\E s \in Slots : Pool(s) /\ hold[s] = 0 /\ hold'[s] = id)

-----------------------------------------------------------------------------
(* Properties *)

\* Types.
TypeOK ==
  /\ SchedulerTypes
  /\ source \in [Ids -> {"UNKNOWN", "PERIODIC", "RELOAD"}]
  /\ published \subseteq tasks /\ begun \subseteq Ids /\ returned \in [Ids -> 0..2]

\* A requested reload is executed until it returns and never again: once it
\* has returned no instance of it is left, queued or with a worker, whether the
\* worker met it before its metadata was published or after, and however often
\* it threw.  And until the handler is unset no task is lost: a periodic one
\* always has its one instance, a reload has one until it has returned - also
\* when it threw, or when a worker was stopped with an instance in its hand.
\* (A reload that always throws is therefore run over and over.)
NothingLostOrRepeated ==
  /\ TypeOK
  /\ \A id \in Ids : source[id] = "RELOAD" /\ returned[id] > 0 => returned[id] = 1 /\ Chains(id) = 0
  /\ mpc # "down" =>
       \A id \in tasks : Chains(id) = 1 \/ (Chains(id) = 0 /\ source[id] = "RELOAD" /\ returned[id] = 1)

\* Once stop() has returned no maintenance task begins, so none is in the way
\* of the unloading of the modules but one that hung before.
NothingBeginsAfterStop ==
  [][\A s \in Slots : mpc \in {"stopped", "down"} /\ pc'[s] = "call" => pc[s] = "call"]_vars

\* The service's stop completes although a task has hung.
StopCompletes == mpc = "stop" ~> mpc = "down"

\* The execution of a requested reload begins, unless the service stops first or a task
\* hangs: whether the worker meets it before its metadata is there or after.
ReloadRuns == TasksReturn => \A id \in Ids : source[id] = "RELOAD" ~> (id \in begun \/ stopRequested)
=============================================================================
