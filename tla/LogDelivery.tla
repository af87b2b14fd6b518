---------------------------- MODULE LogDelivery ----------------------------
(***************************************************************************)
(* The subscriber side of the core's logger (service/logger/               *)
(* nsclient_logger.cpp): lines queued by any thread, one delivery worker   *)
(* that hands each line to every log-handler module, and the closing,      *)
(* reopening and dropping of a module's subscription by the plugin         *)
(* manager while the worker may be inside the module.                      *)
(*                                                                         *)
(* delivery_->mutex is modelled by atomicity: every critical section that  *)
(* does not call out is one action.  The worker keeps the mutex over       *)
(* several actions (Unlocked is FALSE then) and gives it up only while it  *)
(* sleeps and while it is inside a handler.                                *)
(***************************************************************************)
EXTENDS Naturals, Sequences

CONSTANTS
  Subs,        \* log-handler modules; a module instance subscribes only once
  Loggers,     \* threads that log
  None,        \* no module
  MaxLines,    \* bound: lines ever queued
  QueueLimit   \* queue_limit_ (0: no limit)

ASSUME ConstantsAssumption ==
  /\ None \notin Subs
  /\ MaxLines \in Nat
  /\ QueueLimit \in Nat

VARIABLES
  queue,            \* lines waiting, each named by its queue number
  queued, done,     \* lines ever queued / handed out or dropped
  dropped,          \* lines dropped since the last report
  sid,              \* subscribers: id of the module's entry, 0 when it has none
  open,             \* subscribers: the modules whose entry is handed lines
  next_id,
  current,          \* the module the worker is inside, or None
  stopping,
  has_subscribers,  \* the atomic mirror read without the mutex
  wpc, wline, wlast,    \* worker: where it is, line in hand (0: none), last id
  lpc,              \* logging threads
  fpc, ftarget,     \* a thread in flush_handlers
  mpc, mop, msub,   \* the thread holding the plugin manager's lifecycle lock
  monworker,        \* ... and whether that thread is the delivery worker
  mtarget, mstill,  \* clear_subscribers: target of the wait, the one not left
  xpc,              \* the main thread in stop_nsclient
  fate,             \* what the plugin manager has done with each module
  delivered         \* history: the lines each module has been handed

queueVars == <<queue, queued, done, dropped>>
listVars == <<sid, open, next_id, has_subscribers>>
workerVars == <<wpc, wline, wlast, current, delivered>>
managerVars == <<mpc, mop, msub, monworker, mtarget, mstill, fate>>
vars == <<queueVars, listVars, workerVars, managerVars, stopping, lpc, fpc, ftarget, xpc>>

-----------------------------------------------------------------------------
(* Helpers *)

\* The worker holds delivery_->mutex at these two places of deliver().
Unlocked == wpc \notin {"head", "walk"}

\* delivery_->changed.notify_all(): only the worker's wait has no timeout, so
\* only its wake-up matters; the timed waits below re-evaluate at any time.
Notified == IF wpc = "asleep" THEN "woken" ELSE wpc

Listed == {s \in Subs : sid[s] # 0}
\* Mutant: the walk resumes at the entry it has just called.
AfterOrAt(last) == {s \in open : sid[s] >= last}

\* The walk: the entries after `last` that are handed lines, in list order.
\* Entries are appended with growing ids, so list order is id order.
After(last) == {s \in open : sid[s] > last}
IsNext(s, last) == s \in After(last) /\ \A r \in After(last) : sid[s] <= sid[r]

Init ==
  /\ queue = <<>> /\ queued = 0 /\ done = 0 /\ dropped = 0
  /\ sid = [s \in Subs |-> 0] /\ open = {}
  /\ next_id = 1 /\ has_subscribers = FALSE
  /\ wpc = "none" /\ wline = 0 /\ wlast = 0 /\ current = None
  /\ delivered = [s \in Subs |-> <<>>]
  /\ mpc = "idle" /\ mop = "none" /\ msub = None /\ monworker = FALSE
  /\ mtarget = 0 /\ mstill = None
  /\ fate = [s \in Subs |-> "new"]
  /\ stopping = FALSE
  /\ lpc = [t \in Loggers |-> "idle"]
  /\ fpc = "idle" /\ ftarget = 0
  /\ xpc = "run"

-----------------------------------------------------------------------------
(* do_log, on a thread other than the worker.  A line logged from inside a *)
(* handler stops at the sinks and changes nothing here.                    *)

DoLogCheck(t) ==
  /\ lpc[t] = "idle" /\ has_subscribers /\ queued < MaxLines
  /\ lpc' = [lpc EXCEPT ![t] = "queue"]
  /\ UNCHANGED <<queueVars, listVars, workerVars, managerVars, stopping, fpc, ftarget, xpc>>
QueueIsFull == QueueLimit > 0 /\ Len(queue) >= QueueLimit

DoLogQueue(t) ==
  /\ lpc[t] = "queue" /\ Unlocked
  /\ IF stopping \/ Listed = {}
       THEN /\ lpc' = [lpc EXCEPT ![t] = "idle"]
            /\ UNCHANGED queueVars
       ELSE /\ queued < MaxLines
            /\ lpc' = [lpc EXCEPT ![t] = "notify"]
            /\ queued' = queued + 1
            /\ IF QueueIsFull
                 THEN /\ queue' = Append(Tail(queue), queued + 1)
                      /\ done' = done + 1
                      /\ dropped' = dropped + 1
                 ELSE /\ queue' = Append(queue, queued + 1)
                      /\ UNCHANGED <<done, dropped>>
  /\ UNCHANGED <<listVars, workerVars, managerVars, stopping, fpc, ftarget, xpc>>
\* Mutant: the line is queued and nobody is woken.
DoLogNoNotify(t) ==
  /\ lpc[t] = "notify"
  /\ lpc' = [lpc EXCEPT ![t] = "idle"]
  /\ UNCHANGED <<queueVars, listVars, workerVars, managerVars, stopping, fpc, ftarget, xpc>>

\* notify_all comes after the mutex is released.
DoLogNotify(t) ==
  /\ lpc[t] = "notify"
  /\ lpc' = [lpc EXCEPT ![t] = "idle"]
  /\ wpc' = Notified
  /\ UNCHANGED <<queueVars, listVars, wline, wlast, current, delivered, managerVars,
                 stopping, fpc, ftarget, xpc>>

-----------------------------------------------------------------------------
(* deliver: the worker *)

WorkerLock ==
  /\ wpc = "woken"
  /\ wpc' = "head"
  /\ UNCHANGED <<queueVars, listVars, wline, wlast, current, delivered, managerVars,
                 stopping, lpc, fpc, ftarget, xpc>>

WorkerSleep ==
  /\ wpc = "head" /\ ~stopping /\ queue = <<>>
  /\ wpc' = "asleep"
  /\ UNCHANGED <<queueVars, listVars, wline, wlast, current, delivered, managerVars,
                 stopping, lpc, fpc, ftarget, xpc>>

WorkerExit ==
  /\ wpc = "head" /\ stopping
  /\ wpc' = "exited"
  /\ UNCHANGED <<queueVars, listVars, wline, wlast, current, delivered, managerVars,
                 stopping, lpc, fpc, ftarget, xpc>>
\* Mutant: the line counts as done when it is taken, and again at the end.
WorkerTakeCounting ==
  /\ wpc = "head" /\ ~stopping /\ queue # <<>>
  /\ wpc' = "walk"
  /\ wline' = Head(queue) /\ wlast' = 0
  /\ queue' = Tail(queue)
  /\ dropped' = IF Tail(queue) = <<>> THEN 0 ELSE dropped
  /\ done' = done + 1
  /\ UNCHANGED <<queued, listVars, current, delivered, managerVars,
                 stopping, lpc, fpc, ftarget, xpc>>

WorkerTake ==
  /\ wpc = "head" /\ ~stopping /\ queue # <<>>
  /\ wpc' = "walk"
  /\ wline' = Head(queue) /\ wlast' = 0
  /\ queue' = Tail(queue)
  /\ dropped' = IF Tail(queue) = <<>> THEN 0 ELSE dropped
  /\ UNCHANGED <<queued, done, listVars, current, delivered, managerVars,
                 stopping, lpc, fpc, ftarget, xpc>>

WorkerCall(s) ==
  /\ wpc = "walk" /\ ~stopping /\ IsNext(s, wlast)
  /\ wpc' = "inside"
  /\ current' = s /\ wlast' = sid[s]
  /\ delivered' = [delivered EXCEPT ![s] = Append(@, wline)]
  /\ UNCHANGED <<queueVars, listVars, wline, managerVars, stopping, lpc, fpc, ftarget, xpc>>

\* The handler returns (or throws), unless it is itself in a lifecycle call.
WorkerLeave ==
  /\ wpc = "inside" /\ ~monworker
  /\ wpc' = "walk"
  /\ current' = None
  /\ UNCHANGED <<queueVars, listVars, wline, wlast, delivered, managerVars,
                 stopping, lpc, fpc, ftarget, xpc>>

WorkerDone ==
  /\ wpc = "walk" /\ (stopping \/ After(wlast) = {})
  /\ wpc' = "head"
  /\ wline' = 0 /\ done' = done + 1
  /\ UNCHANGED <<queue, queued, dropped, listVars, wlast, current, delivered, managerVars,
                 stopping, lpc, fpc, ftarget, xpc>>

-----------------------------------------------------------------------------
(* flush_handlers, from set_log_level("console").  The wait is bounded; a  *)
(* timeout ends it whatever `done` says.                                   *)

FlushBegin ==
  /\ fpc = "idle" /\ Unlocked
  /\ fpc' = "waiting" /\ ftarget' = queued
  /\ UNCHANGED <<queueVars, listVars, workerVars, managerVars, stopping, lpc, xpc>>

\* Mutant: the line that is being handed out counts as handed out.
QueuedReachedEarly(target) == stopping \/ done + (IF wline = 0 THEN 0 ELSE 1) >= target

QueuedReached(target) == stopping \/ done >= target

FlushReached ==
  /\ fpc = "waiting" /\ Unlocked /\ QueuedReached(ftarget)
  /\ fpc' = "reached"
  /\ UNCHANGED <<queueVars, listVars, workerVars, managerVars, stopping, lpc, ftarget, xpc>>

FlushTimeout ==
  /\ fpc = "waiting" /\ Unlocked /\ ~QueuedReached(ftarget)
  /\ fpc' = "idle"
  /\ UNCHANGED <<queueVars, listVars, workerVars, managerVars, stopping, lpc, ftarget, xpc>>

FlushReturn ==
  /\ fpc = "reached"
  /\ fpc' = "idle"
  /\ UNCHANGED <<queueVars, listVars, workerVars, managerVars, stopping, lpc, ftarget, xpc>>

-----------------------------------------------------------------------------
(* The plugin manager, under its lifecycle lock.  Loads and unloads are    *)
(* requested by running modules, so none starts once stop_plugins is done. *)
(* add_plugin subscribes a module; the first one starts the worker.        *)

AddSubscriber(s) ==
  /\ xpc = "run" /\ mpc = "idle" /\ Unlocked /\ fate[s] = "new"
  /\ fate' = [fate EXCEPT ![s] = "loaded"]
  /\ IF stopping
       THEN UNCHANGED <<listVars, wpc>>
       ELSE /\ sid' = [sid EXCEPT ![s] = next_id]
            /\ open' = open \cup {s}
            /\ next_id' = next_id + 1
            /\ has_subscribers' = TRUE
            /\ wpc' = IF wpc = "none" THEN "woken" ELSE wpc
  /\ UNCHANGED <<queueVars, wline, wlast, current, delivered, mpc, mop, msub, monworker,
                 mtarget, mstill, stopping, lpc, fpc, ftarget, xpc>>

\* close_subscriber up to its wait, for remove_plugin ("remove") and
\* purge_broken_plugin ("purge").  onworker: the request comes from inside a
\* log handler, so it runs on the delivery worker.
CloseBegin(s, op, onworker) ==
  /\ xpc = "run" /\ mpc = "idle" /\ Unlocked /\ fate[s] = "loaded"
  /\ onworker => wpc = "inside"
  /\ mop' = op /\ msub' = s /\ monworker' = onworker
  /\ mpc' = IF sid[s] = 0 THEN "closed" ELSE "closing"
  /\ open' = open \ {s}
  /\ UNCHANGED <<queueVars, sid, next_id, has_subscribers, workerVars, mtarget, mstill, fate,
                 stopping, lpc, fpc, ftarget, xpc>>
\* Mutant: the close does not wait.
HasLeftAlways == TRUE

HasLeft == monworker \/ current # msub

\* wait_until_left returned true.
CloseLeft ==
  /\ mpc = "closing" /\ Unlocked /\ HasLeft
  /\ mpc' = "closed"
  /\ UNCHANGED <<queueVars, listVars, workerVars, mop, msub, monworker, mtarget, mstill, fate,
                 stopping, lpc, fpc, ftarget, xpc>>

EndManager ==
  /\ mpc' = "idle" /\ mop' = "none" /\ msub' = None /\ monworker' = FALSE
  /\ mtarget' = 0 /\ mstill' = None
\* Mutant: the wait has no deadline.
CloseTimeoutNever == FALSE

\* Mutant: a refused unload leaves the subscription closed.
CloseTimeoutClosed ==
  /\ mpc = "closing" /\ Unlocked /\ ~HasLeft
  /\ EndManager
  /\ \/ mop = "remove" /\ UNCHANGED <<fate, open>>
     \/ /\ mop = "purge"
        /\ fate' = [fate EXCEPT ![msub] = "parked"]
        /\ UNCHANGED open
  /\ UNCHANGED <<queueVars, sid, next_id, has_subscribers, workerVars, stopping, lpc, fpc, ftarget, xpc>>

\* wait_until_left ran out.  remove_plugin refuses and reopens; a purge parks
\* the module, its subscription left closed in place.
CloseTimeout ==
  /\ mpc = "closing" /\ Unlocked /\ ~HasLeft
  /\ EndManager
  /\ \/ /\ mop = "remove"
        /\ open' = open \cup {msub}
        /\ UNCHANGED fate
     \/ /\ mop = "purge"
        /\ fate' = [fate EXCEPT ![msub] = "parked"]
        /\ UNCHANGED open
  /\ UNCHANGED <<queueVars, sid, next_id, has_subscribers, workerVars, stopping, lpc, fpc, ftarget, xpc>>
\* Mutant: dropping one entry clears the mirror.
DropEntryAll(s) ==
  IF sid[s] = 0 \/ (current = s /\ ~monworker)
    THEN UNCHANGED <<sid, has_subscribers>>
    ELSE /\ sid' = [sid EXCEPT ![s] = 0]
         /\ has_subscribers' = FALSE

\* drop_subscriber: erase the entry unless the worker is inside the module.
DropEntry(s) ==
  IF sid[s] = 0 \/ (current = s /\ ~monworker)
    THEN UNCHANGED <<sid, has_subscribers>>
    ELSE /\ sid' = [sid EXCEPT ![s] = 0]
         /\ has_subscribers' = (Listed \ {s} # {})

\* A module removed from inside its own log handler is told apart.
Outcome(result) == IF monworker /\ current = msub THEN "selfUnloaded" ELSE result

\* remove_plugin: unload_plugin first (it may refuse: calls are in flight),
\* then the entry is dropped.
RemoveUnload ==
  /\ mpc = "closed" /\ mop = "remove"
  /\ \/ /\ fate' = [fate EXCEPT ![msub] = Outcome("unloaded")]
        /\ mpc' = "drop"
        /\ UNCHANGED <<open, mop, msub, monworker, mtarget, mstill>>
     \/ /\ Unlocked
        /\ open' = IF sid[msub] = 0 THEN open ELSE open \cup {msub}
        /\ EndManager
        /\ UNCHANGED fate
  /\ UNCHANGED <<queueVars, sid, next_id, has_subscribers, workerVars, stopping, lpc, fpc, ftarget, xpc>>

RemoveDrop ==
  /\ mpc = "drop" /\ mop = "remove" /\ Unlocked
  /\ DropEntry(msub)
  /\ EndManager
  /\ UNCHANGED <<queueVars, open, next_id, workerVars, fate, stopping, lpc, fpc, ftarget, xpc>>

\* purge_broken_plugin: remove_subscriber drops the entry before the unload,
\* and a refused unload only leaks the library.
PurgeDrop ==
  /\ mpc = "closed" /\ mop = "purge" /\ Unlocked
  /\ DropEntry(msub)
  /\ mpc' = "drop"
  /\ UNCHANGED <<queueVars, open, next_id, workerVars, mop, msub, monworker, mtarget, mstill, fate,
                 stopping, lpc, fpc, ftarget, xpc>>

PurgeUnload ==
  /\ mpc = "drop" /\ mop = "purge"
  /\ \E result \in {"unloaded", "leaked"} : fate' = [fate EXCEPT ![msub] = Outcome(result)]
  /\ EndManager
  /\ UNCHANGED <<queueVars, listVars, workerVars, stopping, lpc, fpc, ftarget, xpc>>

-----------------------------------------------------------------------------
(* stop_nsclient on the main thread: stop_plugins under the lifecycle lock *)
(* (clear_subscribers, then every module is unloaded), then shutdown.      *)

StopBegin ==
  /\ xpc = "run" /\ mpc = "idle" /\ Unlocked
  /\ xpc' = "stop"
  /\ mpc' = "draining" /\ mop' = "stop" /\ mtarget' = queued
  /\ UNCHANGED <<queueVars, listVars, workerVars, msub, monworker, mstill, fate, stopping, lpc, fpc, ftarget>>
\* Mutant: the dropped lines are not counted as done.
StopTakeUncounted ==
  /\ mpc = "draining" /\ Unlocked
  /\ mpc' = "leaving"
  /\ sid' = [s \in Subs |-> 0] /\ open' = {}
  /\ has_subscribers' = FALSE
  /\ queue' = <<>> /\ done' = done
  /\ wpc' = Notified
  /\ UNCHANGED <<queued, dropped, next_id, wline, wlast, current, delivered, mop, msub, monworker,
                 mtarget, mstill, fate, stopping, lpc, fpc, ftarget, xpc>>

\* wait_for_queued ended, reached or timed out; the list is taken and the
\* queue dropped.
StopTake ==
  /\ mpc = "draining" /\ Unlocked
  /\ mpc' = "leaving"
  /\ sid' = [s \in Subs |-> 0] /\ open' = {}
  /\ has_subscribers' = FALSE
  /\ queue' = <<>> /\ done' = done + Len(queue)
  /\ wpc' = Notified
  /\ UNCHANGED <<queued, dropped, next_id, wline, wlast, current, delivered, mop, msub, monworker,
                 mtarget, mstill, fate, stopping, lpc, fpc, ftarget, xpc>>

\* The wait for the worker to be in no handler ended; still_delivering is the
\* one it is in when the wait ran out.
StopLeft ==
  /\ mpc = "leaving" /\ Unlocked
  /\ mstill' = current
  /\ mpc' = "tearing"
  /\ UNCHANGED <<queueVars, listVars, workerVars, mop, msub, monworker, mtarget, fate,
                 stopping, lpc, fpc, ftarget, xpc>>

\* Every module the manager holds is unloaded (or refuses and leaks), except
\* the one still handling a line, which is abandoned for good.
StopTear ==
  /\ mpc = "tearing"
  /\ \E leak \in SUBSET Subs :
       fate' = [s \in Subs |->
                  IF fate[s] \notin {"loaded", "parked"} THEN fate[s]
                  ELSE IF s = mstill THEN "abandoned"
                  ELSE IF s \in leak THEN "leaked" ELSE "unloaded"]
  /\ EndManager
  /\ xpc' = "stopped"
  /\ UNCHANGED <<queueVars, listVars, workerVars, stopping, lpc, fpc, ftarget>>
\* Mutant: shutdown raises the flag without waking the worker.
ShutdownSilent ==
  /\ xpc = "stopped" /\ Unlocked
  /\ xpc' = "flagged"
  /\ stopping' = TRUE
  /\ queue' = <<>> /\ done' = done + Len(queue)
  /\ sid' = [s \in Subs |-> 0] /\ open' = {}
  /\ UNCHANGED <<queued, dropped, next_id, has_subscribers, workerVars, managerVars, lpc, fpc, ftarget>>

Shutdown ==
  /\ xpc = "stopped" /\ Unlocked
  /\ xpc' = "flagged"
  /\ stopping' = TRUE
  /\ queue' = <<>> /\ done' = done + Len(queue)
  /\ sid' = [s \in Subs |-> 0] /\ open' = {}
  /\ wpc' = Notified
  /\ UNCHANGED <<queued, dropped, next_id, has_subscribers, wline, wlast, current, delivered,
                 managerVars, lpc, fpc, ftarget>>

ShutdownMirror ==
  /\ xpc = "flagged"
  /\ xpc' = "join"
  /\ has_subscribers' = FALSE
  /\ UNCHANGED <<queueVars, sid, open, next_id, workerVars, managerVars, stopping, lpc, fpc, ftarget>>

\* The worker is joined, or left behind when it does not end in time.
ShutdownJoin ==
  /\ xpc = "join"
  /\ xpc' = IF wpc \in {"none", "exited"} THEN "down" ELSE "detached"
  /\ UNCHANGED <<queueVars, listVars, workerVars, managerVars, stopping, lpc, fpc, ftarget>>

-----------------------------------------------------------------------------

Worker ==
  \/ WorkerLock \/ WorkerSleep \/ WorkerExit \/ WorkerTake
  \/ \E s \in Subs : WorkerCall(s)
  \/ WorkerDone

Log(t) == DoLogCheck(t) \/ DoLogQueue(t) \/ DoLogNotify(t)

Flush == FlushBegin \/ FlushReached \/ FlushTimeout \/ FlushReturn

ManagerBegin ==
  \/ \E s \in Subs : AddSubscriber(s)
  \/ \E s \in Subs, op \in {"remove", "purge"}, w \in BOOLEAN : CloseBegin(s, op, w)

ManagerStep ==
  \/ CloseLeft \/ CloseTimeout
  \/ RemoveUnload \/ RemoveDrop \/ PurgeDrop \/ PurgeUnload
  \/ StopTake \/ StopLeft \/ StopTear

MainStep == StopBegin \/ Shutdown \/ ShutdownMirror \/ ShutdownJoin

Next ==
  \/ Worker \/ WorkerLeave
  \/ \E t \in Loggers : Log(t)
  \/ Flush
  \/ ManagerBegin \/ ManagerStep \/ MainStep

Spec == Init /\ [][Next]_vars

\* Threads that are running keep running; a handler need not return.
Scheduling ==
  /\ WF_vars(Worker)
  /\ \A t \in Loggers : WF_vars(DoLogQueue(t)) /\ WF_vars(DoLogNotify(t))
  /\ WF_vars(ManagerStep)
  /\ SF_vars(FlushReached \/ FlushTimeout)

FairSpec == Spec /\ Scheduling

\* Every handler returns, after finitely many lifecycle calls.
HandlersReturn == SF_vars(WorkerLeave)
-----------------------------------------------------------------------------
(* Properties *)

Fates == {"new", "loaded", "parked", "unloaded", "leaked", "abandoned", "selfUnloaded"}

QueueTypes ==
  /\ queue \in Seq(1..MaxLines)
  /\ queued \in 0..MaxLines /\ done \in 0..queued /\ dropped \in Nat
  /\ lpc \in [Loggers -> {"idle", "queue", "notify"}]
  /\ fpc \in {"idle", "waiting", "reached"} /\ ftarget \in 0..MaxLines

ListTypes ==
  /\ sid \in [Subs -> Nat] /\ open \subseteq Subs /\ next_id \in Nat \ {0}

FlagTypes == {has_subscribers, stopping, monworker} \subseteq BOOLEAN

WorkerTypes ==
  /\ wpc \in {"none", "woken", "head", "walk", "inside", "asleep", "exited"}
  /\ wline \in 0..MaxLines /\ wlast \in Nat /\ current \in Subs \cup {None}
  /\ delivered \in [Subs -> Seq(1..MaxLines)]

ManagerTypes ==
  /\ mpc \in {"idle", "closing", "closed", "drop", "draining", "leaving", "tearing"}
  /\ mop \in {"none", "remove", "purge", "stop"}
  /\ msub \in Subs \cup {None}
  /\ mtarget \in 0..MaxLines /\ mstill \in Subs \cup {None}
  /\ xpc \in {"run", "stop", "stopped", "flagged", "join", "down", "detached"}
  /\ fate \in [Subs -> Fates]

\* Types; `done` never runs ahead of `queued`.
TypeOK == QueueTypes /\ ListTypes /\ FlagTypes /\ WorkerTypes /\ ManagerTypes

\* Every line ever queued is counted exactly once: done, still queued, or in
\* the worker's hand - over drops of the oldest line, clear_subscribers and
\* shutdown dropping the queue under a worker that is inside a handler.
LinesAccounted ==
  queued = done + Len(queue) + (IF wline = 0 THEN 0 ELSE 1)

\* The module the worker is inside is still held by the plugin manager, or
\* was abandoned: it is neither unloaded nor released under its handler
\* (remove_plugin, purge_broken_plugin, stop_plugins).  The documented
\* exception is a module that unloads itself from its own handler.
HandlerModuleAlive ==
  \A s \in Subs : current = s =>
    fate[s] \in {"loaded", "parked", "abandoned", "selfUnloaded"}

\* A module's subscription as a gate.  A module that unloads itself from its
\* own handler, the documented exception, is closed for good, not torn down.
SubscriptionDoor ==
  [s \in Subs |-> IF fate[s] = "unloaded" THEN "down" ELSE IF s \in open THEN "open" ELSE "closed"]
WorkerInside == [s \in Subs |-> IF current = s THEN {"worker"} ELSE {}]

Gate == INSTANCE ModuleGate WITH
  Modules <- Subs, Visitors <- {"worker"}, door <- SubscriptionDoor, inside <- WorkerInside

\* A line is handed to a module only through its open subscription, and the
\* module is torn down only once the worker has left it, for good: the
\* subscriptions implement ModuleGate.
HandlersKeepTheGate == Gate!Spec

\* A module is handed the lines in the order they were queued, and none of
\* them twice, whatever entries come and go while deliver() has the mutex down.
InOrderOnce ==
  \A s \in Subs : \A i, j \in DOMAIN delivered[s] : i < j => delivered[s][i] < delivered[s][j]

\* has_subscribers_ mirrors "the list is not empty", except between the two
\* steps of shutdown(): do_log, which trusts it without the mutex, skips the
\* queue only when there is nobody to hand a line to.
MirrorHolds ==
  /\ Listed # {} => has_subscribers
  /\ has_subscribers => Listed # {} \/ stopping

\* With no lifecycle call in progress, what the list says of a module is what
\* the manager did with it: a loaded module is subscribed and open (a refused
\* unload put it back), a parked one is closed, one that is gone has no entry.
SubscriptionMatchesFate ==
  mpc = "idle" =>
    \A s \in Subs :
      /\ fate[s] = "loaded" /\ xpc = "run" => sid[s] # 0 /\ s \in open
      /\ fate[s] = "parked" => s \notin open
      /\ fate[s] \notin {"new", "loaded", "parked"} => sid[s] = 0

\* flush_handlers promises to "wait, bounded, until every queued line has been
\* handed to the handlers": a flush that did not time out (and no shutdown has
\* begun) leaves none of the lines queued before it in the queue, and none in
\* the worker's hand unless lines were dropped behind that one, which do_log
\* counts as done and so as lines the flush waited for.
FlushHandsOut ==
  fpc = "reached" /\ xpc = "run" =>
    /\ \A i \in DOMAIN queue : queue[i] > ftarget
    /\ dropped = 0 => wline = 0 \/ wline > ftarget

\* Every line queued is eventually handed out or dropped, when handlers
\* return: the notify after the mutex is released never gets lost.
EveryLineDone == HandlersReturn => \A n \in 1..MaxLines : queued >= n ~> done >= n

\* A lifecycle call ends although a handler may never return: every wait for
\* the worker is bounded, so the lifecycle lock is always given back.
ManagerReturns == mpc # "idle" ~> mpc = "idle"

\* Once shutdown() has flagged the worker it ends, when handlers return.
WorkerEnds == HandlersReturn => (stopping ~> wpc \in {"none", "exited"})
=============================================================================
