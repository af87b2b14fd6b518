# NSClient++ in TLA+

A verification project for the concurrent and the crash-exposed parts of the
NSClient++ agent: TLA+ modules translated from the source under `src/`, TLC
configurations that check them on small instances, and proofs checked by TLAPS.
`PROJECT.json` holds the tables a tool can read: which definition models which
lines, which run checks which property, which mutation of the code each property
catches, the hazards, the findings and the theorems.

To run things, in this directory:

    tlc -workers 4 -config LogDelivery.cfg MCLogDelivery     # one run
    tlapm LogDeliveryProofs.tla                              # the proofs

## 1. The system

NSClient++ is a monitoring agent: a service (`service/`) that loads *modules*
(`modules/`, shared libraries), hands check requests to them, runs checks on a
schedule, collects metrics and facts, and can keep its configuration in sync with
a fleet server. Everything interesting happens where threads the modules own
(listeners, script hosts, schedulers) meet the core's own threads.

| Part | Where | State | Operations | Modelled in |
|---|---|---|---|---|
| Module dispatch and lifecycle | `service/plugins/dll_plugin.cpp`, `plugin_manager.cpp`, `include/threads/in_flight.hpp`, `service/NSClient++.cpp` | per module: loaded, loading, unloading and leaked flags, the reload barrier, the calls inside; master list and registries; `lifecycle_mutex_` | dispatch, load, start, reload, unload, purge, stop | `PluginDispatch` |
| Log delivery | `service/logger/nsclient_logger.cpp` | bounded queue with counters, subscriber list with ids, the delivery thread | log, deliver, flush, add, close, reopen, drop, remove, clear, shut down | `LogDelivery` |
| Task scheduler | `include/scheduler/simple_scheduler.cpp`, `include/threads/scoped_thread_group.hpp` | tasks, queue of instances, pool threads, flags | add, remove, run now, start, stop, scale, the worker and the watchdog | `SimpleScheduler` |
| Scheduler module | `modules/Scheduler/` | schedules, the handler pointer, startup tasks | load, reload, start, prepare shutdown, unload, run | `SchedulerModule` |
| Core maintenance scheduler | `service/scheduler_handler.cpp` | task metadata, published after the task | add, start, stop with a timeout, dispatch | `CoreScheduler` |
| Fleet sync: apply | `service/fleet_sync.cpp` | the managed directory; current and content hash | load, recover, poll, fetch, apply, roll back, record, report | `FleetSync` |
| Fleet sync: facts upload | `include/onboarding/facts_pacer.hpp`, `service/fleet_sync.cpp` | what the server is known to hold, refusals, waits and holds | poll, report, upload, sleep; the pacer's verdicts | `FactsPacer`, `FactsUpload` |
| Fact repository | `service/fact_repository.hpp` | fact sets with owners and sizes, the frozen copy, the hash | set, remove, prune, limit, begin and end a round, snapshot | `FactRepository` |
| Walk lists and rounds | `service/plugins/plugin_list.hpp`, `plugin_manager.cpp`, `NSClient++.cpp` | per list: slots and gates; the rounds inside them | collect, store, close, drain, reopen, finish, purge, stop | `FactsRounds` |
| Failed check store, storage, cron, tags | see `PROJECT.json` | | | planned, section 7 |
| Settings, protocols, servers, clients, checks, script hosts, filters, web | see `PROJECT.json` | | | not modelled, section 6 |

How the parts interact:

- A request thread (a listener, a script, the Scheduler module's worker) asks the
  core to run a command. The core looks the module up and *dispatches* into it,
  and the module may dispatch further or ask for a module to be loaded, removed
  or reloaded.
- Lifecycle calls hold one recursive lock and wait, with a timeout, for the calls
  inside a module and for the delivery thread to leave its log handler.
- A reload asked for from inside a module, by the fleet sync or with `delayed`,
  is handed to the core's maintenance scheduler, whose worker runs it later.
- Rounds of metrics and facts walk a copy of a list and call every module on it
  through a gate of the module; a removal closes the gates first. What the modules
  answer goes to the fact repository, and the fleet sync uploads what that holds.
- In applying a state, the fleet sync only writes files and asks for such a reload; the process may be
  killed at any file operation, and the next start recovers from what it finds.
- At shutdown the core stops the maintenance scheduler, then the modules, then
  the logger. Every one of these waits is bounded, because a module can hang.

What has to be right:

1. A module's code and data are there for as long as anybody executes in them:
   no teardown under a call, no call after it, no unmapping under a reply, none
   under a log handler.
2. A reload does not change a module under a running handler without saying so.
3. A lifecycle call that is refused or fails leaves a module entirely there or
   entirely gone.
4. All of it ends, although threads wait for each other and handlers may hang.
5. Log lines are handed out in order, once, and all accounted for.
6. A schedule runs once per interval for ever, and is not lost or doubled by
   reloads, stops and scaling; a requested reload is run until it returns, and then
   never again.
7. A module's facts are those of a module that is there; what is hashed and
   uploaded is one round's whole result, never a mixture.
8. A server is not sent the same document again and again, yet gets the one the
   host settles on.
9. What the fleet sync claims to run is what is on disk; a crash never leaves the
   host without scripts; the host ends up on the state the server settles on.

The hazards of the code against these, each at its line, are in `PROJECT.json`.

## 2. The modules

Each module keeps the control of its code (guards, early returns, error paths and
their order) and abstracts data to what the properties tell apart. A critical
section that does not call out is one action; a lock held over calls or waits is a
variable. A timed wait may end by what it waits for or by its timeout, which may
come whenever the wait is not yet satisfied. The one exception is the core's stop
of its maintenance scheduler: its 30 seconds are taken to be enough for every
thread but one that executes a task (`StopTimeout`), and `NothingBeginsAfterStop`
rests on that.

**`LogDelivery`.** A line is its number. A subscriber is a log-handler module with
the id of its entry (`sid`) and whether it is `open`. The worker's program counter
follows `deliver`: it holds the mutex at `head` and `walk`, gives it up `asleep`
and `inside` a handler. `do_log` is three steps: the unlocked test of
`has_subscribers_`, the critical section, the notification after it. The plugin
manager's `remove_plugin`, `purge_broken_plugin` and `stop_plugins` are there as
far as they treat the subscription and the module's `fate`, and may run on the
delivery thread itself (`monworker`), as the code allows.

**`PluginDispatch`.** A thread has a stack of modules it is inside (`sp`, `frame`),
a call in progress (`cpc`: looked up, `loaded_` read, in `dispatch_lock`, freeing
the reply) and a lifecycle call in progress (`op`, `opc`). `entries` is the
tracker of `in_flight.hpp`; `early` is what is left of the entries below the cutoff
of a wait. `Destructors` frees every object that nothing refers to, at the step
that drops the last reference. A service reload runs `start_plugins` for
the reload, `load_active_plugins`, `start_plugins` for what that added and
`post_start_plugins`, each under the lock, with the lock free in between. A module
may throw while it is added or loaded: `half` is a history variable with the modules
that stay listed because nothing takes such a step back, and a reload that throws on
the maintenance scheduler's worker is queued again (`Requeue`).

**`SimpleScheduler`** is the thread pool with no specification of its own:
**`SchedulerModule`** and **`CoreScheduler`** extend it, each with its owner's
calls. A task is an id; its *chain* is the instance of it that is queued or with a
worker, since running an instance queues the next. Time is abstracted: an instance
may come due at any time, or never. A task of the core may return, throw, in which
case the worker queues it again whatever it is, or hang.

**`FleetSync`.** The managed directory is `ini`, the trees `scripts` and `old`,
`applied` (`applied-state.json`, which can be cut short) and `cached`. A rename is
one step; `remove_all` and `promote_tree` take one step per entry. `Crash` keeps
the directory and loses the memory. A failing operation ends or rolls back the
apply exactly where the code does.

**`FactRepository`** has the repository's state and operations, with no
specification of its own. A fact set's value is its encoded size, so that a
replacement changes the budget. The copy that a round's first change freezes is
`frozen`; `published` is a history variable, the document when no round was at work.

**`FactsRounds`** extends it with the threads that run rounds and the manager that
loads, removes, purges and stops modules. A module is an id that is never used
again. A round copies the slots of a list, is let in or not by each module's gate,
and stores what the module answered set by set before it leaves the gate. A removal
closes the gate in every list and waits for the rounds that were inside (`waiting`);
when the deadline passes it is refused and reopens them all. A purge cannot refuse
and parks the module. The two metrics lists of the code are treated alike and
modelled by one.

**`ModuleGate`** is an abstract specification of what `in_flight.hpp` is used for:
threads enter while the door is open, and the module goes down with nobody inside,
for good. `LogDelivery` (`HandlersKeepTheGate`), `PluginDispatch`
(`CallsKeepTheGate`) and `FactsRounds` (`RoundsKeepTheGate`) each implement it
through a refinement mapping, with their own ways of closing, waiting, giving up and
reopening. A module that unloads itself from inside its own log handler, which the
code documents as an exception, is mapped to one that is closed for good.

**`FactsPacer`** is `facts_upload_pacer` as operators on a record, one per member
function. A point in time is a countdown, an hour and a day are constants.
**`FactsUpload`** drives it with the turns of `fleet_sync::run`: a poll, the report of
an apply, the tag report, the check of the hash, the snapshot and the upload. The
heartbeat before the poll is left out, and so is the host's revocation (a 403), which
ends the sync: the run is about a host that stays enrolled. The
server is honest (it keeps what it acknowledges and says what it holds) or only
acknowledges (`keeps`), but for `MaxFaults` faults: calls or answers that are lost,
error statuses with or without Retry-After, wrong or missing hashes, lost documents,
restarts of the sync.

`MC*` modules only add what a configuration cannot express: symmetry sets, the
function from states to contents, and the sizes of each fact set.

## 3. The runs

| Run | Instance | Shows |
|---|---|---|
| `log_delivery` | 2 handlers, 1 logging thread, 3 lines, queue limit 2 | `LinesAccounted`, `InOrderOnce`, `MirrorHolds`, `SubscriptionMatchesFate`, `FlushHandsOut`; implements `ModuleGate` (`HandlersKeepTheGate`) |
| `log_liveness` | 1 handler, 2 logging threads, 2 lines | `ManagerReturns`, `EveryLineDone`, `WorkerEnds` |
| `dispatch` | 1 module, 2 request threads, the scheduler's worker, main, calls 2 deep, reloads of the module and of the service | `CodeStaysMapped`, `ReloadIsAlone`, `DoorsReopen`, `ListedServe`; implements `ModuleGate` (`CallsKeepTheGate`) |
| `dispatch_liveness` | 1 module, 1 request thread, worker, main | `LifecycleEnds`, `CallsAnswered` |
| `schedules` | 2 schedules at a time, 3 ids, settings of 1 and 2 threads, a scaling limit of 3, schedules that call the module itself | `OneChain`, `NoScheduleLost`, `NoStaleInstance`, `HandlerOutlivesCalls`, `OneWatchdog` |
| `schedules_stop` | 1 schedule, 2 ids, a setting of 1 thread, no schedule that calls the module | `StopReturns` |
| `schedule_self_call` | as `schedules` | violation: `ReloadWaitsForNoCaller` |
| `maintenance` | 2 tasks, a setting of 1 thread, a scaling limit of 3 | `NothingLostOrRepeated`, `NothingBeginsAfterStop`, `StopCompletes`, `ReloadRuns` |
| `fleet` | 3 states, 2 contents (one without scripts), 2 kills, 1 failure | `SyncedUnlessTorn`, `OneWholeTree`, `ReloadFollows`, `Converges` |
| `fleet_tree` | as `fleet` | violation: `TreeSurvivesCrash` |
| `facts` | 2 rounding threads, 2 rounds, 2 lists, 2 fact sets, one of 2 sizes, 2 limits, 2 modules one after the other | `SnapshotWhole`, `BooksBalance`, `FactsGoWithModule`, `EveryRoundReachesLoaded`; implements `ModuleGate` (`RoundsKeepTheGate`) |
| `facts_upload` | 2 documents and the empty one, 2 faults, a restart of the sync being one kind | `TwiceInAStep`, `ThreeUnconfirmed`, `TroubledTurnsSendNothing`, `EventuallyHeld` |

Each module's `TypeOK` is checked with these, as a conjunct of one of them or, for
the log, on its own. What a property says, and of which
code, is in the comment above it.

Why the bounds are enough for the cases that matter:

- *Log.* A queue limit of 2 is the least at which lines wait in an order, so that
  handing them out of it can show. With 3 lines one is dropped when the third arrives
  before the worker has taken the first, beside an entry that stays queued; two handlers are what a walk needs for an
  entry to come or go ahead of it and behind it. Two threads on the queue are what
  a lost wake-up needs.
- *Dispatch.* A nested call needs depth 2. Two request threads, a scheduler worker
  and main cover a caller, a second caller that is waited for, a deferred reload
  and shutdown at once. The run has one module; two modules matter where the
  passes of a service reload walk a list. With two modules, one request thread and
  service reloads only, all properties of `dispatch` also hold (3,512,861 states), an
  instance that is not kept as a run.
- *Schedules.* Two schedules tell "all" from "one"; the third id is a schedule of
  after a reload. `Slots` bounds the threads alive at a time and is no limit here:
  with a slot to spare, none of these instances ever has more than three alive (two
  workers and the watchdog), because the code counts the watchdog when it tops the
  pool up. With a setting of 1 the second worker comes from scaling.
- *Maintenance.* Two tasks are two reloads, or a periodic one and a reload. The
  threads are those of a setting of 1 above; other settings are checked in
  `schedules` only.
- *Fleet.* Two kills are needed for a kill during the recovery from the first. Two
  files per tree make a tree that is neither whole nor empty. Two states with one
  content are needed for the reload that is skipped, and a content without scripts
  for an apply that leaves none. A mixture of two script trees needs both contents
  to have scripts: all properties of `fleet` also hold with `WithScripts = {c1, c2}`
  (519,471 states), an instance that is not kept as a run.

- *Facts.* Two rounds overlap, or one is stuck while a module goes and the next
  one's round begins. One module is loaded at a time (`MaxLoaded`), two in all
  (`MaxId`): the second one may claim a set the first left behind. Two lists are what
  a refusal half way through them needs. Two sizes of one set and two limits make a replacement
  that does and one that does not fit.
- *Upload.* A second document is what the first one's refusals and waits must
  survive; the empty one is what a server without facts names. An hour is two steps
  of the backoff and a day three: a wait that grows, one that is capped and one that
  outlasts it. The safety properties also hold with three faults (1.3 million
  states), an instance that is not kept as a run.

`MaxLines`, `MaxDepth`, `MaxPending`, `MaxIds`, `MaxSchedules`, `MaxPeriodic`,
`MaxCrashes`, `MaxFails`, `MaxId`, `MaxLoaded`, `MaxRounds` and `MaxFaults`
bound the behaviour in guards and are no part of the
code. Symmetry is used in safety runs only, over interchangeable threads and
handlers. Deadlock is not checked where the system really stops: after the modules
were stopped (`dispatch`, `dispatch_liveness`), after the maintenance scheduler was
stopped (`maintenance`), after the modules were stopped and the last round ended
(`facts`), and in the runs with schedules that call the Scheduler
module itself, whose standstill is the subject of `schedule_self_call`.

What the bounds leave out: the liveness of a service reload's passes (no instance of
`dispatch_liveness` asks for one), two modules under two request threads, and, for
`OneWholeTree`, more than one failing operation, or one beside a kill. With two
failures the property does not claim anything; a rollback that fails can lose both
trees to the next apply (a hazard in `PROJECT.json`).

### Fairness

- *Log.* Threads that can run do (weak fairness). Handlers need not return for
  `ManagerReturns`, because every wait on the delivery thread is timed. The
  other two assume that handlers return (`HandlersReturn`): a handler stuck for
  ever does stop the delivery, by design. Ending a flush is strongly fair because
  the mutex it needs is taken by the worker again and again.
- *Dispatch.* Strong fairness per thread: a mutex, or a door that closes and opens
  again, is got in the end. Handlers and `loadModuleEx` return after finitely many
  calls, which the code needs: it bounds its waits for handlers, not their lives. A
  dispatch waits for a reload without a timeout, so that `CallsAnswered` depends on
  `loadModuleEx` returning; `schedule_self_call` is a module where it does not. The
  conjunct about a handler that keeps calling is written for `MaxDepth <= 2`.
- *Schedules.* Weak fairness of threads, and commands return; nothing makes an
  instance come due, so a stop may not rely on it. `StopReturns` is checked without
  schedules that call the module: with them it is false, by `schedule_self_call`.
- *Maintenance.* `StopCompletes` assumes only that threads run: a task may hang.
  `ReloadRuns` adds that tasks return, instances come due and the queue, which is
  ordered by time, hands out every instance in the end (`TasksReturn`).
- *Fleet.* The thread runs, and a poll gets through in the end however often the
  service is restarted (strong fairness of `Poll`): the loop retries for ever. The
  reload handed to the core is executed, which `maintenance` shows as `ReloadRuns`,
  under the assumptions of that property. Kills and failures are finitely many; nothing is assumed of when they come.

- *Upload.* The sync's thread runs (weak fairness of its steps) and time passes in its
  sleeps and calls again and again (strong fairness of `Tick`). Nothing makes the
  server behave but that faults are finitely many; `EventuallyHeld` is about a document
  that stays and a server that keeps documents.

## 4. What disagrees

Two runs show the code doing something else than it says. The findings in
`PROJECT.json` quote the lines.

- `schedule_self_call`: a reload of the Scheduler module joins its pool without a
  timeout, behind the reload barrier; a worker whose schedule runs a command of the
  same module waits at that barrier. Neither goes on.
- `fleet_tree`: a kill during the removal of `scripts.old`, after a complete
  promote, makes the next boot delete the complete new tree and restore the
  remainder of the old one. The next successful apply repairs it; a second restart
  before that apply forgets that one is due.

Smaller ones are stated as exceptions of properties that hold:

- `FactsGoWithModule`: a purge does not wait for ever for a facts round inside the module.
  One that is stuck past the deadline stores what it collected after the purge has
  dropped what the module owned (`plugin_manager.cpp:539`), and the set stays, owned by
  an id that will not come back; the next instance of the module is told that its set
  is "already produced by another module". The comment at `plugin_list.hpp:186-188`
  gives the gate as the reason this cannot happen, which holds for a removal. There is
  no other exception: a module parked for a log line or a metrics round leaves no facts.
- `ThreeUnconfirmed`: `refused` and `clear_refusal` reset the count of unconfirmed
  acknowledgements of whatever document was acknowledged last, also when the one
  refused or released is another (`facts_pacer.hpp:267`, `:309`). The comment at
  `:59-61` counts "three acknowledgements of one document".
- `TwiceInAStep`: a document refused with 413 goes again when the server's answers
  change. The count is of one document in a row: another one sent in between starts it
  over, as it does the pacer's own.
- `ListedServe` excepts a module that `add_plugin` has listed when it throws
  (`plugin_manager.cpp:788`, `:814-823`), and one that is not loaded yet when its load
  throws in `load_single_plugin` (`:430-437`) or fails in `reload_plugin` (`:831`):
  nothing purges these. A loaded module whose reload fails stays listed and serving,
  where every other path purges it.
- `FlushHandsOut`: lines dropped after a flush began count towards it, so that a
  flush can end with a line of before it in the worker's hand.
- `SyncedUnlessTorn`: between the swap of `fleet.ini` and the record, a kill or a
  failure leaves the old record beside the new file. A server that goes back to the
  old state then answers "not modified", and the host keeps the other `fleet.ini`; the
  comment at `fleet_sync.cpp:870-871` calls such an answer "honestly in sync". After a
  kill later in the apply the recovery forgets the hashes, but only in memory, so that a
  second restart ends the same way. TLC shows the first of these on the
  instance of `fleet_tree`, as a behaviour of 21 states, a run that is not kept.
- `Converges`: a cache file that was cut short is never downloaded again, so that a
  state which needs it is not reached.
- `ReloadFollows` is stated without failures: when the record cannot be written,
  the state is current in memory and no reload is asked for.

Eight hazards of `PROJECT.json` are covered by no property, and each entry says why. Of
seven the model has the outcome and a property excepts it, as listed above: the two of a
record that is believed after an apply was cut short, the cache file that was cut short,
the record that cannot be written, two failures of an apply and its rollback, the facts
round stuck in a purged module, and the count of unconfirmed acknowledgements. The eighth
is how long an instance waits behind a worker that sleeps for another, which needs time
as a number.

## 5. What is proved

Every safety property of section 3 that a passing run checks is proved, for every
value of the constants that the assumptions below allow, and so are the three
refinements of `ModuleGate`. The proofs are about `Spec`, without fairness. The
pattern is the same everywhere: an inductive invariant (`IInv`, for the log also
`HandOutInv`), which TLC has checked on the instance of the component's safety run;
that the initial states have it; a lemma per part or kind of step, with one step per
action; that it always holds; and the property as its consequence.

| Module | Theorems (the property each one states) | Assumptions |
|---|---|---|
| `LogDeliveryProofs` | `TypesHold` (`TypeOK`), `LinesAreAccounted` (`LinesAccounted`), `HandlersStayLoaded` (`HandlerModuleAlive`), `LinesInOrder` (`InOrderOnce`), `MirrorIsExact` (`MirrorHolds`), `ListFollowsManager` (`SubscriptionMatchesFate`), `FlushIsComplete` (`FlushHandsOut`), `SubscriptionsAreGates` (`HandlersKeepTheGate`) | the placeholder is no module, bounds are naturals |
| `PluginDispatchProofs` | `CodeIsMapped` (`CodeStaysMapped`), `ReloadsAreAlone` (`ReloadIsAlone`), `DoorsOpenAgain` (`DoorsReopen`), `ListedModulesServe` (`ListedServe`), `DispatchesAreGates` (`CallsKeepTheGate`) | the same; main and the maintenance worker are two threads and none of the request threads |
| `SimpleSchedulerProofs` | lemmas on the pool, for its two owners | finitely many thread slots, bounds are naturals |
| `SchedulerModuleProofs` | `OneChainEach` (`OneChain`), `SchedulesKept` (`NoScheduleLost`), `ReloadsClear` (`NoStaleInstance`), `HandlerSafe` (`HandlerOutlivesCalls`), `WatchdogAlone` (`OneWatchdog`) | thread settings are naturals |
| `CoreSchedulerProofs` | `TasksKept` (`NothingLostOrRepeated`), `StopIsFinal` (the action property `NothingBeginsAfterStop`) | the same |
| `FactsProofs` | `RoundsReachLoaded` (`EveryRoundReachesLoaded`), `WalksAreGates` (`RoundsKeepTheGate`), `SnapshotsAreWhole` (`SnapshotWhole`), `BooksAgree` (`BooksBalance`), `FactsGo` (`FactsGoWithModule`) | finitely many fact sets, sizes and caps are positive, the default cap is one of them; owners are the module ids and the core |
| `FleetSyncProofs` | `ClaimsAreTrue` (`SyncedUnlessTorn`), `TreeSurvives` (`OneWholeTree`), `ServiceFollows` (`ReloadFollows`) | every state has a content; placeholders are no states, contents or files |
| `FactsUploadProofs` | `SentTwiceAtMost` (`TwiceInAStep`), `ThreeThenQuiet` (`ThreeUnconfirmed`), `TroubleSilences` (`TroubledTurnsSendNothing`) | an hour and a day are positive; holds are naturals, one of them is the longest (`clamp_sleep_seconds` caps a Retry-After) and one is 0 |

The bounds of section 3 (`MaxLines`, `MaxDepth`, `MaxCrashes`, ...) are constants like
the others: each is any natural number.

### Why the invariants are what they are

**Log.** `HandlerModuleAlive` (the worker is in no module that was torn down, but for
one that unloads itself from its own handler) is not inductive: that the worker is
outside depends on why the manager believes so. `WorkerInv` says when the worker has a
line and is inside a module; `CallInv` which step belongs to which lifecycle call;
`ListInv` that only loaded modules have an open entry; `LeftInv` that a worker seen
outside a closed entry stays outside. On top of that `HandOutInv` has what is handed
out: `EntryInv` relates entries to fates and the mirror to the list; `NumberInv` says
that the queue holds the last lines queued, consecutively, and the line in hand is an
earlier one; `OrderInv` that a module was handed only lines before the one in hand,
or that one when the walk is past its entry, which is what a subscriber that comes,
goes and comes back during a walk could break; `FlushInv` what a flush has seen.

**Dispatch.** `CodeStaysMapped` needs to know who refers to a module: `StackInv` (the
tracker has exactly the calls inside), `LockInv` (only the holder of the lifecycle lock
is past taking it), `ListInv` (its subject is in the list it took it from), `AliveInv`
(what is referred to is alive). For the rest, `TornInv` says where a module that was
torn down may still be listed; `UnloadInv` that while an unload waits, the calls inside
are among those it waits for, whoever else calls, nests or times out; `ReloadInv` the
same of the reload barrier; `ServeInv` that a listed module is loaded or
about to be, unless it is in `half`.

**Pool.** `PoolInv` ties a thread's role, place and instance together, has the one
watchdog, and says that the flag for it is set only while there is one and the pool
runs; `WatchInv` adds that it is set from the start of the threads on. `ChainsCount` and its relatives say how a step changes the number of
instances of a task that are queued or with a worker. The owners add `OwnerInv` (when
there are threads and a handler) and `Counted`: the exact number of instances of every
id at each step of the owner. `OneChain` alone is not inductive: a reload would add a
second instance if one of before the stop could be left. The core's has how
often a reload has returned: one that has must not have an instance left for a worker,
not even one the stop gave up on, while one that threw has to keep its own.

**Facts.** `WInv` accounts for every thread inside a module: by the slot it came from,
the wait of the manager or as stuck. From that follow the gates and that only a round
inside a module stores its facts (`OwnerInv`). `Here`
and `StoreInv` (only a facts round stores) confine the exception of `FactsGoWithModule`
to a module whose slot in the facts list such a round holds. `CountInv` makes the number of rounds
that of the threads in one, which is what makes `FrozenInv` hold: the copy exists
exactly if a round changed something. `BooksInv` has the sizes. `Bytes` sums sizes by
counting pairs, so that the proof works with the cardinality theorems of the library
instead of an induction; that `set_max_size` meets its cap uses that a finite set of
numbers has a least element.

**Fleet.** `SwapInv` says what is in place at each step of an apply, `TreeInv` where the
whole tree is while the other place is being changed, `ReloadInv` that an apply that
asks for no reload rendered what is in place. A kill may come at any step and the
recovery may be killed too; the crashes are not bounded by anything but the constant.

**Upload.** The three properties are about history variables, and none is inductive:
`SendInv` says that whoever is about to send still may by the pacer, although time has
passed and answers have come since it asked; `CalmInv` that a troubled turn is one the
pacer skips; `BurstOf` that a document sent in this step of the backoff waits (after a
rejection, after a re-send, or unconfirmed) or has its one free re-send left; `AckOf`
that unconfirmed acknowledgements are counted by the pacer or have led to a refusal that
outlasts them. The lemmas on the pacer (`ServerHoldsFacts`, `AcknowledgedFacts`,
`RefusedFacts`, ...) say what each member function changes.

### What is only model-checked

- Liveness: `ManagerReturns`, `EveryLineDone`, `WorkerEnds`, `LifecycleEnds`,
  `CallsAnswered`, `StopReturns`, `StopCompletes`, `ReloadRuns`, `Converges` and
  `EventuallyHeld`. They need fairness and ENABLED, which the prover does not handle.
- The two violations of section 4, which are counterexamples.

## 6. What is not modelled, and why

- *Within the modelled parts.* Wording of log lines; metrics; what commands answer;
  time as a number. In `PluginDispatch`: lifecycle calls made from inside
  `loadModuleEx` or `startModule` on the same thread (the lock is recursive), and
  `prepare_shutdown_plugins`, which calls into the modules under the lifecycle lock
  but changes no state of the manager. In `SimpleScheduler`: the
  queue's timed lock failing, and a thread that cannot be created. In `FleetSync`:
  writes undone by a power cut, revocation and renewal of certificates, several bundles per state and the cryptography, whose verdict is an input. In `FactsRounds`: the lists' timed locks failing. In
  `FactsUpload`: the heartbeat, revocation, the lengths of waits and their jitter, and how a document is hashed.
- *The failed check store.* `record()` reads the options, makes the entry without the
  lock and then checks only `enabled` again, so an entry may be stored that a
  `configure()` in between no longer wants; the store is not modelled yet.
- *Parsers, serialisers, filters, checks, clients*: functions of their input, or
  I/O; a model would restate them.
- *Servers*: as far as the core is concerned they are the request threads of
  `PluginDispatch`.
- *Settings, web server, script hosts*: state of their own that later modules may
  take up; sequential at the level of the code that calls them.

`PROJECT.json` lists every part with its reason.

## 7. Coverage and plan

The map in `PROJECT.json` covers about 1.5 % of the repository's implementation, some
3,100 lines. Most of the rest is checks, protocols, clients, generated and bundled
code, for which section 6 gives the reasons; of the files the modelled components
name, it covers about a third.

Next, in this order:

1. `FailedCheckStore`, `StorageManager`, the token store; cron's next time and the
   ring buffer as functions against reference definitions.
2. An atomic "current state" that `FleetSync` implements without kills.
3. Lifecycle calls nested in `loadModuleEx` (`plugin_manager.cpp:827`), and facts rounds
   that overlap in one module and store an older answer over a newer one.
4. Proofs of what later modules add. The safety properties of the present ones are
   all proved; a liveness property would have to wait for a prover that has fairness.

None of the modules uses a `RECURSIVE` operator, so that all of them stay provable.
