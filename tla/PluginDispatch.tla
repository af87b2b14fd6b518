--------------------------- MODULE PluginDispatch ---------------------------
(***************************************************************************)
(* Calls into loadable modules against their unload and reload             *)
(* (service/plugins/dll_plugin.cpp, include/threads/in_flight.hpp, the     *)
(* lifecycle calls of service/plugins/plugin_manager.cpp and the deferral  *)
(* of reloads in service/NSClient++.cpp).                                  *)
(*                                                                         *)
(* A thread that handles a request calls a module, which may call further  *)
(* modules (itself included) through the core, and may ask the core to     *)
(* load, remove or reload a module.  Nothing but a per-module count of the *)
(* calls inside, two door flags and bounded waits keeps a module from      *)
(* being torn down or reconfigured under such a call.                      *)
(*                                                                         *)
(* dispatch_mutex_ and the tracker's own mutex are modelled by atomicity;  *)
(* the plugin manager's lifecycle_mutex_ is held over several steps.       *)
(***************************************************************************)
EXTENDS Naturals, FiniteSets

CONSTANTS
  Modules,     \* module instances (dll_plugin objects)
  Threads, Sched, Main,  \* request threads, the core scheduler's worker, main
  None,
  Reloads,     \* what reloads are asked for: modules and, as None, the service
  MaxDepth,    \* bound: nested calls of one thread
  MaxPending   \* bound: reloads waiting for the scheduler

Depths == 1..MaxDepth
AllThreads == Threads \cup {Sched, Main}

ASSUME ConstantsAssumption ==
  /\ None \notin Modules /\ None \notin AllThreads
  /\ Main \notin Threads \cup {Sched} /\ Sched \notin Threads
  /\ Reloads \subseteq Modules \cup {None}
  /\ MaxDepth \in Nat /\ MaxPending \in Nat

VARIABLES
  \* dll_plugin
  alive,      \* objects that exist
  mapped,     \* libraries that are mapped
  loaded, loading, started, unloading, unloaded, leaked, raced,   \* the object's flags
  reloading,  \* reloading_ and reloading_thread_: who holds the reload barrier
  entries,    \* dispatchers_: one <<thread, nesting depth>> per call inside
  early,      \* threads with an entry below the cutoff of the wait on a module
  \* plugin_manager
  listed,     \* plugin_list_
  commands,   \* the registries calls are looked up in
  retired,    \* retired_plugins_
  abandoned,  \* abandoned_plugins(): kept until the process ends
  half,       \* history: listed modules left so by an adding or a load that failed
  life,       \* the thread holding lifecycle_mutex_
  todo, broken,   \* start_plugins / stop_plugins: left to do, failed to load
  \* NSClientT
  running,    \* scheduler_.is_running()
  pending,    \* reloads handed to the scheduler that it will still run
  \* threads: calls
  sp, frame,  \* the modules a thread is inside, innermost last
  cpc, ctarget,   \* a call being made: where it is, and to which module
  \* threads: a lifecycle call
  op, opc, om,    \* which, where it is, and for which module
  base        \* nesting of the lock's holder when it called into the module

objVars == <<alive, mapped, loaded, loading, unloading, unloaded, leaked>>
doorVars == <<raced, reloading, early, started>>
listVars == <<listed, commands, retired, abandoned, half>>
callVars == <<sp, frame, cpc, ctarget>>
opVars == <<op, opc, om, base, life, todo, broken>>
coreVars == <<running, pending>>
vars == <<objVars, doorVars, entries, listVars, callVars, opVars, coreVars>>

-----------------------------------------------------------------------------
(* Helpers *)

\* The threads that are really inside a module, and those the tracker has.
InsideOf(m) == {t \in AllThreads : \E i \in Depths : frame[t][i] = m}
Tracked(m) == {t \in AllThreads : \E i \in Depths : <<t, i>> \in entries[m]}

\* Mutant: a caller's reference ends with the call, before its reply is freed.
HoldsNoReply(t, m) ==
  \/ t \in InsideOf(m)
  \/ opc[t] \notin {"none", "lock"} /\ om[t] = m

\* Shared references: a caller keeps one from the lookup until its reply is
\* freed, a lifecycle call while it works on the module.
Holds(t, m) ==
  \/ cpc[t] # "run" /\ ctarget[t] = m
  \/ t \in InsideOf(m)
  \/ opc[t] \notin {"none", "lock"} /\ om[t] = m
Referenced(m) == m \in listed \cup retired \cup abandoned \/ \E t \in AllThreads : Holds(t, m)

\* The destructor, run by whoever drops the last reference: unload_plugin
\* again, and the library is unmapped unless an unload was ever refused.
Destructors ==
  LET dead == {m \in alive : ~Referenced(m)'} IN
  /\ alive' = alive \ dead
  /\ loaded' = loaded \ dead /\ loading' = loading \ dead
  /\ unloading' = unloading \cup dead
  /\ unloaded' = unloaded \cup dead
  /\ mapped' = mapped \ (dead \ leaked)

\* The modules the settings name have been loaded and started.
Init ==
  \E boot \in SUBSET Modules :
  /\ alive = boot /\ mapped = boot /\ loaded = boot /\ loading = {}
  /\ started = boot /\ unloading = {} /\ unloaded = {} /\ leaked = {} /\ raced = {}
  /\ reloading = [m \in Modules |-> None]
  /\ entries = [m \in Modules |-> {}] /\ early = [m \in Modules |-> {}]
  /\ listed = boot /\ commands = boot /\ retired = {} /\ abandoned = {} /\ half = {}
  /\ life = None /\ todo = {} /\ broken = {} /\ base = 0
  /\ running \in BOOLEAN /\ pending = {}
  /\ sp = [t \in AllThreads |-> 0]
  /\ frame = [t \in AllThreads |-> [i \in Depths |-> None]]
  /\ cpc = [t \in AllThreads |-> "run"] /\ ctarget = [t \in AllThreads |-> None]
  /\ op = [t \in AllThreads |-> "none"] /\ opc = [t \in AllThreads |-> "none"]
  /\ om = [t \in AllThreads |-> None]

\* A thread executes: it is neither in the middle of a call into a module nor
\* in a lifecycle call, unless that has called loadModuleEx or startModule.
Upcall(t) == opc[t] \in {"loading", "starting"}
Executing(t) == cpc[t] = "run" /\ (opc[t] = "none" \/ Upcall(t))
Idle(t) == cpc[t] = "run" /\ opc[t] = "none"

-----------------------------------------------------------------------------
(* A call into a module: the lookup in a registry, the unguarded read of   *)
(* loaded_, dispatch_lock, the handler, and the reply freed afterwards.    *)

\* execute_query finds the module, unless the thread is too deep already.
\* (The scheduler's worker and main call modules here only from such upcalls.)
Lookup(t, m) ==
  /\ Executing(t) /\ (t \in Threads \/ Upcall(t)) /\ m \in commands /\ sp[t] < MaxDepth
  /\ cpc' = [cpc EXCEPT ![t] = "check"] /\ ctarget' = [ctarget EXCEPT ![t] = m]
  /\ UNCHANGED <<objVars, doorVars, entries, listVars, sp, frame, opVars, coreVars>>

CallDone(t) ==
  cpc' = [cpc EXCEPT ![t] = "run"] /\ ctarget' = [ctarget EXCEPT ![t] = None]

CheckLoaded(t) ==
  /\ cpc[t] = "check"
  /\ UNCHANGED <<leaked, doorVars, entries, listVars, sp, frame, opVars, coreVars>>
  /\ IF ctarget[t] \in loaded
       THEN /\ cpc' = [cpc EXCEPT ![t] = "enter"]
            /\ UNCHANGED <<ctarget, alive, mapped, loaded, loading, unloading, unloaded>>
       ELSE CallDone(t) /\ Destructors

\* Mutant: the reload barrier does not hold dispatches off.
MayEnterAlways(t, m) == TRUE

\* dispatch_lock waits while another thread reloads the module.
MayEnter(t, m) == reloading[m] \in {None, t}

\* Mutant: the door is checked for nobody.
DoorIsOpenAlways(t, m) == TRUE

\* Once an unload has started only a thread that is inside already gets in.
DoorIsOpen(t, m) == m \notin unloading \/ t \in Tracked(m)

Enter(t) ==
  /\ cpc[t] = "enter" /\ MayEnter(t, ctarget[t])
  /\ CallDone(t)
  /\ UNCHANGED <<leaked, doorVars, listVars, opVars, coreVars>>
  /\ IF DoorIsOpen(t, ctarget[t])
       THEN /\ sp' = [sp EXCEPT ![t] = @ + 1]
            /\ frame' = [frame EXCEPT ![t][sp[t] + 1] = ctarget[t]]
            /\ entries' = [entries EXCEPT ![ctarget[t]] = @ \cup {<<t, sp[t] + 1>>}]
            /\ UNCHANGED <<alive, mapped, loaded, loading, unloading, unloaded>>
       ELSE UNCHANGED <<sp, frame, entries>> /\ Destructors

\* in_flight::leave: the innermost entry of this thread goes.
Innermost(t, m) ==
  {e \in entries[m] : e[1] = t /\ \A f \in entries[m] : f[1] = t => f[2] <= e[2]}

\* The floor of a thread's stack: it cannot return below its own lifecycle call.
Floor(t) == IF Upcall(t) THEN base ELSE 0

\* The handler returns.  The thread is out of the wait's sight once its
\* outermost entry, the only one that can be below the cutoff last, is gone.
Leave(t) ==
  /\ Executing(t) /\ sp[t] > Floor(t)
  /\ LET m == frame[t][sp[t]]
         left == entries[m] \ Innermost(t, m) IN
     /\ entries' = [entries EXCEPT ![m] = left]
     /\ early' = [early EXCEPT ![m] = {u \in @ : \E i \in Depths : <<u, i>> \in left}]
     /\ cpc' = [cpc EXCEPT ![t] = "free"] /\ ctarget' = [ctarget EXCEPT ![t] = m]
  /\ sp' = [sp EXCEPT ![t] = @ - 1]
  /\ frame' = [frame EXCEPT ![t][sp[t]] = None]
  /\ UNCHANGED <<objVars, raced, reloading, started, listVars, opVars, coreVars>>

\* deleteBuffer calls the library outside dispatch_lock, on the caller's
\* reference alone; then the reference goes.
FreeReply(t) ==
  /\ cpc[t] = "free"
  /\ CallDone(t)
  /\ UNCHANGED <<leaked, doorVars, entries, listVars, sp, frame, opVars, coreVars>>
  /\ Destructors

-----------------------------------------------------------------------------
(* Lifecycle calls: requested by a thread inside or outside a module, run  *)
(* by that thread under lifecycle_mutex_.                                  *)

Ask(t, what, m) ==
  /\ op' = [op EXCEPT ![t] = what] /\ opc' = [opc EXCEPT ![t] = "lock"] /\ om' = [om EXCEPT ![t] = m]
  /\ UNCHANGED <<objVars, doorVars, entries, listVars, callVars, base, life, todo, broken>>

AskRemove(t, m) == Idle(t) /\ m \in listed /\ Ask(t, "remove", m) /\ UNCHANGED coreVars
AskLoad(t, m) == Idle(t) /\ m \notin loaded \cup unloaded /\ Ask(t, "load", m) /\ UNCHANGED coreVars

\* plugin_manager::is_dispatching_on_this_thread
Dispatching(t, ms) == \E m \in listed \cap ms : t \in Tracked(m)

\* NSClientT::reload, for one module or (None) for the service: deferred when
\* asked for as "delayed," or from inside any module; refused, without a
\* scheduler, when it would reload the module the thread is inside.
Reload(t, m, delayed) ==
  /\ Idle(t) /\ m \in listed \cup {None}
  /\ IF delayed \/ (Dispatching(t, Modules) /\ running)
       THEN /\ Cardinality(pending) < MaxPending
            /\ pending' = IF running THEN pending \cup {m} ELSE pending
            /\ UNCHANGED <<objVars, doorVars, entries, listVars, callVars, opVars, running>>
       ELSE /\ ~Dispatching(t, IF m = None THEN Modules ELSE {m})
            /\ Ask(t, IF m = None THEN "service" ELSE "reload", m)
            /\ UNCHANGED coreVars

\* The scheduler's worker runs a deferred reload.
RunPending(m) ==
  /\ Idle(Sched) /\ sp[Sched] = 0 /\ running /\ m \in pending
  /\ pending' = pending \ {m}
  /\ Ask(Sched, IF m = None THEN "service" ELSE "reload", m)
  /\ UNCHANGED running

\* stop_nsclient: the scheduler is stopped (what it still holds is never run),
\* then stop_plugins.
AskStop ==
  /\ op[Main] = "none"
  /\ running' = FALSE /\ pending' = {}
  /\ Ask(Main, "stop", None)

EndOp(t) ==
  /\ op' = [op EXCEPT ![t] = "none"] /\ opc' = [opc EXCEPT ![t] = "none"] /\ om' = [om EXCEPT ![t] = None]
  /\ life' = None /\ base' = 0 /\ todo' = {} /\ broken' = {}

\* remove_plugin: not the module that serves this very request; and the walk
\* lists or the log may refuse.  Else the module is unloaded first.
Remove(t) ==
  /\ opc[t] = "lock" /\ op[t] = "remove" /\ life = None
  /\ \/ EndOp(t)
     \/ /\ om[t] \in listed /\ t \notin Tracked(om[t])
        /\ opc' = [opc EXCEPT ![t] = "close"] /\ life' = t
        /\ UNCHANGED <<op, om, base, todo, broken>>
  /\ UNCHANGED <<objVars, doorVars, entries, listVars, callVars, coreVars>>

\* reload_plugin
ReloadPlugin(t) ==
  /\ opc[t] = "lock" /\ op[t] = "reload" /\ life = None
  /\ IF om[t] \in listed
       THEN /\ opc' = [opc EXCEPT ![t] = "barrier"] /\ life' = t
            /\ UNCHANGED <<op, om, base, todo, broken>>
       ELSE EndOp(t)
  /\ UNCHANGED <<objVars, doorVars, entries, listVars, callVars, coreVars>>

\* A service reload is start_plugins for a reload, load_active_plugins,
\* start_plugins for what that added and post_start_plugins, and takes the lock
\* anew for each; each (like stop_plugins) works through a copy of the list,
\* past the modules that are loaded, or started, already.
ToDo(pass) ==
  [service |-> listed, bootStart |-> listed \ (loaded \cup loading), post |-> listed \ started][pass]

StartPlugins(t) ==
  /\ opc[t] = "lock" /\ op[t] \in {"service", "bootStart", "post"} /\ life = None
  /\ opc' = [opc EXCEPT ![t] = "next"] /\ life' = t /\ todo' = ToDo(op[t])
  /\ UNCHANGED <<objVars, doorVars, entries, listVars, callVars, op, om, base, broken, coreVars>>

\* add_plugin: the module is listed, then registered.  Where a question to it
\* or to the settings throws (torn), it stays listed and as far registered as
\* it was, and the caller is told that there is no module.
AddPlugins(new, torn) ==
  /\ alive' = alive \cup new /\ mapped' = mapped \cup new /\ listed' = listed \cup new
  /\ \E registered \in SUBSET torn : commands' = commands \cup (new \ torn) \cup registered
  /\ half' = half \cup torn

\* load_active_plugins: the modules enabled since are listed, not yet loaded.
\* One whose adding threw is listed too, and loaded with the others.
LoadActivePlugins(t) ==
  /\ opc[t] = "lock" /\ op[t] = "boot" /\ life = None
  /\ \E new \in SUBSET (Modules \ (alive \cup unloaded)) : \E torn \in SUBSET new : AddPlugins(new, torn)
  /\ op' = [op EXCEPT ![t] = "bootStart"]
  /\ UNCHANGED <<loaded, loading, unloading, unloaded, leaked, doorVars, entries, retired, abandoned, callVars,
                 opc, om, base, life, todo, broken, coreVars>>

StopPlugins ==
  /\ opc[Main] = "lock" /\ op[Main] = "stop" /\ life = None
  /\ opc' = [opc EXCEPT ![Main] = "next"] /\ life' = Main /\ todo' = listed
  /\ commands' = {}
  /\ UNCHANGED <<objVars, doorVars, entries, listed, retired, abandoned, half, callVars, op, om, base, broken,
                 coreVars>>

\* The module's own code is called, under the lifecycle lock but not as a
\* dispatch: no entry is made for it.
CallInto(t, what) ==
  opc' = [opc EXCEPT ![t] = what] /\ base' = sp[t]

\* load_single_plugin: there is no such module (any more); or it is listed
\* unless it is already, then loaded and started unless it is already; or its
\* adding threw, and it stays listed without being loaded.
LoadSinglePlugin(t) ==
  /\ opc[t] = "lock" /\ op[t] = "load" /\ life = None
  /\ LET m == om[t] IN
     \/ m \notin listed /\ EndOp(t) /\ UNCHANGED <<alive, mapped, listed, commands, half, loading>>
     \/ /\ m \in listed /\ m \in loaded \cup loading
        /\ IF m \in started THEN EndOp(t)
           ELSE CallInto(t, "starting") /\ life' = t /\ UNCHANGED <<op, om, todo, broken>>
        /\ UNCHANGED <<alive, mapped, listed, commands, half, loading>>
     \/ /\ m \notin loaded \cup loading \cup unloaded /\ (m \in alive => m \in listed)
        /\ IF m \in listed THEN UNCHANGED <<alive, mapped, listed, commands, half>> ELSE AddPlugins({m}, {})
        /\ loading' = loading \cup {m}
        /\ CallInto(t, "loading") /\ life' = t /\ UNCHANGED <<op, om, todo, broken>>
     \/ /\ m \notin listed \cup alive \cup unloaded
        /\ AddPlugins({m}, {m}) /\ EndOp(t) /\ UNCHANGED loading
  /\ UNCHANGED <<loaded, unloading, unloaded, leaked, doorVars, entries, retired, abandoned, callVars, coreVars>>

-----------------------------------------------------------------------------
(* unload_plugin *)

\* Back to the loop, or the end of the lifecycle call.
NextOrEnd(t) ==
  IF op[t] \in {"service", "bootStart", "post", "stop", "stopRetired"}
    THEN /\ opc' = [opc EXCEPT ![t] = "next"] /\ om' = [om EXCEPT ![t] = None]
         /\ todo' = todo \ {om[t]} /\ broken' = broken \ {om[t]}
         /\ UNCHANGED <<op, base, life>>
    ELSE EndOp(t)

UnloadClose(t) ==
  /\ opc[t] = "close"
  /\ unloading' = unloading \cup {om[t]}
  /\ early' = [early EXCEPT ![om[t]] = Tracked(om[t])]
  /\ opc' = [opc EXCEPT ![t] = "drain"]
  /\ UNCHANGED <<alive, mapped, loaded, loading, unloaded, leaked, raced, reloading, started, entries, listVars,
                 callVars, op, om, base, life, todo, broken, coreVars>>

\* wait_for_others_before: the caller's own entries are not waited for.
OthersBefore(t, m) == early[m] \ {t} # {}

\* The wait came back clean: fUnLoadModule is called.
UnloadTeardown(t) ==
  /\ opc[t] = "drain" /\ ~OthersBefore(t, om[t])
  /\ loaded' = loaded \ {om[t]} /\ loading' = loading \ {om[t]}
  /\ unloaded' = unloaded \cup ({om[t]} \cap (loaded \cup loading))
  /\ early' = [early EXCEPT ![om[t]] = {}]
  /\ opc' = [opc EXCEPT ![t] = "teardown"]
  /\ UNCHANGED <<alive, mapped, unloading, leaked, raced, reloading, started, entries, listVars, callVars,
                 op, om, base, life, todo, broken, coreVars>>

\* Mutant: a refused unload leaves the door shut.
UnloadRefusedShut(t) ==
  /\ opc[t] = "drain" /\ OthersBefore(t, om[t])
  /\ UNCHANGED unloading
  /\ leaked' = leaked \cup {om[t]}
  /\ early' = [early EXCEPT ![om[t]] = {}]
  /\ NextOrEnd(t)
  /\ UNCHANGED <<alive, mapped, loaded, loading, unloaded, raced, reloading, started, entries, listVars, callVars, coreVars>>

\* Mutant: unload_plugin waits without a limit.
UnloadRefusedNever(t) == FALSE /\ vars' = vars

\* The wait ran out: the module keeps serving (remove_plugin, stop_plugins),
\* or is out of the lists but never unmapped (purge_broken_plugin).  A call
\* that is still inside keeps the object referenced.
UnloadRefused(t) ==
  /\ opc[t] = "drain" /\ OthersBefore(t, om[t])
  /\ unloading' = unloading \ {om[t]}
  /\ leaked' = leaked \cup {om[t]}
  /\ early' = [early EXCEPT ![om[t]] = {}]
  /\ NextOrEnd(t)
  /\ UNCHANGED <<alive, mapped, loaded, loading, unloaded, raced, reloading, started, entries, listVars, callVars, coreVars>>

\* Mutant: remove_plugin forgets the master list.
UnloadedListed(t) ==
  /\ opc[t] = "teardown"
  /\ LET gone == IF op[t] = "remove" THEN {om[t]} ELSE {} IN
     UNCHANGED listed /\ commands' = commands \ gone
  /\ NextOrEnd(t)
  /\ half' = half \cap listed'
  /\ UNCHANGED <<leaked, doorVars, entries, retired, abandoned, callVars, coreVars>>
  /\ Destructors

\* fUnLoadModule returned.  remove_plugin then takes the module out of the
\* lists; purge_broken_plugin has done so before.
Unloaded(t) ==
  /\ opc[t] = "teardown"
  /\ LET gone == IF op[t] = "remove" THEN {om[t]} ELSE {} IN
     listed' = listed \ gone /\ commands' = commands \ gone
  /\ NextOrEnd(t)
  /\ half' = half \cap listed'
  /\ UNCHANGED <<leaked, doorVars, entries, retired, abandoned, callVars, coreVars>>
  /\ Destructors

\* stop_plugins tries every listed module, clears the list, and then does the
\* same to the parked ones.  A module that a log line or a metrics or facts
\* round is stuck in is neither unloaded nor released.
StopNext ==
  /\ opc[Main] = "next" /\ op[Main] \in {"stop", "stopRetired"}
  /\ UNCHANGED <<doorVars, entries, commands, callVars, coreVars>>
  /\ \/ \E m \in todo :
          /\ \/ /\ om' = [om EXCEPT ![Main] = m] /\ opc' = [opc EXCEPT ![Main] = "close"]
                /\ UNCHANGED <<abandoned, todo>>
             \/ /\ abandoned' = abandoned \cup {m} /\ todo' = todo \ {m}
                /\ UNCHANGED <<om, opc>>
          /\ UNCHANGED <<objVars, listed, retired, half, op, base, life, broken>>
     \/ /\ todo = {} /\ op[Main] = "stop"
        /\ listed' = {} /\ half' = {} /\ op' = [op EXCEPT ![Main] = "stopRetired"] /\ todo' = retired
        /\ UNCHANGED <<retired, abandoned, opc, om, base, life, broken, leaked>>
        /\ Destructors
     \/ /\ todo = {} /\ op[Main] = "stopRetired"
        /\ retired' = {}
        /\ op' = [op EXCEPT ![Main] = "stopped"] /\ opc' = [opc EXCEPT ![Main] = "none"]
        /\ life' = None
        /\ UNCHANGED <<listed, abandoned, half, om, base, todo, broken, leaked>>
        /\ Destructors

-----------------------------------------------------------------------------
(* load_plugin: the reload barrier, loadModuleEx, and a failure's purge *)

Passes == [service |-> "boot", bootStart |-> "post"]

\* The next module of a pass of the service reload; then the modules that
\* failed are purged, the lock goes and the next pass follows.
ServiceNext(t) ==
  /\ opc[t] = "next" /\ op[t] \in {"service", "bootStart", "post"}
  /\ \/ \E m \in todo :
          /\ om' = [om EXCEPT ![t] = m]
          /\ \/ op[t] = "service" /\ opc' = [opc EXCEPT ![t] = "barrier"] /\ UNCHANGED <<base, loading>>
             \/ op[t] = "bootStart" /\ CallInto(t, "loading") /\ loading' = loading \cup {m}
             \/ op[t] = "post" /\ CallInto(t, "starting") /\ UNCHANGED loading
          /\ UNCHANGED <<op, life, todo, broken>>
     \/ /\ todo = {}
        /\ \E m \in broken : om' = [om EXCEPT ![t] = m]
        /\ opc' = [opc EXCEPT ![t] = "purge"] /\ UNCHANGED <<op, base, life, todo, broken, loading>>
     \/ /\ todo \cup broken = {} /\ op[t] # "post"
        /\ op' = [op EXCEPT ![t] = Passes[@]] /\ opc' = [opc EXCEPT ![t] = "lock"] /\ life' = None
        /\ UNCHANGED <<om, base, todo, broken, loading>>
     \/ todo \cup broken = {} /\ op[t] = "post" /\ EndOp(t) /\ UNCHANGED loading
  /\ UNCHANGED <<alive, mapped, loaded, unloading, unloaded, leaked, doorVars, entries, listVars, callVars, coreVars>>

\* reload_barrier: close the door, then wait for whoever is inside already.
Barrier(t) ==
  /\ opc[t] = "barrier" /\ reloading[om[t]] = None
  /\ reloading' = [reloading EXCEPT ![om[t]] = t]
  /\ raced' = raced \ {om[t]}
  /\ early' = [early EXCEPT ![om[t]] = Tracked(om[t])]
  /\ opc' = [opc EXCEPT ![t] = "reloadDrain"]
  /\ UNCHANGED <<objVars, started, entries, listVars, callVars, op, om, base, life, todo, broken, coreVars>>

\* The wait came back clean or ran out; loadModuleEx is called either way.
ReloadBegin(t) ==
  /\ opc[t] = "reloadDrain"
  /\ raced' = IF OthersBefore(t, om[t]) THEN raced \cup {om[t]} ELSE raced
  /\ early' = [early EXCEPT ![om[t]] = {}]
  /\ loading' = loading \cup {om[t]}
  /\ opc' = [opc EXCEPT ![t] = "loading"] /\ base' = sp[t]
  /\ UNCHANGED <<alive, mapped, loaded, unloading, unloaded, leaked, reloading, started, entries, listVars, callVars,
                 op, om, life, todo, broken, coreVars>>

\* A pass goes on, remembering a module that failed.
PassNext(t, ok) ==
  /\ opc' = [opc EXCEPT ![t] = "next"] /\ om' = [om EXCEPT ![t] = None]
  /\ todo' = todo \ {om[t]} /\ broken' = IF ok THEN broken ELSE broken \cup {om[t]}
  /\ UNCHANGED <<op, base, life>>

\* A reload that throws leaves reload_plugin and do_reload: the scheduler's
\* worker queues it again, any other caller only reports it.
Requeue(t, threw) ==
  /\ pending' = IF threw /\ running /\ t = Sched /\ op[t] = "reload" THEN pending \cup {om[t]} ELSE pending
  /\ UNCHANGED running

\* reload_plugin purges nothing, load_single_plugin nothing that threw.
FailsUnpurged(t, ok, threw) == (op[t] = "reload" /\ ~ok) \/ (op[t] = "load" /\ threw)

\* Mutant: the barrier outlives the load.
LoadReturnsBarred(t, ok, threw) ==
  /\ opc[t] = "loading" /\ cpc[t] = "run" /\ sp[t] = base /\ ~(ok /\ threw)
  /\ UNCHANGED reloading
  /\ IF ok THEN /\ loaded' = loaded \cup {om[t]} /\ loading' = loading \ {om[t]}
                /\ started' = IF reloading[om[t]] = t THEN started \ {om[t]} ELSE started
           ELSE UNCHANGED <<loaded, loading, started>>
  /\ half' = half \cup IF FailsUnpurged(t, ok, threw) /\ om[t] \notin loaded THEN {om[t]} ELSE {}
  /\ \/ op[t] \in {"load", "reload"} /\ ok
        /\ CallInto(t, "starting") /\ UNCHANGED <<op, om, life, todo, broken>>
     \/ FailsUnpurged(t, ok, threw) /\ EndOp(t)
     \/ op[t] = "load" /\ ~ok /\ ~threw
        /\ opc' = [opc EXCEPT ![t] = "purge"] /\ UNCHANGED <<op, om, base, life, todo, broken>>
     \/ op[t] \in {"service", "bootStart"} /\ PassNext(t, ok)
  /\ Requeue(t, threw)
  /\ raced' = raced \ {om[t]}
  /\ UNCHANGED <<alive, mapped, unloading, unloaded, leaked, early, entries,
                 listed, commands, retired, abandoned, callVars>>

\* loadModuleEx returned or threw; the barrier goes.  A module that failed is
\* purged, except by reload_plugin, which leaves it as it is, and except where
\* it threw in load_single_plugin; one that was reloaded is owed a new start.
\* (Whether the reload raced is asked right after it, and then no more.)
LoadReturns(t, ok, threw) ==
  /\ opc[t] = "loading" /\ cpc[t] = "run" /\ sp[t] = base /\ ~(ok /\ threw)
  /\ reloading' = [reloading EXCEPT ![om[t]] = None]
  /\ IF ok THEN /\ loaded' = loaded \cup {om[t]} /\ loading' = loading \ {om[t]}
                /\ started' = IF reloading[om[t]] = t THEN started \ {om[t]} ELSE started
           ELSE UNCHANGED <<loaded, loading, started>>
  /\ half' = half \cup IF FailsUnpurged(t, ok, threw) /\ om[t] \notin loaded THEN {om[t]} ELSE {}
  /\ \/ op[t] \in {"load", "reload"} /\ ok
        /\ CallInto(t, "starting") /\ UNCHANGED <<op, om, life, todo, broken>>
     \/ FailsUnpurged(t, ok, threw) /\ EndOp(t)
     \/ op[t] = "load" /\ ~ok /\ ~threw
        /\ opc' = [opc EXCEPT ![t] = "purge"] /\ UNCHANGED <<op, om, base, life, todo, broken>>
     \/ op[t] \in {"service", "bootStart"} /\ PassNext(t, ok)
  /\ Requeue(t, threw)
  /\ raced' = raced \ {om[t]}
  /\ UNCHANGED <<alive, mapped, unloading, unloaded, leaked, early, entries,
                 listed, commands, retired, abandoned, callVars>>

\* startModule returned or threw.  A failure is only logged, except by
\* post_start_plugins.
StartReturns(t, ok, threw) ==
  /\ opc[t] = "starting" /\ cpc[t] = "run" /\ sp[t] = base /\ ~(ok /\ threw)
  /\ started' = IF ok THEN started \cup {om[t]} ELSE started
  /\ IF op[t] = "post" THEN PassNext(t, ok) ELSE EndOp(t)
  /\ Requeue(t, threw)
  /\ UNCHANGED <<objVars, raced, reloading, early, entries, listVars, callVars>>

\* purge_broken_plugin: out of the lists first; parked when this thread is
\* inside it, or a log line or a metrics or facts round is (stuck).
Purge(t) ==
  /\ opc[t] = "purge"
  /\ listed' = listed \ {om[t]} /\ commands' = commands \ {om[t]} /\ half' = half \ {om[t]}
  /\ \E stuck \in BOOLEAN :
       IF stuck \/ t \in Tracked(om[t])
         THEN retired' = retired \cup {om[t]} /\ NextOrEnd(t)
         ELSE opc' = [opc EXCEPT ![t] = "close"] /\ UNCHANGED <<retired, op, om, base, life, todo, broken>>
  /\ UNCHANGED <<objVars, doorVars, entries, abandoned, callVars, coreVars>>

-----------------------------------------------------------------------------

Call(t) == CheckLoaded(t) \/ Enter(t) \/ FreeReply(t)

Lifecycle(t) ==
  \/ Remove(t) \/ ReloadPlugin(t) \/ StartPlugins(t) \/ LoadActivePlugins(t) \/ LoadSinglePlugin(t)
  \/ UnloadClose(t) \/ UnloadTeardown(t) \/ UnloadRefused(t) \/ Unloaded(t)
  \/ ServiceNext(t) \/ Barrier(t) \/ ReloadBegin(t) \/ Purge(t)
  \/ \E ok, threw \in BOOLEAN : LoadReturns(t, ok, threw) \/ StartReturns(t, ok, threw)

Stop == StopPlugins \/ StopNext

Request(t) ==
  \/ \E m \in Modules : Lookup(t, m)
  \/ t \in Threads /\ \E m \in Modules : AskRemove(t, m) \/ AskLoad(t, m)
  \/ t \in Threads /\ \E m \in Reloads, delayed \in BOOLEAN : Reload(t, m, delayed)

Next ==
  \/ \E t \in AllThreads : Request(t) \/ Call(t) \/ Leave(t) \/ Lifecycle(t)
  \/ \E m \in Reloads : RunPending(m)
  \/ AskStop \/ Stop

Spec == Init /\ [][Next]_vars

\* Threads run, a mutex or a door that opens again and again is got in the
\* end, and handlers and loadModuleEx return after finitely many calls.  (The
\* second conjunct is about a handler that keeps calling, for MaxDepth <= 2.)
Fairness ==
  /\ \A t \in Threads \cup {Sched} :
       /\ SF_vars(Call(t) \/ Leave(t))
       /\ SF_vars(Leave(t) /\ sp[t] = 1)
       /\ SF_vars(Lifecycle(t))
  /\ SF_vars(Lifecycle(Main) \/ Stop)
FairSpec == Spec /\ Fairness

-----------------------------------------------------------------------------
(* Properties *)

Ops == {"none", "remove", "reload", "service", "boot", "bootStart", "post", "load", "stop", "stopRetired", "stopped"}
Pcs == {"none", "lock", "close", "drain", "teardown", "next", "barrier", "reloadDrain", "loading", "starting", "purge"}

ObjectTypes ==
  /\ alive \subseteq Modules /\ mapped \subseteq Modules /\ loaded \subseteq Modules /\ loading \subseteq Modules
  /\ started \subseteq Modules /\ unloading \subseteq Modules /\ unloaded \subseteq Modules
  /\ leaked \subseteq Modules /\ raced \subseteq Modules
  /\ reloading \in [Modules -> AllThreads \cup {None}] /\ early \in [Modules -> SUBSET AllThreads]

CallTypes ==
  /\ entries \in [Modules -> SUBSET (AllThreads \X Depths)]
  /\ sp \in [AllThreads -> 0..MaxDepth] /\ frame \in [AllThreads -> [Depths -> Modules \cup {None}]]
  /\ cpc \in [AllThreads -> {"run", "check", "enter", "free"}] /\ ctarget \in [AllThreads -> Modules \cup {None}]

ListTypes ==
  /\ listed \subseteq Modules /\ commands \subseteq Modules /\ retired \subseteq Modules
  /\ abandoned \subseteq Modules
  /\ half \subseteq Modules
  /\ todo \subseteq Modules /\ broken \subseteq Modules
  /\ running \in BOOLEAN /\ pending \subseteq Modules \cup {None}

LifecycleTypes ==
  /\ op \in [AllThreads -> Ops] /\ opc \in [AllThreads -> Pcs] /\ om \in [AllThreads -> Modules \cup {None}]
  /\ life \in AllThreads \cup {None} /\ base \in 0..MaxDepth

\* Types.
TypeOK == ObjectTypes /\ CallTypes /\ ListTypes /\ LifecycleTypes

DispatchDoor ==
  [m \in Modules |-> IF m \in unloaded THEN "down" ELSE IF m \in unloading THEN "closed" ELSE "open"]
CallersInside == [m \in Modules |-> InsideOf(m)]

\* A call gets in only while the door is open (or from a thread that is inside
\* already), and unload_plugin never runs a module's teardown while a call is
\* inside, not one that read loaded_ before the door closed, not a nested one,
\* not one that outlived the wait: dispatches implement ModuleGate.
Gate == INSTANCE ModuleGate WITH Visitors <- AllThreads, door <- DispatchDoor, inside <- CallersInside
CallsKeepTheGate == Gate!Spec

\* Code that is being executed stays mapped: by the calls inside, by a reply
\* that is freed after its call was no longer counted, by a lifecycle call.
CodeStaysMapped ==
  \A m \in Modules :
    (\E t \in AllThreads : \/ t \in InsideOf(m)
                           \/ cpc[t] \in {"enter", "free"} /\ ctarget[t] = m
                           \/ (Upcall(t) \/ opc[t] = "teardown") /\ om[t] = m)
      => m \in mapped

\* While loadModuleEx applies new settings no other thread is in a handler of
\* the module, unless reload_raced() will say so.
ReloadIsAlone ==
  \A t \in AllThreads :
    opc[t] = "loading" /\ om[t] \notin raced /\ reloading[om[t]] = t => InsideOf(om[t]) \subseteq {t}

\* When no lifecycle call is running every door is open again: a refused
\* unload leaves the module serving, and a module whose load failed is not
\* kept shut either.  (Only an object that never was loaded may be: its unload
\* returns early, and whoever still refers to it finds it unlisted.)
DoorsReopen ==
  /\ TypeOK
  /\ life = None =>
       /\ \A m \in Modules : reloading[m] = None
       /\ unloading \subseteq unloaded \cup (Modules \ (listed \cup loaded \cup loading))

\* ... and the master list and the registries agree: no lifecycle call leaves
\* a module half removed, registered but not listed, or listed after its
\* teardown, and what is listed is registered and, once start_plugins has had
\* it, loaded.  The exception (half) is a module that add_plugin listed before
\* it threw, or that was never loaded when loadModuleEx threw in
\* load_single_plugin or failed in reload_plugin: nothing purges it, so it may
\* stay listed unregistered or unloaded until it is removed.
ListedServe ==
  life = None /\ op[Main] = "none" =>
    /\ commands \subseteq listed /\ listed \ half \subseteq commands /\ listed \cap unloaded = {}
    /\ (\A t \in AllThreads : op[t] # "bootStart") => listed \ half \subseteq loaded

\* Every lifecycle call ends, and so the lifecycle lock is given back: threads
\* that wait for the lock inside a module, for a reload of a module they are
\* inside, or for each other's calls are let go by the bounded waits.
LifecycleEnds == \A t \in AllThreads : opc[t] # "none" ~> opc[t] = "none"

\* Every call is let in or refused: no dispatch waits for a reload forever.
CallsAnswered == \A t \in AllThreads : cpc[t] = "enter" ~> cpc[t] # "enter"
=============================================================================
