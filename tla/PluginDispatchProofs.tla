------------------------- MODULE PluginDispatchProofs -------------------------
(***************************************************************************)
(* Proofs about PluginDispatch, for any modules, threads, nesting and      *)
(* number of deferred reloads: who is inside a module, who holds the       *)
(* lifecycle lock and what that keeps alive; and from that, what           *)
(* unload_plugin, the reload barrier and the lifecycle calls keep to.      *)
(***************************************************************************)
EXTENDS PluginDispatch, TLAPS

(***************************************************************************)
(* The inductive invariant, in four parts and the types.                   *)
(*                                                                         *)
(* The tracker of a module has exactly the calls that are inside it.       *)
(***************************************************************************)
StackInv ==
  \A t \in AllThreads :
    /\ cpc[t] = "run" <=> ctarget[t] = None
    /\ cpc[t] \in {"check", "enter"} => sp[t] < MaxDepth
    /\ \A i \in Depths : /\ frame[t][i] # None <=> i <= sp[t]
                         /\ \A m \in Modules : <<t, i>> \in entries[m] <=> frame[t][i] = m

(***************************************************************************)
(* Only the thread that holds the lifecycle lock is past taking it, and    *)
(* has a module where its call is about one.  A thread that asked for a    *)
(* lifecycle call is in no other call, and main calls no module.           *)
(***************************************************************************)
Working(t) == opc[t] \notin {"none", "lock"}
Unloading == {"close", "drain", "teardown"}
Loading == {"barrier", "reloadDrain", "loading", "starting", "purge"}
Passing == {"service", "bootStart", "post"}
Stopping == {"stop", "stopRetired"}

MayBeAt(what, pc) ==
  /\ pc = "none" <=> what \in {"none", "stopped"}
  /\ pc = "lock" => what # "stopRetired"
  /\ pc = "next" => what \in Passing \cup Stopping
  /\ pc \in {"barrier", "reloadDrain"} => what \in {"reload", "service"}
  /\ pc = "loading" => what \in {"load", "reload", "service", "bootStart"}
  /\ pc = "starting" => what \in {"load", "reload", "post"}
  /\ pc = "purge" => what \in {"load"} \cup Passing
  /\ pc \in Unloading => what \in {"remove", "load"} \cup Passing \cup Stopping

LockInv ==
  /\ \A t \in AllThreads :
       /\ life = t <=> Working(t)
       /\ MayBeAt(op[t], opc[t])
       /\ om[t] # None <=> \/ opc[t] \in Unloading \cup Loading
                           \/ opc[t] = "lock" /\ op[t] \in {"remove", "load", "reload"}
       /\ op[t] \in Stopping \cup {"stopped"} => t = Main
       /\ cpc[t] # "run" => opc[t] = "none" \/ Upcall(t)
  /\ op[Main] \in Stopping \cup {"none", "stopped"}
  /\ sp[Main] = 0 /\ cpc[Main] = "run"

(***************************************************************************)
(* What the lock's holder works on is in the list it took it from.         *)
(***************************************************************************)
Doing(ops) == life # None /\ op[life] \in ops
At(pcs) == life # None /\ opc[life] \in pcs
Subject == om[life]

ListInv ==
  /\ listed \cap retired = {}
  /\ life = None => todo = {} /\ broken = {}
  /\ At(Loading) \/ Doing({"remove"}) => Subject \in listed
  /\ Doing(Passing) => todo \subseteq listed /\ broken \ {Subject} \subseteq listed /\ (At({"purge"}) => todo = {})
  /\ Doing({"load"} \cup Passing) /\ At(Unloading) => Subject \notin listed \cup retired
  /\ Doing(Stopping) => commands = {} /\ broken = {} /\ (At(Unloading) => Subject \in todo)
  /\ Doing({"stop"}) => todo \subseteq listed
  /\ Doing({"stopRetired"}) => listed = {} /\ todo \subseteq retired

(***************************************************************************)
(* A module whose object is referred to is alive, and then it is mapped.   *)
(***************************************************************************)
AliveInv ==
  /\ alive \subseteq mapped /\ unloading \subseteq alive \cup unloaded
  /\ commands \subseteq listed
  /\ \A m \in Modules : Referenced(m) => m \in alive

CInv == TypeOK /\ StackInv /\ LockInv /\ ListInv /\ AliveInv

-----------------------------------------------------------------------------
(* The three kinds of steps *)

CallStep(t) == (\E m \in Modules : Lookup(t, m)) \/ Call(t) \/ Leave(t)
AskStep ==
  \/ \E t \in Threads, m \in Modules : AskRemove(t, m) \/ AskLoad(t, m)
  \/ \E t \in Threads, m \in Reloads, delayed \in BOOLEAN : Reload(t, m, delayed)
  \/ (\E m \in Reloads : RunPending(m)) \/ AskStop

\* The boot pass starts the modules listed and not loaded yet.
LEMMA BootStartsUnloaded == ToDo("bootStart") = listed \ (loaded \cup loading)
BY DEF ToDo

LEMMA Steps ==
  [Next]_vars => \/ UNCHANGED vars \/ AskStep \/ Stop
                 \/ \E t \in AllThreads : CallStep(t) \/ Lifecycle(t)
BY Zenon DEF Next, Request, CallStep, AskStep

CallFrame == <<listVars, opVars, coreVars, raced, reloading, started, leaked>>

\* A call changes no list, no lifecycle call and no barrier.
LEMMA CallsKeep ==
  ASSUME NEW t \in AllThreads, CallStep(t)
  PROVE  UNCHANGED CallFrame /\ (Destructors \/ UNCHANGED objVars)
BY Zenon DEF CallStep, Call, Lookup, CheckLoaded, Enter, Leave, FreeReply, CallFrame, listVars, opVars, coreVars,
   doorVars, objVars

AskFrame == <<objVars, doorVars, entries, listVars, callVars, base, life, todo, broken>>

\* Asking for a lifecycle call only notes what is asked for.
LEMMA AsksKeep ==
  ASSUME AskStep
  PROVE  /\ UNCHANGED AskFrame
         /\ \/ UNCHANGED <<op, opc, om>>
            \/ \E t \in AllThreads, m \in Modules \cup {None},
                  what \in {"remove", "load", "reload", "service", "stop"} :
                 /\ IF t = Main THEN op[t] = "none" ELSE opc[t] = "none" /\ cpc[t] = "run"
                 /\ what = "stop" <=> t = Main
                 /\ m = None <=> what \in {"service", "stop"}
                 /\ Ask(t, what, m)
<1> DEFINE Asked(t, what, m) ==
      /\ IF t = Main THEN op[t] = "none" ELSE opc[t] = "none" /\ cpc[t] = "run"
      /\ what = "stop" <=> t = Main
      /\ m = None <=> what \in {"service", "stop"}
      /\ Ask(t, what, m)
<1>1. ASSUME NEW t \in Threads, NEW m \in Modules, AskRemove(t, m) \/ AskLoad(t, m)
      PROVE  UNCHANGED AskFrame /\ (Asked(t, "remove", m) \/ Asked(t, "load", m))
  BY <1>1, ConstantsAssumption, Zenon DEF AskRemove, AskLoad, Ask, Idle, AskFrame, AllThreads
<1>2. ASSUME NEW t \in Threads, NEW m \in Reloads, NEW delayed \in BOOLEAN, Reload(t, m, delayed)
      PROVE  UNCHANGED AskFrame /\ (UNCHANGED <<op, opc, om>> \/ Asked(t, "service", m) \/ Asked(t, "reload", m))
  BY <1>2, ConstantsAssumption, Zenon DEF Reload, Ask, Idle, AskFrame, AllThreads, opVars
<1>3. ASSUME NEW m \in Reloads, RunPending(m)
      PROVE  UNCHANGED AskFrame /\ (Asked(Sched, "service", m) \/ Asked(Sched, "reload", m))
  BY <1>3, ConstantsAssumption, Zenon DEF RunPending, Ask, Idle, AskFrame, AllThreads
<1>4. ASSUME AskStop
      PROVE  UNCHANGED AskFrame /\ Asked(Main, "stop", None)
  BY <1>4, ConstantsAssumption, Zenon DEF AskStop, Ask, AskFrame, AllThreads
<1> QED
  BY <1>1, <1>2, <1>3, <1>4, ConstantsAssumption DEF AskStep, AllThreads

LEMMA WorkKeeps ==
  ASSUME Stop \/ \E t \in AllThreads : Lifecycle(t)
  PROVE  UNCHANGED <<callVars, entries>>
<1>1. Stop => UNCHANGED <<callVars, entries>>
  BY Zenon DEF Stop, StopPlugins, StopNext
<1>2. ASSUME NEW t \in AllThreads,
             Remove(t) \/ ReloadPlugin(t) \/ StartPlugins(t) \/ LoadActivePlugins(t) \/ LoadSinglePlugin(t)
      PROVE  UNCHANGED <<callVars, entries>>
  BY <1>2, Zenon DEF Remove, ReloadPlugin, StartPlugins, LoadActivePlugins, LoadSinglePlugin
<1>3. ASSUME NEW t \in AllThreads, UnloadClose(t) \/ UnloadTeardown(t) \/ UnloadRefused(t) \/ Unloaded(t) \/ Purge(t)
      PROVE  UNCHANGED <<callVars, entries>>
  BY <1>3, Zenon DEF UnloadClose, UnloadTeardown, UnloadRefused, Unloaded, Purge
<1>4. ASSUME NEW t \in AllThreads, NEW ok \in BOOLEAN, NEW threw \in BOOLEAN,
             ServiceNext(t) \/ Barrier(t) \/ ReloadBegin(t) \/ LoadReturns(t, ok, threw) \/ StartReturns(t, ok, threw)
      PROVE  UNCHANGED <<callVars, entries>>
  BY <1>4, Zenon DEF ServiceNext, Barrier, ReloadBegin, LoadReturns, StartReturns
<1> QED
  BY <1>1, <1>2, <1>3, <1>4, Zenon DEF Lifecycle

\* A lifecycle call leaves the core's queue alone, but for a reload that threw.
LEMMA WorkRequeues ==
  ASSUME NEW t \in AllThreads, Lifecycle(t)
  PROVE  /\ running' = running
         /\ \/ pending' = pending
            \/ opc[t] \in Loading /\ pending' = pending \cup {om[t]}
<1>1. CASE Remove(t) \/ ReloadPlugin(t) \/ StartPlugins(t) \/ LoadActivePlugins(t) \/ LoadSinglePlugin(t)
  BY <1>1, Zenon DEF Remove, ReloadPlugin, StartPlugins, LoadActivePlugins, LoadSinglePlugin, coreVars
<1>2. CASE UnloadClose(t) \/ UnloadTeardown(t) \/ UnloadRefused(t) \/ Unloaded(t) \/ Purge(t)
  BY <1>2, Zenon DEF UnloadClose, UnloadTeardown, UnloadRefused, Unloaded, Purge, coreVars
<1>3. CASE ServiceNext(t) \/ Barrier(t) \/ ReloadBegin(t)
  BY <1>3, Zenon DEF ServiceNext, Barrier, ReloadBegin, coreVars
<1>4. ASSUME NEW ok \in BOOLEAN, NEW threw \in BOOLEAN, LoadReturns(t, ok, threw) \/ StartReturns(t, ok, threw)
      PROVE  /\ running' = running
             /\ pending' = pending \/ (opc[t] \in Loading /\ pending' = pending \cup {om[t]})
  <2>1. opc[t] \in Loading /\ Requeue(t, threw)
    BY <1>4, Zenon DEF LoadReturns, StartReturns, Loading
  <2> QED
    BY <2>1, Zenon DEF Requeue
<1> QED
  BY <1>1, <1>2, <1>3, <1>4, Zenon DEF Lifecycle

-----------------------------------------------------------------------------
(* The lifecycle lock *)

\* The thread that works on a module holds the lock and is the only one to.
LEMMA AtWork ==
  ASSUME TypeOK, LockInv, NEW t \in AllThreads
  PROVE  /\ Working(t) => life = t /\ life # None
         /\ opc[t] \in Unloading \cup Loading => om[t] \in Modules
         /\ opc[t] = "lock" /\ op[t] \in {"remove", "load", "reload"} => om[t] \in Modules
BY ConstantsAssumption, Zenon DEF TypeOK, LifecycleTypes, LockInv

LEMMA LockStep ==
  ASSUME TypeOK, LockInv, [Next]_vars
  PROVE  LockInv'
<1>0. /\ op \in [AllThreads -> Ops] /\ opc \in [AllThreads -> Pcs] /\ om \in [AllThreads -> Modules \cup {None}]
      /\ life \in AllThreads \cup {None} /\ Main \in AllThreads
      /\ cpc \in [AllThreads -> {"run", "check", "enter", "free"}] /\ sp \in [AllThreads -> 0..MaxDepth]
  BY Zenon DEF TypeOK, LifecycleTypes, CallTypes, AllThreads
<1>1. ASSUME NEW t \in AllThreads, CallStep(t) PROVE LockInv'
  <2>1. UNCHANGED <<op, opc, om, life>>
    BY <1>1, CallsKeep, Zenon DEF CallFrame, opVars
  <2>2. /\ \A u \in AllThreads : cpc'[u] # "run" => cpc[u] # "run" \/ (u = t /\ (opc[t] = "none" \/ Upcall(t)))
        /\ t # Main
        /\ \A u \in AllThreads : u # t => cpc'[u] = cpc[u] /\ sp'[u] = sp[u]
    <3>2. CASE \E m \in Modules : Lookup(t, m)
      BY <1>0, <3>2, ConstantsAssumption, Zenon DEF Lookup, Executing, LockInv, MayBeAt, Upcall, Stopping, AllThreads
    <3>3. CASE Call(t)
      BY <1>0, <3>3, Zenon DEF Call, CheckLoaded, Enter, FreeReply, CallDone, LockInv
    <3>4. CASE Leave(t)
      BY <1>0, <3>4, ConstantsAssumption DEF Leave, Executing, LockInv, Floor, TypeOK, LifecycleTypes
    <3> QED
      BY <1>1, <3>2, <3>3, <3>4, Zenon DEF CallStep
  <2> QED
    BY <1>0, <2>1, <2>2, Zenon DEF LockInv, Working, Upcall
<1>2. CASE UNCHANGED vars
  BY <1>2, Zenon DEF LockInv, Working, Upcall, vars, opVars, callVars
<1>3. CASE AskStep
  BY <1>0, <1>3, AsksKeep, ConstantsAssumption DEF AskFrame, callVars, Ask, LockInv, MayBeAt, Working, Upcall,
     Unloading, Loading, Passing, Stopping
<1>4. CASE Stop
  BY <1>0, <1>4, WorkKeeps, ConstantsAssumption DEF Stop, StopPlugins, StopNext, callVars, LockInv, MayBeAt,
     Working, Upcall,
     Unloading, Loading, Passing, Stopping, TypeOK, ListTypes
<1>5. ASSUME NEW t \in AllThreads, Lifecycle(t) PROVE LockInv'
  <2>0. UNCHANGED <<sp, cpc>>
    BY <1>5, WorkKeeps, Zenon DEF callVars
  <2> USE <1>0, <2>0, ConstantsAssumption
      DEF LockInv, MayBeAt, Working, Upcall, Unloading, Loading, Passing, Stopping, EndOp, NextOrEnd, PassNext,
         CallInto, Pcs
  <2>1. CASE Remove(t) \/ ReloadPlugin(t)
    BY <2>1 DEF Remove, ReloadPlugin
  <2>2. CASE StartPlugins(t) \/ LoadActivePlugins(t)
    BY <2>2 DEF StartPlugins, LoadActivePlugins
  <2>3. CASE LoadSinglePlugin(t)
    BY <2>3 DEF LoadSinglePlugin
  <2>4. CASE UnloadClose(t) \/ UnloadTeardown(t) \/ Barrier(t) \/ ReloadBegin(t)
    BY <2>4 DEF UnloadClose, UnloadTeardown, Barrier, ReloadBegin
  <2>5. CASE UnloadRefused(t) \/ Unloaded(t)
    BY <2>5 DEF UnloadRefused, Unloaded
  <2>6. CASE Purge(t)
    BY <2>6 DEF Purge
  <2>7. CASE ServiceNext(t)
    BY <2>7 DEF ServiceNext, Passes, TypeOK, ListTypes
  <2>8. ASSUME NEW ok \in BOOLEAN, NEW threw \in BOOLEAN, LoadReturns(t, ok, threw) PROVE LockInv'
    BY <2>8 DEF LoadReturns
  <2>9. ASSUME NEW ok \in BOOLEAN, NEW threw \in BOOLEAN, StartReturns(t, ok, threw) PROVE LockInv'
    BY <2>9 DEF StartReturns
  <2> QED
    BY <1>5, <2>1, <2>2, <2>3, <2>4, <2>5, <2>6, <2>7, <2>8, <2>9, Zenon DEF Lifecycle
<1> QED
  BY <1>1, <1>2, <1>3, <1>4, <1>5, Steps, Zenon

Quiet == UNCHANGED vars \/ AskStep \/ \E t \in AllThreads : CallStep(t)

\* Whoever calls a module or asks for a lifecycle call leaves the one at work alone.
LEMMA QuietSteps ==
  ASSUME TypeOK, LockInv, Quiet
  PROVE  /\ UNCHANGED <<listVars, life, todo, broken, reloading, raced, started>>
         /\ life # None => op'[life] = op[life] /\ opc'[life] = opc[life] /\ om'[life] = om[life]
<1>1. ASSUME NEW t \in AllThreads, CallStep(t)
      PROVE  UNCHANGED <<listVars, life, todo, broken, reloading, raced, started, op, opc, om>>
  BY <1>1, CallsKeep, Zenon DEF CallFrame, opVars
<1>2. CASE UNCHANGED vars
  BY <1>2, Zenon DEF vars, opVars, doorVars
<1>3. CASE AskStep
  <2>1. UNCHANGED <<listVars, life, todo, broken, reloading, raced, started>>
    BY <1>3, AsksKeep, Zenon DEF AskFrame, doorVars
  <2>2. ASSUME NEW t \in AllThreads, NEW what, NEW m, Ask(t, what, m), opc[t] = "none" \/ op[t] = "none", life # None
        PROVE  op'[life] = op[life] /\ opc'[life] = opc[life] /\ om'[life] = om[life]
    <3>1. life # t
      BY <2>2, Zenon DEF LockInv, MayBeAt, Working
    <3> QED
      BY <2>2, <3>1, Zenon DEF Ask, TypeOK, LifecycleTypes
  <2> QED
    BY <1>3, <2>1, <2>2, AsksKeep, Zenon
<1> QED
  BY <1>1, <1>2, <1>3, Zenon DEF Quiet

LEMMA ListStep ==
  ASSUME TypeOK, LockInv, ListInv, AliveInv, [Next]_vars
  PROVE  ListInv'
<1>0. /\ op \in [AllThreads -> Ops] /\ opc \in [AllThreads -> Pcs] /\ om \in [AllThreads -> Modules \cup {None}]
      /\ life \in AllThreads \cup {None} /\ Main \in AllThreads
  BY Zenon DEF TypeOK, LifecycleTypes, AllThreads
<1>1. CASE Quiet
  BY <1>1, QuietSteps, Zenon DEF listVars, ListInv, At, Doing, Subject
<1>2. CASE Stop
  <2>1. opc[Main] # "lock" => life = Main
    BY <1>0, <1>2, Zenon DEF Stop, StopPlugins, StopNext, LockInv, Working
  <2> QED
    BY <1>0, <1>2, <2>1, ConstantsAssumption DEF Stop, StopPlugins, StopNext, LockInv, ListInv, At, Doing, Subject,
       Unloading, Loading, Passing, Stopping
<1>3. ASSUME NEW t \in AllThreads, Lifecycle(t) PROVE ListInv'
  <2>1. Working(t) => life = t /\ life # None
    BY AtWork, Zenon
  <2>6. CASE UnloadClose(t) \/ UnloadTeardown(t) \/ Barrier(t) \/ ReloadBegin(t)
    <3>1. UNCHANGED <<op, om, life, todo, broken, listed, retired, commands>> /\ life = t /\ life # None
      BY <2>1, <2>6, Zenon DEF UnloadClose, UnloadTeardown, Barrier, ReloadBegin, listVars, Working
    <3>2. /\ opc'[t] # "purge"
          /\ opc'[t] \in Unloading => opc[t] \in Unloading
          /\ opc'[t] \in Loading => opc[t] \in Loading
      BY <1>0, <2>6, Zenon DEF UnloadClose, UnloadTeardown, Barrier, ReloadBegin, Unloading, Loading
    <3> QED
      BY <3>1, <3>2, Zenon DEF ListInv, At, Doing, Subject
  <2>7. CASE UnloadRefused(t)
    <3>1. UNCHANGED <<listed, retired, commands>> /\ life = t /\ life # None
      BY <2>1, <2>7, Zenon DEF UnloadRefused, listVars, Working
    <3>2. \/ life' = None /\ todo' = {} /\ broken' = {}
          \/ /\ life' = t /\ op'[t] = op[t] /\ opc'[t] = "next"
             /\ todo' = todo \ {om[t]} /\ broken' = broken \ {om[t]}
      BY <1>0, <2>7, <3>1, Zenon DEF UnloadRefused, NextOrEnd, EndOp
    <3>3. op[t] # "remove" \/ life' = None
      BY <2>7, Zenon DEF UnloadRefused, NextOrEnd, EndOp
    <3> QED
      BY <3>1, <3>2, <3>3, Zenon DEF ListInv, At, Doing, Subject, Unloading, Loading
  <2>10. CASE ServiceNext(t)
    <3>1. /\ UNCHANGED <<listed, retired, commands>> /\ life = t /\ life # None /\ opc[t] = "next"
          /\ op[t] \in Passing
      BY <2>1, <2>10, Zenon DEF ServiceNext, listVars, Working, Passing
    <3>2. om[t] \notin Modules /\ todo \subseteq Modules /\ broken \subseteq Modules
      BY <3>1, ConstantsAssumption, Zenon DEF LockInv, Unloading, Loading, TypeOK, ListTypes
    <3>3. todo \subseteq listed /\ broken \subseteq listed
      BY <3>1, <3>2, Zenon DEF ListInv, Doing, Subject
    <3>4. \/ life' = None /\ todo' = {} /\ broken' = {}
          \/ /\ life' = t /\ op'[t] = op[t] /\ todo' = todo /\ broken' = broken
             /\ om'[t] \in todo \cup broken /\ opc'[t] \in Loading /\ (opc'[t] = "purge" => todo = {})
      <4>1. CASE \E m \in todo : om' = [om EXCEPT ![t] = m]
        BY <1>0, <2>10, <3>1, <4>1, Zenon DEF ServiceNext, CallInto, EndOp, Loading
      <4>2. CASE todo = {} /\ \E m \in broken : om' = [om EXCEPT ![t] = m]
        BY <1>0, <2>10, <3>1, <4>2, Zenon DEF ServiceNext, Loading
      <4>3. CASE todo \cup broken = {}
        BY <2>10, <4>3, Zenon DEF ServiceNext, EndOp
      <4> QED
        BY <2>10, <4>1, <4>2, <4>3, Zenon DEF ServiceNext
    <3>5. CASE life' = None
      BY <3>1, <3>4, <3>5, Zenon DEF ListInv, At, Doing
    <3>6. CASE life' # None
      <4>1. opc'[t] \notin Unloading /\ op'[t] \notin {"remove", "load"} \cup Stopping
        BY <3>1, <3>4, <3>6, Zenon DEF Unloading, Loading, Passing, Stopping
      <4> QED
        BY <3>1, <3>3, <3>4, <3>6, <4>1, Zenon DEF ListInv, At, Doing, Subject, Stopping
    <3> QED
      BY <3>5, <3>6, Zenon
  <2>11. ASSUME NEW ok \in BOOLEAN, NEW threw \in BOOLEAN, LoadReturns(t, ok, threw) PROVE ListInv'
    <3>1. UNCHANGED <<listed, retired, commands>> /\ life = t /\ life # None /\ opc[t] = "loading"
      BY <2>1, <2>11, Zenon DEF LoadReturns, listVars, Working
    <3>2. om[t] \in listed /\ op[t] \notin Stopping
      BY <3>1, Zenon DEF ListInv, At, Subject, Loading, LockInv, MayBeAt, Stopping
    <3>3. \/ life' = None /\ todo' = {} /\ broken' = {}
          \/ /\ life' = t /\ op'[t] = op[t] /\ om'[t] = om[t] /\ todo' = todo /\ broken' = broken
             /\ opc'[t] = "starting" \/ (opc'[t] = "purge" /\ op[t] = "load")
          \/ /\ life' = t /\ op'[t] = op[t] /\ opc'[t] = "next" /\ op[t] \in Passing
             /\ todo' \subseteq todo /\ broken' \subseteq broken \cup {om[t]}
      BY <1>0, <2>11, <3>1, Zenon DEF LoadReturns, CallInto, EndOp, PassNext, Passing
    <3>4. CASE life' = None
      BY <3>1, <3>3, <3>4, Zenon DEF ListInv, At, Doing
    <3>5. CASE life' # None
      <4>1. opc'[t] \notin Unloading /\ op'[t] \notin Stopping /\ (op[t] = "load" => op[t] \notin Passing)
        BY <3>2, <3>3, <3>5, Zenon DEF Unloading, Passing
      <4>2. Doing({"remove"})' => om'[t] \in listed
        BY <3>2, <3>3, <3>5, Zenon DEF Doing, Passing
      <4>3. Doing(Passing)' => todo' \subseteq listed /\ broken' \ {om'[t]} \subseteq listed /\ opc'[t] # "purge"
        BY <3>1, <3>2, <3>3, <3>5, <4>1, Zenon DEF ListInv, Doing, Subject
      <4>4. opc'[t] \in Loading => om'[t] \in listed
        BY <3>2, <3>3, <3>5, Zenon DEF Loading
      <4> QED
        BY <3>1, <3>3, <3>5, <4>1, <4>2, <4>3, <4>4, Zenon DEF ListInv, At, Doing, Subject, Stopping
    <3> QED
      BY <3>4, <3>5, Zenon
  <2> USE <1>0, <2>1, ConstantsAssumption
      DEF ListInv, At, Doing, Subject, Working, Unloading, Loading, Passing, Stopping, EndOp, NextOrEnd, PassNext,
         CallInto,
          listVars, MayBeAt, LockInv
  <2>2. CASE Remove(t) \/ ReloadPlugin(t)
    BY <2>2, Zenon DEF Remove, ReloadPlugin
  <2>3. CASE StartPlugins(t)
    BY <2>3 DEF StartPlugins, ToDo
  <2>4. CASE LoadActivePlugins(t)
    BY <2>4 DEF LoadActivePlugins, AddPlugins, AliveInv, Referenced
  <2>5. CASE LoadSinglePlugin(t)
    BY <2>5 DEF LoadSinglePlugin, AddPlugins, AliveInv, Referenced
  <2>8. CASE Unloaded(t)
    BY <2>8 DEF Unloaded
  <2>9. CASE Purge(t)
    BY <2>9 DEF Purge
  <2>12. ASSUME NEW ok \in BOOLEAN, NEW threw \in BOOLEAN, StartReturns(t, ok, threw) PROVE ListInv'
    BY <2>12 DEF StartReturns
  <2> QED
    BY <1>3, <2>2, <2>3, <2>4, <2>5, <2>6, <2>7, <2>8, <2>9, <2>10, <2>11, <2>12, Zenon DEF Lifecycle
<1> QED
  BY <1>1, <1>2, <1>3, Steps, Zenon DEF Quiet

-----------------------------------------------------------------------------
(* The types *)

LEMMA ObjectTypesStep ==
  ASSUME TypeOK, LockInv, [Next]_vars
  PROVE  ObjectTypes'
<1> USE DEF ObjectTypes, Destructors
<1>1. ASSUME NEW t \in AllThreads, CallStep(t) PROVE ObjectTypes'
  <2>1. early' \in [Modules -> SUBSET AllThreads]
    <3>1. CASE Leave(t)
      BY <3>1, Zenon DEF TypeOK, Leave
    <3>2. CASE (\E m \in Modules : Lookup(t, m)) \/ Call(t)
      BY <3>2, Zenon DEF TypeOK, Call, Lookup, CheckLoaded, Enter, FreeReply, doorVars
    <3> QED
      BY <1>1, <3>1, <3>2, Zenon DEF CallStep
  <2> QED
    BY <1>1, <2>1, CallsKeep, Zenon DEF TypeOK, CallFrame, objVars
<1>2. CASE AskStep \/ UNCHANGED vars
  BY <1>2, AsksKeep, Zenon DEF TypeOK, AskFrame, objVars, doorVars, vars
<1>3. CASE Stop
  BY <1>3, Zenon DEF TypeOK, Stop, StopPlugins, StopNext, objVars, doorVars
<1>4. ASSUME NEW t \in AllThreads, Lifecycle(t) PROVE ObjectTypes'
  <2>9. \A m : Tracked(m) \in SUBSET AllThreads /\ {} \in SUBSET AllThreads
    BY Zenon DEF Tracked
  <2> USE DEF objVars, doorVars
  <2>1. CASE Remove(t) \/ ReloadPlugin(t) \/ StartPlugins(t)
    BY <2>1, Zenon DEF TypeOK, Remove, ReloadPlugin, StartPlugins
  <2>2. CASE LoadActivePlugins(t) \/ LoadSinglePlugin(t)
    <3>1. UNCHANGED <<loaded, unloading, unloaded, leaked, raced, reloading, early, started>>
      BY <2>2, Zenon DEF LoadActivePlugins, LoadSinglePlugin
    <3>2. \E new \in SUBSET Modules :
            /\ alive' \subseteq alive \cup new /\ mapped' \subseteq mapped \cup new
            /\ loading' \subseteq loading \cup new
      <4>1. CASE LoadActivePlugins(t)
        BY <4>1, Zenon DEF LoadActivePlugins, AddPlugins
      <4>2. CASE LoadSinglePlugin(t)
        <5>1. {om[t]} \in SUBSET Modules
          BY <4>2, AtWork, Zenon DEF LoadSinglePlugin
        <5>2. /\ alive' \subseteq alive \cup {om[t]} /\ mapped' \subseteq mapped \cup {om[t]}
              /\ loading' \subseteq loading \cup {om[t]}
          BY <4>2, Zenon DEF LoadSinglePlugin, AddPlugins
        <5> QED
          BY <5>1, <5>2, Zenon
      <4> QED
        BY <2>2, <4>1, <4>2, Zenon
    <3> QED
      BY <3>1, <3>2, Zenon DEF TypeOK
  <2>3. CASE UnloadClose(t) \/ UnloadTeardown(t)
    <3>1. om[t] \in Modules
      BY <2>3, AtWork, Zenon DEF UnloadClose, UnloadTeardown, Unloading
    <3>2. /\ unloading' \subseteq unloading \cup {om[t]} /\ unloaded' \subseteq unloaded \cup {om[t]}
          /\ loaded' \subseteq loaded /\ loading' \subseteq loading
          /\ UNCHANGED <<alive, mapped, started, leaked, raced, reloading>>
      BY <2>3, Zenon DEF UnloadClose, UnloadTeardown
    <3>3. early' \in [Modules -> SUBSET AllThreads]
      <4>1. PICK cutoff \in SUBSET AllThreads : early' = [early EXCEPT ![om[t]] = cutoff]
        BY <2>9, <2>3, Zenon DEF UnloadClose, UnloadTeardown
      <4>2. early \in [Modules -> SUBSET AllThreads]
        BY Zenon DEF TypeOK
      <4> QED
        BY <4>1, <4>2, Zenon
    <3> QED
      BY <3>1, <3>2, <3>3, Zenon DEF TypeOK
  <2>4. CASE UnloadRefused(t) \/ Unloaded(t) \/ Purge(t)
    <3>1. CASE Purge(t)
      BY <3>1, Zenon DEF TypeOK, Purge
    <3>2. CASE Unloaded(t)
      <4>1. /\ alive' \subseteq alive /\ mapped' \subseteq mapped /\ loaded' \subseteq loaded
            /\ loading' \subseteq loading
            /\ unloading' \subseteq unloading \cup alive /\ unloaded' \subseteq unloaded \cup alive
            /\ UNCHANGED <<leaked, raced, reloading, early, started>>
        BY <3>2, Zenon DEF Unloaded
      <4> QED
        BY <4>1, Zenon DEF TypeOK
    <3>3. CASE UnloadRefused(t)
      <4>1. om[t] \in Modules
        BY <3>3, AtWork, Zenon DEF UnloadRefused, Unloading
      <4>2. /\ unloading' \subseteq unloading /\ leaked' = leaked \cup {om[t]}
            /\ early' = [early EXCEPT ![om[t]] = {}]
            /\ UNCHANGED <<alive, mapped, loaded, loading, unloaded, raced, reloading, started>>
        BY <3>3, Zenon DEF UnloadRefused
      <4>3. early' \in [Modules -> SUBSET AllThreads]
        BY <2>9, <4>2, Zenon DEF TypeOK
      <4> QED
        BY <4>1, <4>2, <4>3, Zenon DEF TypeOK
    <3> QED
      BY <2>4, <3>1, <3>2, <3>3, Zenon
  <2>5. CASE ServiceNext(t)
    BY <2>5, Zenon DEF TypeOK, ListTypes, ServiceNext
  <2>6. CASE Barrier(t) \/ ReloadBegin(t)
    <3>1. om[t] \in Modules
      BY <2>6, AtWork, Zenon DEF Barrier, ReloadBegin, Loading
    <3>2. /\ raced' \subseteq raced \cup {om[t]} /\ loading' \subseteq loading \cup {om[t]}
          /\ UNCHANGED <<alive, mapped, loaded, started, unloading, unloaded, leaked>>
      BY <2>6, Zenon DEF Barrier, ReloadBegin
    <3>3. early' \in [Modules -> SUBSET AllThreads]
      <4>1. PICK cutoff \in SUBSET AllThreads : early' = [early EXCEPT ![om[t]] = cutoff]
        BY <2>9, <2>6, Zenon DEF Barrier, ReloadBegin
      <4>2. early \in [Modules -> SUBSET AllThreads]
        BY Zenon DEF TypeOK
      <4> QED
        BY <4>1, <4>2, Zenon
    <3>4. reloading' \in [Modules -> AllThreads \cup {None}]
      <4>1. reloading' = [reloading EXCEPT ![om[t]] = t] \/ reloading' = reloading
        BY <2>6, Zenon DEF Barrier, ReloadBegin
      <4> QED
        BY <4>1, Zenon DEF TypeOK, ObjectTypes
    <3> QED
      BY <3>1, <3>2, <3>3, <3>4, Zenon DEF TypeOK
  <2>7. ASSUME NEW ok \in BOOLEAN, NEW threw \in BOOLEAN, LoadReturns(t, ok, threw) PROVE ObjectTypes'
    <3>1. om[t] \in Modules
      BY <2>7, AtWork, Zenon DEF LoadReturns, Loading
    <3>2. /\ loaded' \subseteq loaded \cup {om[t]} /\ loading' \subseteq loading /\ started' \subseteq started
          /\ raced' \subseteq raced /\ UNCHANGED <<alive, mapped, unloading, unloaded, leaked, early>>
      BY <2>7, Zenon DEF LoadReturns
    <3>3. reloading' \in [Modules -> AllThreads \cup {None}]
      <4>1. reloading' = [reloading EXCEPT ![om[t]] = None]
        BY <2>7, Zenon DEF LoadReturns
      <4> QED
        BY <4>1, Zenon DEF TypeOK, ObjectTypes
    <3> QED
      BY <3>1, <3>2, <3>3, Zenon DEF TypeOK
  <2>8. ASSUME NEW ok \in BOOLEAN, NEW threw \in BOOLEAN, StartReturns(t, ok, threw) PROVE ObjectTypes'
    BY <2>8, AtWork, Zenon DEF TypeOK, StartReturns, Loading
  <2> QED
    BY <1>4, <2>1, <2>2, <2>3, <2>4, <2>5, <2>6, <2>7, <2>8, Zenon DEF Lifecycle
<1> QED
  BY <1>1, <1>2, <1>3, <1>4, Steps, Zenon

LEMMA ListTypesStep ==
  ASSUME TypeOK, LockInv, [Next]_vars
  PROVE  ListTypes'
<1> USE DEF ListTypes
<1>1. ASSUME NEW t \in AllThreads, CallStep(t) PROVE ListTypes'
  BY <1>1, CallsKeep, Zenon DEF TypeOK, CallFrame, opVars, listVars, coreVars
<1>2. CASE UNCHANGED vars
  BY <1>2, Zenon DEF TypeOK, vars, opVars, listVars, coreVars
<1>3. CASE AskStep
  <2>1. running' \in BOOLEAN /\ pending' \subseteq Modules \cup {None}
    BY <1>3, ConstantsAssumption, Zenon DEF TypeOK, AskStep, AskRemove, AskLoad, Reload, RunPending, AskStop, coreVars
  <2> QED
    BY <1>3, <2>1, AsksKeep, Zenon DEF TypeOK, AskFrame, listVars
<1>4. CASE Stop
  BY <1>4, Zenon DEF TypeOK, Stop, StopPlugins, StopNext, coreVars
<1>5. ASSUME NEW t \in AllThreads, Lifecycle(t) PROVE ListTypes'
  <2>0. running' \in BOOLEAN /\ pending' \subseteq Modules \cup {None}
    BY <1>5, WorkRequeues, AtWork, Zenon DEF TypeOK
  <2> USE DEF TypeOK, EndOp, NextOrEnd, PassNext, listVars
  <2>1. CASE Remove(t) \/ ReloadPlugin(t) \/ StartPlugins(t)
    <3>1. UNCHANGED <<listed, retired, abandoned, commands, half>> /\ (broken' = broken \/ broken' = {})
      BY <2>1, Zenon DEF Remove, ReloadPlugin, StartPlugins, EndOp, listVars
    <3>2. todo' = todo \/ todo' = {} \/ \E pass \in {"service", "bootStart", "post"} : todo' = ToDo(pass)
      BY <2>1, Zenon DEF Remove, ReloadPlugin, StartPlugins, EndOp
    <3>3. todo' \subseteq Modules
      BY <3>2 DEF ToDo
    <3> QED
      BY <2>0, <3>1, <3>3, Zenon
  <2>2. CASE LoadActivePlugins(t)
    BY <2>0, <2>2, Zenon DEF LoadActivePlugins, AddPlugins
  <2>3. CASE LoadSinglePlugin(t)
    <3>1. om[t] \in Modules
      BY <2>3, AtWork, Zenon DEF LoadSinglePlugin
    <3> QED
      BY <2>0, <2>3, <3>1, Zenon DEF LoadSinglePlugin, AddPlugins
  <2>4. CASE UnloadClose(t) \/ UnloadTeardown(t) \/ Barrier(t) \/ ReloadBegin(t) \/ ServiceNext(t)
    BY <2>0, <2>4, Zenon DEF UnloadClose, UnloadTeardown, Barrier, ReloadBegin, ServiceNext
  <2>5. CASE UnloadRefused(t) \/ Unloaded(t) \/ Purge(t)
    BY <2>0, <2>5, AtWork, Zenon DEF UnloadRefused, Unloaded, Purge, Loading
  <2>6. ASSUME NEW ok \in BOOLEAN, NEW threw \in BOOLEAN, LoadReturns(t, ok, threw) \/ StartReturns(t, ok, threw)
        PROVE  ListTypes'
    BY <2>0, <2>6, AtWork, Zenon DEF LoadReturns, StartReturns, Loading
  <2> QED
    BY <1>5, <2>1, <2>2, <2>3, <2>4, <2>5, <2>6, Zenon DEF Lifecycle
<1> QED
  BY <1>1, <1>2, <1>3, <1>4, <1>5, Steps, Zenon

\* The service reload reads the settings' modules after it has reloaded its
\* own, and starts the modules last.
LEMMA PassesInTurn ==
  Passes["service"] = "boot" /\ Passes["bootStart"] = "post"
BY DEF Passes

LEMMA LifecycleTypesStep ==
  ASSUME TypeOK, LockInv, [Next]_vars
  PROVE  LifecycleTypes'
<1> USE DEF LifecycleTypes
<1>1. ASSUME NEW t \in AllThreads, CallStep(t) PROVE LifecycleTypes'
  BY <1>1, CallsKeep, Zenon DEF TypeOK, CallFrame, opVars
<1>2. CASE UNCHANGED vars
  BY <1>2, Zenon DEF TypeOK, vars, opVars
<1>3. CASE AskStep
  BY <1>3, AsksKeep DEF TypeOK, AskFrame, Ask, Ops, Pcs
<1>4. CASE Stop
  BY <1>4 DEF TypeOK, ListTypes, Stop, StopPlugins, StopNext, AllThreads, Ops, Pcs
<1>5. ASSUME NEW t \in AllThreads, Lifecycle(t) PROVE LifecycleTypes'
  <2>0. /\ op \in [AllThreads -> Ops] /\ opc \in [AllThreads -> Pcs] /\ om \in [AllThreads -> Modules \cup {None}]
        /\ life \in AllThreads \cup {None} /\ base \in 0..MaxDepth /\ 0 \in 0..MaxDepth /\ sp[t] \in 0..MaxDepth
        /\ todo \subseteq Modules /\ broken \subseteq Modules
    BY ConstantsAssumption DEF TypeOK, CallTypes, ListTypes
  <2> USE <2>0 DEF EndOp, NextOrEnd, PassNext, CallInto, Ops, Pcs
  <2>1. CASE Remove(t) \/ ReloadPlugin(t) \/ StartPlugins(t)
    BY <2>1, Zenon DEF Remove, ReloadPlugin, StartPlugins
  <2>2. CASE LoadActivePlugins(t) \/ LoadSinglePlugin(t)
    BY <2>2, Zenon DEF LoadActivePlugins, LoadSinglePlugin
  <2>3. CASE UnloadClose(t) \/ UnloadTeardown(t) \/ Barrier(t) \/ ReloadBegin(t)
    BY <2>3, Zenon DEF UnloadClose, UnloadTeardown, Barrier, ReloadBegin
  <2>4. CASE UnloadRefused(t) \/ Unloaded(t)
    BY <2>4, Zenon DEF UnloadRefused, Unloaded
  <2>5. CASE Purge(t)
    BY <2>5, Zenon DEF Purge
  <2>6. CASE ServiceNext(t)
    <3>1. /\ todo' \subseteq todo /\ broken' \subseteq broken /\ base' \in {base, sp[t], 0} /\ life' \in {life, None}
      BY <2>6, Zenon DEF ServiceNext
    <3>2. om' \in [AllThreads -> Modules \cup {None}]
      <4>1. \/ om' = om \/ om' = [om EXCEPT ![t] = None]
            \/ \E m \in todo \cup broken : om' = [om EXCEPT ![t] = m]
        BY <2>6, Zenon DEF ServiceNext
      <4> QED
        BY <4>1, Zenon
    <3>3. opc' \in [AllThreads -> Pcs]
      <4>1. \E pc \in {"barrier", "loading", "starting", "purge", "lock", "none"} : opc' = [opc EXCEPT ![t] = pc]
        BY <2>6, Zenon DEF ServiceNext
      <4> QED
        BY <4>1, Zenon
    <3>4. op' \in [AllThreads -> Ops]
      <4>1. op' = op \/ \E pass \in {"boot", "post", "none"} : op' = [op EXCEPT ![t] = pass]
        BY <2>6, PassesInTurn, Zenon DEF ServiceNext
      <4> QED
        BY <4>1, Zenon
    <3> QED
      BY <3>1, <3>2, <3>3, <3>4, Zenon
  <2>7. ASSUME NEW ok \in BOOLEAN, NEW threw \in BOOLEAN, LoadReturns(t, ok, threw) \/ StartReturns(t, ok, threw)
        PROVE  LifecycleTypes'
    BY <2>7, Zenon DEF LoadReturns, StartReturns
  <2> QED
    BY <1>5, <2>1, <2>2, <2>3, <2>4, <2>5, <2>6, <2>7, Zenon DEF Lifecycle
<1> QED
  BY <1>1, <1>2, <1>3, <1>4, <1>5, Steps, Zenon

LEMMA CallTypesStep ==
  ASSUME TypeOK, StackInv, [Next]_vars
  PROVE  CallTypes'
<1> USE DEF CallTypes
<1>1. ASSUME NEW t \in AllThreads, CallStep(t) PROVE CallTypes'
  <2> USE DEF CallDone
  <2>1. CASE (\E m \in Modules : Lookup(t, m)) \/ CheckLoaded(t) \/ FreeReply(t)
    BY <2>1, Zenon DEF TypeOK, Lookup, CheckLoaded, FreeReply
  <2>2. CASE Enter(t)
    <3>1. ctarget[t] \in Modules /\ sp[t] \in Nat /\ sp[t] + 1 \in Depths /\ sp[t] + 1 \in 0..MaxDepth
      <4>1. cpc[t] = "enter" /\ ctarget[t] \in Modules \cup {None} /\ sp[t] \in 0..MaxDepth
        BY <2>2, Zenon DEF TypeOK, Enter
      <4>2. ctarget[t] # None /\ sp[t] < MaxDepth
        BY <4>1, Zenon DEF StackInv
      <4> HIDE DEF CallTypes
      <4> QED
        BY <4>1, <4>2, ConstantsAssumption DEF Depths
    <3>2. sp' \in [AllThreads -> 0..MaxDepth]
      BY <2>2, <3>1, Zenon DEF TypeOK, Enter
    <3>3. frame' \in [AllThreads -> [Depths -> Modules \cup {None}]]
      <4>1. frame \in [AllThreads -> [Depths -> Modules \cup {None}]]
        BY Zenon DEF TypeOK
      <4>2. frame' = [frame EXCEPT ![t] = [frame[t] EXCEPT ![sp[t] + 1] = ctarget[t]]] \/ frame' = frame
        BY <2>2, <4>1, Zenon DEF Enter
      <4>3. [frame[t] EXCEPT ![sp[t] + 1] = ctarget[t]] \in [Depths -> Modules \cup {None}]
        BY <3>1, <4>1, Zenon
      <4> HIDE DEF CallTypes
      <4> QED
        BY <4>1, <4>2, <4>3, Zenon
    <3>5. cpc' \in [AllThreads -> {"run", "check", "enter", "free"}] /\ ctarget' \in [AllThreads -> Modules \cup {None}]
      BY <2>2, Zenon DEF TypeOK, Enter
    <3>4. entries' \in [Modules -> SUBSET (AllThreads \X Depths)]
      <4>1. entries \in [Modules -> SUBSET (AllThreads \X Depths)]
        BY Zenon DEF TypeOK
      <4>2. entries[ctarget[t]] \cup {<<t, sp[t] + 1>>} \in SUBSET (AllThreads \X Depths)
        BY <3>1, <4>1
      <4>3. \/ entries' = [entries EXCEPT ![ctarget[t]] = entries[ctarget[t]] \cup {<<t, sp[t] + 1>>}]
            \/ entries' = entries
        BY <2>2, Zenon DEF Enter
      <4> HIDE DEF CallTypes
      <4> QED
        BY <4>1, <4>2, <4>3, Zenon
    <3> QED
      BY <3>2, <3>3, <3>4, <3>5, Zenon
  <2>3. CASE Leave(t)
    <3>1. sp[t] \in Depths
      BY <2>3, ConstantsAssumption DEF TypeOK, LifecycleTypes, Leave, Floor, Depths
    <3>2. entries' \in [Modules -> SUBSET (AllThreads \X Depths)]
      BY <2>3, <3>1, Zenon DEF TypeOK, Leave
    <3> QED
      BY <2>3, <3>1, <3>2, ConstantsAssumption, SMTT(30) DEF TypeOK, Leave, Depths
  <2> QED
    BY <1>1, <2>1, <2>2, <2>3, Zenon DEF CallStep, Call
<1>2. CASE AskStep \/ UNCHANGED vars
  BY <1>2, AsksKeep, Zenon DEF TypeOK, AskFrame, callVars, vars
<1>3. CASE Stop \/ \E t \in AllThreads : Lifecycle(t)
  BY <1>3, WorkKeeps, Zenon DEF TypeOK, callVars
<1> QED
  BY <1>1, <1>2, <1>3, Steps, Zenon

-----------------------------------------------------------------------------
(* The calls inside a module *)

\* in_flight counts a thread as inside a module exactly while one of its calls is.
LEMMA InsideIsTracked ==
  ASSUME StackInv, NEW m \in Modules
  PROVE  InsideOf(m) = Tracked(m)
<1>1. \A t \in AllThreads, i \in Depths : <<t, i>> \in entries[m] <=> frame[t][i] = m
  BY Zenon DEF StackInv
<1> QED
  BY <1>1, Zenon DEF InsideOf, Tracked

\* in_flight::enter puts one more call on the thread's stack.
LEMMA EnterPushes ==
  ASSUME TypeOK, StackInv, NEW t \in AllThreads, Enter(t), DoorIsOpen(t, ctarget[t])
  PROVE  /\ ctarget[t] \in Modules /\ sp[t] \in Nat /\ sp[t] + 1 \in Depths
         /\ \A u \in AllThreads : sp'[u] = IF u = t THEN sp[t] + 1 ELSE sp[u]
         /\ \A u \in AllThreads, i \in Depths :
              frame'[u][i] = IF u = t /\ i = sp[t] + 1 THEN ctarget[t] ELSE frame[u][i]
         /\ \A u \in AllThreads, i \in Depths, m \in Modules :
              <<u, i>> \in entries'[m] <=> <<u, i>> \in entries[m] \/ (m = ctarget[t] /\ u = t /\ i = sp[t] + 1)
<1>1. ctarget[t] \in Modules /\ sp[t] \in Nat /\ sp[t] + 1 \in Depths
  BY ConstantsAssumption DEF TypeOK, CallTypes, StackInv, Enter, Depths
<1>2. /\ sp' = [sp EXCEPT ![t] = @ + 1] /\ frame' = [frame EXCEPT ![t][sp[t] + 1] = ctarget[t]]
      /\ entries' = [entries EXCEPT ![ctarget[t]] = @ \cup {<<t, sp[t] + 1>>}]
  BY Zenon DEF Enter
<1> QED
  BY <1>1, <1>2, Zenon DEF TypeOK, CallTypes

\* in_flight::leave takes the innermost call off it, and no other.
LEMMA LeavePops ==
  ASSUME TypeOK, StackInv, NEW t \in AllThreads, Leave(t)
  PROVE  /\ frame[t][sp[t]] \in Modules /\ sp[t] \in Nat \ {0} /\ sp[t] \in Depths
         /\ \A u \in AllThreads : sp'[u] = IF u = t THEN sp[t] - 1 ELSE sp[u]
         /\ \A u \in AllThreads, i \in Depths :
              frame'[u][i] = IF u = t /\ i = sp[t] THEN None ELSE frame[u][i]
         /\ \A u \in AllThreads, i \in Depths, m \in Modules :
              <<u, i>> \in entries'[m] <=> <<u, i>> \in entries[m] /\ ~(m = frame[t][sp[t]] /\ u = t /\ i = sp[t])
         /\ \A m \in Modules : early[m] \cap Tracked(m)' \subseteq early'[m]
<1> DEFINE top == frame[t][sp[t]]
<1>1. sp[t] \in Nat \ {0} /\ sp[t] \in Depths
  BY ConstantsAssumption DEF TypeOK, CallTypes, LifecycleTypes, Leave, Floor, Depths
<1>2. top \in Modules
  <2>1. frame[t][sp[t]] \in Modules \cup {None} /\ sp[t] <= sp[t]
    BY <1>1 DEF TypeOK, CallTypes
  <2> QED
    BY <1>1, <2>1, Zenon DEF StackInv
<1>3. Innermost(t, top) = {<<t, sp[t]>>}
  <2>1. \A e \in entries[top] : e \in AllThreads \X Depths /\ (e[1] = t => e[2] <= sp[t])
    <3>1. ASSUME NEW u \in AllThreads, NEW i \in Depths, <<u, i>> \in entries[top], u = t PROVE i <= sp[t]
      BY <1>2, <3>1, ConstantsAssumption DEF StackInv
    <3>2. entries[top] \subseteq AllThreads \X Depths
      BY <1>2, Zenon DEF TypeOK, CallTypes
    <3> QED
      BY <3>1, <3>2
  <2>2. <<t, sp[t]>> \in entries[top]
    BY <1>1, <1>2 DEF StackInv
  <2> QED
    <3>1. sp[t] \in Nat
      BY <1>1
    <3>2. ASSUME NEW e \in Innermost(t, top) PROVE e = <<t, sp[t]>>
      <4>1. e \in entries[top] /\ e[1] = t /\ (<<t, sp[t]>>[1] = t => <<t, sp[t]>>[2] <= e[2])
        BY <2>2, <3>2, Zenon DEF Innermost
      <4>2. e \in AllThreads \X Depths /\ e[2] <= sp[t] /\ sp[t] <= e[2] /\ e[2] \in Depths
        BY <2>1, <4>1
      <4>3. e[2] = sp[t]
        BY <3>1, <4>2 DEF Depths
      <4> QED
        BY <4>1, <4>2, <4>3
    <3>3. <<t, sp[t]>> \in Innermost(t, top)
      BY <2>1, <2>2, Zenon DEF Innermost
    <3> QED
      BY <3>2, <3>3, Zenon
<1>4. /\ entries' = [entries EXCEPT ![top] = entries[top] \ {<<t, sp[t]>>}]
      /\ early' = [early EXCEPT ![top] = {u \in @ : \E i \in Depths : <<u, i>> \in entries[top] \ {<<t, sp[t]>>}}]
      /\ sp' = [sp EXCEPT ![t] = @ - 1] /\ frame' = [frame EXCEPT ![t][sp[t]] = None]
  BY <1>3, Zenon DEF Leave
<1> HIDE DEF top
<1>5. \A m \in Modules : early[m] \cap Tracked(m)' \subseteq early'[m]
  BY <1>2, <1>4, Zenon DEF TypeOK, CallTypes, ObjectTypes, Tracked
<1>6. \A u \in AllThreads, i \in Depths : frame'[u][i] = IF u = t /\ i = sp[t] THEN None ELSE frame[u][i]
  BY <1>1, <1>4, Zenon DEF TypeOK, CallTypes
<1>7. \A u \in AllThreads, i \in Depths, m \in Modules :
        <<u, i>> \in entries'[m] <=> <<u, i>> \in entries[m] /\ ~(m = top /\ u = t /\ i = sp[t])
  BY <1>1, <1>2, <1>4, Zenon DEF TypeOK, CallTypes
<1> QED
  BY <1>1, <1>2, <1>4, <1>5, <1>6, <1>7, Zenon DEF TypeOK, CallTypes, top

LEMMA StackStep ==
  ASSUME TypeOK, StackInv, [Next]_vars
  PROVE  StackInv'
<1>1. ASSUME NEW t \in AllThreads, CallStep(t) PROVE StackInv'
  <2>1. CASE (\E m \in Modules : Lookup(t, m)) \/ CheckLoaded(t) \/ FreeReply(t)
    <3>1. UNCHANGED <<sp, frame, entries>>
      BY <2>1, Zenon DEF Lookup, CheckLoaded, FreeReply
    <3>2. \A u \in AllThreads : /\ cpc'[u] = "run" <=> ctarget'[u] = None
                                /\ cpc'[u] \in {"check", "enter"} => sp[u] < MaxDepth
      BY <2>1, ConstantsAssumption DEF TypeOK, CallTypes, StackInv, Lookup, CheckLoaded, FreeReply, CallDone
    <3> QED
      BY <3>1, <3>2 DEF StackInv
  <2>2. CASE Enter(t)
    <3>1. \A u \in AllThreads : /\ cpc'[u] = IF u = t THEN "run" ELSE cpc[u]
                                /\ ctarget'[u] = IF u = t THEN None ELSE ctarget[u]
      BY <2>2, Zenon DEF TypeOK, CallTypes, Enter, CallDone
    <3>2. CASE DoorIsOpen(t, ctarget[t])
      <4>1. ctarget[t] # None
        BY <2>2, Zenon DEF Enter, StackInv
      <4>2. sp[t] + 1 \in Depths /\ ~(sp[t] + 1 <= sp[t])
        <5>1. sp[t] \in Nat /\ sp[t] + 1 \in Depths
          BY <2>2, <3>2, EnterPushes, Zenon
        <5> QED
          BY <5>1
      <4>3. frame[t][sp[t] + 1] = None
        BY <4>2, ZenonT(30) DEF StackInv
      <4>4. \A u \in AllThreads : /\ cpc'[u] = "run" <=> ctarget'[u] = None
                                  /\ cpc'[u] \in {"check", "enter"} => sp'[u] < MaxDepth
        <5>1. \A u \in AllThreads : sp'[u] = IF u = t THEN sp[t] + 1 ELSE sp[u]
          BY <2>2, <3>2, EnterPushes, Zenon
        <5> QED
          BY <3>1, <5>1, Zenon DEF StackInv
      <4>5. ASSUME NEW u \in AllThreads, NEW i \in Depths PROVE frame'[u][i] # None <=> i <= sp'[u]
        <5>1. /\ \A v \in AllThreads, j \in Depths :
                   frame'[v][j] = IF v = t /\ j = sp[t] + 1 THEN ctarget[t] ELSE frame[v][j]
              /\ \A v \in AllThreads : sp'[v] = IF v = t THEN sp[t] + 1 ELSE sp[v]
              /\ sp[t] \in Nat
          BY <2>2, <3>2, EnterPushes, Zenon
        <5>2. frame[u][i] # None <=> i <= sp[u]
          BY Zenon DEF StackInv
        <5> QED
          BY <4>1, <5>1, <5>2, ConstantsAssumption DEF Depths
      <4>6. ASSUME NEW u \in AllThreads, NEW i \in Depths, NEW m \in Modules
            PROVE  <<u, i>> \in entries'[m] <=> frame'[u][i] = m
        <5>1. /\ frame'[u][i] = IF u = t /\ i = sp[t] + 1 THEN ctarget[t] ELSE frame[u][i]
              /\ <<u, i>> \in entries'[m] <=> <<u, i>> \in entries[m] \/ (m = ctarget[t] /\ u = t /\ i = sp[t] + 1)
          <6>1. \A v \in AllThreads, j \in Depths :
                  frame'[v][j] = IF v = t /\ j = sp[t] + 1 THEN ctarget[t] ELSE frame[v][j]
            BY <2>2, <3>2, EnterPushes, Zenon
          <6>2. \A v \in AllThreads, j \in Depths, n \in Modules :
                  <<v, j>> \in entries'[n] <=> <<v, j>> \in entries[n] \/ (n = ctarget[t] /\ v = t /\ j = sp[t] + 1)
            BY <2>2, <3>2, EnterPushes, Zenon
          <6> QED
            BY <6>1, <6>2, Zenon
        <5>2. <<u, i>> \in entries[m] <=> frame[u][i] = m
          BY Zenon DEF StackInv
        <5> QED
          BY <4>3, <5>1, <5>2, ConstantsAssumption, Zenon
      <4> QED
        BY <4>4, <4>5, <4>6, Zenon DEF StackInv
    <3>3. CASE ~DoorIsOpen(t, ctarget[t])
      <4>1. UNCHANGED <<sp, frame, entries>>
        BY <2>2, <3>3, Zenon DEF Enter
      <4>2. \A u \in AllThreads : /\ cpc'[u] = "run" <=> ctarget'[u] = None
                                  /\ cpc'[u] \in {"check", "enter"} => sp'[u] < MaxDepth
        BY <3>1, <4>1, Zenon DEF StackInv
      <4>3. ASSUME NEW u \in AllThreads, NEW i \in Depths
            PROVE  /\ frame'[u][i] # None <=> i <= sp'[u]
                   /\ \A m \in Modules : <<u, i>> \in entries'[m] <=> frame'[u][i] = m
        <5>1. /\ frame[u][i] # None <=> i <= sp[u]
              /\ \A m \in Modules : <<u, i>> \in entries[m] <=> frame[u][i] = m
          BY Zenon DEF StackInv
        <5> QED
          BY <4>1, <5>1, Zenon
      <4> QED
        BY <4>2, <4>3, Zenon DEF StackInv
    <3> QED
      BY <3>2, <3>3, Zenon
  <2>3. CASE Leave(t)
    <3>1. \A u \in AllThreads : /\ cpc'[u] = IF u = t THEN "free" ELSE cpc[u]
                                /\ ctarget'[u] = IF u = t THEN frame[t][sp[t]] ELSE ctarget[u]
      BY <2>3, Zenon DEF TypeOK, CallTypes, Leave
    <3> QED
      <4>1. frame[t][sp[t]] \in Modules /\ frame[t][sp[t]] # None
        <5>1. frame[t][sp[t]] \in Modules
          BY <2>3, LeavePops, Zenon
        <5> QED
          BY <5>1, ConstantsAssumption, Zenon
      <4>2. /\ sp[t] \in Nat \ {0} /\ sp[t] \in Depths
            /\ \A u \in AllThreads : sp'[u] = IF u = t THEN sp[t] - 1 ELSE sp[u]
        BY <2>3, LeavePops, Zenon
      <4>3. \A u \in AllThreads, i \in Depths : frame'[u][i] = IF u = t /\ i = sp[t] THEN None ELSE frame[u][i]
        BY <2>3, LeavePops, Zenon
      <4>4. \A u \in AllThreads, i \in Depths, m \in Modules :
              <<u, i>> \in entries'[m] <=> <<u, i>> \in entries[m] /\ ~(m = frame[t][sp[t]] /\ u = t /\ i = sp[t])
        BY <2>3, LeavePops, Zenon
      <4>5. ASSUME NEW u \in AllThreads
            PROVE  (cpc'[u] = "run" <=> ctarget'[u] = None) /\ (cpc'[u] \in {"check", "enter"} => sp'[u] < MaxDepth)
        BY <3>1, <4>1, <4>2, Zenon DEF StackInv
      <4>6. ASSUME NEW u \in AllThreads, NEW i \in Depths PROVE frame'[u][i] # None <=> i <= sp'[u]
        <5>1. (frame[u][i] # None <=> i <= sp[u]) /\ i \in Nat
          <6>1. i \in Nat
            BY ConstantsAssumption DEF Depths
          <6> QED
            BY <6>1, Zenon DEF StackInv
        <5>2. frame'[u][i] = (IF u = t /\ i = sp[t] THEN None ELSE frame[u][i])
              /\ sp'[u] = (IF u = t THEN sp[t] - 1 ELSE sp[u]) /\ sp[t] \in Nat
          BY <4>2, <4>3, Zenon
        <5> QED
          BY <5>1, <5>2
      <4>7. ASSUME NEW u \in AllThreads, NEW i \in Depths, NEW m \in Modules
            PROVE  <<u, i>> \in entries'[m] <=> frame'[u][i] = m
        <5>1. <<u, i>> \in entries[m] <=> frame[u][i] = m
          BY Zenon DEF StackInv
        <5>2. frame'[u][i] = IF u = t /\ i = sp[t] THEN None ELSE frame[u][i]
          BY <4>3, Zenon
        <5>3. <<u, i>> \in entries'[m] <=> <<u, i>> \in entries[m] /\ ~(m = frame[t][sp[t]] /\ u = t /\ i = sp[t])
          BY <4>4, Zenon
        <5>4. CASE u = t /\ i = sp[t]
          BY <5>1, <5>2, <5>3, <5>4, ConstantsAssumption, Zenon
        <5>5. CASE ~(u = t /\ i = sp[t])
          BY <5>1, <5>2, <5>3, <5>5, Zenon
        <5> QED
          BY <5>4, <5>5, Zenon
      <4> QED
        BY <4>5, <4>6, <4>7, Zenon DEF StackInv
  <2> QED
    BY <1>1, <2>1, <2>2, <2>3, Zenon DEF CallStep, Call
<1>2. ASSUME UNCHANGED <<sp, frame, entries, cpc, ctarget>> PROVE StackInv'
  BY <1>2, ZenonT(30) DEF StackInv
<1>3. CASE AskStep \/ UNCHANGED vars
  BY <1>2, <1>3, AsksKeep, Zenon DEF AskFrame, callVars, vars
<1>4. CASE Stop \/ \E t \in AllThreads : Lifecycle(t)
  BY <1>2, <1>4, WorkKeeps, Zenon DEF callVars
<1> QED
  BY <1>1, <1>3, <1>4, Steps, Zenon

-----------------------------------------------------------------------------
(* Who is alive *)

\* The destructor takes no object that is referred to, and what it does to an
\* object that is not is what an unload does.
ObjectsShrink ==
  \E dead \in SUBSET alive :
    /\ \A m \in dead : ~Referenced(m)'
    /\ alive' = alive \ dead /\ loaded' = loaded \ dead /\ loading' = loading \ dead
    /\ unloading' = unloading \cup dead /\ unloaded' = unloaded \cup dead
    /\ mapped \ dead \subseteq mapped'

LEMMA ShrinkOnly ==
  ASSUME Destructors \/ UNCHANGED objVars
  PROVE  ObjectsShrink
<1>1. CASE Destructors
  <2> DEFINE dead == {m \in alive : ~Referenced(m)'}
  <2>1. dead \in SUBSET alive /\ \A m \in dead : ~Referenced(m)'
    OBVIOUS
  <2>2. /\ alive' = alive \ dead /\ loaded' = loaded \ dead /\ loading' = loading \ dead
        /\ unloading' = unloading \cup dead /\ unloaded' = unloaded \cup dead
        /\ mapped' = mapped \ (dead \ leaked)
    BY <1>1, Zenon DEF Destructors
  <2> HIDE DEF dead
  <2> QED
    BY <2>1, <2>2, Zenon DEF ObjectsShrink
<1>2. CASE UNCHANGED objVars
  <2>1. {} \in SUBSET alive
    OBVIOUS
  <2>2. /\ alive' = alive \ {} /\ loaded' = loaded \ {} /\ loading' = loading \ {}
        /\ unloading' = unloading \cup {} /\ unloaded' = unloaded \cup {}
        /\ mapped \ {} \subseteq mapped'
    BY <1>2, Zenon DEF objVars
  <2> QED
    BY <2>1, <2>2, Zenon DEF ObjectsShrink
<1> QED
  BY <1>1, <1>2, Zenon

LEMMA AliveShrinks ==
  ASSUME AliveInv, ObjectsShrink, commands' \subseteq listed', \A m \in Modules : Referenced(m)' => m \in alive
  PROVE  AliveInv'
BY Zenon DEF AliveInv, ObjectsShrink

\* A call takes its references from the registry and from those it has.
LEMMA CallReferences ==
  ASSUME TypeOK, StackInv, AliveInv, NEW t \in AllThreads, CallStep(t), NEW m \in Modules, Referenced(m)'
  PROVE  m \in alive
<1>1. /\ listed' = listed /\ retired' = retired /\ abandoned' = abandoned /\ opc' = opc /\ om' = om
  BY CallsKeep, Zenon DEF CallFrame, listVars, opVars
<1>2. \A u \in AllThreads : Holds(u, m)' => Holds(u, m) \/ m \in commands \/ \E v \in AllThreads : Holds(v, m)
  <2>1. ASSUME NEW u \in AllThreads, u \in InsideOf(m)' PROVE u \in InsideOf(m) \/ Holds(t, m)
    <3>1. CASE Enter(t) /\ DoorIsOpen(t, ctarget[t])
      BY <2>1, <3>1, EnterPushes DEF InsideOf, Holds, Enter
    <3>2. CASE Leave(t)
      <4>1. \A i \in Depths : frame'[u][i] = frame[u][i] \/ frame'[u][i] = None
        <5>1. \A v \in AllThreads, i \in Depths :
                frame'[v][i] = IF v = t /\ i = sp[t] THEN None ELSE frame[v][i]
          BY <3>2, LeavePops, Zenon
        <5> QED
          BY <5>1, Zenon
      <4> QED
        BY <2>1, <4>1, ConstantsAssumption, Zenon DEF InsideOf
    <3>3. CASE UNCHANGED frame
      BY <2>1, <3>3, Zenon DEF InsideOf
    <3> QED
      BY <3>1, <3>2, <3>3, Zenon DEF CallStep, Call, Lookup, CheckLoaded, Enter, FreeReply
  <2>2. ASSUME NEW u \in AllThreads, cpc'[u] # "run", ctarget'[u] = m
        PROVE  Holds(u, m) \/ m \in commands
    <3>1. CASE Leave(t)
      <4>1. ctarget'[u] = IF u = t THEN frame[t][sp[t]] ELSE ctarget[u]
        BY <3>1, Zenon DEF Leave, TypeOK, CallTypes
      <4>2. u # t => cpc'[u] = cpc[u]
        BY <3>1, Zenon DEF Leave, TypeOK, CallTypes
      <4>3. sp[t] \in Depths
        BY <3>1, LeavePops, Zenon
      <4> QED
        BY <2>2, <4>1, <4>2, <4>3, Zenon DEF Holds, InsideOf
    <3>2. CASE (\E n \in Modules : Lookup(t, n)) \/ Call(t)
      BY <2>2, <3>2, Zenon DEF Lookup, Call, CheckLoaded, Enter, FreeReply, CallDone, Holds, TypeOK, CallTypes
    <3> QED
      BY <3>1, <3>2, Zenon DEF CallStep
  <2> QED
    BY <1>1, <2>1, <2>2, Zenon DEF Holds
<1> QED
  BY <1>1, <1>2, Zenon DEF Referenced, AliveInv

\* Asking for a lifecycle call takes no reference yet.
LEMMA AskReferences ==
  ASSUME TypeOK, LockInv, AskStep, NEW m \in Modules
  PROVE  Referenced(m)' <=> Referenced(m)
<1>1. UNCHANGED <<listed, retired, abandoned, cpc, ctarget, frame>>
  BY AsksKeep, Zenon DEF AskFrame, listVars, callVars
<1>2. \A t \in AllThreads : (opc'[t] \notin {"none", "lock"} /\ om'[t] = m)
                              <=> (opc[t] \notin {"none", "lock"} /\ om[t] = m)
  <2>1. CASE UNCHANGED <<op, opc, om>>
    BY <2>1, Zenon
  <2>2. ASSUME NEW u \in AllThreads, NEW n \in Modules \cup {None},
               NEW what \in {"remove", "load", "reload", "service", "stop"},
               IF u = Main THEN op[u] = "none" ELSE opc[u] = "none" /\ cpc[u] = "run", Ask(u, what, n)
        PROVE  \A t \in AllThreads : (opc'[t] \notin {"none", "lock"} /\ om'[t] = m)
                                        <=> (opc[t] \notin {"none", "lock"} /\ om[t] = m)
    <3>1. opc[u] = "none"
      BY <2>2, Zenon DEF LockInv, MayBeAt
    <3>2. opc' = [opc EXCEPT ![u] = "lock"] /\ om' = [om EXCEPT ![u] = n]
      BY <2>2, Zenon DEF Ask
    <3> QED
      BY <3>1, <3>2, Zenon DEF TypeOK, LifecycleTypes
  <2> QED
    BY <2>1, <2>2, AsksKeep, Zenon
<1>3. \A t \in AllThreads : Holds(t, m)' <=> Holds(t, m)
  BY <1>1, <1>2, Zenon DEF Holds, InsideOf
<1> QED
  BY <1>1, <1>3, Zenon DEF Referenced

\* A module is referred to by a list, by the lifecycle call at work or by a call.
Called(m) == \E t \in AllThreads : (cpc[t] # "run" /\ ctarget[t] = m) \/ t \in InsideOf(m)

InUse(m) == m \in listed \cup retired \cup abandoned \/ (life # None /\ Subject = m) \/ Called(m)

LEMMA References ==
  TypeOK /\ LockInv => \A m \in Modules : Referenced(m) <=> InUse(m)
<1> SUFFICES ASSUME TypeOK, LockInv, NEW m \in Modules PROVE Referenced(m) <=> InUse(m)
  OBVIOUS
<1>1. \A t \in AllThreads : opc[t] \notin {"none", "lock"} <=> life = t
  BY Zenon DEF LockInv, Working
<1>2. life # None => life \in AllThreads
  BY Zenon DEF TypeOK, LifecycleTypes
<1>3. life \in AllThreads => life # None
  BY ConstantsAssumption, Zenon
<1> QED
  BY <1>1, <1>2, <1>3, Zenon DEF Referenced, Holds, Called, Subject, InUse

LEMMA AliveStep ==
  ASSUME TypeOK, StackInv, LockInv, ListInv, AliveInv, [Next]_vars, TypeOK', LockInv'
  PROVE  AliveInv'
<1>0. /\ op \in [AllThreads -> Ops] /\ opc \in [AllThreads -> Pcs] /\ om \in [AllThreads -> Modules \cup {None}]
      /\ life \in AllThreads \cup {None} /\ Main \in AllThreads
  BY Zenon DEF TypeOK, LifecycleTypes, AllThreads
<1>1. ASSUME NEW t \in AllThreads, CallStep(t) PROVE AliveInv'
  <2>1. ObjectsShrink
    BY <1>1, CallsKeep, ShrinkOnly, Zenon
  <2>2. commands' \subseteq listed'
    BY <1>1, CallsKeep, Zenon DEF CallFrame, listVars, AliveInv
  <2> QED
    BY <1>1, <2>1, <2>2, CallReferences, AliveShrinks, Zenon
<1>2. CASE AskStep
  BY <1>2, AsksKeep, AskReferences, Zenon DEF AskFrame, objVars, listVars, AliveInv
<1>3. CASE UNCHANGED vars
  <2>1. \A m \in Modules : Referenced(m)' = Referenced(m)
    BY <1>3, Zenon DEF vars, listVars, callVars, opVars, Referenced, Holds, InsideOf
  <2> QED
    BY <1>3, <2>1, Zenon DEF vars, objVars, listVars, AliveInv
<1>4. \A m \in Modules : InUse(m) => m \in alive
  BY References, Zenon DEF AliveInv
<1>5. \A m \in Modules : Referenced(m)' <=> InUse(m)'
  <2>1. (TypeOK /\ LockInv => \A m \in Modules : Referenced(m) <=> InUse(m))'
    BY References, PTL
  <2> QED
    BY <2>1, Zenon
<1>6. ASSUME Stop \/ \E t \in AllThreads : Lifecycle(t), NEW m \in Modules PROVE Called(m)' <=> Called(m)
  BY <1>6, WorkKeeps, Zenon DEF callVars, Called, InsideOf
<1>7. \A m \in Modules : m \in listed \cup retired \cup abandoned => m \in alive
  BY <1>4, Zenon DEF InUse
<1>8. CASE Stop
  <2>1. opc[Main] # "lock" => life = Main
    BY <1>0, <1>8, Zenon DEF Stop, StopPlugins, StopNext, LockInv, Working
  <2>2. \A m \in Modules : InUse(m)' => m \in alive
    <3>1. CASE StopPlugins
      <4>1. om[Main] = None /\ UNCHANGED <<listed, retired, abandoned, om>> /\ life' = Main
        BY <1>0, <3>1, Zenon DEF StopPlugins, LockInv, Unloading, Loading
      <4> QED
        BY <1>4, <1>6, <1>8, <4>1, ConstantsAssumption, Zenon DEF InUse, Subject
    <3>2. CASE StopNext
      <4>1. /\ listed' \subseteq listed /\ retired' \subseteq retired /\ abandoned' \subseteq abandoned \cup todo
            /\ life' # None => life' = life /\ (om' = om \/ om'[Main] \in todo)
        BY <1>0, <3>2, Zenon DEF StopNext
      <4>2. opc[Main] = "next" /\ op[Main] \in Stopping /\ life = Main /\ life # None
        BY <2>1, <3>2, ConstantsAssumption, Zenon DEF StopNext, Stopping, AllThreads
      <4>3. todo \subseteq listed \cup retired
        BY <4>2, Zenon DEF ListInv, Doing, Stopping
      <4> QED
        BY <1>4, <1>6, <1>7, <1>8, <4>1, <4>2, <4>3, Zenon DEF InUse, Subject
    <3> QED
      BY <1>8, <3>1, <3>2, Zenon DEF Stop
  <2>3. commands' \subseteq listed'
    <3>1. CASE StopPlugins
      BY <3>1, Zenon DEF StopPlugins
    <3>2. CASE StopNext
      <4>1. Doing(Stopping)
        BY <2>1, <3>2, ConstantsAssumption, Zenon DEF StopNext, Doing, Stopping, AllThreads
      <4> QED
        BY <3>2, <4>1, Zenon DEF StopNext, ListInv
    <3> QED
      BY <1>8, <3>1, <3>2, Zenon DEF Stop
  <2>4. ObjectsShrink
    BY <1>8, ShrinkOnly, Zenon DEF Stop, StopPlugins, StopNext
  <2> QED
    BY <1>5, <2>2, <2>3, <2>4, AliveShrinks, Zenon
<1>9. ASSUME NEW t \in AllThreads, Lifecycle(t) PROVE AliveInv'
  <2>0. Working(t) => life = t /\ life # None
    BY AtWork, Zenon
  <2> DEFINE Held == \A m \in Modules : InUse(m)' => m \in alive'
             Rest == /\ commands' \subseteq listed' /\ alive' \subseteq mapped'
                     /\ unloading' \subseteq alive' \cup unloaded'
  <2>1. Held /\ Rest => AliveInv'
    BY <1>5, Zenon DEF AliveInv
  <2>2. CASE Remove(t) \/ ReloadPlugin(t) \/ StartPlugins(t)
    <3>1. Held
      <4>1. UNCHANGED <<alive, listed, retired, abandoned>> /\ (life' # None => life' = t)
        BY <2>2, Zenon DEF Remove, ReloadPlugin, StartPlugins, EndOp, listVars, objVars
      <4>2. life' # None => UNCHANGED om /\ (om[t] \in listed \/ om[t] = None)
        <5>1. CASE Remove(t) \/ ReloadPlugin(t)
          BY <5>1, Zenon DEF Remove, ReloadPlugin, EndOp
        <5>2. CASE StartPlugins(t)
          BY <5>2, Zenon DEF StartPlugins, LockInv, Unloading, Loading
        <5> QED
          BY <2>2, <5>1, <5>2, Zenon
      <4> QED
        BY <1>4, <1>6, <1>7, <1>9, <4>1, <4>2, ConstantsAssumption, Zenon DEF InUse, Subject
    <3>2. Rest
      BY <2>2, Zenon DEF Remove, ReloadPlugin, StartPlugins, listVars, objVars, AliveInv
    <3> QED
      BY <2>1, <3>1, <3>2, Zenon
  <2>3. CASE LoadActivePlugins(t) \/ LoadSinglePlugin(t)
    <3>1. Held
      <4>1. UNCHANGED <<retired, abandoned>> /\ alive \subseteq alive' /\ listed' \subseteq listed \cup alive'
        BY <2>3, Zenon DEF LoadActivePlugins, LoadSinglePlugin, AddPlugins
      <4>2. life' # None => life' = t /\ om' = om /\ om[t] \in listed \cup alive'
        BY <2>3, Zenon DEF LoadActivePlugins, LoadSinglePlugin, AddPlugins, EndOp
      <4> QED
        BY <1>4, <1>6, <1>7, <1>9, <4>1, <4>2, ConstantsAssumption, Zenon DEF InUse, Subject
    <3>2. Rest
      BY <2>3, AtWork, Zenon DEF LoadActivePlugins, LoadSinglePlugin, AddPlugins, AliveInv
    <3> QED
      BY <2>1, <3>1, <3>2, Zenon
  <2>4. CASE UnloadClose(t) \/ UnloadTeardown(t) \/ UnloadRefused(t) \/ Purge(t)
    <3>1. Held
      <4>1. /\ life = t /\ life # None /\ UNCHANGED <<alive, abandoned>>
            /\ listed' \subseteq listed /\ retired' \subseteq retired \cup {om[t]}
        BY <2>0, <2>4, Zenon DEF UnloadClose, UnloadTeardown, UnloadRefused, Purge, listVars, objVars, Working
      <4>2. life' # None => life' = t /\ (om' = om \/ om'[t] = None)
        BY <1>0, <2>4, <4>1, Zenon DEF UnloadClose, UnloadTeardown, UnloadRefused, Purge, NextOrEnd, EndOp
      <4> QED
        BY <1>4, <1>6, <1>7, <1>9, <4>1, <4>2, ConstantsAssumption, Zenon DEF InUse, Subject
    <3>2. om[t] \in alive
      BY <1>4, <2>0, <2>4, AtWork, Zenon DEF UnloadClose, UnloadTeardown, UnloadRefused, Purge, InUse, Subject,
         Working, Unloading, Loading
    <3>3. Rest
      BY <2>4, <3>2, Zenon DEF UnloadClose, UnloadTeardown, UnloadRefused, Purge, listVars, objVars, AliveInv
    <3> QED
      BY <2>1, <3>1, <3>3, Zenon
  <2>5. CASE Unloaded(t)
    <3>1. ASSUME NEW m \in Modules, InUse(m)' PROVE m \in alive
      BY <1>0, <1>4, <1>6, <1>7, <1>9, <2>0, <2>5, <3>1, ConstantsAssumption
         DEF Unloaded, NextOrEnd, EndOp, InUse, Subject, Working
    <3>2. commands' \subseteq listed' /\ ObjectsShrink
      BY <2>5, ShrinkOnly, Zenon DEF Unloaded, AliveInv
    <3> QED
      BY <1>5, <3>1, <3>2, AliveShrinks, Zenon
  <2>6. CASE ServiceNext(t) \/ Barrier(t) \/ ReloadBegin(t)
    <3>1. Held
      <4>1. UNCHANGED <<alive, listed, retired, abandoned>> /\ life = t /\ (life' # None => life' = t)
        BY <2>0, <2>6, Zenon DEF ServiceNext, Barrier, ReloadBegin, EndOp, listVars, objVars, Working
      <4>2. ServiceNext(t) => todo \cup broken \subseteq listed
        <5> SUFFICES ASSUME ServiceNext(t) PROVE todo \cup broken \subseteq listed
          OBVIOUS
        <5>1. opc[t] = "next" /\ op[t] \in Passing /\ life = t /\ life # None
          BY <2>0, Zenon DEF ServiceNext, Passing, Working
        <5>2. om[t] = None
          BY <5>1, Zenon DEF LockInv, Unloading, Loading
        <5> QED
          BY <5>1, <5>2, ConstantsAssumption, Zenon DEF ListInv, Doing, Subject, TypeOK, ListTypes
      <4>3. life' # None => om' = om \/ om'[t] \in listed
        BY <1>0, <2>6, <4>2, Zenon DEF ServiceNext, Barrier, ReloadBegin, EndOp
      <4> QED
        BY <1>4, <1>6, <1>7, <1>9, <2>0, <4>1, <4>3, Zenon DEF InUse, Subject
    <3>2. Rest
      BY <2>6, Zenon DEF ServiceNext, Barrier, ReloadBegin, listVars, objVars, AliveInv
    <3> QED
      BY <2>1, <3>1, <3>2, Zenon
  <2>7. ASSUME NEW ok \in BOOLEAN, NEW threw \in BOOLEAN, LoadReturns(t, ok, threw) \/ StartReturns(t, ok, threw)
        PROVE  AliveInv'
    <3>1. Held
      <4>1. UNCHANGED <<alive, listed, retired, abandoned>> /\ life = t /\ life # None
        BY <2>0, <2>7, Zenon DEF LoadReturns, StartReturns, listVars, objVars, Working
      <4>2. life' # None => life' = t /\ (om' = om \/ om'[t] = None)
        BY <1>0, <2>7, <4>1, Zenon DEF LoadReturns, StartReturns, PassNext, EndOp
      <4> QED
        BY <1>4, <1>6, <1>7, <1>9, <4>1, <4>2, ConstantsAssumption, Zenon DEF InUse, Subject
    <3>2. Rest
      BY <2>7, Zenon DEF LoadReturns, StartReturns, listVars, objVars, AliveInv
    <3> QED
      BY <2>1, <3>1, <3>2, Zenon
  <2> QED
    BY <1>9, <2>2, <2>3, <2>4, <2>5, <2>6, <2>7, Zenon DEF Lifecycle
<1> QED
  BY <1>1, <1>2, <1>3, <1>8, <1>9, Steps, Zenon

-----------------------------------------------------------------------------
(* The invariant, and what follows from it *)

LEMMA InitCInv ==
  ASSUME Init
  PROVE  CInv
<1> USE ConstantsAssumption DEF Init
<1>1. TypeOK
  BY DEF TypeOK, ObjectTypes, CallTypes, ListTypes, LifecycleTypes, Ops, Pcs
<1>2. StackInv
  BY DEF StackInv, Depths
<1>3. LockInv
  BY DEF LockInv, MayBeAt, Working, Upcall, Unloading, Loading, Passing, Stopping, AllThreads
<1>4. ListInv
  BY Zenon DEF ListInv, At, Doing
<1>5. AliveInv
  BY DEF AliveInv, Referenced, Holds, InsideOf
<1> QED
  BY <1>1, <1>2, <1>3, <1>4, <1>5, Zenon DEF CInv

LEMMA CInvStep ==
  ASSUME CInv, [Next]_vars
  PROVE  CInv'
<1>1. TypeOK'
  BY ObjectTypesStep, CallTypesStep, ListTypesStep, LifecycleTypesStep, Zenon DEF CInv, TypeOK
<1>2. StackInv' /\ LockInv' /\ ListInv'
  BY StackStep, LockStep, ListStep, Zenon DEF CInv
<1>3. AliveInv'
  BY <1>1, <1>2, AliveStep, Zenon DEF CInv
<1> QED
  BY <1>1, <1>2, <1>3, Zenon DEF CInv

\* The inductive invariant of calls and of the lifecycle lock.
THEOREM CallsAreTracked == Spec => []CInv
BY InitCInv, CInvStep, PTL DEF Spec

\* No library is unmapped while its code runs: dll_plugin objects live as long
\* as a call, a reply or a lifecycle call refers to them.
THEOREM CodeIsMapped == Spec => []CodeStaysMapped
<1>1. CInv => CodeStaysMapped
  BY SMTT(30) DEF CInv, AliveInv, CodeStaysMapped, Referenced, Holds, Upcall
<1> QED
  BY <1>1, CallsAreTracked, PTL

-----------------------------------------------------------------------------
(* Unloads and reloads *)

(***************************************************************************)
(* A module that was torn down is in no list, unless its removal or the    *)
(* shutdown has yet to take it out; while an unload waits, the calls       *)
(* inside the module are among those it waits for.                         *)
(***************************************************************************)
TornInv ==
  /\ unloaded \subseteq unloading
  /\ \A m \in listed \cap unloaded :
       \/ Doing({"remove", "stop"}) /\ At({"teardown"}) /\ Subject = m
       \/ Doing({"stop"}) /\ m \notin todo
  /\ \A m \in retired \cap unloaded :
       Doing({"stopRetired"}) /\ (m \notin todo \/ (At({"teardown"}) /\ Subject = m))

UnloadInv ==
  /\ At({"close", "drain"}) => Subject \notin unloaded /\ life \notin Tracked(Subject)
  /\ At({"drain", "teardown"}) => Subject \in unloading
  /\ At({"teardown"}) => Subject \notin loaded \cup loading
  /\ At({"drain"}) => Tracked(Subject) \subseteq early[Subject]
  /\ \A m \in unloading \ unloaded :
       \/ m \notin listed \cup loaded \cup loading
       \/ At({"drain", "teardown"}) /\ Subject = m
       \/ Doing({"stop"}) /\ m \notin loaded \cup loading

(***************************************************************************)
(* The reload barrier is held by the reload at work, and the calls inside  *)
(* are those it waits for.                                                 *)
(***************************************************************************)
ReloadInv ==
  /\ \A m \in Modules : reloading[m] # None =>
       reloading[m] = life /\ At({"reloadDrain", "loading"}) /\ Subject = m
  /\ At({"reloadDrain"}) => reloading[Subject] = life /\ Tracked(Subject) \subseteq early[Subject]
  /\ At({"loading"}) /\ Subject \notin raced /\ reloading[Subject] = life => Tracked(Subject) \subseteq {life}

(***************************************************************************)
(* A listed module that was neither left half added nor half loaded is     *)
(* registered.  It is loaded, or being loaded, or about to be purged or    *)
(* removed, or a boot pass is about to load it, and then finds it not      *)
(* loading: only an object that is alive is.                               *)
(***************************************************************************)
ServeInv ==
  /\ loading \subseteq alive
  /\ op[Main] = "none" \/ opc[Main] = "lock" => listed \ half \subseteq commands
  /\ \A m \in listed \ (loaded \cup half) :
       \/ At({"loading", "purge"}) /\ Subject = m
       \/ Doing(Passing) /\ m \in broken
       \/ Doing({"stop"})
       \/ /\ m \notin loading
          /\ \/ \E t \in AllThreads : op[t] = "bootStart" /\ (opc[t] = "lock" \/ m \in todo)
             \/ Doing({"remove"}) /\ At({"teardown"}) /\ Subject = m

IInv == CInv /\ TornInv /\ UnloadInv /\ ReloadInv /\ ServeInv

-----------------------------------------------------------------------------
(* Teardown and the lists *)

LEMMA TornShrinks ==
  ASSUME TypeOK, TornInv, ObjectsShrink, listed' = listed, retired' = retired
  PROVE  /\ unloaded' \subseteq unloading'
         /\ listed' \cap unloaded' = listed \cap unloaded /\ retired' \cap unloaded' = retired \cap unloaded
BY Zenon DEF TypeOK, ListTypes, TornInv, ObjectsShrink, Referenced

LEMMA TornStep ==
  ASSUME TypeOK, LockInv, ListInv, AliveInv, TornInv, UnloadInv, [Next]_vars
  PROVE  TornInv'
<1>0. /\ op \in [AllThreads -> Ops] /\ opc \in [AllThreads -> Pcs] /\ om \in [AllThreads -> Modules \cup {None}]
      /\ life \in AllThreads \cup {None} /\ Main \in AllThreads
  BY Zenon DEF TypeOK, LifecycleTypes, AllThreads
<1>1. CASE Quiet
  <2>1. ObjectsShrink
    BY <1>1, AsksKeep, CallsKeep, ShrinkOnly, Zenon DEF Quiet, AskFrame, vars
  <2>2. UNCHANGED <<listed, retired, todo, life>>
    BY <1>1, QuietSteps, Zenon DEF listVars
  <2> QED
    BY <1>1, <2>1, <2>2, QuietSteps, TornShrinks, Zenon DEF TornInv, Doing, At, Subject
<1>2. CASE Stop
  <2>0. opc[Main] # "lock" => life = Main
    BY <1>0, <1>2, Zenon DEF Stop, StopPlugins, StopNext, LockInv, Working
  <2>1. unloaded' \subseteq unloading' /\ listed' \cap unloaded' \subseteq listed \cap unloaded
        /\ retired' \cap unloaded' \subseteq retired \cap unloaded
    <3>1. ObjectsShrink
      BY <1>2, ShrinkOnly, Zenon DEF Stop, StopPlugins, StopNext
    <3>2. listed' \subseteq listed /\ retired' \subseteq retired
      BY <1>2, Zenon DEF Stop, StopPlugins, StopNext
    <3> QED
      BY <3>1, <3>2, Zenon DEF TypeOK, ListTypes, TornInv, ObjectsShrink, Referenced
  <2> QED
    BY <1>0, <1>2, <2>0, <2>1, ConstantsAssumption, Zenon
       DEF Stop, StopPlugins, StopNext, TornInv, Doing, At, Subject, ListInv, LockInv, Stopping
<1>3. ASSUME NEW t \in AllThreads, Lifecycle(t) PROVE TornInv'
  <2>0. Working(t) => life = t /\ life # None
    BY AtWork, Zenon
  <2> USE <1>0, <2>0, ConstantsAssumption DEF TornInv, Doing, At, Subject, Working, EndOp, NextOrEnd, PassNext,
     CallInto
  <2>1. CASE Remove(t) \/ ReloadPlugin(t) \/ StartPlugins(t)
    BY <2>1, Zenon DEF Remove, ReloadPlugin, StartPlugins, listVars, objVars
  <2>2. CASE LoadActivePlugins(t) \/ LoadSinglePlugin(t)
    BY <2>2, Zenon DEF LoadActivePlugins, LoadSinglePlugin, AddPlugins
  <2>3. CASE UnloadClose(t)
    BY <2>3, Zenon DEF UnloadClose, listVars
  <2>4. CASE UnloadTeardown(t)
    <3>1. /\ unloaded' \subseteq unloaded \cup {om[t]} /\ unloading' = unloading /\ om[t] \in unloading
          /\ UNCHANGED <<listed, retired, todo, life, op, om>> /\ opc[t] = "drain" /\ opc'[t] = "teardown"
      BY <2>4, Zenon DEF UnloadTeardown, listVars, UnloadInv
    <3>2. op[t] \in {"remove", "load"} \cup Passing \cup Stopping
      BY <3>1, Zenon DEF LockInv, MayBeAt, Unloading
    <3>3. /\ om[t] \in listed => op[t] \in {"remove", "stop"}
          /\ om[t] \in retired => op[t] = "stopRetired"
      BY <3>1, <3>2, Zenon DEF ListInv, Unloading, Passing, Stopping
    <3> QED
      BY <3>1, <3>3, Zenon
  <2>5. CASE UnloadRefused(t)
    <3>1. om[t] \notin unloaded
      BY <2>5, Zenon DEF UnloadRefused, UnloadInv
    <3>2. \/ life' = t /\ op'[t] = op[t] /\ todo' = todo \ {om[t]} /\ op[t] \in Passing \cup Stopping
          \/ life' = None /\ op[t] \notin Passing \cup Stopping
      BY <2>5, Zenon DEF UnloadRefused, Passing, Stopping
    <3>3. UNCHANGED <<listed, retired, unloaded>> /\ unloading' = unloading \ {om[t]} /\ opc[t] = "drain"
      BY <2>5, Zenon DEF UnloadRefused, listVars
    <3> QED
      BY <3>1, <3>2, <3>3, Zenon DEF Passing, Stopping
  <2>6. CASE Unloaded(t)
    <3>1. ObjectsShrink /\ retired' = retired /\ listed' = listed \ (IF op[t] = "remove" THEN {om[t]} ELSE {})
      BY <2>6, ShrinkOnly, Zenon DEF Unloaded
    <3>2. unloaded' \subseteq unloading' /\ retired' \cap unloaded' = retired \cap unloaded
          /\ listed' \cap unloaded' = (listed \ (IF op[t] = "remove" THEN {om[t]} ELSE {})) \cap unloaded
      BY <3>1, Zenon DEF TypeOK, ListTypes, ObjectsShrink, Referenced
    <3> QED
      <4>1. opc[t] = "teardown" /\ op[t] \in {"remove", "load"} \cup Passing \cup Stopping
        BY <2>6, Zenon DEF Unloaded, LockInv, MayBeAt, Unloading, Passing, Stopping
      <4>2. life = t /\ life # None
        BY <4>1, Zenon
      <4>3. \/ life' = None /\ op[t] \in {"remove", "load"}
            \/ /\ life' = t /\ op'[t] = op[t] /\ op[t] \in Passing \cup Stopping
               /\ opc'[t] = "next" /\ todo' = todo \ {om[t]}
        BY <2>6, <4>1, <4>2, Zenon DEF Unloaded, Passing, Stopping
      <4>4. \A m \in listed \cap unloaded :
              (op[t] \in {"remove", "stop"} /\ om[t] = m) \/ (op[t] = "stop" /\ m \notin todo)
        BY <4>2, Zenon
      <4>5. \A m \in retired \cap unloaded : op[t] = "stopRetired" /\ (m \notin todo \/ om[t] = m)
        BY <4>2, Zenon
      <4>6. \A m \in listed' \cap unloaded' : life' = t /\ op'[t] = "stop" /\ m \notin todo'
        BY <3>2, <4>3, <4>4, Zenon DEF Passing, Stopping
      <4>7. \A m \in retired' \cap unloaded' : life' = t /\ op'[t] = "stopRetired" /\ m \notin todo'
        BY <3>2, <4>3, <4>5, Zenon
      <4>8. ASSUME NEW m \in listed' \cap unloaded' PROVE Doing({"stop"})' /\ m \notin todo'
        <5>1. life' = t /\ op'[t] = "stop" /\ m \notin todo' /\ t # None
          BY <4>2, <4>6, Zenon
        <5>2. op'[life'] \in {"stop"} /\ life' # None
          BY <5>1, Zenon
        <5> QED
          BY <5>1, <5>2, Zenon
      <4>9. ASSUME NEW m \in retired' \cap unloaded' PROVE Doing({"stopRetired"})' /\ m \notin todo'
        <5>1. life' = t /\ op'[t] = "stopRetired" /\ m \notin todo' /\ t # None
          BY <4>2, <4>7, Zenon
        <5>2. op'[life'] \in {"stopRetired"} /\ life' # None
          BY <5>1, Zenon
        <5> QED
          BY <5>1, <5>2, Zenon
      <4> HIDE DEF Doing, At
      <4> QED
        BY <3>2, <4>8, <4>9, Zenon
  <2>7. CASE Purge(t)
    <3>1. op[t] \in {"load"} \cup Passing
      BY <2>7, Zenon DEF Purge, LockInv, MayBeAt
    <3>2. listed \cap unloaded = {} /\ retired \cap unloaded = {} /\ om[t] \in listed
      BY <2>7, <3>1, Zenon DEF Purge, Passing, ListInv, Loading
    <3>3. UNCHANGED <<unloaded, unloading>> /\ listed' \subseteq listed /\ retired' \subseteq retired \cup {om[t]}
      BY <2>7, Zenon DEF Purge, objVars
    <3> QED
      BY <3>2, <3>3, Zenon
  <2>8. CASE ServiceNext(t)
    BY <2>8, Zenon DEF ServiceNext, listVars
  <2>9. CASE Barrier(t) \/ ReloadBegin(t)
    BY <2>9, Zenon DEF Barrier, ReloadBegin, objVars, listVars
  <2>10. ASSUME NEW ok \in BOOLEAN, NEW threw \in BOOLEAN, LoadReturns(t, ok, threw) \/ StartReturns(t, ok, threw)
         PROVE  TornInv'
    BY <2>10, Zenon DEF LoadReturns, StartReturns, objVars, listVars, LockInv, MayBeAt
  <2> QED
    BY <1>3, <2>1, <2>2, <2>3, <2>4, <2>5, <2>6, <2>7, <2>8, <2>9, <2>10, Zenon DEF Lifecycle
<1> QED
  BY <1>1, <1>2, <1>3, Steps, Zenon DEF Quiet

-----------------------------------------------------------------------------
(* The waits: unload_plugin and the reload barrier *)

\* Who gets into a module while a wait on it goes on is in it already.
LEMMA CallsTrack ==
  ASSUME TypeOK, StackInv, NEW t \in AllThreads, CallStep(t), NEW m \in Modules
  PROVE  \/ Tracked(m)' \subseteq Tracked(m) /\ early[m] \cap Tracked(m)' \subseteq early'[m]
         \/ /\ Tracked(m)' \subseteq Tracked(m) \cup {t} /\ early' = early
            /\ m \notin unloading /\ reloading[m] \in {None, t} /\ cpc[t] = "enter"
<1>1. CASE Enter(t) /\ DoorIsOpen(t, ctarget[t])
  <2>1. early' = early /\ reloading[ctarget[t]] \in {None, t} /\ cpc[t] = "enter"
    BY <1>1, Zenon DEF Enter, MayEnter, doorVars
  <2>2. CASE m = ctarget[t]
    <3>1. Tracked(m)' \subseteq Tracked(m) \cup {t}
      <4>1. \A u \in AllThreads, i \in Depths : <<u, i>> \in entries'[m] => <<u, i>> \in entries[m] \/ u = t
        BY <1>1, EnterPushes, Zenon
      <4> QED
        BY <4>1, Zenon DEF Tracked
    <3> QED
      BY <1>1, <2>1, <2>2, <3>1, Zenon DEF DoorIsOpen
  <2>3. CASE m # ctarget[t]
    <3>1. Tracked(m)' \subseteq Tracked(m)
      BY <1>1, <2>3, EnterPushes, Zenon DEF Tracked
    <3> QED
      BY <2>1, <3>1, Zenon
  <2> QED
    BY <2>2, <2>3, Zenon
<1>2. CASE Leave(t)
  BY <1>2, LeavePops, Zenon DEF Tracked
<1>3. CASE UNCHANGED <<entries, early>>
  BY <1>3, Zenon DEF Tracked
<1> QED
  BY <1>1, <1>2, <1>3, Zenon DEF CallStep, Call, Lookup, CheckLoaded, Enter, FreeReply, doorVars

\* So no quiet step puts a thread into a module beside the wait.
LEMMA QuietWaits ==
  ASSUME TypeOK, StackInv, LockInv, Quiet, life # None, NEW m \in Modules
  PROVE  /\ opc[life] \in {"close", "drain"} /\ life \notin Tracked(m) => life \notin Tracked(m)'
         /\ /\ opc[life] \in {"drain", "reloadDrain"} /\ (m \in unloading \/ reloading[m] = life)
            /\ Tracked(m) \subseteq early[m]
            => Tracked(m)' \subseteq early'[m]
         /\ reloading[m] = life /\ Tracked(m) \subseteq {life} => Tracked(m)' \subseteq {life}
<1>1. CASE UNCHANGED <<entries, early>>
  BY <1>1, Zenon DEF Tracked
<1>2. CASE \E t \in AllThreads : CallStep(t)
  <2>1. PICK t \in AllThreads : CallStep(t)
    BY <1>2, Zenon
  <2>2. opc[life] \in {"close", "drain", "reloadDrain"} /\ cpc[t] = "enter" => t # life
    BY Zenon DEF LockInv, Upcall
  <2> QED
    <3>1. \/ Tracked(m)' \subseteq Tracked(m) /\ early[m] \cap Tracked(m)' \subseteq early'[m]
          \/ /\ Tracked(m)' \subseteq Tracked(m) \cup {t} /\ early' = early
             /\ m \notin unloading /\ reloading[m] \in {None, t} /\ cpc[t] = "enter"
      BY <2>1, CallsTrack, Zenon
    <3> QED
      BY <2>2, <3>1, Zenon
<1> QED
  BY <1>1, <1>2, AsksKeep, Zenon DEF Quiet, AskFrame, vars, doorVars

LEMMA UnloadStep ==
  ASSUME TypeOK, StackInv, LockInv, ListInv, AliveInv, TornInv, UnloadInv, [Next]_vars
  PROVE  UnloadInv'
<1>0. /\ op \in [AllThreads -> Ops] /\ opc \in [AllThreads -> Pcs] /\ om \in [AllThreads -> Modules \cup {None}]
      /\ life \in AllThreads \cup {None} /\ Main \in AllThreads
  BY Zenon DEF TypeOK, LifecycleTypes, AllThreads
<1>1. CASE Quiet
  <2>1. ObjectsShrink
    BY <1>1, AsksKeep, CallsKeep, ShrinkOnly, Zenon DEF Quiet, AskFrame, vars
  <2>2. /\ UNCHANGED <<listed, retired, todo, life>>
        /\ life # None => op'[life] = op[life] /\ opc'[life] = opc[life] /\ om'[life] = om[life]
    BY <1>1, QuietSteps, Zenon DEF listVars
  <2>3. /\ loaded' \subseteq loaded /\ loading' \subseteq loading /\ unloading \subseteq unloading'
        /\ unloaded \subseteq unloaded'
        /\ unloading' \ unloaded' \subseteq unloading \ unloaded
    BY <2>1, Zenon DEF ObjectsShrink
  <2>4. ASSUME At(Unloading) PROVE Subject \in Modules /\ (Subject \notin unloaded => Subject \notin unloaded')
    <3>1. life \in AllThreads /\ om[life] \in Modules
      BY <1>0, <2>4, AtWork, Zenon DEF At
    <3>2. Holds(life, om[life])'
      BY <2>2, <2>4, <3>1, Zenon DEF At, Unloading, Holds
    <3> QED
      BY <2>1, <2>2, <2>4, <3>1, <3>2, Zenon DEF ObjectsShrink, Referenced, At, Subject
  <2>5. At({"close", "drain"}) => (Subject \notin unloaded /\ life \notin Tracked(Subject))'
    BY <1>1, <2>2, <2>4, QuietWaits, Zenon DEF At, Subject, Unloading, UnloadInv, Tracked
  <2>6. At({"drain"}) => (Tracked(Subject) \subseteq early[Subject])'
    BY <1>1, <2>2, <2>4, QuietWaits, Zenon DEF At, Subject, Unloading, UnloadInv, Tracked
  <2> QED
    BY <2>2, <2>3, <2>5, <2>6, Zenon DEF UnloadInv, At, Doing, Subject
<1>2. CASE Stop
  <2>0. (opc[Main] # "lock" => life = Main) /\ entries' = entries /\ early' = early
    BY <1>0, <1>2, WorkKeeps, Zenon DEF Stop, StopPlugins, StopNext, LockInv, Working, doorVars
  <2>1. ObjectsShrink
    BY <1>2, ShrinkOnly, Zenon DEF Stop, StopPlugins, StopNext
  <2>2. /\ loaded' \subseteq loaded /\ loading' \subseteq loading
        /\ unloading' \ unloaded' \subseteq unloading \ unloaded
    BY <2>1, Zenon DEF ObjectsShrink
  <2>3. CASE StopPlugins
    BY <1>0, <2>0, <2>2, <2>3, ConstantsAssumption, Zenon DEF StopPlugins, UnloadInv, At, Doing, LockInv
  <2>4. CASE StopNext /\ opc'[Main] # "close"
    BY <1>0, <2>0, <2>2, <2>4, ConstantsAssumption DEF StopNext, UnloadInv, At, Doing
  <2>5. CASE StopNext /\ opc'[Main] = "close"
    <3>1. /\ om'[Main] \in todo /\ opc[Main] = "next" /\ opc'[Main] = "close" /\ op[Main] \in Stopping
          /\ UNCHANGED <<life, op, unloaded, unloading, loaded, loading, listed>>
      BY <1>0, <2>5, Zenon DEF StopNext, objVars, Stopping
    <3>2. om'[Main] \notin unloaded
      BY <2>0, <3>1, ConstantsAssumption, <1>0, Zenon DEF TornInv, ListInv, Doing, At, Stopping
    <3>3. \A m \in Modules : Main \notin Tracked(m)
      <4>1. \A i \in Depths : i \in Nat /\ ~(i <= sp[Main])
        <5>1. sp[Main] = 0
          BY Zenon DEF LockInv
        <5> QED
          BY <5>1, ConstantsAssumption DEF Depths
      <4>2. \A i \in Depths : frame[Main][i] = None
        BY <1>0, <4>1, Zenon DEF StackInv
      <4> QED
        <5>1. \A m \in Modules : Main \notin InsideOf(m)
          BY <4>2, ConstantsAssumption, Zenon DEF InsideOf
        <5> QED
          BY <5>1, InsideIsTracked, Zenon
    <3> QED
      BY <1>0, <2>0, <3>1, <3>2, <3>3, ConstantsAssumption, Zenon DEF UnloadInv, At, Doing, Subject, Stopping,
         Tracked, TypeOK, ListTypes
  <2> QED
    BY <1>2, <2>3, <2>4, <2>5, Zenon DEF Stop
<1>3. ASSUME NEW t \in AllThreads, Lifecycle(t) PROVE UnloadInv'
  <2> DEFINE Clear == (unloading \ unloaded) \cap (listed \cup loaded \cup loading) = {}
             Aside == life' # None => life' = t /\ opc'[t] \notin Unloading
  <2>0. (Working(t) => life = t /\ life # None) /\ entries' = entries
    BY <1>3, AtWork, WorkKeeps, Zenon
  <2>1. ASSUME life = None \/ (life = t /\ opc[t] \notin {"drain", "teardown"} /\ op[t] # "stop") PROVE Clear
    BY <2>1, Zenon DEF UnloadInv, At, Doing
  <2>2. ASSUME Clear', Aside PROVE UnloadInv'
    BY <2>2, Zenon DEF UnloadInv, At, Unloading
  <2>3. ASSUME Clear', life' = t, opc'[t] = "close", om'[t] \notin unloaded', t \notin Tracked(om'[t]) PROVE UnloadInv'
    BY <2>0, <2>3, Zenon DEF UnloadInv, At, Subject, Tracked
  <2>4. ASSUME Clear, UNCHANGED <<unloading, unloaded>>,
               listed' \cup loaded' \cup loading'
                 \subseteq listed \cup loaded \cup loading \cup (Modules \ (alive \cup unloaded))
        PROVE  Clear'
    BY <2>4, Zenon DEF AliveInv
  <2> HIDE DEF Clear
  <2>5. CASE Remove(t) \/ ReloadPlugin(t) \/ StartPlugins(t)
    <3>1. life = None /\ UNCHANGED <<unloading, unloaded, listed, loaded, loading>>
      BY <2>5, Zenon DEF Remove, ReloadPlugin, StartPlugins, listVars, objVars
    <3>2. Clear'
      BY <2>1, <2>4, <3>1, Zenon
    <3>3. CASE life' = t /\ opc'[t] = "close"
      <4>1. om'[t] \in listed /\ t \notin Tracked(om'[t])
        BY <1>0, <2>5, <3>3, ConstantsAssumption, Zenon DEF Remove, ReloadPlugin, StartPlugins, EndOp
      <4>2. om'[t] \notin unloaded'
        BY <3>1, <4>1, Zenon DEF TornInv, Doing
      <4> QED
        BY <2>3, <3>2, <3>3, <4>1, <4>2, Zenon
    <3>4. CASE ~(life' = t /\ opc'[t] = "close")
      <4>1. Aside
        BY <1>0, <2>5, <3>4, Zenon DEF Remove, ReloadPlugin, StartPlugins, EndOp, Unloading
      <4> QED
        BY <2>2, <3>2, <4>1, Zenon
    <3> QED
      BY <3>3, <3>4, Zenon
  <2>6. CASE LoadActivePlugins(t) \/ LoadSinglePlugin(t)
    <3>1. life = None /\ UNCHANGED <<unloading, unloaded, loaded>>
      BY <2>6, Zenon DEF LoadActivePlugins, LoadSinglePlugin
    <3>2. listed' \cup loading' \subseteq listed \cup loaded \cup loading \cup (Modules \ (alive \cup unloaded))
      BY <2>6, AtWork, ZenonT(30) DEF LoadActivePlugins, LoadSinglePlugin, AddPlugins
    <3>3. Aside
      BY <1>0, <2>6, <3>1, Zenon DEF LoadActivePlugins, LoadSinglePlugin, CallInto, EndOp, Unloading
    <3> QED
      BY <2>1, <2>2, <2>4, <3>1, <3>2, <3>3, Zenon
  <2>7. CASE UnloadClose(t)
    <3>1. /\ opc[t] = "close" /\ opc'[t] = "drain" /\ life = t /\ life # None
          /\ unloading' = unloading \cup {om[t]} /\ UNCHANGED <<unloaded, loaded, loading, listed, life, op, om>>
      BY <1>0, <2>0, <2>7, Zenon DEF UnloadClose, listVars, Working
    <3>2. early'[om[t]] = Tracked(om[t])
      BY <2>7, AtWork, Zenon DEF UnloadClose, Unloading, TypeOK, ObjectTypes
    <3> QED
      BY <2>0, <3>1, <3>2, Zenon DEF UnloadInv, At, Doing, Subject, Tracked
  <2>8. CASE UnloadTeardown(t)
    <3>1. /\ opc[t] = "drain" /\ opc'[t] = "teardown" /\ life = t /\ life # None
          /\ loaded' = loaded \ {om[t]} /\ loading' = loading \ {om[t]} /\ unloaded \subseteq unloaded'
          /\ UNCHANGED <<unloading, listed, life, op, om>>
      BY <1>0, <2>0, <2>8, Zenon DEF UnloadTeardown, listVars, Working
    <3> QED
      BY <3>1, Zenon DEF UnloadInv, At, Doing, Subject
  <2>9. CASE UnloadRefused(t)
    <3>1. /\ opc[t] = "drain" /\ life = t /\ life # None
          /\ unloading' = unloading \ {om[t]} /\ UNCHANGED <<unloaded, loaded, loading, listed>>
      BY <2>0, <2>9, Zenon DEF UnloadRefused, listVars, Working
    <3>2. /\ life' # None => life' = t /\ opc'[t] = "next"
          /\ op[t] = "stop" => life' = life /\ op' = op
      BY <1>0, <2>9, <3>1, Zenon DEF UnloadRefused, NextOrEnd, EndOp
    <3> QED
      BY <3>1, <3>2, Zenon DEF UnloadInv, At, Doing, Subject
  <2>10. CASE Unloaded(t)
    <3>1. ObjectsShrink
      BY <2>10, ShrinkOnly, Zenon DEF Unloaded
    <3>2. /\ loaded' \subseteq loaded /\ loading' \subseteq loading
          /\ unloading' \ unloaded' \subseteq unloading \ unloaded
      BY <3>1, Zenon DEF ObjectsShrink
    <3>3. /\ opc[t] = "teardown" /\ life = t /\ life # None
          /\ listed' = listed \ (IF op[t] = "remove" THEN {om[t]} ELSE {})
      BY <2>0, <2>10, Zenon DEF Unloaded, Working
    <3>4. op[t] \in {"remove", "load"} \cup Passing \cup Stopping
      BY <3>3, Zenon DEF LockInv, MayBeAt, Unloading
    <3>5. om[t] \notin listed' \/ op[t] = "stop"
      BY <3>3, <3>4, Zenon DEF ListInv, Unloading, Passing, Stopping, Doing, At, Subject
    <3>6. /\ life' # None => life' = t /\ opc'[t] = "next"
          /\ op[t] = "stop" => life' = life /\ op' = op
      BY <1>0, <2>10, <3>3, Zenon DEF Unloaded, NextOrEnd, EndOp
    <3> QED
      BY <3>2, <3>3, <3>5, <3>6, Zenon DEF UnloadInv, At, Doing, Subject
  <2>11. CASE Purge(t)
    <3>1. opc[t] = "purge" /\ life = t /\ life # None /\ listed' \subseteq listed /\ UNCHANGED objVars
      BY <2>0, <2>11, Zenon DEF Purge, Working
    <3>2. op[t] \in {"load"} \cup Passing
      BY <3>1, Zenon DEF LockInv, MayBeAt
    <3>3. om[t] \in listed /\ om[t] \notin unloaded
      BY <3>1, <3>2, Zenon DEF ListInv, Loading, Passing, TornInv, At, Doing, Subject
    <3>4. Clear'
      BY <2>1, <2>4, <3>1, <3>2, Zenon DEF Passing, objVars
    <3>5. CASE life' = t /\ opc'[t] = "close"
      <4>1. om' = om /\ t \notin Tracked(om[t])
        BY <1>0, <2>11, <3>5, Zenon DEF Purge, NextOrEnd, EndOp
      <4> QED
        BY <2>3, <3>1, <3>3, <3>4, <3>5, <4>1, Zenon DEF objVars
    <3>6. CASE ~(life' = t /\ opc'[t] = "close")
      <4>1. Aside
        BY <1>0, <2>11, <3>1, <3>6, Zenon DEF Purge, NextOrEnd, EndOp, Unloading
      <4> QED
        BY <2>2, <3>4, <4>1, Zenon
    <3> QED
      BY <3>5, <3>6, Zenon
  <2>12. CASE ServiceNext(t) \/ Barrier(t) \/ ReloadBegin(t)
    <3>1. /\ life = t /\ life # None /\ opc[t] \in {"next", "barrier", "reloadDrain"}
          /\ UNCHANGED <<unloading, unloaded, loaded, listed>>
      BY <2>0, <2>12, Zenon DEF ServiceNext, Barrier, ReloadBegin, listVars, objVars, Working
    <3>2. op[t] # "stop"
      BY <2>12, <3>1, Zenon DEF ServiceNext, Barrier, ReloadBegin, LockInv, MayBeAt
    <3>3. loading' \subseteq loading \cup listed
      <4>1. ServiceNext(t) => todo \subseteq listed
        BY <3>1, Zenon DEF ServiceNext, ListInv, Doing, Passing
      <4>2. Barrier(t) \/ ReloadBegin(t) => om[t] \in listed
        BY <3>1, Zenon DEF Barrier, ReloadBegin, ListInv, At, Subject, Loading
      <4> QED
        BY <2>12, <4>1, <4>2, Zenon DEF ServiceNext, Barrier, ReloadBegin, objVars
    <3>4. Aside
      BY <1>0, <2>12, <3>1, Zenon DEF ServiceNext, Barrier, ReloadBegin, CallInto, EndOp, Unloading
    <3> QED
      BY <2>1, <2>2, <2>4, <3>1, <3>2, <3>3, <3>4, Zenon
  <2>13. ASSUME NEW ok \in BOOLEAN, NEW threw \in BOOLEAN, LoadReturns(t, ok, threw) \/ StartReturns(t, ok, threw)
         PROVE  UnloadInv'
    <3>1. /\ life = t /\ life # None /\ opc[t] \in {"loading", "starting"}
          /\ UNCHANGED <<unloading, unloaded, listed>>
          /\ loaded' \cup loading' \subseteq loaded \cup loading \cup {om[t]}
      BY <2>0, <2>13, Zenon DEF LoadReturns, StartReturns, listVars, objVars, Working
    <3>2. op[t] # "stop" /\ om[t] \in listed
      BY <3>1, Zenon DEF LockInv, MayBeAt, ListInv, At, Subject, Loading
    <3>3. Aside
      BY <1>0, <2>13, <3>1, Zenon DEF LoadReturns, StartReturns, PassNext, CallInto, EndOp, Unloading
    <3> QED
      BY <2>1, <2>2, <2>4, <3>1, <3>2, <3>3, Zenon
  <2> QED
    BY <1>3, <2>5, <2>6, <2>7, <2>8, <2>9, <2>10, <2>11, <2>12, <2>13, Zenon DEF Lifecycle
<1> QED
  BY <1>1, <1>2, <1>3, Steps, Zenon DEF Quiet

LEMMA ReloadStep ==
  ASSUME TypeOK, StackInv, LockInv, ListInv, ReloadInv, [Next]_vars
  PROVE  ReloadInv'
<1>0. /\ op \in [AllThreads -> Ops] /\ opc \in [AllThreads -> Pcs] /\ om \in [AllThreads -> Modules \cup {None}]
      /\ life \in AllThreads \cup {None} /\ Main \in AllThreads
      /\ reloading \in [Modules -> AllThreads \cup {None}] /\ early \in [Modules -> SUBSET AllThreads]
  BY Zenon DEF TypeOK, LifecycleTypes, ObjectTypes, AllThreads
<1>1. CASE Quiet
  <2>1. /\ UNCHANGED <<reloading, raced, life>>
        /\ life # None => op'[life] = op[life] /\ opc'[life] = opc[life] /\ om'[life] = om[life]
    BY <1>1, QuietSteps, Zenon
  <2>2. At(Loading) => Subject \in Modules
    BY <1>0, AtWork, Zenon DEF At, Subject
  <2>3. At({"reloadDrain"}) => (Tracked(Subject) \subseteq early[Subject])'
    BY <1>1, <2>1, <2>2, QuietWaits, Zenon DEF At, Subject, Loading, ReloadInv, Tracked
  <2>4. At({"loading"}) /\ Subject \notin raced /\ reloading[Subject] = life => (Tracked(Subject) \subseteq {life})'
    BY <1>1, <2>1, <2>2, QuietWaits, Zenon DEF At, Subject, Loading, ReloadInv, Tracked
  <2> QED
    BY <2>1, <2>3, <2>4, Zenon DEF ReloadInv, At, Subject
<1>2. CASE Stop
  <2>1. UNCHANGED reloading
    BY <1>2, Zenon DEF Stop, StopPlugins, StopNext, doorVars
  <2>2. \A m \in Modules : reloading[m] = None
    BY <1>0, <1>2, ConstantsAssumption, Zenon DEF Stop, StopPlugins, StopNext, ReloadInv, At, LockInv, MayBeAt,
       Working, Stopping
  <2>3. life' \in {Main, None} /\ opc'[Main] \in {"next", "close", "none"}
    <3>1. CASE StopPlugins
      BY <1>0, <3>1, Zenon DEF StopPlugins
    <3>2. CASE StopNext
      <4>1. opc[Main] = "next" /\ life = Main
        BY <1>0, <3>2, Zenon DEF StopNext, LockInv, Working
      <4>2. life' \in {life, None}
        BY <3>2, Zenon DEF StopNext
      <4>3. opc' = opc \/ \E pc \in {"close", "none"} : opc' = [opc EXCEPT ![Main] = pc]
        BY <3>2, Zenon DEF StopNext
      <4> QED
        BY <1>0, <4>1, <4>2, <4>3, Zenon
    <3> QED
      BY <1>2, <3>1, <3>2, Zenon DEF Stop
  <2>4. ~At({"reloadDrain"})' /\ ~At({"loading"})'
    BY <2>3, Zenon DEF At
  <2> QED
    BY <2>1, <2>2, <2>4, Zenon DEF ReloadInv
<1>3. ASSUME NEW t \in AllThreads, Lifecycle(t) PROVE ReloadInv'
  <2>0. (Working(t) => life = t /\ life # None) /\ entries' = entries
    BY <1>3, AtWork, WorkKeeps, Zenon
  <2>1. ASSUME reloading' = reloading, life = None \/ (life = t /\ opc[t] \notin {"reloadDrain", "loading"}),
               life' # None => life' = t /\ opc'[t] # "reloadDrain" /\ (opc'[t] = "loading" => om'[t] \in Modules)
        PROVE  ReloadInv'
    <3>1. \A m \in Modules : reloading[m] = None
      BY <2>1, ConstantsAssumption, Zenon DEF ReloadInv, At
    <3> QED
      BY <2>1, <3>1, Zenon DEF ReloadInv, At, Subject
  <2>2. CASE Remove(t) \/ ReloadPlugin(t) \/ StartPlugins(t)
    BY <1>0, <2>1, <2>2, Zenon DEF Remove, ReloadPlugin, StartPlugins, EndOp, doorVars
  <2>3. CASE LoadActivePlugins(t) \/ LoadSinglePlugin(t)
    BY <1>0, <2>1, <2>3, AtWork, Zenon DEF LoadActivePlugins, LoadSinglePlugin, CallInto, EndOp, doorVars
  <2>4. CASE UnloadClose(t) \/ UnloadTeardown(t) \/ UnloadRefused(t)
    BY <1>0, <2>0, <2>1, <2>4, Zenon DEF UnloadClose, UnloadTeardown, UnloadRefused, NextOrEnd, EndOp, Working
  <2>10. CASE Unloaded(t) \/ Purge(t)
    BY <1>0, <2>0, <2>1, <2>10, Zenon DEF Unloaded, Purge, NextOrEnd, EndOp, Working, doorVars
  <2>5. CASE ServiceNext(t)
    <3>1. /\ life = t /\ opc[t] = "next" /\ reloading' = reloading
          /\ life' # None => life' = t /\ opc'[t] # "reloadDrain"
      BY <1>0, <2>0, <2>5, Zenon DEF ServiceNext, CallInto, EndOp, Working, doorVars
    <3>2. opc'[t] = "loading" => om'[t] \in Modules
      <4>1. \/ \E m \in todo \cup broken : om' = [om EXCEPT ![t] = m]
            \/ \E pc \in {"lock", "none"} : opc' = [opc EXCEPT ![t] = pc]
        BY <2>5, Zenon DEF ServiceNext, EndOp
      <4> QED
        BY <1>0, <4>1, Zenon DEF TypeOK, ListTypes
    <3> QED
      BY <2>1, <3>1, <3>2, Zenon
  <2>9. ASSUME NEW ok \in BOOLEAN, NEW threw \in BOOLEAN, StartReturns(t, ok, threw) PROVE ReloadInv'
    BY <1>0, <2>0, <2>1, <2>9, Zenon DEF StartReturns, PassNext, EndOp, Working
  <2>8. ASSUME NEW ok \in BOOLEAN, NEW threw \in BOOLEAN, LoadReturns(t, ok, threw) PROVE ReloadInv'
    <3>1. opc[t] = "loading" /\ reloading' = [reloading EXCEPT ![om[t]] = None]
      BY <2>8, Zenon DEF LoadReturns
    <3>2. om[t] \in Modules /\ life = t
      BY <2>0, <3>1, AtWork, Zenon DEF Loading, Working
    <3>3. ASSUME NEW m \in Modules PROVE reloading'[m] = None
      <4>1. m # om[t] => reloading[m] = None
        BY <3>2, Zenon DEF ReloadInv, Subject
      <4> QED
        BY <1>0, <3>1, <3>2, <4>1, Zenon
    <3>4. CASE life' = None
      BY <3>3, <3>4, Zenon DEF ReloadInv, At
    <3>5. CASE life' # None
      <4>1. /\ life' = life
            /\ opc' \in {[opc EXCEPT ![t] = "starting"], [opc EXCEPT ![t] = "purge"], [opc EXCEPT ![t] = "next"]}
        BY <2>8, <3>5, Zenon DEF LoadReturns, CallInto, EndOp, PassNext
      <4>2. life' = t /\ opc'[t] \in {"starting", "purge", "next"}
        BY <1>0, <3>2, <4>1, Zenon
      <4>3. ~At({"reloadDrain"})' /\ ~At({"loading"})'
        BY <4>2, Zenon DEF At
      <4> QED
        BY <3>3, <4>3, Zenon DEF ReloadInv
    <3> QED
      BY <3>4, <3>5, Zenon
  <2> USE <1>0, <2>0, ConstantsAssumption DEF ReloadInv, At, Subject, Working, EndOp, PassNext, CallInto, Tracked
  <2>6. CASE Barrier(t)
    BY <2>6, AtWork, Zenon DEF Barrier, Loading
  <2>7. CASE ReloadBegin(t)
    BY <2>7, AtWork, Zenon DEF ReloadBegin, Loading, OthersBefore
  <2> QED
    BY <1>3, <2>2, <2>3, <2>4, <2>10, <2>5, <2>6, <2>7, <2>8, <2>9, Zenon DEF Lifecycle
<1> QED
  BY <1>1, <1>2, <1>3, Steps, Zenon DEF Quiet

-----------------------------------------------------------------------------
(* Who serves *)

LEMMA LoadingStep ==
  ASSUME TypeOK, LockInv, ListInv, AliveInv, loading \subseteq alive, [Next]_vars
  PROVE  loading' \subseteq alive'
<1>0. \A m \in listed : m \in alive
  BY Zenon DEF AliveInv, Referenced, TypeOK, ListTypes
<1>1. ASSUME ObjectsShrink PROVE loading' \subseteq alive'
  BY <1>1, Zenon DEF ObjectsShrink
<1>2. CASE Quiet
  BY <1>1, <1>2, AsksKeep, CallsKeep, ShrinkOnly, Zenon DEF Quiet, AskFrame, vars
<1>3. CASE Stop
  <2>1. Destructors \/ UNCHANGED objVars
    BY <1>3, Zenon DEF Stop, StopPlugins, StopNext
  <2> QED
    BY <1>1, <2>1, ShrinkOnly, Zenon
<1>4. ASSUME NEW t \in AllThreads, Lifecycle(t) PROVE loading' \subseteq alive'
  <2>0. Working(t) => life = t /\ life # None
    BY AtWork, Zenon
  <2>1. CASE Remove(t) \/ ReloadPlugin(t) \/ StartPlugins(t) \/ Barrier(t) \/ Purge(t) \/ Unloaded(t)
    <3>1. Destructors \/ UNCHANGED objVars
      BY <2>1, Zenon DEF Remove, ReloadPlugin, StartPlugins, Barrier, Purge, Unloaded
    <3> QED
      BY <1>1, <3>1, ShrinkOnly, Zenon
  <2>2. CASE UnloadClose(t) \/ UnloadTeardown(t) \/ UnloadRefused(t)
    BY <2>2, Zenon DEF UnloadClose, UnloadTeardown, UnloadRefused
  <2>3. CASE LoadActivePlugins(t)
    BY <2>3, Zenon DEF LoadActivePlugins, AddPlugins
  <2>4. CASE LoadSinglePlugin(t)
    <3>1. alive \subseteq alive'
      BY <2>4, Zenon DEF LoadSinglePlugin, AddPlugins
    <3>2. loading' \subseteq loading \/ (loading' = loading \cup {om[t]} /\ om[t] \in listed \cup alive')
      BY <2>4, Zenon DEF LoadSinglePlugin, AddPlugins
    <3> QED
      BY <1>0, <3>1, <3>2, Zenon
  <2>5. CASE ServiceNext(t)
    <3>1. alive' = alive /\ (loading' = loading \/ \E m \in todo : loading' = loading \cup {m})
      BY <2>5, Zenon DEF ServiceNext
    <3>2. todo \subseteq listed
      BY <2>0, <2>5, Zenon DEF ServiceNext, Working, ListInv, Doing, Passing
    <3> QED
      BY <1>0, <3>1, <3>2, Zenon
  <2>6. CASE ReloadBegin(t)
    <3>1. opc[t] = "reloadDrain" /\ alive' = alive /\ loading' = loading \cup {om[t]}
      BY <2>6, Zenon DEF ReloadBegin
    <3>2. om[t] \in listed
      BY <2>0, <3>1, Zenon DEF Working, ListInv, At, Loading, Subject
    <3> QED
      BY <1>0, <3>1, <3>2, Zenon
  <2>7. ASSUME NEW ok \in BOOLEAN, NEW threw \in BOOLEAN, LoadReturns(t, ok, threw) \/ StartReturns(t, ok, threw)
        PROVE  loading' \subseteq alive'
    BY <2>7, Zenon DEF LoadReturns, StartReturns, objVars
  <2> QED
    BY <1>4, <2>1, <2>2, <2>3, <2>4, <2>5, <2>6, <2>7, Zenon DEF Lifecycle
<1> QED
  BY <1>2, <1>3, <1>4, Steps, Zenon DEF Quiet

LEMMA ServeStep ==
  ASSUME TypeOK, LockInv, ListInv, AliveInv, ServeInv, [Next]_vars
  PROVE  ServeInv'
<1>0. /\ op \in [AllThreads -> Ops] /\ opc \in [AllThreads -> Pcs] /\ om \in [AllThreads -> Modules \cup {None}]
      /\ life \in AllThreads \cup {None} /\ Main \in AllThreads
  BY Zenon DEF TypeOK, LifecycleTypes, AllThreads
<1>a. loading' \subseteq alive'
  BY LoadingStep, Zenon DEF ServeInv
<1>1. CASE Quiet
  <2>1. ObjectsShrink
    BY <1>1, AsksKeep, CallsKeep, ShrinkOnly, Zenon DEF Quiet, AskFrame, vars
  <2>2. /\ UNCHANGED <<listed, commands, half, todo, broken, life>>
        /\ life # None => op'[life] = op[life] /\ opc'[life] = opc[life] /\ om'[life] = om[life]
    BY <1>1, QuietSteps, Zenon DEF listVars
  <2>3. loading' \subseteq loading /\ \A m \in listed : m \in loaded => m \in loaded'
    BY <2>1, <2>2, Zenon DEF ObjectsShrink, Referenced, TypeOK, ListTypes
  <2>4. /\ \A t \in AllThreads : op[t] = "bootStart" => op'[t] = "bootStart" /\ opc'[t] = opc[t]
        /\ op'[Main] = "none" \/ opc'[Main] = "lock" => op[Main] = "none" \/ opc[Main] = "lock"
    <3>1. ASSUME NEW t \in AllThreads, NEW what, NEW m, Ask(t, what, m),
                 IF t = Main THEN op[t] = "none" ELSE opc[t] = "none"
          PROVE <2>4!1 /\ <2>4!2
      BY <1>0, <3>1, Zenon DEF Ask, LockInv, MayBeAt
    <3>2. CASE UNCHANGED <<op, opc>>
      BY <3>2, Zenon
    <3>3. CASE AskStep
      BY <3>1, <3>2, <3>3, AsksKeep, Zenon
    <3> QED
      BY <1>1, <3>2, <3>3, CallsKeep, Zenon DEF Quiet, vars, opVars, CallFrame
  <2> QED
    <3>1. op'[Main] = "none" \/ opc'[Main] = "lock" => listed' \ half' \subseteq commands'
      BY <2>2, <2>4, Zenon DEF ServeInv
    <3>2. ASSUME NEW m \in listed' \ (loaded' \cup half')
          PROVE  \/ At({"loading", "purge"})' /\ Subject' = m
                 \/ Doing(Passing)' /\ m \in broken'
                 \/ Doing({"stop"})'
                 \/ /\ m \notin loading'
                    /\ \/ \E t \in AllThreads : op'[t] = "bootStart" /\ (opc'[t] = "lock" \/ m \in todo')
                       \/ Doing({"remove"})' /\ At({"teardown"})' /\ Subject' = m
      <4>1. m \in listed \ (loaded \cup half) /\ (m \notin loading => m \notin loading')
        BY <2>2, <2>3, <3>2, Zenon
      <4>2. /\ \A pcs : At(pcs) => At(pcs)' /\ Subject' = Subject
            /\ \A ops : Doing(ops) => Doing(ops)'
        BY <2>2, Zenon DEF At, Doing, Subject
      <4>3. CASE At({"loading", "purge"}) /\ Subject = m
        BY <4>2, <4>3, Zenon
      <4>4. CASE (Doing(Passing) /\ m \in broken) \/ Doing({"stop"})
        BY <2>2, <4>2, <4>4, Zenon
      <4>5. CASE m \notin loading /\ \E t \in AllThreads : op[t] = "bootStart" /\ (opc[t] = "lock" \/ m \in todo)
        BY <2>2, <2>4, <4>1, <4>5, Zenon
      <4>6. CASE m \notin loading /\ Doing({"remove"}) /\ At({"teardown"}) /\ Subject = m
        BY <4>1, <4>2, <4>6, Zenon
      <4> QED
        BY <4>1, <4>3, <4>4, <4>5, <4>6, Zenon DEF ServeInv
    <3> QED
      BY <1>a, <3>1, <3>2, Zenon DEF ServeInv
<1>2. CASE Stop
  <2>1. /\ listed' = {} \/ (Doing({"stop"})' /\ listed' = listed) \/ (listed' = listed /\ Doing({"stopRetired"}))
        /\ op'[Main] # "none" /\ opc'[Main] # "lock"
    BY <1>0, <1>2, ConstantsAssumption, Zenon DEF Stop, StopPlugins, StopNext, Doing, LockInv, Working
  <2> QED
    BY <1>a, <2>1, Zenon DEF ServeInv, ListInv
<1>3. ASSUME NEW t \in AllThreads, Lifecycle(t) PROVE ServeInv'
  <2>0. Working(t) => life = t /\ life # None
    BY AtWork, Zenon
  <2>1. \A u \in AllThreads : op[u] = "bootStart" /\ opc[u] # "lock" => u = life
    BY Zenon DEF LockInv, MayBeAt, Working
  <2>2. Working(t) \/ life = None
    BY <1>3, Zenon DEF Lifecycle, Working, Remove, ReloadPlugin, StartPlugins, LoadActivePlugins, LoadSinglePlugin,
       UnloadClose,
       UnloadTeardown, UnloadRefused, Unloaded, ServiceNext, Barrier, ReloadBegin, Purge, LoadReturns, StartReturns
  <2>3. \A u \in AllThreads : u # t => op'[u] = op[u] /\ opc'[u] = opc[u]
    <3>1. ASSUME EndOp(t) \/ NextOrEnd(t) \/ \E ok \in BOOLEAN : PassNext(t, ok) PROVE <2>3
      BY <1>0, <3>1, Zenon DEF EndOp, NextOrEnd, PassNext
    <3>2. CASE Remove(t) \/ ReloadPlugin(t) \/ StartPlugins(t) \/ LoadActivePlugins(t) \/ LoadSinglePlugin(t)
      BY <1>0, <3>1, <3>2, Zenon DEF Remove, ReloadPlugin, StartPlugins, LoadActivePlugins, LoadSinglePlugin, CallInto
    <3>3. CASE UnloadClose(t) \/ UnloadTeardown(t) \/ UnloadRefused(t) \/ Unloaded(t) \/ Purge(t)
      BY <1>0, <3>1, <3>3, Zenon DEF UnloadClose, UnloadTeardown, UnloadRefused, Unloaded, Purge
    <3>4. CASE ServiceNext(t) \/ Barrier(t) \/ ReloadBegin(t)
      BY <1>0, <3>1, <3>4, Zenon DEF ServiceNext, Barrier, ReloadBegin, CallInto
    <3>5. ASSUME NEW ok \in BOOLEAN, NEW threw \in BOOLEAN, LoadReturns(t, ok, threw) \/ StartReturns(t, ok, threw)
          PROVE <2>3
      BY <1>0, <3>1, <3>5, Zenon DEF LoadReturns, StartReturns, CallInto
    <3> QED
      BY <1>3, <3>2, <3>3, <3>4, <3>5, Zenon DEF Lifecycle
  <2> DEFINE Other == \E u \in AllThreads : u # t /\ op[u] = "bootStart" /\ opc[u] = "lock"
             Here(m) == \/ life = t /\ opc[t] \in {"loading", "purge"} /\ om[t] = m
                        \/ life = t /\ op[t] \in Passing /\ m \in broken
                        \/ life = t /\ op[t] = "stop"
             Soon(m) == \/ op[t] = "bootStart" /\ (opc[t] = "lock" \/ m \in todo)
                        \/ life = t /\ op[t] = "remove" /\ opc[t] = "teardown" /\ om[t] = m
             Owed == listed \ (loaded \cup half)
             Agree == op'[Main] = "none" \/ opc'[Main] = "lock" => listed' \ half' \subseteq commands'
             Served == \A m \in Owed' : Here(m)' \/ (m \notin loading' /\ (Other \/ Soon(m)'))
  <2>4. \A m \in Owed : Here(m) \/ (m \notin loading /\ (Other \/ Soon(m)))
    BY <2>0, <2>1, <2>2, ConstantsAssumption DEF ServeInv, Doing, At, Subject
  <2>5. ASSUME life' \in {t, None}, Agree, Served PROVE ServeInv'
    <3> DEFINE Stands(m) ==
          \/ life' # None /\ opc'[life'] \in {"loading", "purge"} /\ om'[life'] = m
          \/ life' # None /\ op'[life'] \in Passing /\ m \in broken'
          \/ life' # None /\ op'[life'] = "stop"
          \/ /\ m \notin loading'
             /\ \/ \E u \in AllThreads : op'[u] = "bootStart" /\ (opc'[u] = "lock" \/ m \in todo')
                \/ life' # None /\ op'[life'] = "remove" /\ opc'[life'] = "teardown" /\ om'[life'] = m
    <3>1. t # None
      BY ConstantsAssumption, Zenon
    <3>2. ASSUME NEW m, Here(m)' PROVE Stands(m)
      BY <3>1, <3>2, Zenon
    <3>3. ASSUME NEW m, m \notin loading', Soon(m)' PROVE Stands(m)
      BY <3>1, <3>3, Zenon
    <3>4. ASSUME NEW m, m \notin loading', Other PROVE Stands(m)
      BY <2>3, <3>4, Zenon
    <3>5. \A m \in Owed' : Stands(m)
      BY <2>5, <3>2, <3>3, <3>4, Zenon
    <3> QED
      BY <1>a, <2>5, <3>5, Zenon DEF ServeInv, Doing, At, Subject
  <2>6. op[Main] = "none" \/ opc[Main] = "lock" => listed \ half \subseteq commands
    BY Zenon DEF ServeInv
  <2>7. t = Main => op[t] \in Stopping \/ opc[t] = "none"
    BY Zenon DEF LockInv, MayBeAt
  <2>8. opc[t] \in Unloading => /\ op[t] \in {"remove", "load"} \cup Passing \cup Stopping
                                /\ op[t] \in {"load"} \cup Passing => om[t] \notin listed
                                /\ op[t] = "stopRetired" => listed = {}
    BY <2>0, Zenon DEF LockInv, MayBeAt, ListInv, Doing, At, Subject, Unloading, Working
  <2>9. ASSUME UNCHANGED <<listed, commands>>, half \subseteq half', t = Main => op'[t] # "none" /\ opc'[t] # "lock"
        PROVE  Agree
    BY <1>0, <2>3, <2>6, <2>9, Zenon
  <2> HIDE DEF Other, Agree
  <2>10. CASE Remove(t) \/ ReloadPlugin(t)
    <3>1. /\ UNCHANGED <<listed, commands, half, loaded, loading>> /\ life = None /\ life' \in {t, None}
          /\ op[t] \in {"remove", "reload"} /\ opc[t] = "lock"
      BY <2>10, Zenon DEF Remove, ReloadPlugin, EndOp, listVars, objVars
    <3>2. Agree
      BY <2>7, <2>9, <3>1, Zenon DEF Stopping
    <3>3. Served
      BY <2>4, <3>1, ConstantsAssumption, Zenon
    <3> QED
      BY <2>5, <3>1, <3>2, <3>3, Zenon
  <2>11. CASE StartPlugins(t)
    <3>1. /\ UNCHANGED <<listed, commands, half, loaded, loading, op>> /\ life = None /\ life' = t
          /\ op[t] \in Passing /\ opc[t] = "lock"
      BY <2>11, Zenon DEF StartPlugins, listVars, objVars, Passing
    <3>2. op[t] = "bootStart" => todo' = listed \ (loaded \cup loading)
      BY <2>11, BootStartsUnloaded, Zenon DEF StartPlugins
    <3>3. Agree
      BY <2>7, <2>9, <3>1, Zenon DEF Stopping, Passing
    <3>4. Served
      BY <2>4, <3>1, <3>2, ConstantsAssumption, Zenon
    <3> QED
      BY <2>5, <3>1, <3>3, <3>4, Zenon
  <2>12. CASE LoadActivePlugins(t)
    <3>1. /\ op[t] = "boot" /\ opc[t] = "lock" /\ op'[t] = "bootStart" /\ opc'[t] = "lock" /\ life = None
          /\ life' = None
          /\ UNCHANGED <<loaded, loading>>
      BY <1>0, <2>12, Zenon DEF LoadActivePlugins
    <3>2. \E new, torn : /\ new \cap alive = {}
                         /\ listed' = listed \cup new /\ half' = half \cup torn
                         /\ commands \cup (new \ torn) \subseteq commands'
      <4>1. PICK new \in SUBSET (Modules \ (alive \cup unloaded)) : \E torn \in SUBSET new : AddPlugins(new, torn)
        BY <2>12, Zenon DEF LoadActivePlugins
      <4>2. PICK torn \in SUBSET new : AddPlugins(new, torn)
        BY <4>1, Zenon
      <4>3. /\ new \cap alive = {} /\ listed' = listed \cup new /\ half' = half \cup torn
            /\ commands \cup (new \ torn) \subseteq commands'
        BY <4>2, Zenon DEF AddPlugins
      <4> QED
        BY <4>3, Zenon
    <3>3. Agree
      BY <1>0, <2>3, <2>6, <2>7, <3>1, <3>2, Zenon DEF Stopping, Agree
    <3>4. Served
      BY <2>4, <3>1, <3>2, ConstantsAssumption, Zenon DEF ServeInv
    <3> QED
      BY <2>5, <3>1, <3>3, <3>4, Zenon
  <2>13. CASE LoadSinglePlugin(t)
    <3>1. op[t] = "load" /\ opc[t] = "lock" /\ life = None /\ life' \in {t, None} /\ loaded' = loaded
      BY <2>13, Zenon DEF LoadSinglePlugin, EndOp
    <3>2. \/ UNCHANGED <<listed, commands, half>>
          \/ \E torn : /\ listed' = listed \cup {om[t]} /\ half' = half \cup torn
                       /\ commands \cup ({om[t]} \ torn) \subseteq commands'
      BY <2>13, Zenon DEF LoadSinglePlugin, AddPlugins
    <3>3. Agree
      BY <1>0, <2>3, <2>6, <2>7, <3>1, <3>2, Zenon DEF Stopping, Agree
    <3>4. /\ half \subseteq half'
          /\ \/ listed' \subseteq listed \cup half' /\ loading' = loading
             \/ /\ listed' \subseteq listed \cup {om[t]} /\ loading' = loading \cup {om[t]}
                /\ life' = t /\ opc'[t] = "loading" /\ om'[t] = om[t]
      BY <1>0, <2>13, Zenon DEF LoadSinglePlugin, AddPlugins, CallInto
    <3>5. Served
      BY <2>4, <3>1, <3>4, ConstantsAssumption, Zenon
    <3> QED
      BY <2>5, <3>1, <3>3, <3>5, Zenon
  <2>14. CASE UnloadClose(t)
    <3>1. /\ UNCHANGED <<listed, commands, half, loaded, loading, op, todo, broken, life>>
          /\ opc[t] = "close" /\ opc'[t] = "drain" /\ life = t
      BY <1>0, <2>0, <2>14, Zenon DEF UnloadClose, listVars, Working
    <3>2. Agree
      BY <2>7, <2>9, <3>1, Zenon DEF Stopping
    <3>3. Served
      BY <2>4, <3>1, Zenon
    <3> QED
      BY <2>5, <3>1, <3>2, <3>3, Zenon
  <2>15. CASE UnloadTeardown(t)
    <3>1. /\ opc[t] = "drain" /\ opc'[t] = "teardown" /\ life = t
          /\ UNCHANGED <<listed, commands, half, life, op, om, todo, broken>>
          /\ loaded' = loaded \ {om[t]} /\ loading' = loading \ {om[t]}
      BY <1>0, <2>0, <2>15, Zenon DEF UnloadTeardown, listVars, Working
    <3>2. Agree
      BY <2>7, <2>9, <3>1, Zenon DEF Stopping
    <3>3. om[t] \in listed => op[t] \in {"remove", "stop"}
      BY <2>8, <3>1, Zenon DEF Unloading, Stopping
    <3>4. Served
      BY <2>4, <3>1, <3>3, Zenon
    <3> QED
      BY <2>5, <3>1, <3>2, <3>4, Zenon
  <2>16. ASSUME NextOrEnd(t), opc[t] \in {"drain", "teardown"}, life = t
         PROVE  /\ life' \in {t, None}
                /\ t = Main => op'[t] # "none" /\ opc'[t] # "lock"
                /\ \A m \in listed : op[t] # "remove" \/ m # om[t] =>
                     (Here(m) => Here(m)') /\ (Soon(m) => Soon(m)')
    <3>1. \/ op' = op /\ life' = life /\ opc'[t] = "next" /\ todo' = todo \ {om[t]} /\ broken' = broken \ {om[t]}
          \/ op[t] \notin Passing \cup Stopping /\ life' = None
      BY <1>0, <2>16, Zenon DEF NextOrEnd, EndOp, Passing, Stopping
    <3>2. op[t] \in Passing => om[t] \notin listed
      BY <2>8, <2>16, Zenon DEF Unloading
    <3>3. t = Main => op'[t] # "none" /\ opc'[t] # "lock"
      BY <2>7, <2>16, <3>1, Zenon DEF Stopping
    <3>4. "bootStart" \in Passing /\ "stop" \in Stopping /\ "remove" \notin Passing
      BY DEF Passing, Stopping
    <3>5. ASSUME NEW m \in listed, op[t] # "remove" \/ m # om[t]
          PROVE  (Here(m) => Here(m)') /\ (Soon(m) => Soon(m)')
      BY <2>16, <3>1, <3>2, <3>4, <3>5, Zenon
    <3> QED
      BY <2>16, <3>1, <3>3, <3>5, Zenon
  <2>17. CASE UnloadRefused(t)
    <3>1. UNCHANGED <<listed, commands, half, loaded, loading>> /\ opc[t] = "drain" /\ life = t /\ NextOrEnd(t)
      BY <2>0, <2>17, Zenon DEF UnloadRefused, listVars, Working
    <3>2. Agree
      BY <2>9, <2>16, <3>1, Zenon
    <3>3. ASSUME NEW m \in Owed' PROVE Here(m)' \/ (m \notin loading' /\ (Other \/ Soon(m)'))
      <4>1. op[t] = "remove" => ~Here(m) /\ ~Soon(m)
        BY <3>1, Zenon DEF Passing
      <4> QED
        BY <2>4, <2>16, <3>1, <3>3, <4>1, Zenon
    <3> QED
      BY <2>5, <2>16, <3>1, <3>2, <3>3, Zenon
  <2>18. CASE Unloaded(t)
    <3>1. /\ ObjectsShrink /\ opc[t] = "teardown" /\ life = t /\ NextOrEnd(t)
          /\ listed' = listed \ (IF op[t] = "remove" THEN {om[t]} ELSE {})
          /\ commands' = commands \ (IF op[t] = "remove" THEN {om[t]} ELSE {})
          /\ half' = half \cap listed'
      BY <2>0, <2>18, ShrinkOnly, Zenon DEF Unloaded, Working
    <3>2. Owed' \subseteq Owed /\ loading' \subseteq loading
      BY <3>1, Zenon DEF ObjectsShrink, Referenced, TypeOK, ListTypes
    <3>3. Agree
      BY <1>0, <2>3, <2>6, <2>16, <3>1, Zenon DEF Agree
    <3>4. ASSUME NEW m \in Owed' PROVE Here(m)' \/ (m \notin loading' /\ (Other \/ Soon(m)'))
      <4>1. m \in Owed /\ (op[t] = "remove" => m # om[t])
        BY <3>1, <3>2, <3>4, Zenon
      <4> QED
        BY <2>4, <2>16, <3>1, <3>2, <4>1, Zenon
    <3> QED
      BY <2>5, <2>16, <3>1, <3>3, <3>4, Zenon
  <2>19. CASE Purge(t)
    <3>1. /\ opc[t] = "purge" /\ life = t /\ listed' = listed \ {om[t]} /\ commands' = commands \ {om[t]}
          /\ half' = half \ {om[t]} /\ UNCHANGED <<loaded, loading>>
      BY <2>0, <2>19, Zenon DEF Purge, Working, objVars
    <3>2. op[t] \in {"load"} \cup Passing /\ t # Main
      BY <2>7, <3>1, Zenon DEF LockInv, MayBeAt, Passing, Stopping
    <3>3. /\ life' \in {t, None}
          /\ op[t] \in Passing => /\ op' = op /\ life' = t
                                  /\ todo \ {om[t]} \subseteq todo' /\ broken \ {om[t]} \subseteq broken'
      BY <1>0, <2>19, <3>1, Zenon DEF Purge, NextOrEnd, EndOp, Passing
    <3>4. Agree
      BY <1>0, <2>3, <2>6, <3>1, <3>2, Zenon DEF Agree
    <3>5. "load" \notin Passing /\ "bootStart" \in Passing /\ "stop" \notin Passing
      BY DEF Passing
    <3>6. Served
      BY <2>4, <3>1, <3>2, <3>3, <3>5, Zenon
    <3> QED
      BY <2>5, <3>3, <3>4, <3>6, Zenon
  <2>20. CASE ServiceNext(t)
    <3>1. /\ opc[t] = "next" /\ op[t] \in Passing /\ UNCHANGED <<listed, commands, half, loaded>>
          /\ life = t /\ life' \in {t, None}
      BY <2>0, <2>20, Zenon DEF ServiceNext, EndOp, Working, Passing, listVars
    <3>2. \/ /\ UNCHANGED <<op, life, todo, broken>>
             /\ \/ loading' = loading
                \/ \E m \in todo : loading' = loading \cup {m} /\ opc'[t] = "loading" /\ om'[t] = m
          \/ todo \cup broken = {} /\ loading' = loading
      BY <1>0, <2>20, Zenon DEF ServiceNext, CallInto
    <3>3. Agree
      BY <2>7, <2>9, <3>1, Zenon DEF Passing, Stopping
    <3>4. Served
      BY <2>4, <3>1, <3>2, Zenon DEF Passing
    <3> QED
      BY <2>5, <3>1, <3>3, <3>4, Zenon
  <2>21. CASE Barrier(t) \/ ReloadBegin(t)
    <3>1. /\ opc[t] \in {"barrier", "reloadDrain"}
          /\ UNCHANGED <<listed, commands, half, loaded, op, todo, broken, life>>
          /\ life = t
          /\ \/ loading' = loading
             \/ loading' = loading \cup {om[t]} /\ opc'[t] = "loading" /\ om'[t] = om[t]
      BY <1>0, <2>0, <2>21, Zenon DEF Barrier, ReloadBegin, Working, listVars, objVars
    <3>2. op[t] \notin Stopping
      BY <3>1, Zenon DEF LockInv, MayBeAt, Stopping
    <3>3. Agree
      BY <2>7, <2>9, <3>1, <3>2, Zenon
    <3>4. Served
      BY <2>4, <3>1, Zenon
    <3> QED
      BY <2>5, <3>1, <3>3, <3>4, Zenon
  <2>22. ASSUME NEW ok \in BOOLEAN, NEW threw \in BOOLEAN, LoadReturns(t, ok, threw) PROVE ServeInv'
    <3>1. /\ UNCHANGED <<listed, commands>> /\ opc[t] = "loading" /\ loaded \subseteq loaded'
          /\ loading' \subseteq loading
          /\ half \subseteq half' /\ life = t /\ life' \in {t, None}
      BY <2>0, <2>22, Zenon DEF LoadReturns, PassNext, EndOp, Working
    <3>2. op[t] \in {"load", "reload", "service", "bootStart"}
      BY <3>1, Zenon DEF LockInv, MayBeAt
    <3>3. Agree
      BY <2>7, <2>9, <3>1, <3>2, Zenon DEF Stopping
    <3>4. \/ om[t] \in loaded' \cup half'
          \/ life' = t /\ opc'[t] = "purge" /\ om'[t] = om[t]
          \/ life' = t /\ op'[t] \in Passing /\ om[t] \in broken'
      BY <1>0, <2>22, <3>1, <3>2, Zenon DEF LoadReturns, FailsUnpurged, PassNext, Passing
    <3>5. op[t] \in Passing => op' = op /\ life' = life /\ todo' = todo \ {om[t]} /\ broken \subseteq broken'
      BY <2>22, Zenon DEF LoadReturns, FailsUnpurged, PassNext, Passing
    <3>6. "bootStart" \in Passing
      BY DEF Passing
    <3>7. Served
      BY <2>4, <3>1, <3>2, <3>4, <3>5, <3>6, Zenon
    <3> QED
      BY <2>5, <3>1, <3>3, <3>7, Zenon
  <2>23. ASSUME NEW ok \in BOOLEAN, NEW threw \in BOOLEAN, StartReturns(t, ok, threw) PROVE ServeInv'
    <3>1. /\ UNCHANGED <<listed, commands, half, loaded, loading>> /\ opc[t] = "starting"
          /\ life = t /\ life' \in {t, None}
      BY <2>0, <2>23, Zenon DEF StartReturns, PassNext, EndOp, Working, listVars, objVars
    <3>2. op[t] \in {"load", "reload", "post"}
      BY <3>1, Zenon DEF LockInv, MayBeAt
    <3>3. op[t] = "post" => op' = op /\ life' = life /\ broken \subseteq broken'
      BY <2>23, Zenon DEF StartReturns, PassNext
    <3>4. Agree
      BY <2>7, <2>9, <3>1, <3>2, Zenon DEF Stopping
    <3>5. Served
      BY <2>4, <3>1, <3>2, <3>3, Zenon DEF Passing
    <3> QED
      BY <2>5, <3>1, <3>4, <3>5, Zenon
  <2> QED
    BY <1>3, <2>10, <2>11, <2>12, <2>13, <2>14, <2>15, <2>17, <2>18, <2>19, <2>20, <2>21, <2>22, <2>23,
       Zenon DEF Lifecycle
<1> QED
  BY <1>1, <1>2, <1>3, Steps, Zenon DEF Quiet

-----------------------------------------------------------------------------
(* The invariant, and what follows from it *)

\* The inductive invariant of dispatch, unload and reload.
THEOREM InvariantHolds == Spec => []IInv
<1>1. Init => IInv
  <2> SUFFICES ASSUME Init PROVE IInv
    OBVIOUS
  <2>1. TornInv /\ UnloadInv /\ ReloadInv /\ ServeInv
    <3>1. /\ unloading = {} /\ unloaded = {} /\ retired = {} /\ raced = {} /\ life = None /\ listed = loaded
          /\ loading = {} /\ half = {} /\ started = loaded /\ reloading = [m \in Modules |-> None]
          /\ early = [m \in Modules |-> {}]
      BY Zenon DEF Init
    <3>2. TornInv
      BY <3>1, ConstantsAssumption, Zenon DEF TornInv, At, Doing
    <3>3. UnloadInv
      BY <3>1, ConstantsAssumption, Zenon DEF UnloadInv, At, Doing
    <3>4. ReloadInv
      BY <3>1, ConstantsAssumption, Zenon DEF ReloadInv, At, Doing
    <3>5. ServeInv
      <4>1. commands = listed
        BY Zenon DEF Init
      <4> QED
        BY <3>1, <4>1, Zenon DEF ServeInv
    <3> QED
      BY <3>2, <3>3, <3>4, <3>5, Zenon
  <2> QED
    BY <2>1, InitCInv, Zenon DEF IInv
<1>2. IInv /\ [Next]_vars => IInv'
  <2> SUFFICES ASSUME IInv, [Next]_vars PROVE IInv'
    OBVIOUS
  <2>1. TypeOK /\ StackInv /\ LockInv /\ ListInv /\ AliveInv
    BY Zenon DEF IInv, CInv
  <2>2. TornInv' /\ UnloadInv' /\ ReloadInv' /\ ServeInv'
    BY <2>1, TornStep, UnloadStep, ReloadStep, ServeStep, Zenon DEF IInv
  <2> QED
    BY <2>2, CInvStep, Zenon DEF IInv
<1> QED
  BY <1>1, <1>2, PTL DEF Spec

\* The reload barrier of load_plugin keeps every other thread out of the module
\* while loadModuleEx runs, or the reload is reported as raced.
THEOREM ReloadsAreAlone == Spec => []ReloadIsAlone
<1>1. IInv => ReloadIsAlone
  <2> SUFFICES ASSUME IInv, NEW t \in AllThreads, opc[t] = "loading", om[t] \notin raced, reloading[om[t]] = t
               PROVE  InsideOf(om[t]) \subseteq {t}
    BY Zenon DEF ReloadIsAlone
  <2>1. life = t /\ life # None /\ om[t] \in Modules
    BY AtWork, Zenon DEF IInv, CInv, Working, Loading
  <2>2. Tracked(om[t]) \subseteq {t}
    BY <2>1, Zenon DEF IInv, CInv, ReloadInv, At, Subject
  <2> QED
    BY <2>1, <2>2, InsideIsTracked, Zenon DEF IInv, CInv
<1> QED
  BY <1>1, InvariantHolds, PTL

\* No lifecycle call ends with a barrier up or the door of a module that is
\* listed or loaded shut: a refused unload_plugin opens it again.
THEOREM DoorsOpenAgain == Spec => []DoorsReopen
<1>1. IInv => DoorsReopen
  BY Zenon DEF IInv, CInv, DoorsReopen, UnloadInv, ReloadInv, At, Doing, TypeOK, ObjectTypes
<1> QED
  BY <1>1, InvariantHolds, PTL

\* Between lifecycle calls the modules plugin_list_ has are loaded, not torn
\* down, and the ones the registries have, but for those that an add_plugin
\* that threw or a load that nothing purged has left half done.
THEOREM ListedModulesServe == Spec => []ListedServe
<1>1. IInv => ListedServe
  <2> SUFFICES ASSUME IInv, life = None, op[Main] = "none"
               PROVE  /\ commands \subseteq listed /\ listed \ half \subseteq commands /\ listed \cap unloaded = {}
                      /\ (\A t \in AllThreads : op[t] # "bootStart") => listed \ half \subseteq loaded
    BY Zenon DEF ListedServe
  <2>1. commands \subseteq listed /\ listed \ half \subseteq commands
    BY Zenon DEF IInv, CInv, AliveInv, ServeInv
  <2>2. listed \cap unloaded = {}
    BY Zenon DEF IInv, TornInv, Doing
  <2>3. (\A t \in AllThreads : op[t] # "bootStart") => listed \ half \subseteq loaded
    BY Zenon DEF IInv, ServeInv, At, Doing
  <2> QED
    BY <2>1, <2>2, <2>3, Zenon
<1> QED
  BY <1>1, InvariantHolds, PTL

-----------------------------------------------------------------------------
(* Dispatches implement ModuleGate. *)

\* A module is torn down, by unload_plugin or by its destructor, with nobody
\* inside, and then stays down.
LEMMA TornDownEmpty ==
  ASSUME IInv, [Next]_vars, UNCHANGED frame, NEW m \in Modules
  PROVE  (m \in unloaded => m \in unloaded') /\ (m \in unloaded' /\ m \notin unloaded => InsideOf(m) = {})
<1>1. CASE ObjectsShrink
  BY <1>1, Zenon DEF ObjectsShrink, Referenced, Holds, InsideOf
<1>2. ASSUME NEW t \in AllThreads, UnloadTeardown(t)
      PROVE  (m \in unloaded => m \in unloaded') /\ (m \in unloaded' /\ m \notin unloaded => InsideOf(m) = {})
  <2>1. /\ opc[t] = "drain" /\ ~OthersBefore(t, om[t])
        /\ unloaded' \subseteq unloaded \cup {om[t]} /\ unloaded \subseteq unloaded'
    BY <1>2, Zenon DEF UnloadTeardown
  <2>2. life = t /\ life # None /\ om[t] \in Modules
    BY <2>1, AtWork, Zenon DEF IInv, CInv, Working, Unloading
  <2>3. Tracked(om[t]) = {}
    BY <2>1, <2>2, Zenon DEF IInv, CInv, UnloadInv, At, Subject, OthersBefore
  <2> QED
    BY <2>1, <2>2, <2>3, InsideIsTracked, Zenon DEF IInv, CInv
<1>3. ASSUME NEW t \in AllThreads, Lifecycle(t) PROVE unloaded' = unloaded \/ ObjectsShrink \/ UnloadTeardown(t)
  BY <1>3, ShrinkOnly, Zenon DEF Lifecycle, Remove, ReloadPlugin, StartPlugins, LoadActivePlugins, LoadSinglePlugin,
     UnloadClose,
     UnloadRefused, Unloaded, ServiceNext, Barrier, ReloadBegin, Purge, LoadReturns, StartReturns, objVars
<1>4. Stop => ObjectsShrink
  BY ShrinkOnly, Zenon DEF Stop, StopPlugins, StopNext
<1>5. Quiet => ObjectsShrink
  BY AsksKeep, CallsKeep, ShrinkOnly, Zenon DEF Quiet, AskFrame, vars
<1> QED
  BY <1>1, <1>2, <1>3, <1>4, <1>5, Steps, Zenon DEF Quiet

LEMMA GateStep ==
  IInv /\ [Next]_vars => [Gate!Next]_<<DispatchDoor, CallersInside>>
<1> SUFFICES ASSUME IInv, [Next]_vars PROVE [Gate!Next]_<<DispatchDoor, CallersInside>>
  OBVIOUS
<1>0. TypeOK /\ StackInv
  BY Zenon DEF IInv, CInv
<1>1. CASE UNCHANGED frame
  <2>1. UNCHANGED CallersInside
    BY <1>1, Zenon DEF CallersInside, InsideOf
  <2>2. ASSUME NEW m \in Modules PROVE Gate!MayTurn(m, DispatchDoor'[m])
    <3>1. (m \in unloaded => m \in unloaded') /\ (m \in unloaded' /\ m \notin unloaded => CallersInside[m] = {})
      BY <1>1, TornDownEmpty, Zenon DEF CallersInside
    <3> QED
      BY <3>1, Zenon DEF Gate!MayTurn, DispatchDoor
  <2>3. DOMAIN DispatchDoor' = Modules
    BY Zenon DEF DispatchDoor
  <2> QED
    BY <2>1, <2>2, <2>3, Zenon DEF Gate!Turn, Gate!Next
<1>2. ASSUME NEW t \in AllThreads, Enter(t), DoorIsOpen(t, ctarget[t])
      PROVE  [Gate!Next]_<<DispatchDoor, CallersInside>>
  <2> DEFINE m == ctarget[t]
  <2>1. m \in Modules /\ UNCHANGED DispatchDoor
    <3>1. ctarget[t] \in Modules
      BY <1>0, <1>2, EnterPushes, Zenon
    <3>2. unloaded' = unloaded /\ unloading' = unloading
      BY <1>2, Zenon DEF Enter
    <3> QED
      BY <3>1, <3>2, Zenon DEF DispatchDoor
  <2>2. \A n \in Modules : InsideOf(n)' = IF n = m THEN InsideOf(n) \cup {t} ELSE InsideOf(n)
    <3>1. m # None
      BY <1>2, <2>1, ConstantsAssumption, Zenon
    <3>2. frame[t][sp[t] + 1] = None
      <4>1. sp[t] + 1 \in Depths /\ ~(sp[t] + 1 <= sp[t])
        <5>1. sp[t] \in Nat /\ sp[t] + 1 \in Depths
          BY <1>0, <1>2, EnterPushes, Zenon
        <5> QED
          BY <5>1
      <4> QED
        BY <1>0, <4>1, ZenonT(30) DEF StackInv
    <3> QED
      <4>1. \A u \in AllThreads, i \in Depths :
              frame'[u][i] = IF u = t /\ i = sp[t] + 1 THEN m ELSE frame[u][i]
        BY <1>0, <1>2, EnterPushes, Zenon
      <4>2. sp[t] + 1 \in Depths
        BY <1>0, <1>2, EnterPushes, Zenon
      <4> HIDE DEF m
      <4> QED
        <5>1. ASSUME NEW n \in Modules, n # m PROVE InsideOf(n)' = InsideOf(n)
          <6>1. \A u \in AllThreads, i \in Depths : frame'[u][i] = n <=> frame[u][i] = n
            BY <3>2, <4>1, <5>1, ConstantsAssumption, Zenon
          <6> QED
            BY <6>1, Zenon DEF InsideOf
        <5>2. ASSUME NEW n \in Modules, n = m PROVE InsideOf(n)' = InsideOf(n) \cup {t}
          <6>1. \A u \in AllThreads :
                  (\E i \in Depths : frame'[u][i] = n) <=> (\E i \in Depths : frame[u][i] = n) \/ u = t
            BY <3>1, <3>2, <4>1, <4>2, <5>2, Zenon
          <6> QED
            BY <6>1, Zenon DEF InsideOf
        <5> QED
          BY <5>1, <5>2, Zenon
  <2>3. CallersInside' = [CallersInside EXCEPT ![m] = @ \cup {t}]
    BY <2>1, <2>2, Zenon DEF CallersInside
  <2>4. CASE m \notin unloading
    <3>1. DispatchDoor[m] = "open"
      BY <2>1, <2>4, Zenon DEF DispatchDoor, IInv, TornInv
    <3> QED
      BY <2>1, <2>3, <3>1, Zenon DEF Gate!Enter, Gate!Next
  <2>5. CASE t \in InsideOf(m)
    <3>1. UNCHANGED CallersInside
      BY <2>2, <2>5, Zenon DEF CallersInside
    <3> QED
      BY <2>1, <3>1, Zenon
  <2> QED
    BY <1>0, <1>2, <2>1, <2>4, <2>5, InsideIsTracked, Zenon DEF DoorIsOpen
<1>3. ASSUME NEW t \in AllThreads, Leave(t)
      PROVE  [Gate!Next]_<<DispatchDoor, CallersInside>>
  <2>0. PICK m \in Modules : m = frame[t][sp[t]]
    BY <1>0, <1>3, LeavePops, Zenon
  <2>1. UNCHANGED DispatchDoor /\ sp[t] \in Depths
    BY <1>0, <1>3, LeavePops, Zenon DEF Leave, DispatchDoor, objVars
  <2>2. t \in InsideOf(m)
    BY <2>0, <2>1, Zenon DEF InsideOf
  <2>3. \A n \in Modules : n # m => InsideOf(n)' = InsideOf(n)
    <3>1. \A u \in AllThreads, i \in Depths :
            frame'[u][i] = IF u = t /\ i = sp[t] THEN None ELSE frame[u][i]
      BY <1>0, <1>3, LeavePops, Zenon
    <3>2. ASSUME NEW n \in Modules, n # m PROVE InsideOf(n)' = InsideOf(n)
      <4>1. \A u \in AllThreads, i \in Depths : frame'[u][i] = n <=> frame[u][i] = n
        BY <2>0, <3>1, <3>2, ConstantsAssumption, Zenon
      <4> QED
        BY <4>1, Zenon DEF InsideOf
    <3> QED
      BY <3>2, Zenon
  <2>4. InsideOf(m)' \in {InsideOf(m), InsideOf(m) \ {t}}
    <3>1. \A u \in AllThreads : u # t => (u \in InsideOf(m)' <=> u \in InsideOf(m))
      <4>1. \A u \in AllThreads, i \in Depths : u # t => frame'[u][i] = frame[u][i]
        <5>1. \A u \in AllThreads, i \in Depths :
                frame'[u][i] = IF u = t /\ i = sp[t] THEN None ELSE frame[u][i]
          BY <1>0, <1>3, LeavePops, Zenon
        <5> QED
          BY <5>1, Zenon
      <4> QED
        BY <4>1, Zenon DEF InsideOf
    <3>2. InsideOf(m)' \subseteq AllThreads /\ InsideOf(m) \subseteq AllThreads
      BY Zenon DEF InsideOf
    <3> QED
      BY <2>2, <3>1, <3>2
  <2>5. CASE InsideOf(m)' = InsideOf(m)
    <3>1. UNCHANGED CallersInside
      BY <2>3, <2>5, Zenon DEF CallersInside
    <3> QED
      BY <2>1, <3>1, Zenon
  <2>6. CASE InsideOf(m)' = InsideOf(m) \ {t}
    <3>1. CallersInside' = [CallersInside EXCEPT ![m] = @ \ {t}]
      BY <2>1, <2>3, <2>6, Zenon DEF CallersInside
    <3>2. t \in CallersInside[m]
      BY <2>1, <2>2, Zenon DEF CallersInside
    <3> QED
      BY <2>1, <3>1, <3>2, Zenon DEF Gate!Leave, Gate!Next
  <2> QED
    BY <2>4, <2>5, <2>6, Zenon
<1>4. ASSUME NEW t \in AllThreads, CallStep(t)
      PROVE  UNCHANGED frame \/ (Enter(t) /\ DoorIsOpen(t, ctarget[t])) \/ Leave(t)
  BY <1>4, Zenon DEF CallStep, Call, Lookup, CheckLoaded, Enter, FreeReply
<1> QED
  BY <1>1, <1>2, <1>3, <1>4, Steps, AsksKeep, WorkKeeps, Zenon DEF AskFrame, callVars, vars

\* Dispatches implement ModuleGate for any modules, threads and nesting:
\* dispatch_lock lets no thread into a module that is being unloaded unless it
\* is inside already, and unload_plugin and the destructor tear no module down
\* while a call is inside it.
THEOREM DispatchesAreGates == Spec => CallsKeepTheGate
<1>1. Init => Gate!Init
  BY ConstantsAssumption DEF Init, Gate!Init, DispatchDoor, CallersInside, InsideOf
<1> QED
  BY <1>1, InvariantHolds, GateStep, PTL DEF Spec, CallsKeepTheGate, Gate!Spec
=============================================================================
