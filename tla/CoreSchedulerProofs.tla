------------------------- MODULE CoreSchedulerProofs -------------------------
(***************************************************************************)
(* Proofs about CoreScheduler, for any number of threads, periodic tasks   *)
(* and requested reloads.                                                  *)
(***************************************************************************)
EXTENDS CoreScheduler, SimpleSchedulerProofs

(***************************************************************************)
(* The core's part of the inductive invariant.  There is no thread before  *)
(* the start; the handler is set for as long as a worker may look for it;  *)
(* and when stop() gives up on the join every thread that is left is in a  *)
(* task, or on its way from there to its end.                              *)
(***************************************************************************)
OwnerInv ==
  /\ mpc \in {"boot", "start", "startThreads"} => Live = {}
  /\ mpc \in {"boot", "start"} => ~running
  /\ mpc \notin {"boot", "down"} => handler
  /\ mpc \in {"stopWake", "join", "stopped", "down"} => stopRequested
  /\ mpc \in {"stopped", "down"} => \A s \in Slots : pc[s] \in {"none", "call", "push", "loop"}

(***************************************************************************)
(* A task has one instance, but a reload that has returned, which has none *)
(* any more: it returned once.                                             *)
(***************************************************************************)
Counted(id) ==
  /\ Chains(id) <= 1
  /\ id > lastId => Chains(id) = 0 /\ source[id] = "UNKNOWN" /\ returned[id] = 0
  /\ id <= lastId => id \in tasks
  /\ mpc # "down" /\ id \in tasks /\ Chains(id) = 0 => source[id] = "RELOAD" /\ returned[id] = 1
  /\ source[id] = "RELOAD" => returned[id] \in {0, 1} /\ (Chains(id) # 0 => returned[id] = 0)

ChainInv == \A id \in Ids : Counted(id)

IInv == TypeOK /\ PoolInv /\ OwnerInv /\ ChainInv

-----------------------------------------------------------------------------
(* The kinds of steps *)

PoolAct(s) == PoolStep(s) /\ UNCHANGED coreVars
OwnerAct == (Start \/ StartThreads \/ Stop \/ StopWake \/ Join(StopTimeout)) /\ UNCHANGED coreVars
AddAct == \E src \in {"PERIODIC", "RELOAD"} : Add(src)

LEMMA Steps ==
  [Next]_vars => \/ UNCHANGED vars \/ OwnerAct \/ Boot \/ Shutdown \/ UnsetHandler \/ AddAct
                 \/ \E id \in Ids : Publish(id)
                 \/ \E s \in Slots : PoolAct(s) \/ LookUp(s) \/ Ends(s)
BY Zenon DEF Next, Core, Pool, Due, PoolAct, PoolStep, OwnerAct, AddAct, AddPeriodic, RequestReload

LEMMA OwnerKeeps ==
  ASSUME TypeOK, PoolInv, OwnerInv, OwnerAct
  PROVE  /\ SchedulerTypes' /\ PoolInv' /\ UNCHANGED <<tasks, lastId, queue, hold, handler>> /\ UNCHANGED coreVars
         /\ mpc # "startThreads" => UNCHANGED role
         /\ \A s \in Slots : pc'[s] \in {"run", "call"} \/ pc[s] \in {"run", "call"} => pc'[s] = pc[s]
<1>1. mpc = "start" => Live = {}
  BY Zenon DEF OwnerInv
<1>2. OwnerStep \/ \E givingUp \in BOOLEAN : Join(givingUp)
  BY Zenon DEF OwnerAct, OwnerStep, Join
<1> QED
  BY <1>1, <1>2, OwnerMoves, Zenon DEF OwnerAct, TypeOK

\* A worker whose task is looked up or was executed moves on.
LEMMA HandlerKeeps ==
  ASSUME TypeOK, PoolInv, NEW s \in Slots, LookUp(s) \/ Ends(s)
  PROVE  /\ SchedulerTypes' /\ PoolInv' /\ hold[s] \in Ids
         /\ \A u \in Slots \ {s} : pc'[u] = pc[u] /\ hold'[u] = hold[u]
         /\ UNCHANGED <<tasks, lastId, queue, role, running, stopRequested, handler, mpc, source, published>>
         /\ begun' \in {begun, begun \cup {hold[s]}}
         /\ \/ pc[s] = "run" /\ pc'[s] \in {"call", "push"} /\ hold' = hold /\ returned' = returned
            \/ pc[s] = "call" /\ pc'[s] = "push" /\ hold' = hold /\ returned' = returned
            \/ pc[s] = "call" /\ pc'[s] = "push" /\ hold' = hold /\ Count(hold[s]) /\ source[hold[s]] # "RELOAD"
            \/ pc[s] = "call" /\ pc'[s] = "loop" /\ Drops(s) /\ Count(hold[s]) /\ source[hold[s]] = "RELOAD"
<1>1. /\ pc[s] \in {"run", "call"} /\ UNCHANGED <<tasks, source, published>>
      /\ UNCHANGED <<lastId, queue, role, flagVars, threadCount, handler, gaveUp, mpc>>
      /\ begun' \in {begun, begun \cup {hold[s]}}
      /\ \/ pc[s] = "run" /\ (Go(s, "call") \/ Go(s, "push")) /\ hold' = hold /\ returned' = returned
         \/ pc[s] = "call" /\ Go(s, "push") /\ hold' = hold /\ returned' = returned
         \/ pc[s] = "call" /\ Go(s, "push") /\ hold' = hold /\ Count(hold[s]) /\ source[hold[s]] # "RELOAD"
         \/ /\ pc[s] = "call" /\ Go(s, "loop") /\ hold' = [hold EXCEPT ![s] = 0]
            /\ Count(hold[s]) /\ source[hold[s]] = "RELOAD"
  <2>1. CASE LookUp(s)
    BY <2>1, Zenon DEF LookUp, HandlerReturns, taskVars
  <2>2. ASSUME NEW threw \in BOOLEAN, Executed(s, threw)
        PROVE  /\ pc[s] = "call" /\ UNCHANGED <<tasks, source, published, begun>>
               /\ UNCHANGED <<lastId, queue, role, flagVars, threadCount, handler, gaveUp, mpc>>
               /\ \/ Go(s, "push") /\ hold' = hold /\ returned' = returned
                  \/ Go(s, "push") /\ hold' = hold /\ Count(hold[s]) /\ source[hold[s]] # "RELOAD"
                  \/ /\ Go(s, "loop") /\ hold' = [hold EXCEPT ![s] = 0]
                     /\ Count(hold[s]) /\ source[hold[s]] = "RELOAD"
    BY <2>2, Zenon DEF Executed, HandlerReturns
  <2> QED
    BY <2>1, <2>2, Zenon DEF Ends
<1>2. tasks' \subseteq Ids
  BY <1>1, Zenon DEF TypeOK, SchedulerTypes
<1>3. /\ SchedulerTypes' /\ PoolInv' /\ hold[s] \in Ids
      /\ \A u \in Slots \ {s} : pc'[u] = pc[u] /\ hold'[u] = hold[u]
  BY <1>1, <1>2, HandlerMoves, Zenon DEF TypeOK
<1>4. \A p : Go(s, p) => pc'[s] = p
  BY Zenon DEF Go, TypeOK, SchedulerTypes
<1> QED
  BY <1>1, <1>3, <1>4, Zenon DEF flagVars, Drops

-----------------------------------------------------------------------------
(* The pool and the types *)

LEMMA TypesStep ==
  ASSUME TypeOK, PoolInv, OwnerInv, [Next]_vars
  PROVE  TypeOK' /\ PoolInv'
<1>1. CASE UNCHANGED vars
  <2>1. PoolInv'
    BY <1>1, Idles, Zenon DEF vars, schedulerVars
  <2> QED
    BY <1>1, <2>1, Zenon DEF TypeOK, SchedulerTypes, vars, schedulerVars, taskVars, poolVars, flagVars, coreVars
<1>2. CASE OwnerAct
  BY <1>2, OwnerKeeps, Zenon DEF TypeOK, coreVars
<1>3. CASE Boot
  <2>1. PICK n \in ThreadSettings : SetThreads(n)
    BY <1>3, Zenon DEF Boot
  <2>2. /\ UNCHANGED <<tasks, lastId, queue, hold, running, stopRequested>> /\ UNCHANGED coreVars
        /\ ~running /\ handler' \in BOOLEAN
    BY <1>3, Zenon DEF Boot, taskVars, OwnerInv
  <2>3. SchedulerTypes' /\ PoolInv'
    BY <2>1, <2>2, SetThreadsKeeps, CoreAssumption, Zenon DEF TypeOK
  <2> QED
    BY <2>2, <2>3, Zenon DEF TypeOK, coreVars
<1>4. CASE Shutdown \/ UnsetHandler \/ \E id \in Ids : Publish(id)
  <2>1. /\ UNCHANGED <<taskVars, poolVars, flagVars, threadCount, gaveUp>> /\ handler' \in BOOLEAN
        /\ UNCHANGED <<source, begun, returned>> /\ published' \subseteq tasks
    BY <1>4, Zenon DEF Shutdown, UnsetHandler, Publish, coreVars, schedulerVars, TypeOK, SchedulerTypes
  <2>2. PoolInv'
    BY <2>1, Idles, Zenon
  <2> QED
    BY <2>1, <2>2, Zenon DEF TypeOK, SchedulerTypes, taskVars, poolVars, flagVars
<1>5. CASE AddAct
  <2>1. PICK src \in {"PERIODIC", "RELOAD"} : Add(src)
    BY <1>5, Zenon DEF AddAct
  <2>2. UNCHANGED <<poolVars, flagVars, threadCount, handler, gaveUp, published, begun, returned>>
    BY <2>1, Zenon DEF Add
  <2>3. PoolInv'
    BY <2>2, Idles, Zenon
  <2>4. lastId + 1 \in Ids /\ lastId + 1 \in 0..MaxIds
    BY <2>1, PoolAssumption DEF Add, AddTask, TypeOK, SchedulerTypes, Ids
  <2>5. queue' \in [Ids -> Nat]
    BY <2>1, <2>4 DEF Add, AddTask, Push, TypeOK, SchedulerTypes
  <2>6. lastId' \in 0..MaxIds /\ tasks' \subseteq Ids /\ published' \subseteq tasks'
    BY <2>1, <2>2, <2>4, Zenon DEF Add, AddTask, TypeOK, SchedulerTypes
  <2>7. source' \in [Ids -> {"UNKNOWN", "PERIODIC", "RELOAD"}]
    BY <2>1, <2>4 DEF Add, TypeOK
  <2> QED
    BY <2>2, <2>3, <2>5, <2>6, <2>7, Zenon DEF TypeOK, SchedulerTypes, poolVars, flagVars
<1>6. ASSUME NEW s \in Slots, PoolAct(s) PROVE TypeOK' /\ PoolInv'
  BY <1>6, PoolMoves, Zenon DEF PoolAct, PoolKeeps, TypeOK, coreVars
<1>7. ASSUME NEW s \in Slots, LookUp(s) \/ Ends(s) PROVE TypeOK' /\ PoolInv'
  <2>1. /\ SchedulerTypes' /\ PoolInv' /\ UNCHANGED <<tasks, source, published>> /\ hold[s] \in Ids
        /\ begun' \in {begun, begun \cup {hold[s]}}
        /\ returned' = returned \/ Count(hold[s])
    BY <1>7, HandlerKeeps, Zenon
  <2>2. returned' \in [Ids -> 0..2]
    BY <2>1 DEF TypeOK, Count
  <2>3. begun' \subseteq Ids
    BY <2>1, Zenon DEF TypeOK
  <2> QED
    BY <2>1, <2>2, <2>3, Zenon DEF TypeOK
<1> QED
  BY <1>1, <1>2, <1>3, <1>4, <1>5, <1>6, <1>7, Steps, Zenon

-----------------------------------------------------------------------------
(* The threads that are left, and the handler *)

LEMMA OwnerInvStep ==
  ASSUME TypeOK, PoolInv, OwnerInv, [Next]_vars
  PROVE  OwnerInv'
<1>1. CASE UNCHANGED vars \/ AddAct \/ \E id \in Ids : Publish(id)
  <2>1. UNCHANGED <<role, pc, running, stopRequested, handler, mpc>>
    BY <1>1, Zenon DEF vars, schedulerVars, poolVars, flagVars, AddAct, Add, Publish
  <2> QED
    BY <2>1, Zenon DEF OwnerInv, Live
<1>2. CASE OwnerAct
  <2>1. /\ UNCHANGED handler /\ (mpc # "startThreads" => UNCHANGED role)
    BY <1>2, OwnerKeeps, Zenon
  <2>2. CASE Start \/ StartThreads
    BY <2>1, <2>2, Zenon DEF Start, StartThreads, OwnerInv, Live
  <2>3. CASE Stop \/ StopWake
    BY <2>1, <2>3, Zenon DEF Stop, StopWake, StopFlags, OwnerInv, flagVars
  <2>4. CASE Join(StopTimeout)
    <3>1. mpc = "join" /\ mpc' = "stopped" /\ UNCHANGED <<poolVars, flagVars, handler>> /\ (StopTimeout \/ Live = {})
      BY <2>4, Zenon DEF Join
    <3>2. \A s \in Slots : s \notin Live => pc[s] = "none"
      BY Zenon DEF PoolInv, Fits, Live
    <3>3. \A s \in Slots : pc[s] \in {"none", "call"}
      BY <3>1, <3>2, Zenon DEF StopTimeout
    <3> QED
      BY <3>1, <3>3, Zenon DEF OwnerInv, poolVars, flagVars
  <2> QED
    BY <1>2, <2>2, <2>3, <2>4, Zenon DEF OwnerAct
<1>3. CASE Boot
  <2>1. PICK n \in ThreadSettings : SetThreads(n)
    BY <1>3, Zenon DEF Boot
  <2>2. UNCHANGED running /\ ~running /\ UNCHANGED <<role, pc>>
    BY <1>3, <2>1, Zenon DEF Boot, SetThreads, SpawnMissing, OwnerInv
  <2>3. mpc = "boot" /\ mpc' = "start" /\ handler'
    BY <1>3, Zenon DEF Boot
  <2>4. Live' = {}
    BY <2>2, <2>3, Zenon DEF OwnerInv, Live
  <2> QED
    BY <2>2, <2>3, <2>4, Zenon DEF OwnerInv
<1>4. CASE Shutdown
  BY <1>4, Zenon DEF Shutdown, OwnerInv, Live, poolVars, flagVars
<1>5. CASE UnsetHandler
  BY <1>5, Zenon DEF UnsetHandler, OwnerInv, Live, poolVars, flagVars
<1>6. ASSUME NEW s \in Slots, PoolAct(s) PROVE OwnerInv'
  <2>1. PoolKeeps /\ PoolStep(s)
    BY <1>6, PoolMoves, Zenon DEF PoolAct, TypeOK
  <2>2. s \in Live
    <3>1. pc[s] # "none"
      BY <2>1, Zenon DEF PoolStep, WorkerStep, WatchdogStep, WorkerLoop, WorkerPop, WorkerIdle, WorkerWait,
         WorkerCall,
         Reschedule, WorkerDue, WatchdogRound, ScaleUp, WatchdogWait
    <3> QED
      BY <3>1, Zenon DEF PoolInv, Fits, Live
  <2>3. ASSUME mpc \in {"stopped", "down"} PROVE \A u \in Slots : pc'[u] \in {"none", "call", "push", "loop"}
    <3>1. stopRequested /\ \A u \in Slots : pc[u] \in {"none", "call", "push", "loop"}
      BY <2>3, Zenon DEF OwnerInv
    <3>2. WorkerLoop(s) \/ Reschedule(s)
      BY <2>1, <3>1, Zenon DEF PoolStep, WorkerStep, WatchdogStep, WorkerPop, WorkerIdle, WorkerWait, WorkerCall,
         WorkerDue, WatchdogRound, ScaleUp, WatchdogWait
    <3>3. Go(s, "none") \/ Go(s, "loop")
      BY <3>1, <3>2, Zenon DEF WorkerLoop, Reschedule, Exit
    <3>4. \A u \in Slots : pc'[u] \in {pc[u], "none", "loop"}
      BY <3>3, Zenon DEF Go, TypeOK, SchedulerTypes
    <3> QED
      BY <3>1, <3>4, Zenon
  <2> QED
    BY <2>1, <2>2, <2>3, Zenon DEF PoolKeeps, OwnerInv
<1>7. ASSUME NEW s \in Slots, LookUp(s) \/ Ends(s) PROVE OwnerInv'
  <2>1. /\ UNCHANGED <<role, running, stopRequested, handler, mpc>> /\ pc'[s] \in {"call", "push", "loop"}
        /\ \A u \in Slots \ {s} : pc'[u] = pc[u]
    BY <1>7, HandlerKeeps, Zenon
  <2> QED
    BY <2>1, Zenon DEF OwnerInv, Live
<1> QED
  BY <1>1, <1>2, <1>3, <1>4, <1>5, <1>6, <1>7, Steps, Zenon

-----------------------------------------------------------------------------
(* The tasks and their instances *)

\* A pool's thread loses no instance: it finds the task and the handler.
LEMMA PoolDropsNone ==
  ASSUME TypeOK, PoolInv, OwnerInv, ChainInv, NEW s \in Slots, PoolAct(s)
  PROVE  /\ Takes(s) \/ GivesBack(s) \/ UNCHANGED <<queue, hold>>
         /\ PoolKeeps /\ Calls(s) /\ UNCHANGED coreVars
<1>1. PoolKeeps /\ Instances(s) /\ Calls(s) /\ UNCHANGED coreVars
  BY PoolMoves, Zenon DEF PoolAct, TypeOK
<1>2. ASSUME Drops(s), pc[s] = "due", ~(hold[s] \in tasks /\ handler) PROVE FALSE
  <2>1. handler
    <3>1. s \in Live
      BY <1>2, Zenon DEF PoolInv, Fits, Live
    <3> QED
      BY <1>2, <3>1, Zenon DEF OwnerInv
  <2>2. hold[s] \in Ids /\ Chains(hold[s]) >= 1 /\ Chains(hold[s]) \in Nat
    BY <1>2, ChainsCount, Zenon DEF Drops, TypeOK
  <2>3. Chains(hold[s]) # 0 /\ (hold[s] > lastId \/ hold[s] <= lastId)
    BY <2>2 DEF TypeOK, SchedulerTypes, Ids
  <2>4. hold[s] \in tasks
    BY <2>2, <2>3, Zenon DEF ChainInv, Counted
  <2> QED
    BY <1>2, <2>1, <2>4, Zenon
<1> QED
  BY <1>1, <1>2, Zenon DEF Instances

LEMMA CountedStep ==
  ASSUME TypeOK, PoolInv, OwnerInv, ChainInv, [Next]_vars, NEW id \in Ids
  PROVE  Counted(id)'
<1>0. Counted(id) /\ SchedulerTypes
  BY Zenon DEF ChainInv, TypeOK
<1>1. ASSUME Chains(id)' = Chains(id), UNCHANGED <<lastId, tasks, source, returned>>, mpc' = "down" \/ mpc # "down"
      PROVE  Counted(id)'
  BY <1>0, <1>1, Zenon DEF Counted
<1>2. CASE UNCHANGED vars \/ Shutdown \/ UnsetHandler \/ \E i \in Ids : Publish(i)
  <2>1. UNCHANGED <<queue, hold, lastId, tasks, source, returned>> /\ (mpc' = "down" \/ mpc # "down")
    BY <1>2, Zenon DEF vars, Shutdown, UnsetHandler, Publish, schedulerVars, taskVars, poolVars, coreVars
  <2>2. Chains(id)' = Chains(id)
    BY <2>1, Zenon DEF Chains
  <2> QED
    BY <1>1, <2>1, <2>2, Zenon
<1>3. CASE OwnerAct
  <2>1. UNCHANGED <<queue, hold, lastId, tasks, source, returned>>
    BY <1>3, OwnerKeeps, Zenon DEF coreVars
  <2>2. Chains(id)' = Chains(id) /\ mpc # "down"
    BY <1>3, <2>1, Zenon DEF Chains, OwnerAct, Start, StartThreads, Stop, StopWake, Join
  <2> QED
    BY <1>1, <2>1, <2>2, Zenon
<1>4. CASE Boot
  <2>1. UNCHANGED <<queue, hold, lastId, tasks, source, returned>> /\ mpc # "down"
    BY <1>4, Zenon DEF Boot, taskVars, coreVars
  <2>2. Chains(id)' = Chains(id)
    BY <2>1, Zenon DEF Chains
  <2> QED
    BY <1>1, <2>1, <2>2, Zenon
<1>5. CASE AddAct
  <2>1. PICK src \in {"PERIODIC", "RELOAD"} : Add(src)
    BY <1>5, Zenon DEF AddAct
  <2>2. lastId + 1 \in Ids /\ lastId + 1 > lastId
    BY <2>1, PoolAssumption DEF Add, AddTask, TypeOK, SchedulerTypes, Ids
  <2>3. /\ Push(lastId + 1) /\ hold' = hold /\ lastId' = lastId + 1 /\ tasks' = tasks \cup {lastId + 1}
        /\ source' = [source EXCEPT ![lastId + 1] = src] /\ UNCHANGED <<returned, mpc>>
    BY <2>1, Zenon DEF Add, AddTask, poolVars
  <2>4. Chains(id)' = Chains(id) + (IF id = lastId + 1 THEN 1 ELSE 0)
    BY <1>0, <2>2, <2>3, ChainsPushed, Zenon
  <2>5. CASE id = lastId + 1
    <3>1. Chains(id) = 0 /\ returned'[id] = 0
      BY <1>0, <2>2, <2>3, <2>5, Zenon DEF Counted
    <3>2. Chains(id)' = 1
      BY <2>4, <2>5, <3>1
    <3>3. ~(id > lastId') /\ id \in tasks'
      BY <1>0, <2>3, <2>5 DEF SchedulerTypes
    <3> QED
      BY <3>1, <3>2, <3>3 DEF Counted
  <2>6. CASE id # lastId + 1
    <3>1. Chains(id) \in Nat
      BY <1>0, ChainsCount, Zenon
    <3>2. Chains(id)' = Chains(id)
      BY <2>4, <2>6, <3>1
    <3>3. (id > lastId' => id > lastId) /\ (id <= lastId' => id <= lastId)
      BY <1>0, <2>3, <2>6 DEF SchedulerTypes, Ids
    <3>4. source'[id] = source[id]
      BY <2>2, <2>3, <2>6, Zenon DEF TypeOK
    <3>5. returned' = returned /\ mpc' = mpc /\ tasks' = tasks \cup {lastId + 1}
      BY <2>3, Zenon
    <3> QED
      BY <1>0, <2>6, <3>2, <3>3, <3>4, <3>5, Zenon DEF Counted
  <2> QED
    BY <2>5, <2>6, Zenon
<1>6. ASSUME NEW s \in Slots, PoolAct(s) PROVE Counted(id)'
  <2>1. Takes(s) \/ GivesBack(s) \/ UNCHANGED <<queue, hold>>
    BY <1>6, PoolDropsNone, Zenon
  <2>2. Chains(id)' = Chains(id)
    BY <1>0, <2>1, ChainsKept, Zenon
  <2>3. UNCHANGED <<lastId, tasks, source, returned, mpc>>
    BY <1>6, PoolDropsNone, Zenon DEF PoolKeeps, coreVars
  <2> QED
    BY <1>1, <2>2, <2>3, Zenon
<1>7. ASSUME NEW s \in Slots, LookUp(s) \/ Ends(s) PROVE Counted(id)'
  <2>1. UNCHANGED <<lastId, tasks, source, mpc, queue>> /\ hold[s] \in Ids
    BY <1>7, HandlerKeeps, Zenon
  <2>2. hold[s] = id => Chains(id) >= 1 /\ Chains(id) \in Nat
    BY <1>0, ChainsCount, Zenon
  <2>3. hold[s] = id => Chains(id) = 1 /\ ~(id > lastId) /\ id \in tasks
    <3>1. hold[s] = id => Chains(id) # 0 /\ (id > lastId \/ id <= lastId)
      BY <1>0, <2>2 DEF SchedulerTypes, Ids
    <3>2. hold[s] = id => Chains(id) = 1
      BY <1>0, <2>2 DEF Counted
    <3> QED
      BY <1>0, <3>1, <3>2, Zenon DEF Counted
  <2>4. CASE hold' = hold
    <3>1. Chains(id)' = Chains(id)
      BY <2>1, <2>4, Zenon DEF Chains
    <3>2. returned' = returned \/ (Count(hold[s]) /\ (source[hold[s]] # "RELOAD" \/ Drops(s)))
      BY <1>7, HandlerKeeps, Zenon
    <3>3. CASE hold[s] = id
      <4>1. ~Drops(s)
        <5>1. id # 0
          BY DEF Ids
        <5> QED
          BY <2>4, <3>3, <5>1, Zenon DEF Drops, SchedulerTypes, TypeOK
      <4>2. source[id] = "RELOAD" => returned' = returned
        BY <3>2, <3>3, <4>1, Zenon
      <4> QED
        BY <1>0, <2>1, <2>3, <3>1, <3>3, <4>2 DEF Counted
    <3>4. CASE hold[s] # id
      <4>1. returned'[id] = returned[id]
        BY <3>2, <3>4, Zenon DEF TypeOK, Count
      <4> QED
        BY <1>0, <2>1, <3>1, <4>1, Zenon DEF Counted
    <3> QED
      BY <3>3, <3>4, Zenon
  <2>5. CASE Drops(s) /\ Count(hold[s]) /\ source[hold[s]] = "RELOAD"
    <3>1. Chains(id)' = Chains(id) - (IF id = hold[s] THEN 1 ELSE 0)
      BY <1>0, <2>5, ChainsDropped, Zenon
    <3>2. CASE hold[s] = id
      <4>1. Chains(id)' = 0
        BY <2>3, <3>1, <3>2
      <4>2. returned[id] = 0
        BY <1>0, <2>1, <2>3, <2>5, <3>2 DEF Counted
      <4>3. returned'[id] = 1
        BY <2>5, <3>2, <4>2 DEF TypeOK, Count
      <4>4. ~(id > lastId) /\ id \in tasks
        BY <2>3, <3>2, Zenon
      <4>5. Chains(id)' <= 1
        BY <4>1
      <4> QED
        BY <2>1, <2>5, <3>2, <4>1, <4>3, <4>4, <4>5, Zenon DEF Counted
    <3>3. CASE hold[s] # id
      <4>1. Chains(id) \in Nat
        BY <1>0, ChainsCount, Zenon
      <4>2. Chains(id)' = Chains(id)
        BY <3>1, <3>3, <4>1
      <4>3. returned'[id] = returned[id]
        BY <2>5, <3>3, Zenon DEF TypeOK, Count
      <4> QED
        BY <1>0, <2>1, <2>5, <4>2, <4>3, Zenon DEF Counted
    <3> QED
      BY <3>2, <3>3, Zenon
  <2> QED
    BY <1>7, <2>4, <2>5, HandlerKeeps, Zenon
<1> QED
  BY <1>2, <1>3, <1>4, <1>5, <1>6, <1>7, Steps, Zenon

-----------------------------------------------------------------------------
(* The theorems *)

LEMMA InitIInv == Init => IInv
<1> SUFFICES ASSUME Init PROVE IInv
  OBVIOUS
<1>1. TypeOK
  <2>1. 0 \in 0..MaxIds /\ 0 \in Nat /\ MaxThreads \in Nat /\ 0 \in 0..2
    BY PoolAssumption
  <2> QED
    BY <2>1, Zenon DEF Init, Fresh, TypeOK, SchedulerTypes
<1>2. Live = {} /\ \A s \in Slots : role[s] = "off" /\ pc[s] = "none" /\ hold[s] = 0
  BY Zenon DEF Init, Fresh, Live
<1>3. PoolInv
  BY <1>2, Zenon DEF PoolInv, Fits, Init, Fresh
<1>4. OwnerInv
  BY <1>2, Zenon DEF OwnerInv, Init, Fresh
<1>5. ASSUME NEW id \in Ids PROVE Counted(id)
  <2>1. id # 0 /\ id > 0 /\ ~(id <= 0)
    BY DEF Ids
  <2>2. Chains(id) = queue[id]
    BY <1>1, <1>2, <2>1, ChainsCount, Zenon DEF TypeOK
  <2>3. queue[id] = 0 /\ source[id] = "UNKNOWN" /\ returned[id] = 0 /\ lastId = 0 /\ tasks = {}
    BY Zenon DEF Init, Fresh
  <2>4. Chains(id) <= 1
    BY <2>2, <2>3
  <2> QED
    BY <2>1, <2>2, <2>3, <2>4, Zenon DEF Counted
<1> QED
  BY <1>1, <1>3, <1>4, <1>5, Zenon DEF IInv, ChainInv

\* The inductive invariant holds of the core's scheduler in every state.
THEOREM InvariantHolds == Spec => []IInv
<1>1. IInv /\ [Next]_vars => IInv'
  <2> SUFFICES ASSUME IInv, [Next]_vars PROVE IInv'
    OBVIOUS
  <2>1. TypeOK /\ PoolInv /\ OwnerInv /\ ChainInv
    BY Zenon DEF IInv
  <2>2. TypeOK' /\ PoolInv' /\ OwnerInv'
    BY <2>1, TypesStep, OwnerInvStep, Zenon
  <2>3. ChainInv'
    BY <2>1, CountedStep, Zenon DEF ChainInv
  <2> QED
    BY <2>2, <2>3, Zenon DEF IInv
<1> QED
  BY InitIInv, <1>1, PTL DEF Spec

\* No task is lost, a reload that threw included, and no reload that has
\* returned is executed again: neither the late metadata of add_task nor a stop
\* that gives up on a hanging task does either.
THEOREM TasksKept == Spec => []NothingLostOrRepeated
<1>1. IInv => NothingLostOrRepeated
  <2> SUFFICES ASSUME IInv PROVE NothingLostOrRepeated
    OBVIOUS
  <2>1. TypeOK /\ \A id \in Ids : Counted(id)
    BY Zenon DEF IInv, ChainInv
  <2>2. ASSUME NEW id \in Ids PROVE Chains(id) = 0 \/ Chains(id) = 1
    <3>1. Chains(id) \in Nat /\ Chains(id) <= 1
      BY <2>1, ChainsCount, Zenon DEF TypeOK, Counted
    <3> QED
      BY <3>1
  <2>3. \A id \in tasks : id \in Ids
    BY <2>1, Zenon DEF TypeOK, SchedulerTypes
  <2>4. ASSUME NEW id \in Ids, source[id] = "RELOAD", returned[id] > 0 PROVE returned[id] = 1 /\ Chains(id) = 0
    <3>1. returned[id] \in {0, 1} /\ (Chains(id) # 0 => returned[id] = 0)
      BY <2>1, <2>4, Zenon DEF Counted
    <3> QED
      BY <2>4, <3>1
  <2> QED
    BY <2>1, <2>2, <2>3, <2>4, Zenon DEF NothingLostOrRepeated, Counted
<1> QED
  BY <1>1, InvariantHolds, PTL

\* When stop() has returned, whether it joined the pool or gave up on it, no
\* worker begins a task any more.
THEOREM StopIsFinal == Spec => NothingBeginsAfterStop
<1> DEFINE Begins == \A s \in Slots : mpc \in {"stopped", "down"} /\ pc'[s] = "call" => pc[s] = "call"
<1>1. IInv /\ [Next]_vars => [Begins]_vars
  <2> SUFFICES ASSUME IInv, [Next]_vars, vars' # vars, NEW s \in Slots,
                      mpc \in {"stopped", "down"}, pc'[s] = "call", pc[s] # "call"
               PROVE  FALSE
    BY Zenon
  <2>1. TypeOK /\ PoolInv /\ OwnerInv /\ ChainInv /\ \A u \in Slots : pc[u] # "run"
    BY Zenon DEF IInv, OwnerInv
  <2>2. CASE OwnerAct
    BY <2>1, <2>2, OwnerKeeps, Zenon
  <2>3. CASE Boot \/ Shutdown \/ UnsetHandler \/ AddAct \/ \E id \in Ids : Publish(id)
    BY <2>3, Zenon DEF Boot, Shutdown, UnsetHandler, AddAct, Add, Publish, poolVars, schedulerVars
  <2>4. ASSUME NEW t \in Slots, PoolAct(t) PROVE FALSE
    BY <2>1, <2>4, PoolDropsNone, Zenon DEF Calls
  <2>5. ASSUME NEW t \in Slots, LookUp(t) \/ Ends(t) PROVE FALSE
    BY <2>1, <2>5, HandlerKeeps, Zenon
  <2> QED
    BY <2>2, <2>3, <2>4, <2>5, Steps, Zenon
<1> QED
  BY <1>1, InvariantHolds, PTL DEF Spec, NothingBeginsAfterStop
=============================================================================
