------------------------- MODULE LogDeliveryProofs -------------------------
(***************************************************************************)
(* Proofs about LogDelivery, for every set of modules and logging threads, *)
(* any number of lines and any queue limit.                                *)
(***************************************************************************)
EXTENDS LogDelivery, SequenceTheorems, TLAPS

(***************************************************************************)
(* The inductive invariant.  The worker has a line in hand exactly while   *)
(* it walks the list, and is inside a module exactly while `current` names *)
(* one.  Only loaded modules have an open entry.  While a lifecycle call   *)
(* has a subscription closed the worker cannot enter the module, so once   *)
(* it was seen outside it stays outside until the unload; at shutdown the  *)
(* same holds of every module because the list is empty.                   *)
(***************************************************************************)
Busy == {"closing", "closed", "drop"}

WorkerInv ==
  /\ wline # 0 <=> wpc \in {"walk", "inside"}
  /\ current # None <=> wpc = "inside"
  /\ monworker => wpc = "inside"

CallInv ==
  /\ mpc \in Busy <=> mop \in {"remove", "purge"}
  /\ mpc \in Busy <=> msub # None
  /\ monworker => mpc \in Busy
  /\ mpc \in Busy => xpc = "run"
  /\ mpc \in {"draining", "leaving", "tearing"} => xpc # "run"
  /\ xpc = "run" => ~stopping

ListInv ==
  /\ mpc \in Busy => msub \notin open
  /\ mpc \in {"closing", "closed"} => fate[msub] = "loaded"
  /\ mpc = "drop" => (fate[msub] = "loaded" <=> mop = "purge")
  /\ mpc \in {"leaving", "tearing"} => open = {}
  /\ \A s \in open : fate[s] = "loaded"
  /\ xpc = "run" => \A s \in Subs : fate[s] = "loaded" => sid[s] # 0 \/ (mpc = "drop" /\ msub = s)

LeftInv ==
  /\ mpc \in {"closed", "drop"} /\ ~monworker => current # msub
  /\ mpc = "tearing" => current \in {None, mstill}

IInv ==
  /\ TypeOK /\ LinesAccounted
  /\ WorkerInv /\ CallInv /\ ListInv /\ LeftInv
  /\ HandlerModuleAlive

-----------------------------------------------------------------------------
(* The initial state *)

\* The logger before the first module subscribes satisfies the invariant.
LEMMA InitIInv == Init => IInv
<1> SUFFICES ASSUME Init PROVE IInv
  OBVIOUS
<1> USE ConstantsAssumption DEF Init
<1>1. TypeOK
  <2>0. /\ <<>> \in Seq(1..MaxLines) /\ 0 \in 0..MaxLines
    BY EmptySeq
  <2>1. QueueTypes
    BY <2>0 DEF QueueTypes
  <2>2. ListTypes
    BY DEF ListTypes
  <2>3. WorkerTypes
    BY <2>0, Zenon DEF WorkerTypes
  <2>4. ManagerTypes
    BY DEF ManagerTypes, Fates
  <2>5. FlagTypes
    BY Zenon DEF FlagTypes
  <2>. QED
    BY <2>1, <2>2, <2>3, <2>4, <2>5, Zenon DEF TypeOK
<1>2. LinesAccounted
  BY EmptySeq DEF LinesAccounted
<1>3. WorkerInv
  BY Zenon DEF WorkerInv
<1>4. CallInv /\ ListInv /\ LeftInv
  BY Zenon DEF CallInv, ListInv, LeftInv, Busy
<1>5. HandlerModuleAlive
  BY Zenon DEF HandlerModuleAlive
<1>. QED
  BY <1>1, <1>2, <1>3, <1>4, <1>5, Zenon DEF IInv

-----------------------------------------------------------------------------
(* What the steps that touch the queue do to it *)

\* What Append, Tail and Len do to the queue of do_log and deliver(): both keep a
\* sequence of line numbers and change its length by one.
LEMMA QueueFacts ==
  ASSUME TypeOK
  PROVE  /\ Len(queue) \in Nat
         /\ Len(<<>>) = 0 /\ <<>> \in Seq(1..MaxLines)
         /\ queue # <<>> => /\ Head(queue) \in 1..MaxLines
                            /\ Tail(queue) \in Seq(1..MaxLines)
                            /\ Len(Tail(queue)) = Len(queue) - 1
         /\ Len(queue) > 0 => queue # <<>>
<1>1. queue \in Seq(1..MaxLines)
  BY Zenon DEF TypeOK, QueueTypes
<1>2. Len(queue) \in Nat /\ Len(<<>>) = 0 /\ <<>> \in Seq(1..MaxLines)
  BY <1>1, EmptySeq, LenProperties, Zenon
<1>3. ASSUME queue # <<>>
      PROVE  /\ Head(queue) \in 1..MaxLines
             /\ Tail(queue) \in Seq(1..MaxLines)
             /\ Len(Tail(queue)) = Len(queue) - 1
  BY <1>1, <1>3, HeadTailProperties, Zenon
<1>. QED
  BY <1>2, <1>3

\* Queueing a line: one more queued, and either the queue grows by one or the
\* oldest line is dropped and counted as done.
LEMMA QueueStep ==
  ASSUME IInv, NEW t \in Loggers, DoLogQueue(t)
  PROVE  QueueTypes' /\ LinesAccounted'
<1> USE ConstantsAssumption, QueueFacts DEF IInv
<1>1. CASE stopping \/ Listed = {}
  BY <1>1, Zenon DEF DoLogQueue, TypeOK, QueueTypes, LinesAccounted, queueVars, workerVars
<1>2. CASE ~(stopping \/ Listed = {})
  <2> DEFINE line == queued + 1
  <2>1. line \in 1..MaxLines /\ queued' = line /\ wline' = wline
    BY <1>2 DEF DoLogQueue, TypeOK, QueueTypes, workerVars
  <2>2. lpc' \in [Loggers -> {"idle", "queue", "notify"}]
        /\ fpc' = fpc /\ ftarget' = ftarget
    BY <1>2, Zenon DEF DoLogQueue, TypeOK, QueueTypes
  <2>3. CASE QueueIsFull
    <3>1. queue' = Append(Tail(queue), line) /\ done' = done + 1 /\ dropped' = dropped + 1
      BY <1>2, <2>3, Zenon DEF DoLogQueue
    <3>2. queue # <<>>
      BY <2>3 DEF QueueIsFull
    <3>3. queue' \in Seq(1..MaxLines) /\ Len(queue') = Len(queue)
      BY <2>1, <3>1, <3>2, AppendProperties
    <3>. HIDE DEF line
    <3>. QED
      BY <2>1, <2>2, <3>1, <3>2, <3>3 DEF TypeOK, QueueTypes, WorkerTypes, LinesAccounted, line
  <2>4. CASE ~QueueIsFull
    <3>1. queue' = Append(queue, line) /\ done' = done /\ dropped' = dropped
      BY <1>2, <2>4, Zenon DEF DoLogQueue
    <3>2. queue' \in Seq(1..MaxLines) /\ Len(queue') = Len(queue) + 1
      BY <2>1, <3>1, AppendProperties DEF TypeOK, QueueTypes
    <3>. QED
      BY <2>1, <2>2, <3>1, <3>2 DEF TypeOK, QueueTypes, WorkerTypes, LinesAccounted
  <2>. QED
    BY <2>3, <2>4, Zenon
<1>. QED
  BY <1>1, <1>2, Zenon

\* deliver() takes the oldest line: it moves from the queue to the worker's hand,
\* and the sum of the two stays.
LEMMA WorkerTakeStep ==
  ASSUME IInv, WorkerTake
  PROVE  QueueTypes' /\ WorkerTypes' /\ LinesAccounted'
<1> USE DEF IInv, TypeOK, QueueTypes, WorkerTypes
<1>1. wline = 0 /\ wline' \in 1..MaxLines
  BY QueueFacts, Zenon DEF WorkerTake, WorkerInv
<1>2. queue' \in Seq(1..MaxLines) /\ Len(queue') = Len(queue) - 1 /\ dropped' \in Nat
  BY QueueFacts, Zenon DEF WorkerTake
<1>3. QueueTypes' /\ WorkerTypes'
  BY <1>1, <1>2 DEF WorkerTake
<1>4. LinesAccounted'
  <2>1. done' = done /\ queued' = queued /\ wline' # 0
    BY <1>1 DEF WorkerTake
  <2>2. queued = done + Len(queue) + 0
    BY <1>1, Zenon DEF LinesAccounted
  <2>3. queued' = done' + Len(queue') + 1
    BY <1>2, <2>1, <2>2, QueueFacts
  <2>. QED
    BY <2>1, <2>3, Zenon DEF LinesAccounted
<1>. QED
  BY <1>3, <1>4, Zenon

\* deliver() is through with a line: `done` grows by the line it had in hand.
LEMMA WorkerDoneStep ==
  ASSUME IInv, WorkerDone
  PROVE  QueueTypes' /\ WorkerTypes' /\ LinesAccounted'
BY ConstantsAssumption, QueueFacts
   DEF IInv, WorkerDone, TypeOK, QueueTypes, WorkerTypes, WorkerInv, LinesAccounted

\* clear_subscribers and shutdown drop what is queued and count all of it as done.
LEMMA DropQueuedStep ==
  ASSUME IInv, StopTake \/ Shutdown
  PROVE  QueueTypes' /\ WorkerTypes' /\ LinesAccounted'
<1> USE DEF IInv, TypeOK, QueueTypes, WorkerTypes
<1>1. /\ queue' = <<>> /\ done' = done + Len(queue)
      /\ UNCHANGED <<queued, dropped, lpc, fpc, ftarget, wline, wlast, current, delivered>>
      /\ wpc' = Notified
  BY Zenon DEF StopTake, Shutdown
<1>2. done + Len(queue) \in 0..queued
  BY QueueFacts DEF LinesAccounted
<1>3. QueueTypes'
  BY <1>1, <1>2, QueueFacts, Zenon
<1>4. WorkerTypes'
  BY <1>1, Zenon DEF Notified
<1>5. LinesAccounted'
  BY <1>1, QueueFacts DEF LinesAccounted
<1>. QED
  BY <1>3, <1>4, <1>5, Zenon

\* deliver() enters a handler: the module it enters has an open entry in the
\* subscriber list.
LEMMA WorkerCallStep ==
  ASSUME IInv, NEW s \in Subs, WorkerCall(s)
  PROVE  WorkerTypes'
<1>1. wline \in 1..MaxLines
  BY DEF IInv, WorkerCall, TypeOK, WorkerTypes, WorkerInv
<1>2. \A r \in Subs : delivered'[r] \in Seq(1..MaxLines)
  BY <1>1, AppendProperties, Zenon DEF IInv, WorkerCall, TypeOK, WorkerTypes
<1>. QED
  BY <1>1, <1>2, Zenon DEF IInv, WorkerCall, TypeOK, WorkerTypes, ListTypes

-----------------------------------------------------------------------------
(* Each conjunct of IInv is preserved *)

\* The steps that leave the three flags alone.
Quiet ==
  \/ Worker \/ WorkerLeave \/ (\E t \in Loggers : Log(t)) \/ Flush
  \/ CloseLeft \/ StopBegin \/ StopLeft \/ ShutdownJoin

\* The steps that only move a thread's control leave the logger's flags alone.
LEMMA QuietFlags == Quiet => UNCHANGED <<has_subscribers, stopping, monworker>>
<1>1. Worker => UNCHANGED <<has_subscribers, stopping, monworker>>
  BY Zenon DEF Worker, WorkerLock, WorkerSleep, WorkerExit, WorkerTake, WorkerCall, WorkerDone, listVars, managerVars
<1>2. WorkerLeave => UNCHANGED <<has_subscribers, stopping, monworker>>
  BY Zenon DEF WorkerLeave, listVars, managerVars
<1>3. (\E t \in Loggers : Log(t)) => UNCHANGED <<has_subscribers, stopping, monworker>>
  BY Zenon DEF Log, DoLogCheck, DoLogQueue, DoLogNotify, listVars, managerVars
<1>4. Flush => UNCHANGED <<has_subscribers, stopping, monworker>>
  BY Zenon DEF Flush, FlushBegin, FlushReached, FlushTimeout, FlushReturn, listVars, managerVars
<1>5. CloseLeft \/ StopBegin \/ StopLeft \/ ShutdownJoin => UNCHANGED <<has_subscribers, stopping, monworker>>
  BY Zenon DEF CloseLeft, StopBegin, StopLeft, ShutdownJoin, listVars, managerVars
<1>. QED
  BY <1>1, <1>2, <1>3, <1>4, <1>5, Zenon DEF Quiet

\* Every step keeps the types of the flags (has_subscribers, stopping).
LEMMA FlagStep == FlagTypes /\ [Next]_vars => FlagTypes'
<1> SUFFICES ASSUME FlagTypes, [Next]_vars PROVE FlagTypes'
  OBVIOUS
<1> USE DEF FlagTypes
<1>1. CASE Quiet \/ UNCHANGED vars
  BY <1>1, QuietFlags, Zenon DEF vars, listVars, managerVars
<1>2. ASSUME NEW s \in Subs, AddSubscriber(s) PROVE FlagTypes'
  BY <1>2, Zenon DEF AddSubscriber, listVars
<1>3. ASSUME NEW s \in Subs, NEW op, NEW w \in BOOLEAN, CloseBegin(s, op, w) PROVE FlagTypes'
  BY <1>3, Zenon DEF CloseBegin
<1>4. CASE CloseTimeout \/ RemoveUnload \/ PurgeUnload \/ StopTear
  BY <1>4, Zenon DEF CloseTimeout, RemoveUnload, PurgeUnload, StopTear, EndManager, listVars
<1>5. CASE RemoveDrop \/ PurgeDrop
  BY <1>5, Zenon DEF RemoveDrop, PurgeDrop, DropEntry, EndManager
<1>6. CASE StopTake \/ Shutdown \/ ShutdownMirror
  BY <1>6, Zenon DEF StopTake, Shutdown, ShutdownMirror, managerVars
<1>. QED
  BY <1>1, <1>2, <1>3, <1>4, <1>5, <1>6, Zenon DEF Next, Quiet, ManagerBegin, ManagerStep, MainStep

\* Every step keeps the types of do_log's queue and counters.
LEMMA QueueTypesStep == IInv /\ [Next]_vars => QueueTypes'
<1> SUFFICES ASSUME IInv, [Next]_vars PROVE QueueTypes'
  OBVIOUS
<1>0. QueueTypes
  BY Zenon DEF IInv, TypeOK
<1> USE <1>0 DEF queueVars
<1>1. ASSUME NEW t \in Loggers, Log(t) PROVE QueueTypes'
  BY <1>1, QueueStep, Zenon DEF Log, DoLogCheck, DoLogNotify, QueueTypes
<1>2. CASE WorkerTake \/ WorkerDone \/ StopTake \/ Shutdown
  BY <1>2, WorkerTakeStep, WorkerDoneStep, DropQueuedStep, Zenon
<1>3. CASE Flush
  BY <1>3, Zenon DEF Flush, FlushBegin, FlushReached, FlushTimeout, FlushReturn, QueueTypes
<1>4. ASSUME UNCHANGED <<queueVars, lpc, fpc, ftarget>> PROVE QueueTypes'
  BY <1>4, Zenon DEF QueueTypes
<1>5. CASE (Worker /\ ~WorkerTake /\ ~WorkerDone) \/ WorkerLeave
  BY <1>4, <1>5, Zenon DEF Worker, WorkerLock, WorkerSleep, WorkerExit, WorkerCall, WorkerLeave
<1>6. CASE ManagerBegin \/ (ManagerStep /\ ~StopTake)
  BY <1>4, <1>6, Zenon DEF ManagerBegin, AddSubscriber, CloseBegin, ManagerStep, CloseLeft, CloseTimeout,
     RemoveUnload, RemoveDrop, PurgeDrop, PurgeUnload, StopLeft, StopTear
<1>7. CASE (MainStep /\ ~Shutdown) \/ UNCHANGED vars
  BY <1>4, <1>7, Zenon DEF MainStep, StopBegin, ShutdownMirror, ShutdownJoin, vars
<1>. QED
  BY <1>1, <1>2, <1>3, <1>5, <1>6, <1>7, Zenon DEF Next

\* Every step keeps the types of the subscriber list and its ids.
LEMMA ListTypesStep == IInv /\ [Next]_vars => ListTypes'
<1> SUFFICES ASSUME IInv, [Next]_vars PROVE ListTypes'
  OBVIOUS
<1>0. ListTypes /\ msub \in Subs \cup {None} /\ (mpc \in Busy => msub \in Subs)
  BY Zenon DEF IInv, TypeOK, ManagerTypes, CallInv
<1> USE <1>0 DEF listVars
<1>1. ASSUME UNCHANGED <<sid, open, next_id>> PROVE ListTypes'
  BY <1>1, Zenon DEF ListTypes
<1>2. ASSUME NEW s \in Subs, AddSubscriber(s) PROVE ListTypes'
  <2>1. CASE stopping
    BY <1>1, <1>2, <2>1, Zenon DEF AddSubscriber
  <2>2. CASE ~stopping
    <3>1. sid' = [sid EXCEPT ![s] = next_id] /\ open' = open \cup {s} /\ next_id' = next_id + 1
      BY <1>2, <2>2, Zenon DEF AddSubscriber
    <3>. QED
      BY <3>1 DEF ListTypes
  <2>. QED
    BY <2>1, <2>2, Zenon
<1>3. ASSUME NEW s \in Subs, NEW op, NEW w, CloseBegin(s, op, w) PROVE ListTypes'
  <2>1. open' = open \ {s} /\ UNCHANGED <<sid, next_id>>
    BY <1>3, Zenon DEF CloseBegin
  <2>. QED
    BY <2>1, Zenon DEF ListTypes
<1>4. CASE CloseTimeout \/ RemoveUnload
  <2>1. UNCHANGED <<sid, next_id>> /\ mpc \in Busy /\ open' \in {open, open \cup {msub}}
    BY <1>4, Zenon DEF CloseTimeout, RemoveUnload, Busy
  <2>. QED
    BY <2>1, Zenon DEF ListTypes
<1>5. CASE RemoveDrop \/ PurgeDrop
  <2>1. UNCHANGED <<open, next_id>> /\ sid' \in {sid, [sid EXCEPT ![msub] = 0]}
    BY <1>5, Zenon DEF RemoveDrop, PurgeDrop, DropEntry
  <2>. QED
    BY <2>1 DEF ListTypes
<1>6. CASE StopTake \/ Shutdown
  <2>1. UNCHANGED next_id /\ sid' = [s \in Subs |-> 0] /\ open' = {}
    BY <1>6, Zenon DEF StopTake, Shutdown
  <2>. QED
    BY <2>1, Zenon DEF ListTypes
<1>7. CASE Worker \/ WorkerLeave \/ (\E t \in Loggers : Log(t)) \/ Flush
  BY <1>1, <1>7, Zenon DEF Worker, WorkerLock, WorkerSleep, WorkerExit, WorkerTake, WorkerCall, WorkerDone,
     WorkerLeave,
     Log, DoLogCheck, DoLogQueue, DoLogNotify, Flush, FlushBegin, FlushReached, FlushTimeout, FlushReturn
<1>8. CASE \/ CloseLeft \/ PurgeUnload \/ StopBegin \/ StopLeft \/ StopTear
           \/ ShutdownMirror \/ ShutdownJoin \/ UNCHANGED vars
  BY <1>1, <1>8, Zenon DEF CloseLeft, PurgeUnload, StopBegin, StopLeft, StopTear, ShutdownMirror, ShutdownJoin, vars
<1>. QED
  BY <1>2, <1>3, <1>4, <1>5, <1>6, <1>7, <1>8, Zenon DEF Next, ManagerBegin, ManagerStep, MainStep

\* Every step keeps the types of deliver()'s state.
LEMMA WorkerTypesStep == IInv /\ [Next]_vars => WorkerTypes'
<1> SUFFICES ASSUME IInv, [Next]_vars PROVE WorkerTypes'
  OBVIOUS
<1>0. WorkerTypes
  BY Zenon DEF IInv, TypeOK
<1> USE <1>0 DEF workerVars
<1>1. ASSUME UNCHANGED <<wline, wlast, current, delivered>>, wpc' \in {wpc, "woken", "head", "asleep", "exited"}
      PROVE WorkerTypes'
  BY <1>1, Zenon DEF WorkerTypes
<1>2. CASE WorkerTake \/ WorkerDone \/ StopTake \/ Shutdown \/ \E s \in Subs : WorkerCall(s)
  BY <1>2, WorkerTakeStep, WorkerDoneStep, DropQueuedStep, WorkerCallStep, Zenon
<1>3. CASE WorkerLock \/ WorkerSleep \/ WorkerExit
  BY <1>1, <1>3, Zenon DEF WorkerLock, WorkerSleep, WorkerExit
<1>4. CASE WorkerLeave
  BY <1>4, Zenon DEF WorkerLeave, WorkerTypes
<1>5. CASE \E t \in Loggers : Log(t)
  BY <1>1, <1>5, Zenon DEF Log, DoLogCheck, DoLogQueue, DoLogNotify, Notified
<1>6. CASE \E s \in Subs : AddSubscriber(s)
  BY <1>1, <1>6, Zenon DEF AddSubscriber
<1>7. CASE Flush \/ UNCHANGED vars
  BY <1>1, <1>7, Zenon DEF Flush, FlushBegin, FlushReached, FlushTimeout, FlushReturn, vars
<1>8. CASE \/ \E s \in Subs, op \in {"remove", "purge"}, w \in BOOLEAN : CloseBegin(s, op, w)
           \/ CloseLeft \/ CloseTimeout \/ RemoveUnload \/ RemoveDrop \/ PurgeDrop \/ PurgeUnload
           \/ StopBegin \/ StopLeft \/ StopTear \/ ShutdownMirror \/ ShutdownJoin
  BY <1>1, <1>8, Zenon DEF CloseBegin, CloseLeft, CloseTimeout, RemoveUnload, RemoveDrop, PurgeDrop, PurgeUnload,
     StopBegin, StopLeft, StopTear, ShutdownMirror, ShutdownJoin
<1>. QED
  BY <1>2, <1>3, <1>4, <1>5, <1>6, <1>7, <1>8, Zenon DEF Next, Worker, ManagerBegin, ManagerStep, MainStep

\* Every step keeps the types of the lifecycle call in progress and of what became
\* of each module.
LEMMA ManagerTypesStep == IInv /\ [Next]_vars => ManagerTypes'
<1> SUFFICES ASSUME IInv, [Next]_vars PROVE ManagerTypes'
  OBVIOUS
<1>0. ManagerTypes /\ queued \in 0..MaxLines /\ current \in Subs \cup {None} /\ 0 \in 0..MaxLines
  BY ConstantsAssumption DEF IInv, TypeOK, QueueTypes, WorkerTypes
<1> USE <1>0 DEF managerVars
<1>1. CASE Worker \/ WorkerLeave \/ (\E t \in Loggers : Log(t)) \/ Flush \/ UNCHANGED vars
  <2>1. UNCHANGED <<managerVars, xpc>>
    BY <1>1, Zenon DEF Worker, WorkerLock, WorkerSleep, WorkerExit, WorkerTake, WorkerCall, WorkerDone, WorkerLeave,
       Log, DoLogCheck, DoLogQueue, DoLogNotify, Flush, FlushBegin, FlushReached, FlushTimeout, FlushReturn, vars
  <2>. QED
    BY <2>1, Zenon DEF ManagerTypes
<1>2. ASSUME NEW s \in Subs, AddSubscriber(s) PROVE ManagerTypes'
  BY <1>2, Zenon DEF AddSubscriber, ManagerTypes, Fates
<1>3. ASSUME NEW s \in Subs, NEW op \in {"remove", "purge"}, NEW w \in BOOLEAN, CloseBegin(s, op, w)
      PROVE ManagerTypes'
  BY <1>3, Zenon DEF CloseBegin, ManagerTypes
<1>4. CASE CloseLeft
  BY <1>4, Zenon DEF CloseLeft, ManagerTypes
<1>5. CASE CloseTimeout
  BY <1>5, Zenon DEF CloseTimeout, EndManager, ManagerTypes, Fates
<1>6. CASE RemoveUnload
  BY <1>6, Zenon DEF RemoveUnload, EndManager, Outcome, ManagerTypes, Fates
<1>7. CASE RemoveDrop
  BY <1>7, Zenon DEF RemoveDrop, EndManager, ManagerTypes
<1>8. CASE PurgeDrop
  BY <1>8, Zenon DEF PurgeDrop, ManagerTypes
<1>9. CASE PurgeUnload
  BY <1>9, Zenon DEF PurgeUnload, EndManager, Outcome, ManagerTypes, Fates
<1>10. CASE StopBegin
  BY <1>10, Zenon DEF StopBegin, ManagerTypes
<1>11. CASE StopTake
  BY <1>11, Zenon DEF StopTake, ManagerTypes
<1>12. CASE StopLeft
  BY <1>12, Zenon DEF StopLeft, ManagerTypes
<1>13. CASE StopTear
  BY <1>13, Zenon DEF StopTear, EndManager, ManagerTypes, Fates
<1>14. CASE Shutdown \/ ShutdownMirror \/ ShutdownJoin
  BY <1>14, Zenon DEF Shutdown, ShutdownMirror, ShutdownJoin, ManagerTypes
<1>. QED
  BY <1>1, <1>2, <1>3, <1>4, <1>5, <1>6, <1>7, <1>8, <1>9, <1>10, <1>11, <1>12, <1>13, <1>14, Zenon
     DEF Next, ManagerBegin, ManagerStep, MainStep

\* Every step keeps the account of lines: only do_log, deliver, clear_subscribers
\* and shutdown touch it.
LEMMA LinesStep == IInv /\ [Next]_vars => LinesAccounted'
<1> SUFFICES ASSUME IInv, [Next]_vars PROVE LinesAccounted'
  OBVIOUS
<1>1. ASSUME UNCHANGED <<queue, queued, done, wline>> PROVE LinesAccounted'
  BY <1>1, Zenon DEF IInv, LinesAccounted
<1> USE DEF queueVars, workerVars
<1>2. CASE WorkerTake \/ WorkerDone \/ StopTake \/ Shutdown \/ \E t \in Loggers : DoLogQueue(t)
  BY <1>2, WorkerTakeStep, WorkerDoneStep, DropQueuedStep, QueueStep, Zenon
<1>3. CASE WorkerLock \/ WorkerSleep \/ WorkerExit \/ WorkerLeave \/ \E s \in Subs : WorkerCall(s)
  BY <1>1, <1>3, Zenon DEF WorkerLock, WorkerSleep, WorkerExit, WorkerLeave, WorkerCall
<1>4. CASE Flush \/ UNCHANGED vars \/ \E t \in Loggers : DoLogCheck(t) \/ DoLogNotify(t)
  BY <1>1, <1>4, Zenon DEF Flush, FlushBegin, FlushReached, FlushTimeout, FlushReturn, vars, DoLogCheck, DoLogNotify
<1>5. CASE \/ ManagerBegin
           \/ CloseLeft \/ CloseTimeout \/ RemoveUnload \/ RemoveDrop \/ PurgeDrop \/ PurgeUnload
           \/ StopBegin \/ StopLeft \/ StopTear \/ ShutdownMirror \/ ShutdownJoin
  BY <1>1, <1>5, Zenon DEF ManagerBegin, AddSubscriber, CloseBegin, CloseLeft, CloseTimeout, RemoveUnload, RemoveDrop,
     PurgeDrop, PurgeUnload, StopBegin, StopLeft, StopTear, ShutdownMirror, ShutdownJoin
<1>. QED
  BY <1>2, <1>3, <1>4, <1>5, Zenon DEF Next, Worker, Log, ManagerStep, MainStep

\* Every step keeps what deliver() knows by its place: a line in hand exactly while
\* it walks the list, a module entered exactly while it is inside a handler.
LEMMA WorkerInvStep == IInv /\ [Next]_vars => WorkerInv'
<1> SUFFICES ASSUME IInv, [Next]_vars PROVE WorkerInv'
  OBVIOUS
<1>0. WorkerInv /\ WorkerTypes /\ None \notin Subs
  BY ConstantsAssumption, Zenon DEF IInv, TypeOK
<1> USE <1>0 DEF workerVars, managerVars
<1>1. ASSUME UNCHANGED <<wline, current, monworker>>,
             wpc' = wpc \/ (wpc \notin {"walk", "inside"} /\ wpc' \notin {"walk", "inside"})
      PROVE WorkerInv'
  BY <1>1, Zenon DEF WorkerInv
<1>2. CASE WorkerTake
  <2>1. wline' # 0 /\ wpc' = "walk" /\ wpc = "head" /\ UNCHANGED <<current, monworker>>
    BY <1>2, QueueFacts DEF IInv, WorkerTake
  <2>. QED
    BY <2>1, Zenon DEF WorkerInv
<1>3. CASE WorkerDone
  BY <1>3, Zenon DEF WorkerDone, WorkerInv
<1>4. ASSUME NEW s \in Subs, WorkerCall(s) PROVE WorkerInv'
  BY <1>4, Zenon DEF WorkerCall, WorkerInv
<1>5. CASE WorkerLeave
  BY <1>5, Zenon DEF WorkerLeave, WorkerInv
<1>6. CASE WorkerLock \/ WorkerSleep \/ WorkerExit
  BY <1>1, <1>6, Zenon DEF WorkerLock, WorkerSleep, WorkerExit
<1>7. CASE \E t \in Loggers : Log(t)
  BY <1>1, <1>7, Zenon DEF Log, DoLogCheck, DoLogQueue, DoLogNotify, Notified
<1>8. CASE Flush \/ UNCHANGED vars
  BY <1>1, <1>8, Zenon DEF Flush, FlushBegin, FlushReached, FlushTimeout, FlushReturn, vars
<1>9. CASE \E s \in Subs : AddSubscriber(s)
  BY <1>1, <1>9, Zenon DEF AddSubscriber
<1>10. ASSUME NEW s \in Subs, NEW op, NEW w \in BOOLEAN, CloseBegin(s, op, w) PROVE WorkerInv'
  BY <1>10, Zenon DEF CloseBegin, WorkerInv
<1>11. CASE CloseTimeout \/ RemoveUnload \/ RemoveDrop \/ PurgeUnload \/ StopTear
  <2>1. UNCHANGED <<wpc, wline, current>> /\ (UNCHANGED monworker \/ monworker' = FALSE)
    BY <1>11, Zenon DEF CloseTimeout, RemoveUnload, RemoveDrop, PurgeUnload, StopTear, EndManager
  <2>2. monworker' => monworker
    BY <2>1, Zenon
  <2>. QED
    BY <2>1, <2>2, Zenon DEF WorkerInv
<1>12. CASE CloseLeft \/ PurgeDrop \/ StopBegin \/ StopLeft \/ ShutdownMirror \/ ShutdownJoin
  BY <1>1, <1>12, Zenon DEF CloseLeft, PurgeDrop, StopBegin, StopLeft, ShutdownMirror, ShutdownJoin
<1>13. CASE StopTake \/ Shutdown
  BY <1>1, <1>13, Zenon DEF StopTake, Shutdown, Notified
<1>. QED
  BY <1>2, <1>3, <1>4, <1>5, <1>6, <1>7, <1>8, <1>9, <1>10, <1>11, <1>12, <1>13, Zenon
     DEF Next, Worker, ManagerBegin, ManagerStep, MainStep

\* Every step keeps what a lifecycle call knows by its place: which operation it
\* runs, on which module, and that the module is one the manager still holds.
LEMMA CallStep == IInv /\ [Next]_vars => CallInv'
<1> SUFFICES ASSUME IInv, [Next]_vars PROVE CallInv'
  OBVIOUS
<1>0. CallInv /\ ListInv /\ LeftInv /\ WorkerInv /\ ListTypes /\ ManagerTypes /\ None \notin Subs
  BY ConstantsAssumption, Zenon DEF IInv, TypeOK
<1> USE <1>0 DEF listVars, workerVars, managerVars, Busy
<1>1. ASSUME UNCHANGED <<managerVars, xpc, stopping>> PROVE CallInv'
  BY <1>1, Zenon DEF CallInv
<1>2. CASE Worker \/ WorkerLeave
  BY <1>1, <1>2, Zenon DEF Worker, WorkerLock, WorkerSleep, WorkerExit, WorkerTake, WorkerCall, WorkerDone,
     WorkerLeave
<1>3. CASE Flush \/ UNCHANGED vars \/ \E t \in Loggers : Log(t)
  BY <1>1, <1>3, Zenon DEF Flush, FlushBegin, FlushReached, FlushTimeout, FlushReturn, vars, Log, DoLogCheck,
     DoLogQueue,
     DoLogNotify
<1>4. ASSUME NEW s \in Subs, AddSubscriber(s) PROVE CallInv'
  BY <1>4, Zenon DEF AddSubscriber, CallInv
<1>5. ASSUME NEW s \in Subs, NEW op \in {"remove", "purge"}, NEW w \in BOOLEAN, CloseBegin(s, op, w)
      PROVE CallInv'
  BY <1>5, Zenon DEF CloseBegin, CallInv, ListInv, CallInv
<1>6. CASE CloseLeft
  BY <1>6, Zenon DEF CloseLeft, HasLeft, CallInv
<1>7. CASE CloseTimeout
  BY <1>7, Zenon DEF CloseTimeout, EndManager, CallInv
<1>8. CASE RemoveUnload
  BY <1>8, Zenon DEF RemoveUnload, EndManager, Outcome, CallInv
<1>9. CASE RemoveDrop
  BY <1>9, Zenon DEF RemoveDrop, EndManager, DropEntry, CallInv
<1>10. CASE PurgeDrop
  BY <1>10, Zenon DEF PurgeDrop, DropEntry, CallInv
<1>11. CASE PurgeUnload
  BY <1>11, Zenon DEF PurgeUnload, EndManager, Outcome, CallInv
<1>12. CASE StopBegin
  BY <1>12, Zenon DEF StopBegin, CallInv
<1>13. CASE StopTake
  BY <1>13, Zenon DEF StopTake, CallInv
<1>14. CASE StopLeft
  BY <1>14, Zenon DEF StopLeft, CallInv
<1>15. CASE StopTear
  BY <1>15, Zenon DEF StopTear, EndManager, CallInv
<1>16. CASE Shutdown
  BY <1>16, Zenon DEF Shutdown, CallInv
<1>17. CASE ShutdownMirror
  BY <1>17, Zenon DEF ShutdownMirror, CallInv
<1>18. CASE ShutdownJoin
  BY <1>18, Zenon DEF ShutdownJoin, CallInv
<1>. QED
  BY <1>2, <1>3, <1>4, <1>5, <1>6, <1>7, <1>8, <1>9, <1>10, <1>11, <1>12, <1>13, <1>14, <1>15, <1>16, <1>17, <1>18,
     Zenon
     DEF Next, ManagerBegin, ManagerStep, MainStep

\* Every step keeps the subscriber list in agreement with what the manager did to
\* the modules: an open entry belongs to a loaded module.
LEMMA ListStep == IInv /\ [Next]_vars => ListInv'
<1> SUFFICES ASSUME IInv, [Next]_vars PROVE ListInv'
  OBVIOUS
<1>0. CallInv /\ ListInv /\ LeftInv /\ WorkerInv /\ ListTypes /\ ManagerTypes /\ None \notin Subs
  BY ConstantsAssumption, Zenon DEF IInv, TypeOK
<1> USE <1>0 DEF listVars, workerVars, managerVars, Busy
<1>1. ASSUME UNCHANGED <<managerVars, xpc, sid, open>> PROVE ListInv'
  BY <1>1, Zenon DEF ListInv
<1>2. CASE Worker \/ WorkerLeave
  BY <1>1, <1>2, Zenon DEF Worker, WorkerLock, WorkerSleep, WorkerExit, WorkerTake, WorkerCall, WorkerDone,
     WorkerLeave
<1>3. CASE Flush \/ UNCHANGED vars \/ \E t \in Loggers : Log(t)
  BY <1>1, <1>3, Zenon DEF Flush, FlushBegin, FlushReached, FlushTimeout, FlushReturn, vars, Log, DoLogCheck,
     DoLogQueue,
     DoLogNotify
<1>4. ASSUME NEW s \in Subs, AddSubscriber(s) PROVE ListInv'
  <2>1. /\ xpc = "run" /\ mpc = "idle" /\ fate[s] = "new" /\ fate' = [fate EXCEPT ![s] = "loaded"]
        /\ sid' = [sid EXCEPT ![s] = next_id] /\ open' = open \cup {s} /\ UNCHANGED <<mpc, mop, msub, xpc>>
    BY <1>4, Zenon DEF AddSubscriber, CallInv
  <2>. QED
    BY <2>1, Zenon DEF ListInv, ListTypes, ManagerTypes
<1>5. ASSUME NEW s \in Subs, NEW op \in {"remove", "purge"}, NEW w \in BOOLEAN, CloseBegin(s, op, w)
      PROVE ListInv'
  BY <1>5, Zenon DEF CloseBegin, ListInv, CallInv
<1>6. CASE CloseLeft
  BY <1>6, Zenon DEF CloseLeft, HasLeft, ListInv, CallInv
<1>7. CASE CloseTimeout
  <2>1. mpc = "closing" /\ mpc' = "idle" /\ msub \in Subs /\ UNCHANGED <<sid, xpc>>
    BY <1>7, Zenon DEF CloseTimeout, EndManager, CallInv, ManagerTypes
  <2>2. CASE mop = "remove"
    BY <1>7, <2>1, <2>2, Zenon DEF CloseTimeout, ListInv
  <2>3. CASE mop = "purge"
    <3>1. fate' = [fate EXCEPT ![msub] = "parked"] /\ UNCHANGED open
      BY <1>7, <2>3, Zenon DEF CloseTimeout
    <3>. QED
      BY <2>1, <3>1, Zenon DEF ListInv, ListTypes, ManagerTypes
  <2>. QED
    BY <1>7, <2>2, <2>3, Zenon DEF CloseTimeout
<1>8. CASE RemoveUnload
  <2>1. mpc = "closed" /\ msub \in Subs /\ UNCHANGED <<sid, xpc>>
    BY <1>8, Zenon DEF RemoveUnload, CallInv, ManagerTypes
  <2>2. CASE mpc' = "drop"
    <3>1. /\ mop = "remove" /\ UNCHANGED <<open, mop, msub>>
          /\ \E f \in {"unloaded", "selfUnloaded"} : fate' = [fate EXCEPT ![msub] = f]
      BY <1>8, <2>2, Zenon DEF RemoveUnload, EndManager, Outcome
    <3>. QED
      BY <2>1, <2>2, <3>1, Zenon DEF ListInv, ListTypes, ManagerTypes
  <2>3. CASE mpc' # "drop"
    <3>1. mpc' = "idle" /\ open' \in {open, open \cup {msub}} /\ UNCHANGED fate
      BY <1>8, <2>3, Zenon DEF RemoveUnload, EndManager
    <3>. QED
      BY <2>1, <3>1, Zenon DEF ListInv
  <2>. QED
    BY <2>2, <2>3, Zenon
<1>9. CASE RemoveDrop
  <2>1. /\ mpc = "drop" /\ mop = "remove" /\ mpc' = "idle" /\ UNCHANGED <<open, fate, xpc>>
        /\ sid' \in {sid, [sid EXCEPT ![msub] = 0]}
    BY <1>9, Zenon DEF RemoveDrop, EndManager, DropEntry
  <2>. QED
    BY <2>1, Zenon DEF ListInv, ListTypes, ManagerTypes
<1>10. CASE PurgeDrop
  <2>1. /\ mpc = "closed" /\ mop = "purge" /\ mpc' = "drop" /\ UNCHANGED <<open, fate, xpc, mop, msub>>
        /\ sid' \in {sid, [sid EXCEPT ![msub] = 0]}
    BY <1>10, Zenon DEF PurgeDrop, DropEntry
  <2>. QED
    BY <2>1, Zenon DEF ListInv, ListTypes, ManagerTypes
<1>11. CASE PurgeUnload
  <2>1. /\ mpc = "drop" /\ mop = "purge" /\ mpc' = "idle" /\ msub \in Subs /\ UNCHANGED <<open, sid, xpc>>
        /\ \E f \in {"unloaded", "leaked", "selfUnloaded"} : fate' = [fate EXCEPT ![msub] = f]
    BY <1>11, Zenon DEF PurgeUnload, EndManager, Outcome, CallInv, ManagerTypes
  <2>. QED
    BY <2>1, Zenon DEF ListInv, ListTypes, ManagerTypes
<1>12. CASE StopBegin
  BY <1>12, Zenon DEF StopBegin, ListInv, CallInv
<1>13. CASE StopTake
  <2>1. mpc = "draining" /\ mpc' = "leaving" /\ open' = {} /\ xpc' = xpc /\ xpc # "run"
    BY <1>13, Zenon DEF StopTake, CallInv
  <2>. QED
    BY <2>1, Zenon DEF ListInv
<1>14. CASE StopLeft
  BY <1>14, Zenon DEF StopLeft, ListInv, CallInv
<1>15. CASE StopTear
  BY <1>15, Zenon DEF StopTear, EndManager, ListInv, CallInv
<1>16. CASE Shutdown
  BY <1>16, Zenon DEF Shutdown, ListInv, CallInv
<1>17. CASE ShutdownMirror
  BY <1>17, Zenon DEF ShutdownMirror, ListInv, CallInv
<1>18. CASE ShutdownJoin
  BY <1>18, Zenon DEF ShutdownJoin, ListInv, CallInv
<1>. QED
  BY <1>2, <1>3, <1>4, <1>5, <1>6, <1>7, <1>8, <1>9, <1>10, <1>11, <1>12, <1>13, <1>14, <1>15, <1>16, <1>17, <1>18,
     Zenon
     DEF Next, ManagerBegin, ManagerStep, MainStep

\* The worker enters only open modules, so it does not enter one a lifecycle
\* call has closed.
LEMMA LeftStep == IInv /\ [Next]_vars => LeftInv'
<1> SUFFICES ASSUME IInv, [Next]_vars PROVE LeftInv'
  OBVIOUS
<1>0. CallInv /\ ListInv /\ LeftInv /\ WorkerInv /\ ListTypes /\ ManagerTypes /\ None \notin Subs
  BY ConstantsAssumption, Zenon DEF IInv, TypeOK
<1> USE <1>0 DEF listVars, workerVars, managerVars, Busy
<1>1. ASSUME UNCHANGED <<managerVars, current>> PROVE LeftInv'
  BY <1>1, Zenon DEF LeftInv
<1>2. CASE Worker \/ WorkerLeave
  <2>1. ASSUME NEW s \in Subs, WorkerCall(s) PROVE LeftInv'
    BY <1>2, <2>1, Zenon DEF WorkerCall, IsNext, After, LeftInv, ListInv
  <2>2. CASE WorkerLeave
    BY <1>2, <2>2, Zenon DEF WorkerLeave, LeftInv, CallInv
  <2>3. CASE WorkerLock \/ WorkerSleep \/ WorkerExit \/ WorkerTake \/ WorkerDone
    BY <1>1, <2>3, Zenon DEF WorkerLock, WorkerSleep, WorkerExit, WorkerTake, WorkerDone
  <2>. QED
    BY <1>2, <2>1, <2>2, <2>3, Zenon DEF Worker
<1>3. CASE Flush \/ UNCHANGED vars \/ \E t \in Loggers : Log(t)
  BY <1>1, <1>3, Zenon DEF Flush, FlushBegin, FlushReached, FlushTimeout, FlushReturn, vars, Log, DoLogCheck,
     DoLogQueue,
     DoLogNotify
<1>4. ASSUME NEW s \in Subs, AddSubscriber(s) PROVE LeftInv'
  BY <1>4, Zenon DEF AddSubscriber, LeftInv, CallInv
<1>5. ASSUME NEW s \in Subs, NEW op \in {"remove", "purge"}, NEW w \in BOOLEAN, CloseBegin(s, op, w)
      PROVE LeftInv'
  BY <1>5, Zenon DEF CloseBegin, LeftInv, ListInv, CallInv
<1>6. CASE CloseLeft
  BY <1>6, Zenon DEF CloseLeft, HasLeft, LeftInv, CallInv
<1>7. CASE CloseTimeout
  BY <1>7, Zenon DEF CloseTimeout, EndManager, LeftInv, CallInv
<1>8. CASE RemoveUnload
  BY <1>8, Zenon DEF RemoveUnload, EndManager, Outcome, LeftInv, CallInv
<1>9. CASE RemoveDrop
  BY <1>9, Zenon DEF RemoveDrop, EndManager, DropEntry, LeftInv, CallInv
<1>10. CASE PurgeDrop
  BY <1>10, Zenon DEF PurgeDrop, DropEntry, LeftInv, CallInv
<1>11. CASE PurgeUnload
  BY <1>11, Zenon DEF PurgeUnload, EndManager, Outcome, LeftInv, CallInv
<1>12. CASE StopBegin
  BY <1>12, Zenon DEF StopBegin, LeftInv, CallInv
<1>13. CASE StopTake
  BY <1>13, Zenon DEF StopTake, LeftInv, CallInv
<1>14. CASE StopLeft
  BY <1>14, Zenon DEF StopLeft, LeftInv, CallInv
<1>15. CASE StopTear
  BY <1>15, Zenon DEF StopTear, EndManager, LeftInv, CallInv
<1>16. CASE Shutdown
  BY <1>16, Zenon DEF Shutdown, LeftInv, CallInv
<1>17. CASE ShutdownMirror
  BY <1>17, Zenon DEF ShutdownMirror, LeftInv, CallInv
<1>18. CASE ShutdownJoin
  BY <1>18, Zenon DEF ShutdownJoin, LeftInv, CallInv
<1>. QED
  BY <1>2, <1>3, <1>4, <1>5, <1>6, <1>7, <1>8, <1>9, <1>10, <1>11, <1>12, <1>13, <1>14, <1>15, <1>16, <1>17, <1>18,
     Zenon
     DEF Next, ManagerBegin, ManagerStep, MainStep

\* Every step keeps the module deliver() is inside loaded: the unload comes after
\* the wait that saw the worker outside, or not at all.
LEMMA AliveStep == IInv /\ [Next]_vars => HandlerModuleAlive'
<1> SUFFICES ASSUME IInv, [Next]_vars PROVE HandlerModuleAlive'
  OBVIOUS
<1>0. HandlerModuleAlive /\ CallInv /\ ListInv /\ LeftInv /\ ManagerTypes /\ ListTypes /\ None \notin Subs
  BY ConstantsAssumption, Zenon DEF IInv, TypeOK
<1> USE <1>0 DEF workerVars, managerVars, Busy
<1>1. ASSUME UNCHANGED fate, current' \in {current, None} PROVE HandlerModuleAlive'
  BY <1>1, Zenon DEF HandlerModuleAlive
<1>2. ASSUME NEW s \in Subs, WorkerCall(s) PROVE HandlerModuleAlive'
  BY <1>2, Zenon DEF WorkerCall, IsNext, After, ListInv, HandlerModuleAlive
<1>3. CASE WorkerLock \/ WorkerSleep \/ WorkerExit \/ WorkerTake \/ WorkerDone \/ WorkerLeave
  BY <1>1, <1>3, Zenon DEF WorkerLock, WorkerSleep, WorkerExit, WorkerTake, WorkerDone, WorkerLeave
<1>4. CASE Flush \/ UNCHANGED vars \/ \E t \in Loggers : Log(t)
  BY <1>1, <1>4, Zenon DEF Flush, FlushBegin, FlushReached, FlushTimeout, FlushReturn, vars, Log, DoLogCheck,
     DoLogQueue,
     DoLogNotify
<1>5. ASSUME NEW s \in Subs, AddSubscriber(s) PROVE HandlerModuleAlive'
  BY <1>5, Zenon DEF AddSubscriber, ManagerTypes, HandlerModuleAlive
<1>6. CASE CloseTimeout
  BY <1>6, Zenon DEF CloseTimeout, ManagerTypes, HandlerModuleAlive
<1>7. CASE RemoveUnload
  BY <1>7, Zenon DEF RemoveUnload, Outcome, LeftInv, ManagerTypes, HandlerModuleAlive
<1>8. CASE PurgeUnload
  BY <1>8, Zenon DEF PurgeUnload, Outcome, LeftInv, ManagerTypes, HandlerModuleAlive
<1>9. CASE StopTear
  BY <1>9, Zenon DEF StopTear, LeftInv, ManagerTypes, HandlerModuleAlive
<1>10. CASE \/ \E s \in Subs, op \in {"remove", "purge"}, w \in BOOLEAN : CloseBegin(s, op, w)
            \/ CloseLeft \/ RemoveDrop \/ PurgeDrop
            \/ StopBegin \/ StopTake \/ StopLeft \/ Shutdown \/ ShutdownMirror \/ ShutdownJoin
  BY <1>1, <1>10, Zenon DEF CloseBegin, CloseLeft, RemoveDrop, PurgeDrop, StopBegin, StopTake, StopLeft, Shutdown,
     ShutdownMirror, ShutdownJoin
<1>. QED
  BY <1>2, <1>3, <1>4, <1>5, <1>6, <1>7, <1>8, <1>9, <1>10, Zenon
     DEF Next, Worker, ManagerBegin, ManagerStep, MainStep

-----------------------------------------------------------------------------
(* The theorems *)

\* Every step keeps the inductive invariant.
LEMMA IInvStep == IInv /\ [Next]_vars => IInv'
<1> SUFFICES ASSUME IInv, [Next]_vars PROVE IInv'
  OBVIOUS
<1>1. TypeOK'
  BY FlagStep, QueueTypesStep, ListTypesStep, WorkerTypesStep, ManagerTypesStep, Zenon DEF IInv, TypeOK
<1>. QED
  BY <1>1, LinesStep, WorkerInvStep, CallStep, ListStep, LeftStep, AliveStep, Zenon DEF IInv

\* The inductive invariant holds in every state of the log delivery.
THEOREM IInvHolds == Spec => []IInv
BY InitIInv, IInvStep, PTL DEF Spec

\* Types hold, and `done` never overtakes `queued`, for any set of modules and
\* logging threads and any queue limit.
THEOREM TypesHold == Spec => []TypeOK
<1>1. IInv => TypeOK
  BY Zenon DEF IInv
<1>. QED
  BY IInvHolds, <1>1, PTL

\* do_log, deliver, clear_subscribers and shutdown between them lose count of
\* no line: what flush_handlers and clear_subscribers wait for is reached.
THEOREM LinesAreAccounted == Spec => []LinesAccounted
<1>1. IInv => LinesAccounted
  BY Zenon DEF IInv
<1>. QED
  BY IInvHolds, <1>1, PTL

\* remove_plugin, purge_broken_plugin and stop_plugins never unload a module
\* while deliver() is inside its handler, however the worker, the loggers and
\* the lifecycle calls interleave and whichever waits run out.
THEOREM HandlersStayLoaded == Spec => []HandlerModuleAlive
<1>1. IInv => HandlerModuleAlive
  BY Zenon DEF IInv
<1>. QED
  BY IInvHolds, <1>1, PTL

-----------------------------------------------------------------------------
(* The subscriptions implement ModuleGate.  A step that leaves `current`    *)
(* alone turns doors: a module goes down only with the worker outside,      *)
(* because HandlerModuleAlive holds after the step, and never comes back.   *)

\* A module that was torn down stays so: every lifecycle call acts on a module
\* the manager still holds.
LEMMA UnloadedStays ==
  IInv /\ [Next]_vars => \A s \in Subs : fate[s] = "unloaded" => fate'[s] = "unloaded"
<1> SUFFICES ASSUME IInv, [Next]_vars, NEW x \in Subs, fate[x] = "unloaded" PROVE fate'[x] = "unloaded"
  OBVIOUS
<1>0. CallInv /\ ListInv /\ ManagerTypes
  BY Zenon DEF IInv, TypeOK
<1> USE <1>0 DEF workerVars, managerVars, Busy
<1>1. CASE UNCHANGED fate
  BY <1>1, Zenon
<1>2. ASSUME NEW s \in Subs, AddSubscriber(s) PROVE fate'[x] = "unloaded"
  BY <1>2, Zenon DEF AddSubscriber, ManagerTypes
<1>3. CASE CloseTimeout
  BY <1>3, Zenon DEF CloseTimeout, ManagerTypes, ListInv, CallInv
<1>4. CASE RemoveUnload
  BY <1>4, Zenon DEF RemoveUnload, ManagerTypes, ListInv, CallInv
<1>5. CASE PurgeUnload
  BY <1>5, Zenon DEF PurgeUnload, ManagerTypes, ListInv, CallInv
<1>6. CASE StopTear
  BY <1>6, Zenon DEF StopTear, ManagerTypes
<1>7. CASE \/ WorkerLock \/ WorkerSleep \/ WorkerExit \/ WorkerTake \/ WorkerDone \/ WorkerLeave
           \/ \E s \in Subs : WorkerCall(s)
  BY <1>1, <1>7, Zenon DEF WorkerLock, WorkerSleep, WorkerExit, WorkerTake, WorkerDone, WorkerLeave, WorkerCall
<1>8. CASE Flush \/ UNCHANGED vars \/ \E t \in Loggers : Log(t)
  BY <1>1, <1>8, Zenon DEF Flush, FlushBegin, FlushReached, FlushTimeout, FlushReturn, vars, Log, DoLogCheck,
     DoLogQueue,
     DoLogNotify
<1>9. CASE \/ \E s \in Subs, op \in {"remove", "purge"}, w \in BOOLEAN : CloseBegin(s, op, w)
           \/ CloseLeft \/ RemoveDrop \/ PurgeDrop
           \/ StopBegin \/ StopTake \/ StopLeft \/ Shutdown \/ ShutdownMirror \/ ShutdownJoin
  BY <1>1, <1>9, Zenon DEF CloseBegin, CloseLeft, RemoveDrop, PurgeDrop, StopBegin, StopTake, StopLeft, Shutdown,
     ShutdownMirror, ShutdownJoin
<1>. QED
  BY <1>2, <1>3, <1>4, <1>5, <1>6, <1>7, <1>8, <1>9, Zenon
     DEF Next, Worker, ManagerBegin, ManagerStep, MainStep

\* Only deliver() changes the module it is inside.
LEMMA WorkerMoves ==
  [Next]_vars => UNCHANGED current \/ WorkerLeave \/ \E s \in Subs : WorkerCall(s)
<1> SUFFICES ASSUME [Next]_vars PROVE UNCHANGED current \/ WorkerLeave \/ \E s \in Subs : WorkerCall(s)
  OBVIOUS
<1> USE DEF workerVars
<1>1. CASE \/ WorkerLock \/ WorkerSleep \/ WorkerExit \/ WorkerTake \/ WorkerDone
  BY <1>1, Zenon DEF WorkerLock, WorkerSleep, WorkerExit, WorkerTake, WorkerDone
<1>2. CASE Flush \/ UNCHANGED vars \/ \E t \in Loggers : Log(t)
  BY <1>2, Zenon DEF Flush, FlushBegin, FlushReached, FlushTimeout, FlushReturn, vars, Log, DoLogCheck, DoLogQueue,
     DoLogNotify
<1>3. CASE \E s \in Subs : AddSubscriber(s)
  BY <1>3, Zenon DEF AddSubscriber
<1>4. CASE CloseTimeout \/ RemoveUnload \/ PurgeUnload \/ StopTear
  BY <1>4, Zenon DEF CloseTimeout, RemoveUnload, PurgeUnload, StopTear
<1>5. CASE \/ \E s \in Subs, op \in {"remove", "purge"}, w \in BOOLEAN : CloseBegin(s, op, w)
           \/ CloseLeft \/ RemoveDrop \/ PurgeDrop
           \/ StopBegin \/ StopTake \/ StopLeft \/ Shutdown \/ ShutdownMirror \/ ShutdownJoin
  BY <1>5, Zenon DEF CloseBegin, CloseLeft, RemoveDrop, PurgeDrop, StopBegin, StopTake, StopLeft, Shutdown,
     ShutdownMirror, ShutdownJoin
<1>. QED
  BY <1>1, <1>2, <1>3, <1>4, <1>5, Zenon DEF Next, Worker, ManagerBegin, ManagerStep, MainStep

\* Every step of the log delivery is a step of its gates, or leaves them alone.
LEMMA GateStep ==
  IInv /\ IInv' /\ [Next]_vars => [Gate!Next]_<<SubscriptionDoor, WorkerInside>>
<1> SUFFICES ASSUME IInv, IInv', [Next]_vars PROVE Gate!Next
  OBVIOUS
<1> USE DEF SubscriptionDoor, WorkerInside
<1>0. WorkerInv /\ ListInv /\ HandlerModuleAlive' /\ None \notin Subs /\ current \in Subs \cup {None}
  BY ConstantsAssumption, Zenon DEF IInv, TypeOK, WorkerTypes
<1>1. CASE UNCHANGED current
  <2>1. ASSUME NEW s \in Subs PROVE Gate!MayTurn(s, SubscriptionDoor'[s])
    <3>1. fate[s] = "unloaded" => fate'[s] = "unloaded"
      BY UnloadedStays, Zenon
    <3>2. fate'[s] = "unloaded" => current # s
      BY <1>0, <1>1, Zenon DEF HandlerModuleAlive
    <3>. QED
      BY <3>1, <3>2, Zenon DEF Gate!MayTurn
  <2>2. Gate!Turn
    BY <1>1, <2>1, Zenon DEF Gate!Turn
  <2>. QED
    BY <2>2, Zenon DEF Gate!Next
<1>2. ASSUME NEW s \in Subs, WorkerCall(s) PROVE Gate!Next
  <2>1. s \in open /\ fate[s] = "loaded" /\ current = None /\ current' = s /\ UNCHANGED <<fate, open>>
    BY <1>0, <1>2, Zenon DEF WorkerCall, IsNext, After, ListInv, WorkerInv, listVars, managerVars
  <2>2. Gate!Enter(s, "worker")
    BY <1>0, <2>1, Zenon DEF Gate!Enter
  <2>. QED
    BY <2>2, Zenon DEF Gate!Next
<1>3. CASE WorkerLeave
  <2>1. current \in Subs /\ current' = None /\ UNCHANGED <<fate, open>>
    BY <1>0, <1>3, Zenon DEF WorkerLeave, WorkerInv, listVars, managerVars
  <2>2. Gate!Leave(current, "worker")
    BY <1>0, <2>1, Zenon DEF Gate!Leave
  <2>. QED
    BY <2>1, <2>2, Zenon DEF Gate!Next
<1>. QED
  BY <1>1, <1>2, <1>3, WorkerMoves, Zenon

\* The subscriptions implement ModuleGate for any number of modules: no line is
\* handed to a module whose subscription is closed or that was torn down, and
\* remove_plugin, purge_broken_plugin and stop_plugins tear none down while
\* deliver() is inside it.
THEOREM SubscriptionsAreGates == Spec => HandlersKeepTheGate
<1>1. Init => Gate!Init
  BY ConstantsAssumption DEF Init, Gate!Init, SubscriptionDoor, WorkerInside
<1>. QED
  BY <1>1, IInvHolds, GateStep, PTL DEF Spec, HandlersKeepTheGate, Gate!Spec

-----------------------------------------------------------------------------
(* The list of entries *)

(***************************************************************************)
(* A loaded module has its open entry unless the call in progress is about *)
(* it, one that is gone has none but for the removal that is about to drop *)
(* it, and the mirror says whether there is any.                           *)
(***************************************************************************)
EntryInv ==
  /\ stopping => Listed = {}
  /\ xpc = "flagged" => stopping
  /\ mpc \in {"leaving", "tearing"} => Listed = {}
  /\ xpc = "run" => \A s \in Subs : fate[s] = "loaded" => s \in open \/ s = msub
  /\ \A s \in Subs : fate[s] \notin {"new", "loaded", "parked"} =>
       sid[s] = 0 \/ (mpc = "drop" /\ mop = "remove" /\ s = msub)
  /\ mpc = "drop" /\ mop = "purge" => sid[msub] = 0
  /\ MirrorHolds

\* Once a lifecycle call has seen the worker outside, its drop_subscriber drops.
LEMMA DropEntryDrops ==
  ASSUME IInv, mpc \in {"closed", "drop"}, DropEntry(msub)
  PROVE  /\ msub \in Subs /\ sid'[msub] = 0 /\ \A s \in Subs \ {msub} : sid'[s] = sid[s]
         /\ MirrorHolds => (Listed' # {} => has_subscribers') /\ (has_subscribers' => Listed' # {} \/ stopping)
<1>1. msub \in Subs /\ sid \in [Subs -> Nat] /\ ~(current = msub /\ ~monworker)
  BY Zenon DEF IInv, TypeOK, ListTypes, ManagerTypes, CallInv, LeftInv, Busy
<1>2. CASE sid[msub] = 0
  BY <1>1, <1>2, Zenon DEF DropEntry, MirrorHolds, Listed
<1>3. CASE sid[msub] # 0
  <2>1. sid' = [sid EXCEPT ![msub] = 0] /\ has_subscribers' = (Listed \ {msub} # {})
    BY <1>1, <1>3, Zenon DEF DropEntry
  <2>2. sid'[msub] = 0 /\ \A s \in Subs \ {msub} : sid'[s] = sid[s]
    BY <1>1, <2>1, Zenon
  <2>3. Listed' = Listed \ {msub}
    BY <1>1, <2>2, Zenon DEF Listed
  <2>. QED
    BY <1>1, <2>1, <2>2, <2>3, Zenon
<1>. QED
  BY <1>2, <1>3, Zenon

\* Every step keeps the list in agreement with what the manager did, to the entry.
LEMMA EntryStep ==
  ASSUME IInv, EntryInv, [Next]_vars
  PROVE  EntryInv'
<1>0. /\ CallInv /\ ListInv /\ LeftInv /\ None \notin Subs /\ sid \in [Subs -> Nat] /\ fate \in [Subs -> Fates]
      /\ next_id # 0 /\ (mpc \in Busy => msub \in Subs) /\ has_subscribers \in BOOLEAN
  BY ConstantsAssumption, Zenon DEF IInv, TypeOK, ListTypes, ManagerTypes, FlagTypes, CallInv, Busy
<1> USE DEF listVars, workerVars, managerVars, Busy
<1>1. ASSUME UNCHANGED <<sid, open, stopping, has_subscribers, fate, msub>>,
             (mpc' = mpc /\ mop' = mop) \/ mpc # "drop",
             mpc' \in {mpc, "closed", "draining", "tearing"}, mpc' = "tearing" => mpc \in {"leaving", "tearing"},
             xpc' \in {xpc, "stop", "down", "detached"}
      PROVE  EntryInv'
  <2>1. Listed' = Listed /\ MirrorHolds'
    BY <1>1, Zenon DEF EntryInv, MirrorHolds, Listed
  <2>2. /\ xpc' = "flagged" => stopping'
        /\ xpc' = "run" => \A s \in Subs : fate'[s] = "loaded" => s \in open' \/ s = msub'
    BY <1>1, Zenon DEF EntryInv
  <2>3. /\ mpc' = "drop" => mpc = "drop" /\ mop' = mop
        /\ mpc = "drop" => mpc' = "drop"
        /\ mpc' \in {"leaving", "tearing"} => mpc \in {"leaving", "tearing"}
    BY <1>1, Zenon
  <2>4. /\ mpc' \in {"leaving", "tearing"} => Listed' = {}
        /\ \A s \in Subs : fate'[s] \notin {"new", "loaded", "parked"} =>
             sid'[s] = 0 \/ (mpc' = "drop" /\ mop' = "remove" /\ s = msub')
        /\ mpc' = "drop" /\ mop' = "purge" => sid'[msub'] = 0
    BY <1>1, <2>1, <2>3, Zenon DEF EntryInv
  <2>. QED
    BY <1>1, <2>1, <2>2, <2>4, Zenon DEF EntryInv
<1>2. CASE Worker \/ WorkerLeave
  <2>1. UNCHANGED <<sid, open, stopping, has_subscribers, fate, msub, mpc, mop, xpc>>
    BY <1>2, Zenon DEF Worker, WorkerLock, WorkerSleep, WorkerExit, WorkerTake, WorkerCall, WorkerDone, WorkerLeave
  <2>. QED
    BY <1>1, <2>1, Zenon
<1>3. CASE Flush \/ UNCHANGED vars \/ \E t \in Loggers : Log(t)
  <2>1. UNCHANGED <<sid, open, stopping, has_subscribers, fate, msub, mpc, mop, xpc>>
    BY <1>3, Zenon DEF Flush, FlushBegin, FlushReached, FlushTimeout, FlushReturn, vars, Log, DoLogCheck, DoLogQueue,
       DoLogNotify
  <2>. QED
    BY <1>1, <2>1, Zenon
<1>4. ASSUME NEW s \in Subs, AddSubscriber(s) PROVE EntryInv'
  <2>1. /\ xpc = "run" /\ mpc = "idle" /\ ~stopping /\ fate[s] = "new" /\ fate' = [fate EXCEPT ![s] = "loaded"]
        /\ sid' = [sid EXCEPT ![s] = next_id] /\ open' = open \cup {s} /\ has_subscribers' = TRUE
        /\ UNCHANGED <<mpc, mop, msub, xpc, stopping>>
    BY <1>0, <1>4, Zenon DEF AddSubscriber, CallInv
  <2>2. \A r \in Subs : /\ sid'[r] = IF r = s THEN next_id ELSE sid[r]
                        /\ fate'[r] = IF r = s THEN "loaded" ELSE fate[r]
    BY <1>0, <2>1, Zenon
  <2>3. s \in Listed'
    BY <1>0, <2>2, Zenon DEF Listed
  <2>4. MirrorHolds'
    BY <2>1, <2>3, Zenon DEF MirrorHolds
  <2>. QED
    BY <1>0, <2>1, <2>2, <2>4, Zenon DEF EntryInv
<1>5. ASSUME NEW s \in Subs, NEW op \in {"remove", "purge"}, NEW w \in BOOLEAN, CloseBegin(s, op, w)
      PROVE EntryInv'
  <2>1. /\ xpc = "run" /\ mpc = "idle" /\ msub' = s /\ mpc' \in {"closed", "closing"} /\ open' = open \ {s}
        /\ UNCHANGED <<sid, has_subscribers, fate, stopping, xpc>>
    BY <1>5, Zenon DEF CloseBegin
  <2>2. msub = None
    BY <1>0, <2>1, Zenon DEF CallInv, IInv, TypeOK, ManagerTypes
  <2>. QED
    BY <1>0, <2>1, <2>2, Zenon DEF EntryInv, MirrorHolds, Listed
<1>6. CASE CloseLeft \/ StopLeft \/ StopBegin \/ ShutdownJoin
  <2>1. CASE CloseLeft
    BY <1>1, <2>1, Zenon DEF CloseLeft
  <2>2. CASE StopLeft
    BY <1>1, <2>2, Zenon DEF StopLeft
  <2>3. CASE StopBegin
    BY <1>1, <2>3, Zenon DEF StopBegin
  <2>4. CASE ShutdownJoin
    BY <1>1, <2>4, Zenon DEF ShutdownJoin
  <2>. QED
    BY <1>6, <2>1, <2>2, <2>3, <2>4, Zenon
<1>7. CASE CloseTimeout
  <2>1. /\ mpc = "closing" /\ mpc' = "idle" /\ UNCHANGED <<sid, has_subscribers, stopping, xpc>>
        /\ \/ open' = open \cup {msub} /\ fate' = fate
           \/ open' = open /\ fate' = [fate EXCEPT ![msub] = "parked"]
    BY <1>7, Zenon DEF CloseTimeout, EndManager
  <2>. QED
    BY <1>0, <2>1, Zenon DEF EntryInv, MirrorHolds, Listed
<1>8. CASE RemoveUnload
  <2>1. /\ mpc = "closed" /\ mop = "remove" /\ UNCHANGED <<sid, has_subscribers, stopping, xpc>> /\ msub \in Subs
        /\ fate[msub] = "loaded"
    BY <1>0, <1>8, Zenon DEF RemoveUnload, ListInv
  <2>2. ASSUME mpc' = "drop", UNCHANGED <<open, mop, msub>>, NEW f, fate' = [fate EXCEPT ![msub] = f], f # "loaded"
        PROVE  EntryInv'
    BY <1>0, <2>1, <2>2, Zenon DEF EntryInv, MirrorHolds, Listed
  <2>3. ASSUME mpc' = "idle", fate' = fate, open' = IF sid[msub] = 0 THEN open ELSE open \cup {msub}
        PROVE  EntryInv'
    <3>1. sid[msub] # 0
      BY <1>0, <2>1, Zenon DEF ListInv, CallInv
    <3>. QED
      BY <1>0, <2>1, <2>3, <3>1, Zenon DEF EntryInv, MirrorHolds, Listed
  <2>. QED
    BY <1>8, <2>2, <2>3, Zenon DEF RemoveUnload, EndManager, Outcome
<1>9. CASE RemoveDrop \/ PurgeDrop
  <2>1. /\ mpc \in {"closed", "drop"} /\ DropEntry(msub) /\ UNCHANGED <<open, fate, xpc, stopping>>
        /\ \/ mpc = "drop" /\ mop = "remove" /\ mpc' = "idle"
           \/ mpc = "closed" /\ mop = "purge" /\ mpc' = "drop" /\ UNCHANGED <<mop, msub>>
    BY <1>9, Zenon DEF RemoveDrop, PurgeDrop, EndManager
  <2>2. /\ msub \in Subs /\ sid'[msub] = 0 /\ \A s \in Subs \ {msub} : sid'[s] = sid[s]
        /\ MirrorHolds'
    BY <2>1, DropEntryDrops, Zenon DEF EntryInv, MirrorHolds
  <2>3. stopping' => Listed' = {}
    BY <2>1, <2>2, Zenon DEF EntryInv, Listed
  <2>4. ASSUME NEW s \in Subs, fate'[s] \notin {"new", "loaded", "parked"} PROVE sid'[s] = 0
    BY <2>1, <2>2, <2>4, Zenon DEF EntryInv
  <2>5. ASSUME xpc' = "run", NEW s \in Subs, fate'[s] = "loaded" PROVE s \in open' \/ s = msub'
    BY <1>0, <2>1, <2>5, Zenon DEF EntryInv, ListInv
  <2>. QED
    BY <2>1, <2>2, <2>3, <2>4, <2>5, Zenon DEF EntryInv
<1>10. CASE PurgeUnload
  <2>1. /\ mpc = "drop" /\ mop = "purge" /\ mpc' = "idle" /\ UNCHANGED <<sid, open, has_subscribers, stopping, xpc>>
        /\ msub \in Subs /\ \E f \in {"unloaded", "leaked", "selfUnloaded"} : fate' = [fate EXCEPT ![msub] = f]
    BY <1>0, <1>10, Zenon DEF PurgeUnload, EndManager, Outcome
  <2>. QED
    BY <1>0, <2>1, Zenon DEF EntryInv, MirrorHolds, Listed
<1>11. CASE StopTake \/ Shutdown
  <2>1. /\ sid' = [s \in Subs |-> 0] /\ fate' = fate /\ xpc' # "run"
        /\ \/ has_subscribers' = FALSE /\ UNCHANGED <<stopping, xpc>> /\ mpc' = "leaving"
           \/ stopping' = TRUE /\ UNCHANGED <<mpc, mop, msub>>
    BY <1>0, <1>11, Zenon DEF StopTake, Shutdown, CallInv
  <2>2. Listed' = {} /\ \A s \in Subs : sid'[s] = 0
    BY <2>1, Zenon DEF Listed
  <2>3. mpc' = "drop" /\ mop' = "purge" => msub' \in Subs
    BY <1>0, <2>1, Zenon
  <2>4. MirrorHolds'
    BY <2>1, <2>2, Zenon DEF MirrorHolds
  <2>5. (xpc' = "flagged" => stopping') /\ xpc' # "run"
    BY <1>0, <1>11, Zenon DEF StopTake, Shutdown, CallInv, EntryInv
  <2>. QED
    BY <2>2, <2>3, <2>4, <2>5, Zenon DEF EntryInv
<1>12. CASE StopTear
  <2>1. /\ mpc = "tearing" /\ mpc' = "idle" /\ xpc' = "stopped"
        /\ UNCHANGED <<sid, open, has_subscribers, stopping>>
    BY <1>12, Zenon DEF StopTear, EndManager
  <2>2. \A s \in Subs : sid'[s] = 0
    BY <2>1, Zenon DEF EntryInv, Listed
  <2>. QED
    BY <2>1, <2>2, Zenon DEF EntryInv, MirrorHolds, Listed
<1>13. CASE ShutdownMirror
  BY <1>13, Zenon DEF ShutdownMirror, EntryInv, MirrorHolds, Listed
<1>. QED
  BY <1>2, <1>3, <1>4, <1>5, <1>6, <1>7, <1>8, <1>9, <1>10, <1>11, <1>12, <1>13, Zenon
     DEF Next, ManagerBegin, ManagerStep, MainStep

-----------------------------------------------------------------------------
(* The numbers of the lines *)

\* q holds the numbers that follow base, in order.
Numbered(q, base) == \A i \in 1..Len(q) : q[i] = base + i

\* How many lines have left the queue, in queue order.
Out == queued - Len(queue)

(***************************************************************************)
(* The queue holds the last lines queued, in order; the line in hand is an *)
(* earlier one, the very last that left the queue when none was dropped    *)
(* behind it.                                                              *)
(***************************************************************************)
NumberInv ==
  /\ Numbered(queue, Out)
  /\ wline <= Out /\ ftarget <= queued
  /\ xpc = "run" /\ dropped = 0 /\ wline # 0 => wline = Out

\* Nothing but queueing, taking, finishing and dropping lines moves a line.
LEMMA LineMoves ==
  ASSUME [Next]_vars
  PROVE  /\ \/ UNCHANGED <<queue, queued, done, dropped, wline>>
            \/ WorkerTake \/ WorkerDone \/ StopTake \/ Shutdown
            \/ \E t \in Loggers : DoLogQueue(t)
         /\ xpc' = "run" => xpc = "run"
         /\ ftarget' = ftarget \/ FlushBegin
<1> USE DEF queueVars, workerVars
<1>1. CASE Worker \/ WorkerLeave
  BY <1>1, Zenon DEF Worker, WorkerLock, WorkerSleep, WorkerExit, WorkerTake, WorkerCall, WorkerDone, WorkerLeave
<1>2. CASE \E t \in Loggers : Log(t)
  BY <1>2, Zenon DEF Log, DoLogCheck, DoLogQueue, DoLogNotify
<1>3. CASE Flush \/ UNCHANGED vars
  BY <1>3, Zenon DEF Flush, FlushBegin, FlushReached, FlushTimeout, FlushReturn, vars
<1>4. CASE ManagerBegin
  BY <1>4, Zenon DEF ManagerBegin, AddSubscriber, CloseBegin
<1>5. CASE CloseLeft \/ CloseTimeout \/ RemoveUnload \/ RemoveDrop \/ PurgeDrop \/ PurgeUnload
  BY <1>5, Zenon DEF CloseLeft, CloseTimeout, RemoveUnload, RemoveDrop, PurgeDrop, PurgeUnload
<1>6. CASE StopTake \/ StopLeft \/ StopTear
  BY <1>6, Zenon DEF StopTake, StopLeft, StopTear
<1>7. CASE MainStep
  BY <1>7, Zenon DEF MainStep, StopBegin, Shutdown, ShutdownMirror, ShutdownJoin
<1>. QED
  BY <1>1, <1>2, <1>3, <1>4, <1>5, <1>6, <1>7, Zenon DEF Next, ManagerStep

\* The arithmetic the numbers rest on.
LEMMA OutFacts ==
  ASSUME IInv
  PROVE  /\ queue \in Seq(1..MaxLines) /\ queue \in Seq(Nat) /\ Len(queue) \in Nat
         /\ {queued, done, dropped, wline, ftarget, Out} \subseteq Nat
         /\ Out = done + (IF wline = 0 THEN 0 ELSE 1)
         /\ queued = Out + Len(queue)
<1>1. /\ queue \in Seq(1..MaxLines) /\ queued \in 0..MaxLines /\ done \in 0..queued /\ dropped \in Nat
      /\ wline \in 0..MaxLines /\ ftarget \in 0..MaxLines /\ LinesAccounted /\ Len(queue) \in Nat
  BY QueueFacts, Zenon DEF IInv, TypeOK, QueueTypes, WorkerTypes
<1>2. queue \in Seq(Nat)
  BY <1>1, ElementOfSeq, SeqDef, ConstantsAssumption
<1>. QED
  BY <1>1, <1>2, ConstantsAssumption DEF LinesAccounted, Out

\* The next number goes to the end of numbered lines.
LEMMA AppendNumbers ==
  ASSUME NEW q \in Seq(Nat), NEW base \in Nat, Numbered(q, base), NEW n \in Nat, n = base + Len(q) + 1
  PROVE  /\ Len(Append(q, n)) = Len(q) + 1
         /\ Numbered(Append(q, n), base)
<1> DEFINE r == Append(q, n)
<1>1. /\ Len(r) = Len(q) + 1
      /\ \A i \in 1..Len(q) : r[i] = q[i]
      /\ r[Len(q) + 1] = n
  BY AppendProperties
<1>2. Len(q) \in Nat
  BY LenProperties
<1> HIDE DEF r
<1>3. ASSUME NEW i \in 1..Len(r) PROVE r[i] = base + i
  <2>1. CASE i \in 1..Len(q)
    BY <1>1, <1>2, <2>1 DEF Numbered
  <2>2. CASE i = Len(q) + 1
    BY <1>1, <1>2, <2>2
  <2>. QED
    BY <1>1, <1>2, <2>1, <2>2
<1>. QED
  BY <1>1, <1>3, Zenon DEF Numbered, r

\* The oldest of numbered lines leaves the ones after it numbered.
LEMMA TailNumbers ==
  ASSUME NEW q \in Seq(Nat), NEW base \in Nat, Numbered(q, base), q # <<>>
  PROVE  /\ Head(q) = base + 1
         /\ Tail(q) \in Seq(Nat) /\ Len(Tail(q)) = Len(q) - 1
         /\ Numbered(Tail(q), base + 1)
<1> DEFINE r == Tail(q)
<1>1. r \in Seq(Nat) /\ Len(r) = Len(q) - 1 /\ \A i \in 1..Len(r) : r[i] = q[i + 1]
  BY HeadTailProperties
<1>2. Len(q) \in Nat \ {0}
  BY EmptySeq
<1>3. Head(q) = q[1]
  OBVIOUS
<1> HIDE DEF r
<1>4. Head(q) = base + 1
  BY <1>2, <1>3 DEF Numbered
<1>5. ASSUME NEW i \in 1..Len(r) PROVE r[i] = (base + 1) + i
  <2>1. i + 1 \in 1..Len(q) /\ r[i] = q[i + 1]
    BY <1>1, <1>2
  <2>. QED
    BY <2>1 DEF Numbered
<1>. QED
  BY <1>1, <1>4, <1>5, Zenon DEF Numbered, r

\* Queueing a line, with or without dropping the oldest one.
LEMMA NumberQueue ==
  ASSUME IInv, NumberInv, NEW t \in Loggers, DoLogQueue(t)
  PROVE  /\ Numbered(queue', Out')
         /\ Out' \in Nat /\ Out' >= Out /\ queued' >= queued
         /\ dropped' = 0 => dropped = 0 /\ Out' = Out
         /\ wline' = wline
<1>0. /\ queue \in Seq(Nat) /\ Len(queue) \in Nat /\ {queued, dropped, Out} \subseteq Nat /\ queued = Out + Len(queue)
      /\ Numbered(queue, Out)
  BY OutFacts, Zenon DEF NumberInv
<1>1. wline' = wline
  BY Zenon DEF DoLogQueue, workerVars
<1>2. CASE UNCHANGED queueVars
  <2>1. queue' = queue /\ Out' = Out /\ queued' = queued /\ dropped' = dropped
    BY <1>2, Zenon DEF queueVars, Out
  <2>2. Numbered(queue', Out')
    BY <1>0, <2>1, Zenon
  <2>. QED
    BY <1>0, <1>1, <2>1, <2>2
<1>3. CASE ~UNCHANGED queueVars
  <2>1. queued' = queued + 1 /\ queued + 1 \in Nat
    BY <1>0, <1>3 DEF DoLogQueue
  <2>2. CASE QueueIsFull
    <3>1. queue' = Append(Tail(queue), queued + 1) /\ dropped' = dropped + 1
      BY <1>3, <2>2, Zenon DEF DoLogQueue
    <3>2. queue # <<>>
      <4>1. TypeOK
        BY Zenon DEF IInv
      <4>. QED
        BY <1>0, <2>2, <4>1, QueueFacts, ConstantsAssumption DEF QueueIsFull
    <3>3. Tail(queue) \in Seq(Nat) /\ Len(Tail(queue)) = Len(queue) - 1 /\ Numbered(Tail(queue), Out + 1)
      BY <1>0, <3>2, TailNumbers, Zenon
    <3>4. PICK q \in Seq(Nat) : q = Tail(queue)
      BY <3>3, Zenon
    <3>5. Len(q) = Len(queue) - 1 /\ Numbered(q, Out + 1) /\ Out + 1 \in Nat /\ queued + 1 = (Out + 1) + Len(q) + 1
      BY <1>0, <3>3, <3>4
    <3>6. Len(Append(q, queued + 1)) = Len(q) + 1 /\ Numbered(Append(q, queued + 1), Out + 1)
      BY <2>1, <3>5, AppendNumbers, Zenon
    <3>7. Len(queue') = Len(q) + 1 /\ Numbered(queue', Out + 1)
      BY <3>1, <3>4, <3>6, Zenon
    <3>8. Out' = Out + 1 /\ dropped' # 0
      <4>1. dropped' = dropped + 1 /\ Len(q) = Len(queue) - 1 /\ Len(queue') = Len(q) + 1
        BY <3>1, <3>5, <3>7, Zenon
      <4>2. Out' = queued' - Len(queue')
        BY Zenon DEF Out
      <4>3. /\ Len(queue') = Len(queue) /\ Len(queue) \in Nat /\ Out \in Nat
            /\ queued = Out + Len(queue) /\ dropped \in Nat
        BY <1>0, <4>1
      <4>. QED
        BY <2>1, <4>1, <4>2, <4>3
    <3>9. Numbered(queue', Out')
      BY <3>7, <3>8, Zenon
    <3>. QED
      BY <1>0, <1>1, <2>1, <3>8, <3>9
  <2>3. CASE ~QueueIsFull
    <3>1. queue' = Append(queue, queued + 1) /\ dropped' = dropped
      BY <1>3, <2>3, Zenon DEF DoLogQueue
    <3>2. queued + 1 = Out + Len(queue) + 1
      BY <1>0
    <3>3. Len(Append(queue, queued + 1)) = Len(queue) + 1 /\ Numbered(Append(queue, queued + 1), Out)
      BY <1>0, <2>1, <3>2, AppendNumbers, Zenon
    <3>4. Len(queue') = Len(queue) + 1 /\ Numbered(queue', Out)
      BY <3>1, <3>3, Zenon
    <3>5. Out' = Out
      BY <1>0, <2>1, <3>4 DEF Out
    <3>6. Numbered(queue', Out')
      BY <3>4, <3>5, Zenon
    <3>. QED
      BY <1>0, <1>1, <2>1, <3>1, <3>5, <3>6
  <2>. QED
    BY <2>2, <2>3, Zenon
<1>. QED
  BY <1>2, <1>3, Zenon

\* deliver() takes the next line in queue order.
LEMMA NumberTake ==
  ASSUME IInv, NumberInv, WorkerTake
  PROVE  Numbered(queue', Out') /\ Out' = Out + 1 /\ wline' = Out + 1 /\ queued' = queued
<1>0. /\ queue \in Seq(Nat) /\ Len(queue) \in Nat /\ {queued, Out} \subseteq Nat /\ queued = Out + Len(queue)
      /\ Numbered(queue, Out)
  BY OutFacts, Zenon DEF NumberInv
<1>1. queue # <<>> /\ queue' = Tail(queue) /\ wline' = Head(queue) /\ queued' = queued
  BY Zenon DEF WorkerTake
<1>2. Head(queue) = Out + 1 /\ Len(Tail(queue)) = Len(queue) - 1 /\ Numbered(Tail(queue), Out + 1)
  BY <1>0, <1>1, TailNumbers, Zenon
<1>3. Len(queue') = Len(queue) - 1 /\ wline' = Out + 1 /\ Numbered(queue', Out + 1)
  BY <1>1, <1>2, Zenon
<1>4. Out' = Out + 1
  BY <1>0, <1>1, <1>3 DEF Out
<1>. QED
  BY <1>1, <1>3, <1>4, Zenon

\* Every step keeps the numbers in order, and no line returns to the queue.
LEMMA NumberStep ==
  ASSUME IInv, NumberInv, [Next]_vars
  PROVE  NumberInv' /\ Out' \in Nat /\ Out' >= Out
<1>0. /\ Len(queue) \in Nat /\ {queued, done, dropped, wline, ftarget, Out} \subseteq Nat
      /\ queued = Out + Len(queue) /\ (xpc' = "run" => xpc = "run")
      /\ Len(<<>>) = 0
  BY OutFacts, LineMoves, EmptySeq, Zenon
<1>1. ASSUME queued' >= queued, queued' \in Nat PROVE ftarget' <= queued'
  <2>1. CASE ftarget' = ftarget
    BY <1>0, <1>1, <2>1 DEF NumberInv
  <2>2. CASE FlushBegin
    <3>1. ftarget' = queued
      BY <2>2, Zenon DEF FlushBegin
    <3>. QED
      BY <1>0, <1>1, <3>1
  <2>. QED
    BY <2>1, <2>2, LineMoves, Zenon
<1>2. CASE UNCHANGED <<queue, queued, done, dropped, wline>>
  <2>1. Out' = Out /\ queued' = queued
    BY <1>2, Zenon DEF Out
  <2>2. ftarget' <= queued'
    BY <1>0, <1>1, <2>1
  <2>3. NumberInv'
    BY <1>0, <1>2, <2>1, <2>2, Zenon DEF NumberInv
  <2>. QED
    BY <1>0, <2>1, <2>3
<1>3. ASSUME NEW t \in Loggers, DoLogQueue(t) PROVE NumberInv' /\ Out' \in Nat /\ Out' >= Out
  <2>1. /\ Numbered(queue', Out')
        /\ Out' \in Nat /\ Out' >= Out /\ queued' >= queued
        /\ dropped' = 0 => dropped = 0 /\ Out' = Out
        /\ wline' = wline
    BY <1>3, NumberQueue, Zenon
  <2>2. queued' \in Nat
    <3>1. queued' = queued \/ queued' = queued + 1
      BY <1>3, Zenon DEF DoLogQueue, queueVars
    <3>. QED
      BY <1>0, <3>1
  <2>3. ftarget' <= queued'
    BY <1>1, <2>1, <2>2, Zenon
  <2>4. wline' <= Out'
    BY <1>0, <2>1 DEF NumberInv
  <2>5. xpc' = "run" /\ dropped' = 0 /\ wline' # 0 => wline' = Out'
    BY <1>0, <2>1, Zenon DEF NumberInv
  <2>. QED
    BY <2>1, <2>3, <2>4, <2>5, Zenon DEF NumberInv
<1>4. CASE WorkerTake
  <2>1. /\ Numbered(queue', Out')
        /\ Out' = Out + 1 /\ wline' = Out + 1 /\ queued' = queued
    BY <1>4, NumberTake, Zenon
  <2>2. ftarget' <= queued' /\ wline' <= Out' /\ Out' \in Nat /\ Out' >= Out
    BY <1>0, <1>1, <2>1
  <2>. QED
    BY <2>1, <2>2, Zenon DEF NumberInv
<1>5. CASE WorkerDone
  <2>1. UNCHANGED <<queue, queued>> /\ wline' = 0
    BY <1>5, Zenon DEF WorkerDone
  <2>2. Out' = Out /\ queued' = queued
    BY <2>1, Zenon DEF Out
  <2>3. ftarget' <= queued' /\ wline' <= Out' /\ Out' \in Nat /\ Out' >= Out
    BY <1>0, <1>1, <2>1, <2>2
  <2>. QED
    BY <2>1, <2>2, <2>3, Zenon DEF NumberInv
<1>6. CASE StopTake \/ Shutdown
  <2>1. queue' = <<>> /\ queued' = queued /\ wline' = wline
    BY <1>6, Zenon DEF StopTake, Shutdown
  <2>2. xpc' # "run"
    BY <1>6, Zenon DEF StopTake, Shutdown, IInv, CallInv
  <2>3. Len(queue') = 0 /\ Out' = queued
    BY <1>0, <2>1 DEF Out
  <2>4. /\ ftarget' <= queued' /\ wline' <= Out' /\ Out' \in Nat /\ Out' >= Out
        /\ Numbered(queue', Out')
    BY <1>0, <1>1, <2>1, <2>3 DEF NumberInv, Numbered
  <2>. QED
    BY <2>2, <2>4, Zenon DEF NumberInv
<1>. QED
  BY <1>2, <1>3, <1>4, <1>5, <1>6, LineMoves, Zenon

-----------------------------------------------------------------------------
(* What each module has been handed *)

(***************************************************************************)
(* A module has been handed lines in order, all before the one in hand,    *)
(* but for that one itself when the walk is past its entry.                *)
(***************************************************************************)
HandedOf(s) ==
  /\ fate[s] = "new" => delivered[s] = <<>>
  /\ \A i \in 1..Len(delivered[s]) :
       IF wline = 0 THEN delivered[s][i] <= Out
                    ELSE delivered[s][i] < wline \/ (delivered[s][i] = wline /\ sid[s] <= wlast)

OrderInv == \A s \in Subs : HandedOf(s)

\* Only deliver() hands out lines; any other step keeps an entry's id, drops the
\* entry, or gives a new one to a module that was handed nothing.
LEMMA OrderMoves ==
  ASSUME IInv, OrderInv, [Next]_vars
  PROVE  \/ WorkerTake \/ WorkerDone \/ \E s \in Subs : WorkerCall(s)
         \/ /\ UNCHANGED <<delivered, wline, wlast>>
            /\ \A s \in Subs : sid'[s] = sid[s] \/ sid'[s] = 0 \/ delivered[s] = <<>>
<1>0. sid \in [Subs -> Nat]
  BY Zenon DEF IInv, TypeOK, ListTypes
<1> USE DEF listVars, workerVars
<1>1. CASE WorkerLock \/ WorkerSleep \/ WorkerExit \/ WorkerLeave
  BY <1>1, Zenon DEF WorkerLock, WorkerSleep, WorkerExit, WorkerLeave
<1>2. CASE Flush \/ UNCHANGED vars \/ \E t \in Loggers : Log(t)
  BY <1>2, Zenon DEF Flush, FlushBegin, FlushReached, FlushTimeout, FlushReturn, vars, Log, DoLogCheck, DoLogQueue,
     DoLogNotify
<1>3. ASSUME NEW s \in Subs, AddSubscriber(s)
      PROVE  /\ UNCHANGED <<delivered, wline, wlast>>
             /\ \A r \in Subs : sid'[r] = sid[r] \/ sid'[r] = 0 \/ delivered[r] = <<>>
  <2>1. /\ UNCHANGED <<delivered, wline, wlast>> /\ delivered[s] = <<>>
        /\ sid' = sid \/ sid' = [sid EXCEPT ![s] = next_id]
    BY <1>3, Zenon DEF AddSubscriber, OrderInv, HandedOf
  <2>. QED
    BY <1>0, <2>1, Zenon
<1>4. CASE \E s \in Subs, op \in {"remove", "purge"}, w \in BOOLEAN : CloseBegin(s, op, w)
  BY <1>4, Zenon DEF CloseBegin
<1>5. CASE CloseLeft \/ CloseTimeout \/ RemoveUnload \/ PurgeUnload \/ StopLeft \/ StopTear
  BY <1>5, Zenon DEF CloseLeft, CloseTimeout, RemoveUnload, PurgeUnload, StopLeft, StopTear
<1>6. CASE RemoveDrop \/ PurgeDrop
  <2>1. UNCHANGED <<delivered, wline, wlast>> /\ (sid' = sid \/ sid' = [sid EXCEPT ![msub] = 0])
    BY <1>6, Zenon DEF RemoveDrop, PurgeDrop, DropEntry
  <2>. QED
    BY <1>0, <2>1, Zenon
<1>7. CASE StopTake \/ Shutdown
  BY <1>7, Zenon DEF StopTake, Shutdown
<1>8. CASE StopBegin \/ ShutdownMirror \/ ShutdownJoin
  BY <1>8, Zenon DEF StopBegin, ShutdownMirror, ShutdownJoin
<1>. QED
  BY <1>1, <1>2, <1>3, <1>4, <1>5, <1>6, <1>7, <1>8, Zenon DEF Next, Worker, ManagerBegin, ManagerStep, MainStep

\* A module that was loaded once is never new again.
LEMMA NewOnlyOnce ==
  ASSUME IInv, [Next]_vars, NEW s \in Subs, fate'[s] = "new"
  PROVE  fate[s] = "new"
<1>0. fate \in [Subs -> Fates]
  BY Zenon DEF IInv, TypeOK, ManagerTypes
<1> USE DEF managerVars
<1>1. CASE \/ WorkerLock \/ WorkerSleep \/ WorkerExit \/ WorkerTake \/ WorkerDone \/ WorkerLeave
           \/ \E r \in Subs : WorkerCall(r)
  BY <1>1, Zenon DEF WorkerLock, WorkerSleep, WorkerExit, WorkerTake, WorkerDone, WorkerLeave, WorkerCall
<1>2. CASE Flush \/ UNCHANGED vars \/ \E t \in Loggers : Log(t)
  BY <1>2, Zenon DEF Flush, FlushBegin, FlushReached, FlushTimeout, FlushReturn, vars, Log, DoLogCheck, DoLogQueue,
     DoLogNotify
<1>3. ASSUME NEW r, NEW f, fate' = fate \/ fate' = [fate EXCEPT ![r] = f], f # "new" PROVE fate[s] = "new"
  BY <1>0, <1>3, Zenon
<1>4. CASE \E r \in Subs : AddSubscriber(r)
  <2>1. PICK r \in Subs : fate' = [fate EXCEPT ![r] = "loaded"]
    BY <1>4, Zenon DEF AddSubscriber
  <2>. QED
    BY <1>0, <2>1, Zenon
<1>5. CASE CloseTimeout
  BY <1>3, <1>5, Zenon DEF CloseTimeout
<1>6. CASE RemoveUnload
  BY <1>3, <1>6, Zenon DEF RemoveUnload, Outcome
<1>7. CASE PurgeUnload
  BY <1>3, <1>7, Zenon DEF PurgeUnload, Outcome
<1>8. CASE StopTear
  BY <1>0, <1>8, Zenon DEF StopTear
<1>9. CASE \/ \E r \in Subs, op \in {"remove", "purge"}, w \in BOOLEAN : CloseBegin(r, op, w)
           \/ CloseLeft \/ RemoveDrop \/ PurgeDrop
           \/ StopBegin \/ StopTake \/ StopLeft \/ Shutdown \/ ShutdownMirror \/ ShutdownJoin
  BY <1>9, Zenon DEF CloseBegin, CloseLeft, RemoveDrop, PurgeDrop, StopBegin, StopTake, StopLeft, Shutdown,
     ShutdownMirror, ShutdownJoin
<1>. QED
  BY <1>1, <1>2, <1>4, <1>5, <1>6, <1>7, <1>8, <1>9, Zenon DEF Next, Worker, ManagerBegin, ManagerStep, MainStep

\* The line in hand goes to the end of what the module was handed.
LEMMA OrderCall ==
  ASSUME IInv, NumberInv, OrderInv, InOrderOnce, NEW s \in Subs, WorkerCall(s)
  PROVE  OrderInv' /\ InOrderOnce'
<1>0. /\ sid \in [Subs -> Nat] /\ wlast \in Nat /\ wline \in Nat \ {0} /\ delivered \in [Subs -> Seq(1..MaxLines)]
      /\ wline \in 1..MaxLines
  <2>1. /\ sid \in [Subs -> Nat] /\ wlast \in Nat /\ wline \in 0..MaxLines /\ wline # 0
        /\ delivered \in [Subs -> Seq(1..MaxLines)]
    BY Zenon DEF IInv, TypeOK, ListTypes, WorkerTypes, WorkerInv, WorkerCall
  <2>. QED
    BY <2>1, ConstantsAssumption
<1>1. /\ wlast' = sid[s] /\ delivered' = [delivered EXCEPT ![s] = Append(@, wline)] /\ wlast < sid[s]
      /\ UNCHANGED <<wline, sid, fate>> /\ s \in open
  BY <1>0 DEF WorkerCall, IsNext, After, listVars, managerVars
<1>2. fate[s] = "loaded"
  BY <1>1, Zenon DEF IInv, ListInv
<1>3. \A r \in Subs : delivered'[r] = IF r = s THEN Append(delivered[s], wline) ELSE delivered[r]
  BY <1>0, <1>1, Zenon
<1>4. PICK d \in Seq(1..MaxLines) : d = delivered[s]
  BY <1>0, Zenon
<1>5. PICK e : e = Append(d, wline)
  OBVIOUS
<1>6. /\ Len(e) = Len(d) + 1 /\ (\A i \in 1..Len(d) : e[i] = d[i]) /\ e[Len(d) + 1] = wline
  BY <1>0, <1>5, AppendProperties
<1>7. Len(d) \in Nat /\ DOMAIN d = 1..Len(d) /\ \A i \in 1..Len(d) : d[i] \in 1..MaxLines
  BY <1>4, LenProperties, ElementOfSeq
<1>8. DOMAIN e = 1..Len(e)
  BY <1>0, <1>5, AppendProperties, LenProperties
<1>9. delivered'[s] = e /\ \A r \in Subs \ {s} : delivered'[r] = delivered[r]
  BY <1>3, <1>4, <1>5, Zenon
<1>10. \A i \in 1..Len(d) : d[i] < wline
  <2>1. sid[s] \in Nat /\ wline # 0
    BY <1>0, Zenon
  <2>2. ~(sid[s] <= wlast)
    BY <1>0, <1>1, <2>1
  <2>. QED
    BY <1>4, <2>1, <2>2, Zenon DEF OrderInv, HandedOf
<1>11. \A i \in 1..Len(e) : e[i] < wline \/ (e[i] = wline /\ i = Len(e))
  BY <1>6, <1>7, <1>10
<1>12. OrderInv'
  <2> SUFFICES ASSUME NEW r \in Subs PROVE HandedOf(r)'
    BY Zenon DEF OrderInv
  <2>1. CASE r = s
    <3>1. fate'[s] # "new" /\ wline' = wline /\ wline # 0 /\ sid'[s] <= wlast'
      BY <1>0, <1>1, <1>2
    <3>. QED
      BY <1>9, <1>11, <2>1, <3>1, Zenon DEF HandedOf
  <2>2. CASE r # s
    BY <1>0, <1>1, <1>9, <2>2 DEF HandedOf, OrderInv
  <2>. QED
    BY <2>1, <2>2, Zenon
<1>13. InOrderOnce'
  <2>1. ASSUME NEW i \in DOMAIN e, NEW j \in DOMAIN e, i < j PROVE e[i] < e[j]
    <3>1. i \in 1..Len(d) /\ j \in 1..Len(d) + 1
      BY <1>6, <1>7, <1>8, <2>1
    <3>2. CASE j = Len(d) + 1
      BY <1>6, <1>10, <3>1, <3>2
    <3>3. CASE j \in 1..Len(d)
      <4>1. d[i] < d[j]
        BY <1>4, <1>7, <2>1, <3>1, <3>3, Zenon DEF InOrderOnce
      <4>. QED
        BY <1>6, <3>1, <3>3, <4>1
    <3>. QED
      BY <1>7, <3>1, <3>2, <3>3
  <2>. QED
    BY <1>9, <2>1, Zenon DEF InOrderOnce
<1>. QED
  BY <1>12, <1>13, Zenon

\* Every step keeps the lines handed out in order.
LEMMA OrderStep ==
  ASSUME IInv, NumberInv, OrderInv, InOrderOnce, [Next]_vars
  PROVE  OrderInv' /\ InOrderOnce'
<1>0. /\ sid \in [Subs -> Nat] /\ wlast \in Nat /\ wline \in Nat /\ Out \in Nat /\ Out' \in Nat /\ Out' >= Out
      /\ delivered \in [Subs -> Seq(1..MaxLines)] /\ wline <= Out
  BY OutFacts, NumberStep, Zenon DEF IInv, TypeOK, ListTypes, WorkerTypes, NumberInv
<1>1. \A s \in Subs : Len(delivered[s]) \in Nat /\ \A i \in 1..Len(delivered[s]) : delivered[s][i] \in Nat
  BY <1>0, LenProperties, ElementOfSeq, ConstantsAssumption
<1>2. ASSUME UNCHANGED delivered PROVE InOrderOnce'
  BY <1>2, Zenon DEF InOrderOnce
<1>3. ASSUME UNCHANGED delivered, NEW s \in Subs PROVE fate'[s] = "new" => delivered'[s] = <<>>
  BY <1>3, NewOnlyOnce, Zenon DEF OrderInv, HandedOf
<1>4. CASE WorkerTake
  <2>1. wline = 0 /\ UNCHANGED delivered
    BY <1>4, Zenon DEF WorkerTake, IInv, WorkerInv
  <2>2. wline' = Out + 1
    BY <1>4, NumberTake, Zenon
  <2>3. ASSUME NEW s \in Subs, NEW i \in 1..Len(delivered[s]) PROVE delivered[s][i] < wline' /\ wline' # 0
    <3>1. delivered[s][i] <= Out /\ delivered[s][i] \in Nat
      BY <1>1, <2>1, <2>3, Zenon DEF OrderInv, HandedOf
    <3>. QED
      BY <1>0, <2>2, <3>1
  <2>4. wline' # 0
    BY <1>0, <2>2
  <2>. QED
    BY <1>2, <1>3, <2>1, <2>3, <2>4, Zenon DEF OrderInv, HandedOf
<1>5. CASE WorkerDone
  <2>1. wline # 0 /\ wline' = 0 /\ UNCHANGED delivered
    BY <1>5, Zenon DEF WorkerDone, IInv, WorkerInv
  <2>2. ASSUME NEW s \in Subs, NEW i \in 1..Len(delivered[s]) PROVE delivered[s][i] <= Out'
    <3>1. /\ delivered[s][i] < wline \/ delivered[s][i] = wline
          /\ delivered[s][i] \in Nat
      BY <1>1, <2>1, <2>2, Zenon DEF OrderInv, HandedOf
    <3>. QED
      BY <1>0, <3>1
  <2>. QED
    BY <1>2, <1>3, <2>1, <2>2, Zenon DEF OrderInv, HandedOf
<1>6. ASSUME NEW s \in Subs, WorkerCall(s) PROVE OrderInv' /\ InOrderOnce'
  BY <1>6, OrderCall, Zenon
<1>7. ASSUME UNCHANGED <<delivered, wline, wlast>>,
             \A s \in Subs : sid'[s] = sid[s] \/ sid'[s] = 0 \/ delivered[s] = <<>>
      PROVE  OrderInv' /\ InOrderOnce'
  <2>1. ASSUME NEW s \in Subs, NEW i \in 1..Len(delivered[s])
        PROVE  IF wline = 0 THEN delivered[s][i] <= Out'
                            ELSE delivered[s][i] < wline \/ (delivered[s][i] = wline /\ sid'[s] <= wlast)
    <3>1. IF wline = 0 THEN delivered[s][i] <= Out
                       ELSE delivered[s][i] < wline \/ (delivered[s][i] = wline /\ sid[s] <= wlast)
      BY <2>1, Zenon DEF OrderInv, HandedOf
    <3>2. delivered[s][i] \in Nat
      BY <1>1, <2>1, Zenon
    <3>3. delivered[s] # <<>>
      <4>1. Len(delivered[s]) # 0
        BY <1>1, <2>1
      <4>. QED
        BY <4>1, EmptySeq, Zenon
    <3>4. sid'[s] = sid[s] \/ sid'[s] = 0
      BY <1>7, <2>1, <3>3, Zenon
    <3> HIDE <3>3
    <3>. QED
      BY <1>0, <3>1, <3>2, <3>4
  <2>2. ASSUME NEW s \in Subs PROVE HandedOf(s)'
    BY <1>3, <1>7, <2>1, Zenon DEF HandedOf
  <2>. QED
    BY <1>2, <1>7, <2>2, Zenon DEF OrderInv
<1>. QED
  BY <1>4, <1>5, <1>6, <1>7, OrderMoves, Zenon

-----------------------------------------------------------------------------
(* What a flush waited for *)

(***************************************************************************)
(* A flush that reached its target saw the lines it waits for out of the   *)
(* queue, and the last of them out of the worker's hand when none was      *)
(* dropped.                                                                *)
(***************************************************************************)
FlushInv ==
  fpc = "reached" /\ xpc = "run" =>
    ftarget <= Out /\ (dropped = 0 => wline = 0 \/ wline > ftarget)

\* A thread in flush_handlers reaches its target only by finding it reached.
LEMMA FlushMoves ==
  ASSUME [Next]_vars, fpc' = "reached"
  PROVE  ftarget' = ftarget /\ (fpc = "reached" \/ FlushReached)
<1>1. CASE Worker \/ WorkerLeave
  BY <1>1, Zenon DEF Worker, WorkerLock, WorkerSleep, WorkerExit, WorkerTake, WorkerCall, WorkerDone, WorkerLeave
<1>2. CASE \E t \in Loggers : Log(t)
  BY <1>2, Zenon DEF Log, DoLogCheck, DoLogQueue, DoLogNotify
<1>3. CASE Flush \/ UNCHANGED vars
  BY <1>3, Zenon DEF Flush, FlushBegin, FlushReached, FlushTimeout, FlushReturn, vars
<1>4. CASE ManagerBegin
  BY <1>4, Zenon DEF ManagerBegin, AddSubscriber, CloseBegin
<1>5. CASE ManagerStep
  BY <1>5, Zenon DEF ManagerStep, CloseLeft, CloseTimeout, RemoveUnload, RemoveDrop, PurgeDrop, PurgeUnload, StopTake,
     StopLeft, StopTear
<1>6. CASE MainStep
  BY <1>6, Zenon DEF MainStep, StopBegin, Shutdown, ShutdownMirror, ShutdownJoin
<1>. QED
  BY <1>1, <1>2, <1>3, <1>4, <1>5, <1>6, Zenon DEF Next

\* Every step keeps what a flush has seen.
LEMMA FlushStep ==
  ASSUME IInv, NumberInv, FlushInv, [Next]_vars
  PROVE  FlushInv'
<1> SUFFICES ASSUME fpc' = "reached", xpc' = "run"
             PROVE  ftarget' <= Out' /\ (dropped' = 0 => wline' = 0 \/ wline' > ftarget')
  BY Zenon DEF FlushInv
<1>0. /\ xpc = "run" /\ ftarget' = ftarget /\ (fpc = "reached" \/ FlushReached)
      /\ {done, wline, ftarget, Out} \subseteq Nat /\ Out = done + (IF wline = 0 THEN 0 ELSE 1)
      /\ Out' \in Nat /\ Out' >= Out
  BY FlushMoves, LineMoves, OutFacts, NumberStep, Zenon
<1>1. CASE FlushReached
  <2>1. UNCHANGED <<queue, queued, wline, dropped>> /\ (stopping \/ done >= ftarget)
    BY <1>1, Zenon DEF FlushReached, queueVars, workerVars, QueuedReached
  <2>2. ~stopping
    BY <1>0, Zenon DEF IInv, CallInv
  <2>3. Out' = Out
    BY <2>1, Zenon DEF Out
  <2>4. dropped = 0 /\ wline # 0 => wline = Out
    BY <1>0, Zenon DEF NumberInv
  <2>. QED
    BY <1>0, <2>1, <2>2, <2>3, <2>4
<1>2. CASE fpc = "reached"
  <2>1. ftarget <= Out /\ (dropped = 0 => wline = 0 \/ wline > ftarget)
    BY <1>0, <1>2, Zenon DEF FlushInv
  <2>2. ftarget' <= Out'
    BY <1>0, <2>1
  <2>3. CASE UNCHANGED <<queue, queued, done, dropped, wline>>
    BY <1>0, <2>1, <2>2, <2>3, Zenon
  <2>4. ASSUME NEW t \in Loggers, DoLogQueue(t) PROVE dropped' = 0 => wline' = 0 \/ wline' > ftarget'
    BY <1>0, <2>1, <2>4, NumberQueue, Zenon
  <2>5. CASE WorkerTake
    <3>1. wline' = Out + 1
      BY <2>5, NumberTake, Zenon
    <3>2. wline' > ftarget'
      BY <1>0, <2>1, <3>1
    <3>. QED
      BY <2>2, <3>2, Zenon
  <2>6. CASE WorkerDone
    BY <2>2, <2>6, Zenon DEF WorkerDone
  <2>7. CASE StopTake \/ Shutdown
    BY <1>0, <2>7, Zenon DEF StopTake, Shutdown, IInv, CallInv
  <2>. QED
    BY <2>2, <2>3, <2>4, <2>5, <2>6, <2>7, LineMoves, Zenon
<1>. QED
  BY <1>0, <1>1, <1>2, Zenon

-----------------------------------------------------------------------------

\* The list agrees with the manager, the lines are numbered and handed out in
\* order, and a flush got what it waited for.
HandOutInv == IInv /\ EntryInv /\ NumberInv /\ OrderInv /\ InOrderOnce /\ FlushInv

\* The logger before the first module subscribes satisfies the invariant.
LEMMA InitHandOut == Init => HandOutInv
<1> SUFFICES ASSUME Init PROVE HandOutInv
  OBVIOUS
<1>1. IInv /\ Len(<<>>) = 0
  BY InitIInv, EmptySeq, Zenon
<1>2. EntryInv
  BY Zenon DEF Init, EntryInv, MirrorHolds, Listed
<1>3. NumberInv
  BY <1>1 DEF Init, NumberInv, Numbered, Out
<1>4. \A s \in Subs : delivered[s] = <<>> /\ 1..Len(delivered[s]) = {} /\ DOMAIN delivered[s] = {}
  <2>1. 1..0 = {} /\ DOMAIN <<>> = {}
    OBVIOUS
  <2>. QED
    BY <1>1, <2>1, Zenon DEF Init
<1>5. OrderInv
  BY <1>4, Zenon DEF OrderInv, HandedOf
<1>6. InOrderOnce
  BY <1>4, Zenon DEF InOrderOnce
<1>7. FlushInv
  BY Zenon DEF Init, FlushInv
<1>. QED
  BY <1>1, <1>2, <1>3, <1>5, <1>6, <1>7, Zenon DEF HandOutInv

\* It holds in every state the logger reaches.
THEOREM HandOutHolds == Spec => []HandOutInv
<1>1. HandOutInv /\ [Next]_vars => HandOutInv'
  BY IInvStep, EntryStep, NumberStep, OrderStep, FlushStep, Zenon DEF HandOutInv
<1>. QED
  BY InitHandOut, <1>1, PTL DEF Spec

\* However modules come and go, deliver() hands each of them the lines in the
\* order do_log queued them and none twice.
THEOREM LinesInOrder == Spec => []InOrderOnce
<1>1. HandOutInv => InOrderOnce
  BY Zenon DEF HandOutInv
<1>. QED
  BY <1>1, HandOutHolds, PTL

\* has_subscribers_ mirrors the list after every add, drop, clear and shutdown,
\* so the check do_log makes without the mutex skips no line anyone could get.
THEOREM MirrorIsExact == Spec => []MirrorHolds
<1>1. HandOutInv => MirrorHolds
  BY Zenon DEF HandOutInv, EntryInv
<1>. QED
  BY <1>1, HandOutHolds, PTL

\* Between lifecycle calls the list says of each module what the plugin manager
\* did with it, whichever of remove_plugin, purge_broken_plugin and stop_plugins
\* timed out, was refused or went through.
THEOREM ListFollowsManager == Spec => []SubscriptionMatchesFate
<1>1. HandOutInv => SubscriptionMatchesFate
  <2> SUFFICES ASSUME HandOutInv, mpc = "idle", NEW s \in Subs
               PROVE  /\ fate[s] = "loaded" /\ xpc = "run" => sid[s] # 0 /\ s \in open
                      /\ fate[s] = "parked" => s \notin open
                      /\ fate[s] \notin {"new", "loaded", "parked"} => sid[s] = 0
    BY Zenon DEF SubscriptionMatchesFate
  <2>1. msub = None /\ None \notin Subs /\ ListInv /\ EntryInv
    BY ConstantsAssumption, Zenon DEF HandOutInv, IInv, CallInv, Busy
  <2>. QED
    BY <2>1, Zenon DEF ListInv, EntryInv
<1>. QED
  BY <1>1, HandOutHolds, PTL

\* A flush_handlers that did not time out leaves no line it waited for in the
\* queue, nor, when do_log dropped none, in the worker's hand.
THEOREM FlushIsComplete == Spec => []FlushHandsOut
<1>1. HandOutInv => FlushHandsOut
  <2> SUFFICES ASSUME HandOutInv, fpc = "reached", xpc = "run"
               PROVE  /\ \A i \in DOMAIN queue : queue[i] > ftarget
                      /\ dropped = 0 => wline = 0 \/ wline > ftarget
    BY Zenon DEF FlushHandsOut
  <2>1. ftarget <= Out /\ (dropped = 0 => wline = 0 \/ wline > ftarget) /\ Numbered(queue, Out)
    BY Zenon DEF HandOutInv, FlushInv, NumberInv
  <2>2. queue \in Seq(Nat) /\ ftarget \in Nat /\ Out \in Nat
    BY OutFacts, Zenon DEF HandOutInv
  <2>3. DOMAIN queue = 1..Len(queue) /\ Len(queue) \in Nat
    BY <2>2, LenProperties, Zenon
  <2>4. ASSUME NEW i \in 1..Len(queue) PROVE queue[i] > ftarget
    <3>1. queue[i] = Out + i
      BY <2>1, Zenon DEF Numbered
    <3>. QED
      BY <2>1, <2>2, <2>3, <3>1
  <2>. QED
    BY <2>1, <2>3, <2>4, Zenon
<1>. QED
  BY <1>1, HandOutHolds, PTL
=============================================================================
