----------------------------- MODULE FactsProofs -----------------------------
(***************************************************************************)
(* Proofs about FactsRounds and the FactRepository it works on, for any    *)
(* number of threads, modules, walk lists and fact sets: first who is      *)
(* inside which module, then what follows for the facts that are stored.   *)
(***************************************************************************)
EXTENDS FactsRounds, TLAPS, FiniteSetTheorems, WellFoundedInduction

(***************************************************************************)
(* The inductive invariant, in three parts and the types.                  *)
(*                                                                         *)
(* A thread is inside a module exactly while it calls it, and a round that *)
(* walks walks a list.                                                     *)
(***************************************************************************)
Visiting == {"call", "store", "leave"}
Walking == {"list", "walk"} \cup Visiting

WalkInv ==
  \A r \in Rounders :
    /\ pc[r] \in Visiting <=> within[r] # None
    /\ pc[r] \in Walking => walking[r] \in Lists
    /\ pc[r] \in {"resize", "agent"} => walking[r] \in {Facts, None}
    /\ \A i \in snapshot[r] \cup {within[r]} : i # None => fate[i] # "new"

(***************************************************************************)
(* An open gate is that of a loaded module in the list, whatever the       *)
(* manager is at; what else is closed, listed or between two fates is the  *)
(* doing of the removal, purge or shutdown in progress.                    *)
(***************************************************************************)
Removing == {"remove", "dropFacts", "purge", "dropPurged", "dropParked"}
Purging == {"purge", "dropPurged", "dropParked"}
Stopping == {"stop", "drain", "stopped"}

ListInv ==
  /\ \A i \in Ids, l \in Lists :
       /\ fate[i] = "new" => i \notin listed[l] /\ i \notin closed[l]
       /\ fate[i] # "new" /\ i \notin closed[l] => fate[i] = "loaded" /\ i \in listed[l]
       /\ fate[i] = "loaded" /\ i \in closed[l] => (manager = "remove" /\ module = i) \/ manager \in Stopping
       /\ i \in listed[l] /\ i \in closed[l] =>
            fate[i] \in {"purged", "parked"} \/ (manager = "remove" /\ module = i)
  /\ \A i \in Ids :
       /\ fate[i] = "purged" => manager \in Purging /\ module = i
       /\ fate[i] = "left" => manager = "stopped"
  /\ manager \in Removing => module \in Ids
  /\ manager = "remove" => fate[module] = "loaded" /\ \A l \in Lists : module \in listed[l] \cap closed[l]
  /\ manager = "dropFacts" => fate[module] = "unloaded"
  /\ manager \in Purging => fate[module] = "purged"
  /\ manager = "dropPurged" => \A l \in Lists : module \notin listed[l]

(***************************************************************************)
(* Whoever is inside a module is accounted for: by the slot it came from,  *)
(* by the wait of the manager, or as stuck; so a wait that ends with       *)
(* nobody left means that nobody is inside.                                *)
(***************************************************************************)
VisitInv ==
  /\ \A l \in Lists : \A r \in waiting[l] : walking[r] = l /\ within[r] # None
  /\ \A r \in Rounders : within[r] # None =>
       /\ fate[within[r]] # "unloaded"
       /\ \/ within[r] \in listed[walking[r]] \/ within[r] \in stuck
          \/ manager = "drain" /\ r \in waiting[walking[r]]
       /\ manager \in {"remove", "purge"} /\ within[r] = module => r \in waiting[walking[r]]
       /\ manager = "dropPurged" => within[r] # module

WInv == RoundTypes /\ ManagerTypes /\ WalkInv /\ ListInv /\ VisitInv

-----------------------------------------------------------------------------
(* What the rounds leave to the manager, and the manager to the rounds *)

\* A round opens or closes no gate and lists or unlists no module.
LEMMA RoundFrame ==
  ASSUME NEW r \in Rounders, Round(r)
  PROVE  UNCHANGED <<listed, closed, fate, manager, module, stuck>> /\ (LeaveGate(r) \/ UNCHANGED waiting)
BY Zenon DEF Round, RoundBegins, ReadFactsMaxSize, CollectAgentFacts, CopySlots, NextSlot, CallReturns, StoreSet,
   StoreDone,
       LeaveGate, WalkDone, RoundEnds, managerVars, gateVars

\* The manager moves no round, and asking for the hash changes neither.
LEMMA ManageFrame ==
  ASSUME Manage \/ Poll \/ UNCHANGED vars
  PROVE  UNCHANGED roundVars
BY Zenon DEF Manage, AddPlugin, CloseWalks, Refuse, Unload, DropFacts, FinishPurge, DropPurgedFacts, RemoveAll,
   DrainAll, UnloadAll, Poll, vars

LEMMA PollFrame ==
  ASSUME Poll \/ UNCHANGED vars
  PROVE  UNCHANGED <<roundVars, managerVars, gateVars>>
BY Zenon DEF Poll, vars

\* A module is new once, and unloaded for good: ids are not used again.
LEMMA FateMoves ==
  ASSUME ManagerTypes, ListInv, [Next]_vars, NEW j \in Ids
  PROVE  (fate'[j] = "new" => fate[j] = "new") /\ (fate[j] = "unloaded" => fate'[j] = "unloaded")
<1> USE DEF ManagerTypes
<1>1. CASE UNCHANGED fate
  BY <1>1, Zenon
<1>2. ASSUME NEW i \in Ids, AddPlugin(i)
      PROVE  fate[i] = "new" /\ fate' = [fate EXCEPT ![i] = "loaded"]
  BY <1>2, Zenon DEF AddPlugin
<1>3. ASSUME NEW i \in Ids, CloseWalks(i, "remove") \/ CloseWalks(i, "purge")
      PROVE  fate[i] = "loaded" /\ (fate' = fate \/ fate' = [fate EXCEPT ![i] = "purged"])
  BY <1>3, Zenon DEF CloseWalks
<1>4. CASE Unload
  BY <1>4, Zenon DEF Unload
<1>5. CASE UnloadAll
  BY <1>5, Zenon DEF UnloadAll
<1>6. CASE DropPurgedFacts
  <2>1. module \in Ids /\ fate[module] = "purged"
    BY <1>6, Zenon DEF DropPurgedFacts, ListInv, Purging, Removing
  <2>. QED
    BY <1>6, <2>1, Zenon DEF DropPurgedFacts
<1>7. CASE Refuse \/ DropFacts \/ (\E delivering \in BOOLEAN : FinishPurge(delivering))
           \/ (\E l \in Lists : RemoveAll(l)) \/ DrainAll
  BY <1>1, <1>7, Zenon DEF Refuse, DropFacts, FinishPurge, RemoveAll, DrainAll, gateVars
<1>8. CASE Poll \/ UNCHANGED vars
  BY <1>1, <1>8, PollFrame, Zenon DEF gateVars
<1>9. CASE \E r \in Rounders : Round(r)
  BY <1>1, <1>9, RoundFrame, Zenon
<1>. QED
  BY <1>2, <1>3, <1>4, <1>5, <1>6, <1>7, <1>8, <1>9, Zenon DEF Next, Manage

\* A thread gets into a module in do_all alone, out where it leaves the gate,
\* and changes lists at neither.
LEMMA VisitorsMove ==
  ASSUME RoundTypes, WalkInv, [Next]_vars, \A r \in Rounders : ~NextSlot(r) /\ ~LeaveGate(r)
  PROVE  UNCHANGED within /\ \A q \in Rounders : within[q] # None => walking'[q] = walking[q]
<1>1. CASE UNCHANGED <<within, walking>>
  BY <1>1, Zenon
<1>2. ASSUME NEW r \in Rounders, Round(r), walking' # walking
      PROVE  pc[r] \in {"idle", "walk", "end"} /\ UNCHANGED within /\ \E l : walking' = [walking EXCEPT ![r] = l]
  BY <1>2, Zenon DEF Round, RoundBegins, ReadFactsMaxSize, CollectAgentFacts, CopySlots, CallReturns, StoreSet,
     StoreDone,
     WalkDone, RoundEnds
<1>3. ASSUME NEW r \in Rounders, Round(r), walking' = walking
      PROVE  UNCHANGED within
  BY <1>3, Zenon DEF Round, RoundBegins, ReadFactsMaxSize, CollectAgentFacts, CopySlots, CallReturns, StoreSet,
     StoreDone,
     WalkDone, RoundEnds
<1>4. CASE Manage \/ Poll \/ UNCHANGED vars
  BY <1>1, <1>4, ManageFrame, Zenon DEF roundVars
<1>5. ASSUME NEW r \in Rounders, pc[r] \in {"idle", "walk", "end"}
      PROVE  within[r] = None
  BY <1>5, Zenon DEF WalkInv, Visiting
<1>. QED
  BY <1>1, <1>2, <1>3, <1>4, <1>5, Zenon DEF Next, RoundTypes

-----------------------------------------------------------------------------
(* Each part is preserved by every step. *)

\* Every variable keeps its type: those of the rounds,
LEMMA RoundTypesStep ==
  ASSUME RoundTypes, ManagerTypes, WalkInv, [Next]_vars
  PROVE  RoundTypes'
<1> USE RepositoryAssumption, RoundsAssumption DEF RoundTypes, ManagerTypes, WalkInv, Visiting, Walking
<1>1. CASE Manage \/ Poll \/ UNCHANGED vars
  BY <1>1, ManageFrame, Zenon DEF roundVars
<1>2. ASSUME NEW r \in Rounders, NEW l \in Lists \cup {None}, RoundBegins(r, l)
      PROVE  RoundTypes'
  BY <1>2 DEF RoundBegins, Goto
<1>3. ASSUME NEW r \in Rounders, ReadFactsMaxSize(r)
      PROVE  RoundTypes'
  BY <1>3, Zenon DEF ReadFactsMaxSize, Goto
<1>4. ASSUME NEW r \in Rounders, CollectAgentFacts(r)
      PROVE  RoundTypes'
  BY <1>4, Zenon DEF CollectAgentFacts, Goto
<1>5. ASSUME NEW r \in Rounders, CopySlots(r)
      PROVE  RoundTypes'
  BY <1>5, Zenon DEF CopySlots, Goto
<1>6. ASSUME NEW r \in Rounders, NextSlot(r)
      PROVE  RoundTypes'
  <2>1. snapshot' \in [Rounders -> SUBSET Ids]
    BY <1>6 DEF NextSlot
  <2>2. within' \in [Rounders -> Ids \cup {None}]
    BY <1>6 DEF NextSlot
  <2>. QED
    BY <1>6, <2>1, <2>2 DEF NextSlot, Goto
<1>7. ASSUME NEW r \in Rounders, CallReturns(r)
      PROVE  RoundTypes'
  <2>1. unstored' \in [Rounders -> SUBSET Sets]
    BY <1>7 DEF CallReturns
  <2>2. produced' \in [Rounders -> SUBSET Sets]
    BY <1>7, Zenon DEF CallReturns
  <2>3. pc' = [pc EXCEPT ![r] = "leave"] \/ pc' = [pc EXCEPT ![r] = "store"]
    BY <1>7, Zenon DEF CallReturns, Goto
  <2>. QED
    BY <1>7, <2>1, <2>2, <2>3 DEF CallReturns
<1>8. ASSUME NEW r \in Rounders, NEW s \in Sets, StoreSet(r, s)
      PROVE  RoundTypes'
  <2>1. unstored' \in [Rounders -> SUBSET Sets]
    BY <1>8, Zenon DEF StoreSet
  <2>2. produced' \in [Rounders -> SUBSET Sets]
    BY <1>8 DEF StoreSet
  <2>. QED
    BY <1>8, <2>1, <2>2, Zenon DEF StoreSet
<1>9. ASSUME NEW r \in Rounders, StoreDone(r)
      PROVE  RoundTypes'
  BY <1>9, Zenon DEF StoreDone, Goto
<1>10. ASSUME NEW r \in Rounders, LeaveGate(r)
       PROVE  RoundTypes'
  BY <1>10, Zenon DEF LeaveGate, Goto
<1>11. ASSUME NEW r \in Rounders, WalkDone(r)
       PROVE  RoundTypes'
  <2>1. walking' \in [Rounders -> Lists \cup {None}]
    BY <1>11, Zenon DEF WalkDone
  <2>2. pc' = [pc EXCEPT ![r] = "end"] \/ pc' = [pc EXCEPT ![r] = "idle"]
    BY <1>11, Zenon DEF WalkDone, Goto
  <2>. QED
    BY <1>11, <2>1, <2>2, Zenon DEF WalkDone
<1>12. ASSUME NEW r \in Rounders, RoundEnds(r)
       PROVE  RoundTypes'
  BY <1>12, Zenon DEF RoundEnds, Goto
<1> HIDE DEF RoundTypes
<1>. QED
  BY <1>1, <1>2, <1>3, <1>4, <1>5, <1>6, <1>7, <1>8, <1>9, <1>10, <1>11, <1>12, Zenon DEF Next, Round

\* and those of the manager, who waits for threads inside a module only.
LEMMA ManagerTypesStep ==
  ASSUME RoundTypes, ManagerTypes, WalkInv, ListInv, VisitInv, [Next]_vars
  PROVE  ManagerTypes'
<1> USE DEF RoundTypes, ManagerTypes
<1>1. ASSUME NEW r \in Rounders, Round(r)
      PROVE  ManagerTypes'
  BY <1>1, RoundFrame DEF LeaveGate
<1>2. CASE Poll \/ UNCHANGED vars
  BY <1>2, PollFrame, Zenon DEF managerVars, gateVars
<1>3. ASSUME NEW i \in Ids, AddPlugin(i)
      PROVE  ManagerTypes'
  BY <1>3, Zenon DEF AddPlugin, managerVars, gateVars
<1>4. ASSUME NEW i \in Ids, NEW for \in {"remove", "purge"}, CloseWalks(i, for)
      PROVE  ManagerTypes'
  BY <1>4, Zenon DEF CloseWalks, Inside, managerVars, gateVars
<1>5. CASE Refuse
  BY <1>5, Zenon DEF Refuse, Return, Forget, managerVars, gateVars
<1>6. CASE Unload
  BY <1>6, Zenon DEF Unload, AllDrained, Drained, Forget, managerVars, gateVars
<1>7. CASE DropFacts
  BY <1>7, Zenon DEF DropFacts, Return, managerVars, gateVars
<1>8. ASSUME NEW delivering \in BOOLEAN, FinishPurge(delivering)
      PROVE  ManagerTypes'
  BY <1>8, Zenon DEF FinishPurge, AllDrained, Drained, Forget, managerVars, gateVars
<1>9. CASE DropPurgedFacts
  BY <1>9, Zenon DEF DropPurgedFacts, Return, managerVars, gateVars
<1>10. ASSUME NEW k \in Lists, RemoveAll(k)
       PROVE  ManagerTypes'
  BY <1>10 DEF RemoveAll, Inside, managerVars, gateVars
<1>11. CASE DrainAll
  <2>1. \A l \in Lists : \A r \in waiting[l] : within[r] \in Ids
    BY DEF VisitInv
  <2>. QED
    BY <1>11, <2>1 DEF DrainAll, Forget, gateVars
<1>12. CASE UnloadAll
  BY <1>12, Zenon DEF UnloadAll, managerVars, gateVars
<1> HIDE DEF ManagerTypes
<1>. QED
  BY <1>1, <1>2, <1>3, <1>4, <1>5, <1>6, <1>7, <1>8, <1>9, <1>10, <1>11, <1>12, Zenon DEF Next, Manage

\* The walks: do_all comes to the modules it copied, and no module is new twice.
LEMMA WalkStep ==
  ASSUME RoundTypes, ManagerTypes, WalkInv, ListInv, [Next]_vars
  PROVE  WalkInv'
<1> USE RepositoryAssumption, RoundsAssumption DEF RoundTypes, ManagerTypes, WalkInv, Visiting, Walking
<1>1. CASE Manage \/ Poll \/ UNCHANGED vars
  <2>1. \A i \in Ids : fate'[i] = "new" => fate[i] = "new"
    BY FateMoves, Zenon
  <2>. QED
    BY <1>1, <2>1, ManageFrame DEF roundVars
<1>2. ASSUME NEW r \in Rounders, NEW l \in Lists \cup {None}, RoundBegins(r, l)
      PROVE  WalkInv'
  BY <1>2 DEF RoundBegins, Goto, gateVars
<1>3. ASSUME NEW r \in Rounders, ReadFactsMaxSize(r)
      PROVE  WalkInv'
  BY <1>3 DEF ReadFactsMaxSize, Goto, gateVars
<1>4. ASSUME NEW r \in Rounders, CollectAgentFacts(r)
      PROVE  WalkInv'
  BY <1>4 DEF CollectAgentFacts, Goto, gateVars
<1>5. ASSUME NEW r \in Rounders, CopySlots(r)
      PROVE  WalkInv'
  <2>1. \A i \in snapshot'[r] : fate[i] # "new"
    BY <1>5 DEF CopySlots, ListInv
  <2>. QED
    BY <1>5, <2>1 DEF CopySlots, Goto, gateVars
<1>6. ASSUME NEW r \in Rounders, NextSlot(r)
      PROVE  WalkInv'
  BY <1>6 DEF NextSlot, Goto, gateVars
<1>7. ASSUME NEW r \in Rounders, CallReturns(r)
      PROVE  WalkInv'
  BY <1>7 DEF CallReturns, Goto, gateVars
<1>8. ASSUME NEW r \in Rounders, NEW s \in Sets, StoreSet(r, s)
      PROVE  WalkInv'
  BY <1>8 DEF StoreSet, gateVars
<1>9. ASSUME NEW r \in Rounders, StoreDone(r)
      PROVE  WalkInv'
  BY <1>9 DEF StoreDone, Goto, gateVars
<1>10. ASSUME NEW r \in Rounders, LeaveGate(r)
       PROVE  WalkInv'
  BY <1>10 DEF LeaveGate, Goto, gateVars
<1>11. ASSUME NEW r \in Rounders, WalkDone(r)
       PROVE  WalkInv'
  BY <1>11 DEF WalkDone, Goto, gateVars
<1>12. ASSUME NEW r \in Rounders, RoundEnds(r)
       PROVE  WalkInv'
  BY <1>12 DEF RoundEnds, Goto, gateVars
<1> HIDE DEF WalkInv
<1>. QED
  BY <1>1, <1>2, <1>3, <1>4, <1>5, <1>6, <1>7, <1>8, <1>9, <1>10, <1>11, <1>12, Zenon DEF Next, Round

\* The lists and gates: every removal, purge and refusal leaves them as it says.
LEMMA ListStep ==
  ASSUME ManagerTypes, ListInv, [Next]_vars
  PROVE  ListInv'
<1> USE RepositoryAssumption, RoundsAssumption DEF ManagerTypes, ListInv, Removing, Purging, Stopping
<1>1. ASSUME NEW r \in Rounders, Round(r)
      PROVE  ListInv'
  BY <1>1, RoundFrame
<1>2. CASE Poll \/ UNCHANGED vars
  BY <1>2, PollFrame DEF managerVars, gateVars
<1>3. ASSUME NEW i \in Ids, AddPlugin(i)
      PROVE  ListInv'
  BY <1>3 DEF AddPlugin, managerVars, gateVars
<1>4. ASSUME NEW i \in Ids, NEW for \in {"remove", "purge"}, CloseWalks(i, for)
      PROVE  ListInv'
  BY <1>4 DEF CloseWalks, Inside, managerVars, gateVars
<1>5. CASE Refuse
  BY <1>5 DEF Refuse, Return, Forget, managerVars, gateVars
<1>6. CASE Unload
  BY <1>6 DEF Unload, AllDrained, Drained, Forget, managerVars, gateVars
<1>7. CASE DropFacts
  BY <1>7, Zenon DEF DropFacts, Return, managerVars, gateVars
<1>8. ASSUME NEW delivering \in BOOLEAN, FinishPurge(delivering)
      PROVE  ListInv'
  BY <1>8, Zenon DEF FinishPurge, AllDrained, Drained, Forget, managerVars, gateVars
<1>9. CASE DropPurgedFacts
  BY <1>9 DEF DropPurgedFacts, Return, managerVars, gateVars
<1>10. ASSUME NEW k \in Lists, RemoveAll(k)
       PROVE  ListInv'
  BY <1>10 DEF RemoveAll, Inside, managerVars, gateVars
<1>11. CASE DrainAll
  BY <1>11, Zenon DEF DrainAll, Forget, managerVars, gateVars
<1>12. CASE UnloadAll
  BY <1>12, Zenon DEF UnloadAll, managerVars, gateVars
<1> HIDE DEF ListInv
<1>. QED
  BY <1>1, <1>2, <1>3, <1>4, <1>5, <1>6, <1>7, <1>8, <1>9, <1>10, <1>11, <1>12, Zenon DEF Next, Manage

\* Who is inside: a closed gate lets nobody in, and nobody leaves unseen.
LEMMA VisitStep ==
  ASSUME RoundTypes, ManagerTypes, WalkInv, ListInv, VisitInv, [Next]_vars
  PROVE  VisitInv'
<1> USE RepositoryAssumption, RoundsAssumption DEF RoundTypes, ManagerTypes, VisitInv
<1>1. \A q \in Rounders : within[q] # None => within[q] \in Ids /\ walking[q] \in Lists /\ fate[within[q]] # "new"
  BY DEF WalkInv, Visiting, Walking
<1>2. ASSUME NEW r \in Rounders, Round(r), \A q \in Rounders : ~NextSlot(q) /\ ~LeaveGate(q)
      PROVE  VisitInv'
  <2>1. UNCHANGED <<listed, closed, fate, manager, module, stuck, waiting>>
    BY <1>2, RoundFrame, Zenon
  <2>2. UNCHANGED within /\ \A q \in Rounders : within[q] # None => walking'[q] = walking[q]
    BY <1>2, VisitorsMove, Zenon
  <2>. QED
    BY <1>1, <2>1, <2>2, Zenon
<1>3. CASE Poll \/ UNCHANGED vars
  BY <1>3, PollFrame, Zenon DEF roundVars, managerVars, gateVars
<1>4. ASSUME NEW r \in Rounders, NextSlot(r)
      PROVE  VisitInv'
  <2>1. UNCHANGED <<walking, listed, closed, fate, manager, module, stuck, waiting>>
    BY <1>4, Zenon DEF NextSlot, managerVars, gateVars
  <2>2. snapshot[r] \subseteq Ids /\ pc[r] = "walk"
    BY <1>4, Zenon DEF NextSlot
  <2>3. CASE UNCHANGED within
    BY <2>1, <2>3, Zenon
  <2>4. ASSUME NEW i \in snapshot[r], i \notin closed[walking[r]], within' = [within EXCEPT ![r] = i]
        PROVE  VisitInv'
    <3>1. walking[r] \in Lists /\ fate[i] # "new"
      BY <2>2 DEF WalkInv, Walking
    <3>2. fate[i] = "loaded" /\ i \in listed[walking[r]]
      BY <2>2, <2>4, <3>1, Zenon DEF ListInv
    <3>3. \A q \in Rounders \ {r} : within'[q] = within[q]
      BY <2>4
    <3>4. within'[r] = i /\ within[r] = None
      BY <2>2, <2>4 DEF WalkInv, Visiting
    <3>5. within'[r] # module \/ manager \notin {"remove", "purge", "dropPurged"}
      BY <2>2, <2>4, <3>1, <3>2, <3>4 DEF ListInv, Purging
    <3>. QED
      BY <2>1, <2>2, <3>1, <3>2, <3>3, <3>4, <3>5
  <2>. QED
    BY <1>4, <2>3, <2>4, Zenon DEF NextSlot
<1>5. ASSUME NEW r \in Rounders, LeaveGate(r)
      PROVE  VisitInv'
  <2>1. walking[r] \in Lists
    BY <1>5, Zenon DEF LeaveGate, WalkInv, Visiting, Walking
  <2>. QED
    BY <1>5, <2>1 DEF LeaveGate, managerVars
<1>6. ASSUME NEW i \in Ids, AddPlugin(i)
      PROVE  VisitInv'
  <2>1. UNCHANGED <<within, walking, manager, module, stuck, closed, waiting>> /\ fate[i] = "new"
    BY <1>6, Zenon DEF AddPlugin, roundVars, managerVars
  <2>2. /\ \A j \in Ids : fate'[j] = IF j = i THEN "loaded" ELSE fate[j]
        /\ \A l \in Lists : listed'[l] = listed[l] \cup {i}
    BY <1>6, Zenon DEF AddPlugin
  <2>. QED
    BY <1>1, <2>1, <2>2
<1>7. ASSUME NEW i \in Ids, NEW for \in {"remove", "purge"}, CloseWalks(i, for)
      PROVE  VisitInv'
  BY <1>7, <1>1 DEF CloseWalks, Inside, roundVars, managerVars, gateVars
<1>8. CASE Refuse
  BY <1>8, <1>1, Zenon DEF Refuse, Return, Forget, roundVars, managerVars, gateVars
<1>9. CASE Unload
  BY <1>9, <1>1 DEF Unload, AllDrained, Drained, Forget, roundVars, managerVars, gateVars
<1>10. CASE DropFacts
  BY <1>10, <1>1, Zenon DEF DropFacts, Return, roundVars, managerVars, gateVars
<1>11. ASSUME NEW delivering \in BOOLEAN, FinishPurge(delivering)
       PROVE  VisitInv'
  BY <1>11, <1>1, Zenon DEF FinishPurge, AllDrained, Drained, Forget, roundVars, managerVars, gateVars
<1>12. CASE DropPurgedFacts
  BY <1>12, <1>1 DEF DropPurgedFacts, Return, roundVars, managerVars, gateVars
<1>13. ASSUME NEW k \in Lists, RemoveAll(k)
       PROVE  VisitInv'
  BY <1>13, <1>1 DEF RemoveAll, Inside, roundVars, managerVars, gateVars
<1>14. CASE DrainAll
  BY <1>14, <1>1 DEF DrainAll, Forget, roundVars, managerVars, gateVars
<1>15. CASE UnloadAll
  BY <1>15, <1>1, Zenon DEF UnloadAll, roundVars, managerVars, gateVars
<1> HIDE DEF VisitInv
<1>. QED
  BY <1>1, <1>2, <1>3, <1>4, <1>5, <1>6, <1>7, <1>8, <1>9, <1>10, <1>11, <1>12, <1>13, <1>14, <1>15, Zenon DEF Next,
     Manage

\* No module is loaded and no round begun.
LEMMA InitWInv == Init => WInv
<1> USE RepositoryAssumption, RoundsAssumption DEF Init
<1>1. Init => RoundTypes /\ ManagerTypes
  BY DEF RoundTypes, ManagerTypes
<1>2. Init => WalkInv
  BY Zenon DEF WalkInv, Visiting, Walking
<1>3. Init => ListInv
  BY Zenon DEF ListInv, Removing, Purging, Stopping
<1>4. Init => VisitInv
  BY Zenon DEF VisitInv
<1>. QED
  BY <1>1, <1>2, <1>3, <1>4, Zenon DEF WInv

\* The invariant holds for ever.
THEOREM WalksHold == Spec => []WInv
<1>1. WInv /\ [Next]_vars => WInv'
  BY RoundTypesStep, ManagerTypesStep, WalkStep, ListStep, VisitStep, Zenon DEF WInv
<1>. QED
  BY InitWInv, <1>1, PTL DEF Spec

-----------------------------------------------------------------------------
(* Whom a round reaches *)

\* A loaded module is in every walk list with its gate open whenever no
\* lifecycle call is at work, also after one that was refused (closing), and a
\* module that is gone is in none but for the slot of a stuck round.
THEOREM RoundsReachLoaded == Spec => []EveryRoundReachesLoaded
<1>1. WInv => EveryRoundReachesLoaded
  BY Zenon DEF WInv, ListInv, Purging, Stopping, EveryRoundReachesLoaded
<1>. QED
  BY WalksHold, <1>1, PTL

-----------------------------------------------------------------------------
(* The walk lists implement ModuleGate. *)

\* Every step of the rounds is a step of the modules' gates, or leaves them alone.
LEMMA GateStep ==
  WInv /\ WInv' /\ [Next]_vars => [Gate!Next]_<<WalkDoor, RoundersInside>>
<1> SUFFICES ASSUME WInv, WInv', [Next]_vars PROVE [Gate!Next]_<<WalkDoor, RoundersInside>>
  OBVIOUS
<1>0. /\ None \notin Ids /\ within \in [Rounders -> Ids \cup {None}] /\ snapshot \in [Rounders -> SUBSET Ids]
      /\ RoundTypes /\ ManagerTypes /\ WalkInv /\ ListInv /\ VisitInv'
  BY RepositoryAssumption, RoundsAssumption, Zenon DEF WInv, RoundTypes
<1>1. CASE UNCHANGED within
  <2>1. UNCHANGED RoundersInside
    BY <1>1, Zenon DEF RoundersInside
  <2>2. ASSUME NEW i \in Ids PROVE Gate!MayTurn(i, WalkDoor'[i])
    <3>1. fate[i] = "unloaded" => fate'[i] = "unloaded"
      BY <1>0, FateMoves, Zenon
    <3>2. fate'[i] = "unloaded" => RoundersInside[i] = {}
      BY <1>0, <1>1 DEF VisitInv, RoundersInside
    <3>. QED
      BY <3>1, <3>2, Zenon DEF Gate!MayTurn, WalkDoor
  <2>3. DOMAIN WalkDoor' = Ids
    BY Zenon DEF WalkDoor
  <2>. QED
    BY <2>1, <2>2, <2>3, Zenon DEF Gate!Turn, Gate!Next
<1>2. ASSUME NEW r \in Rounders, NextSlot(r), within' # within
      PROVE  Gate!Next
  <2>1. PICK i \in snapshot[r] : i \notin closed[walking[r]] /\ within' = [within EXCEPT ![r] = i] /\ UNCHANGED gateVars
    BY <1>2, Zenon DEF NextSlot
  <2>2. i \in Ids /\ pc[r] = "walk"
    BY <1>0, <1>2, Zenon DEF NextSlot
  <2>3. walking[r] \in Lists /\ within[r] = None /\ fate[i] # "new"
    BY <1>0, <2>1, <2>2, Zenon DEF WalkInv, Walking, Visiting
  <2>4. fate[i] = "loaded"
    BY <1>0, <2>1, <2>2, <2>3, Zenon DEF ListInv
  <2>5. UNCHANGED WalkDoor /\ WalkDoor[i] = "open"
    BY <2>1, <2>2, <2>3, <2>4, Zenon DEF WalkDoor, gateVars
  <2>6. RoundersInside' = [RoundersInside EXCEPT ![i] = @ \cup {r}]
    BY <1>0, <2>1, <2>2, <2>3, Zenon DEF RoundersInside
  <2>7. Gate!Enter(i, r)
    BY <2>5, <2>6, Zenon DEF Gate!Enter
  <2>. QED
    BY <2>2, <2>7, Zenon DEF Gate!Next
<1>3. ASSUME NEW r \in Rounders, LeaveGate(r)
      PROVE  Gate!Next
  <2> DEFINE i == within[r]
  <2>1. i \in Ids /\ within' = [within EXCEPT ![r] = None] /\ UNCHANGED <<closed, fate>>
    BY <1>0, <1>3, Zenon DEF LeaveGate, WalkInv, Visiting
  <2>2. UNCHANGED WalkDoor
    BY <2>1, Zenon DEF WalkDoor
  <2>3. r \in RoundersInside[i]
    BY <2>1, Zenon DEF RoundersInside
  <2>4. RoundersInside' = [RoundersInside EXCEPT ![i] = @ \ {r}]
    BY <1>0, <2>1, Zenon DEF RoundersInside
  <2>5. Gate!Leave(i, r)
    BY <2>2, <2>3, <2>4, Zenon DEF Gate!Leave
  <2>. QED
    BY <2>1, <2>5, Zenon DEF Gate!Next
<1>. QED
  BY <1>0, <1>1, <1>2, <1>3, VisitorsMove, Zenon

\* The walk lists implement ModuleGate for any number of threads, modules and
\* lists: do_all is let into no module whose gates are closed or that was torn
\* down, and remove_plugin, purge_broken_plugin and stop_plugins tear none down
\* while a round is inside it.
THEOREM WalksAreGates == Spec => RoundsKeepTheGate
<1>1. Init => Gate!Init
  BY RepositoryAssumption, RoundsAssumption DEF Init, Gate!Init, WalkDoor, RoundersInside
<1>. QED
  BY <1>1, WalksHold, GateStep, PTL DEF Spec, RoundsKeepTheGate, Gate!Spec

-----------------------------------------------------------------------------
(* The facts that are stored *)

(***************************************************************************)
(* A set's owner is a module that is still there, or the one whose facts   *)
(* the removal is about to drop; one that was parked is still there for    *)
(* facts only with its slot in their list, where its round is stuck.       *)
(***************************************************************************)
OwnerType == owner \in [Sets -> Owners \cup {None}]

Here(p) == fate[p] \in {"loaded", "purged"} \/ (fate[p] = "parked" /\ p \in listed[Facts])

OwnerInv ==
  \A s \in Sets : owner[s] \in Ids =>
    \/ Here(owner[s])
    \/ manager = "dropFacts" /\ module = owner[s]
    \/ manager \in Stopping

StoreInv ==
  /\ \A r \in Rounders : pc[r] = "store" => walking[r] = Facts
  /\ manager \notin Stopping => stuck = {}

(***************************************************************************)
(* The rounds counted are those in progress, and the copy is what changed  *)
(* since the last moment without one.                                      *)
(***************************************************************************)
InRound == {r \in Rounders : pc[r] \in {"resize", "agent", "end"} \/ (pc[r] \in Walking /\ walking[r] = Facts)}

CountInv == IsFiniteSet(InRound) /\ rounds = Cardinality(InRound)

FrozenInv ==
  /\ sets \in Document /\ collected \in Nat /\ rounds \in Nat /\ hash \in {None, sets}
  /\ frozen = None => published.json = sets /\ published.collected = collected
  /\ frozen # None =>
       /\ rounds > 0 /\ frozen \in Copy /\ published.collected = frozen.collected
       /\ frozen.json = None => published.json = sets
       /\ frozen.json # None => published.json = frozen.json /\ frozen.hash \in {None, frozen.json}

(***************************************************************************)
(* The books: the bytes counted are those of the sets held, each of which  *)
(* has an owner, and they are within the cap.                              *)
(***************************************************************************)
BooksInv ==
  /\ \A s \in Sets : sets[s] \in Sizes[s] \cup {0} /\ (sets[s] > 0 <=> owner[s] # None)
  /\ IsFiniteSet(BytesOf(sets, Sets)) /\ size = Bytes(Sets) /\ size <= maxSize /\ maxSize \in Caps

IInv == WInv /\ OwnerType /\ StoreInv /\ OwnerInv /\ CountInv /\ FrozenInv /\ BooksInv

-----------------------------------------------------------------------------
(* What the repository's operations keep *)

\* Whatever becomes of the sets, the copy is made before the first change.
LEMMA TouchKeeps ==
  ASSUME FrozenInv, NEW new \in Document, Touch(new), Publish, UNCHANGED <<collected, rounds>>
  PROVE  FrozenInv'
<1> USE RepositoryAssumption DEF FrozenInv, Copy
<1>1. CASE new = sets
  BY <1>1 DEF Touch, Publish
<1>2. CASE new # sets /\ rounds = 0
  BY <1>2 DEF Touch, Freeze, Publish
<1>3. CASE new # sets /\ rounds # 0 /\ frozen = None
  <2>1. frozen' = [collected |-> collected, json |-> sets, hash |-> hash]
    BY <1>3, Zenon DEF Touch, Freeze
  <2>2. frozen' \in Copy
    BY <2>1, Zenon
  <2>. QED
    BY <1>3, <2>1, <2>2 DEF Touch, Publish
<1>4. CASE new # sets /\ rounds # 0 /\ frozen # None /\ frozen.json = None
  <2>1. frozen' = [frozen EXCEPT !.json = sets, !.hash = hash]
    BY <1>4, Zenon DEF Touch, Freeze
  <2>2. frozen' \in Copy
    BY <1>4, <2>1, Zenon
  <2>. QED
    BY <1>4, <2>1, <2>2, Zenon DEF Touch, Publish
<1>5. CASE new # sets /\ rounds # 0 /\ frozen # None /\ frozen.json # None
  BY <1>5, Zenon DEF Touch, Freeze, Publish
<1>. QED
  BY <1>1, <1>2, <1>3, <1>4, <1>5, Zenon

\* set stores or rejects.
LEMMA SetKeeps ==
  ASSUME FrozenInv, NEW s \in Sets, NEW p, NEW v \in Nat, Set(s, p, v)
  PROVE  FrozenInv'
<1>1. CASE UNCHANGED <<sets, hash, frozen, collected, rounds>>
  BY <1>1 DEF Set, Publish, FrozenInv
<1>2. CASE Touch([sets EXCEPT ![s] = v])
  <2>1. [sets EXCEPT ![s] = v] \in Document
    BY Zenon DEF FrozenInv, Document
  <2>. QED
    BY <1>2, <2>1, TouchKeeps, Zenon DEF Set
<1>. QED
  BY <1>1, <1>2, Zenon DEF Set

\* The removals, and a lower cap, erase.
LEMMA EraseKeeps ==
  ASSUME FrozenInv, NEW gone, Erase(gone)
  PROVE  FrozenInv'
<1>1. [s \in Sets |-> IF s \in gone THEN 0 ELSE sets[s]] \in Document
  BY Zenon DEF FrozenInv, Document
<1>. QED
  BY <1>1, TouchKeeps, Zenon DEF Erase

\* mark_collected freezes the time alone.
LEMMA MarkKeeps ==
  ASSUME FrozenInv, NEW now \in Nat, MarkCollected(now)
  PROVE  FrozenInv'
<1> USE RepositoryAssumption DEF FrozenInv, Copy
<1>1. CASE now = collected \/ rounds = 0
  BY <1>1 DEF MarkCollected, Freeze, Publish
<1>2. CASE now # collected /\ rounds # 0 /\ frozen = None
  <2>1. frozen' = [collected |-> collected, json |-> None, hash |-> None]
    BY <1>2, Zenon DEF MarkCollected, Freeze
  <2>2. frozen' \in Copy
    BY <2>1, Zenon
  <2>. QED
    BY <1>2, <2>1, <2>2 DEF MarkCollected, Publish
<1>3. CASE now # collected /\ rounds # 0 /\ frozen # None
  BY <1>3, Zenon DEF MarkCollected, Freeze, Publish
<1>. QED
  BY <1>1, <1>2, <1>3, Zenon

\* An operation gives a set to its producer,
LEMMA OwnerAfterSet ==
  ASSUME owner \in [Sets -> Owners \cup {None}], NEW s \in Sets, NEW p \in Owners, NEW v, Set(s, p, v)
  PROVE  /\ owner' \in [Sets -> Owners \cup {None}]
         /\ \A t \in Sets : owner'[t] \in {owner[t], p}
BY Zenon DEF Set

\* or to nobody.
LEMMA OwnerAfterErase ==
  ASSUME owner \in [Sets -> Owners \cup {None}], NEW gone, Erase(gone)
  PROVE  /\ owner' \in [Sets -> Owners \cup {None}]
         /\ \A s \in Sets : owner'[s] = IF s \in gone THEN None ELSE owner[s]
BY Zenon DEF Erase

\* A set of numbers that is not empty has a least member.
LEMMA LeastMember ==
  ASSUME NEW S \in SUBSET Nat, S # {}
  PROVE  \E m \in S : \A k \in S : m <= k
<1> DEFINE R == {ss \in Nat \X Nat : ss[1] < ss[2]}
<1>1. IsWellFoundedOn(R, Nat)
  BY NatLessThanWellFounded, Zenon DEF OpToRel
<1>2. PICK m \in S : \A k \in S : ~(<<k, m>> \in R)
  BY <1>1, WFMin, Zenon
<1>3. \A k \in S : k < m => <<k, m>> \in R
  OBVIOUS
<1> HIDE DEF R
<1>4. ASSUME NEW k \in S
      PROVE  m <= k
  <2>1. m \in Nat /\ k \in Nat /\ ~(k < m)
    BY <1>2, <1>3, Zenon
  <2>. QED
    BY <2>1
<1>. QED
  BY <1>4, Zenon

-----------------------------------------------------------------------------
(* Counting bytes *)

\* The bytes of one set are as many as its size.
LEMMA BytesOfOne ==
  ASSUME NEW d \in Document, NEW s \in Sets
  PROVE  IsFiniteSet(BytesOf(d, {s})) /\ Cardinality(BytesOf(d, {s})) = d[s]
<1>1. d[s] \in Nat
  BY Zenon DEF Document
<1>2. BytesOf(d, {s}) = {s} \X (1..d[s])
  BY Zenon DEF BytesOf
<1>3. IsFiniteSet({s}) /\ Cardinality({s}) = 1
  BY FS_Singleton, Zenon
<1>4. IsFiniteSet(1..d[s]) /\ Cardinality(1..d[s]) = d[s]
  <2>1. 1 \in Int /\ d[s] \in Int
    BY <1>1
  <2>2. /\ IsFiniteSet(1..d[s])
        /\ Cardinality(1..d[s]) = IF 1 > d[s] THEN 0 ELSE d[s] - 1 + 1
    BY <2>1, FS_Interval, Zenon
  <2>. QED
    BY <1>1, <2>2
<1>5. /\ IsFiniteSet({s} \X (1..d[s]))
      /\ Cardinality({s} \X (1..d[s])) = Cardinality({s}) * Cardinality(1..d[s])
  BY <1>3, <1>4, FS_Product, Zenon
<1>. QED
  <2>1. IsFiniteSet(BytesOf(d, {s}))
    BY <1>2, <1>5, Zenon
  <2>2. Cardinality(BytesOf(d, {s})) = 1 * d[s]
    BY <1>2, <1>3, <1>4, <1>5, Zenon
  <2>3. 1 * d[s] = d[s]
    BY <1>1
  <2>. QED
    BY <2>1, <2>2, <2>3, Zenon

\* Those of some sets and those of others add up.
LEMMA BytesAddUp ==
  ASSUME NEW d, NEW S, NEW T, S \cap T = {}, IsFiniteSet(BytesOf(d, S)), IsFiniteSet(BytesOf(d, T))
  PROVE  /\ IsFiniteSet(BytesOf(d, S \cup T))
         /\ Cardinality(BytesOf(d, S \cup T)) = Cardinality(BytesOf(d, S)) + Cardinality(BytesOf(d, T))
<1>1. BytesOf(d, S \cup T) = BytesOf(d, S) \cup BytesOf(d, T)
  BY Zenon DEF BytesOf
<1>2. BytesOf(d, S) \cap BytesOf(d, T) = {}
  <2>1. \A x \in BytesOf(d, S) : x[1] \in S
    BY DEF BytesOf
  <2>2. \A x \in BytesOf(d, T) : x[1] \in T
    BY DEF BytesOf
  <2>. QED
    BY <2>1, <2>2, Zenon
<1>3. Cardinality(BytesOf(d, S)) \in Nat /\ Cardinality(BytesOf(d, T)) \in Nat
  BY FS_CardinalityType, Zenon
<1>4. /\ IsFiniteSet(BytesOf(d, S) \cup BytesOf(d, T))
      /\ Cardinality(BytesOf(d, S) \cup BytesOf(d, T)) =
           Cardinality(BytesOf(d, S)) + Cardinality(BytesOf(d, T)) - Cardinality(BytesOf(d, S) \cap BytesOf(d, T))
  BY FS_Union, Zenon
<1>5. Cardinality(BytesOf(d, S) \cap BytesOf(d, T)) = 0
  BY <1>2, FS_EmptySet, Zenon
<1>6. Cardinality(BytesOf(d, S) \cup BytesOf(d, T)) = Cardinality(BytesOf(d, S)) + Cardinality(BytesOf(d, T))
  BY <1>3, <1>4, <1>5
<1>. QED
  BY <1>1, <1>4, <1>6, Zenon

\* One more set adds its size.
LEMMA BytesOfOneMore ==
  ASSUME NEW d \in Document, NEW S, NEW T, NEW s \in Sets, s \notin S, T = S \cup {s}, IsFiniteSet(BytesOf(d, S))
  PROVE  IsFiniteSet(BytesOf(d, T)) /\ Cardinality(BytesOf(d, T)) = Cardinality(BytesOf(d, S)) + d[s]
<1>1. S \cap {s} = {}
  OBVIOUS
<1>2. IsFiniteSet(BytesOf(d, {s})) /\ Cardinality(BytesOf(d, {s})) = d[s]
  BY BytesOfOne, Zenon
<1>3. /\ IsFiniteSet(BytesOf(d, S \cup {s}))
      /\ Cardinality(BytesOf(d, S \cup {s})) = Cardinality(BytesOf(d, S)) + Cardinality(BytesOf(d, {s}))
  BY <1>1, <1>2, BytesAddUp, Zenon
<1>. QED
  BY <1>2, <1>3, Zenon

\* Some of finitely many bytes are finitely many.
LEMMA BytesOfSome ==
  ASSUME NEW d, NEW S, NEW T \in SUBSET S, IsFiniteSet(BytesOf(d, S))
  PROVE  /\ IsFiniteSet(BytesOf(d, T)) /\ Cardinality(BytesOf(d, T)) \in Nat
         /\ Cardinality(BytesOf(d, T)) <= Cardinality(BytesOf(d, S))
<1>1. BytesOf(d, T) \subseteq BytesOf(d, S)
  BY Zenon DEF BytesOf
<1>. QED
  BY <1>1, FS_Subset, FS_CardinalityType, Zenon

\* What a document says of other sets does not matter.
LEMMA BytesAgree ==
  ASSUME NEW d, NEW e, NEW S, \A s \in S : d[s] = e[s]
  PROVE  BytesOf(d, S) = BytesOf(e, S)
BY Zenon DEF BytesOf

\* A set that takes the place of another changes the total by the difference.
LEMMA SetBytes ==
  ASSUME sets \in Document, IsFiniteSet(BytesOf(sets, Sets)), NEW s \in Sets, NEW v \in Nat
  PROVE  LET new == [sets EXCEPT ![s] = v] IN
         /\ IsFiniteSet(BytesOf(new, Sets))
         /\ Cardinality(BytesOf(new, Sets)) = Bytes(Sets) - sets[s] + v
<1> DEFINE new == [sets EXCEPT ![s] = v]
           rest == Sets \ {s}
           n == Cardinality(BytesOf(sets, rest))
<1>1. new \in Document /\ new[s] = v /\ \A t \in rest : new[t] = sets[t]
  BY Zenon DEF Document
<1>2. BytesOf(new, rest) = BytesOf(sets, rest)
  <2> HIDE DEF new
  <2>. QED
    BY <1>1, BytesAgree, Zenon
<1>3. IsFiniteSet(BytesOf(sets, rest)) /\ n \in Nat
  BY BytesOfSome, Zenon
<1>4. Sets = rest \cup {s} /\ s \notin rest
  OBVIOUS
<1> HIDE DEF new, rest
<1>5. Bytes(Sets) = n + sets[s]
  BY <1>3, <1>4, BytesOfOneMore, Zenon DEF Bytes
<1>6. IsFiniteSet(BytesOf(new, Sets)) /\ Cardinality(BytesOf(new, Sets)) = n + v
  <2>1. IsFiniteSet(BytesOf(new, rest))
    BY <1>2, <1>3, Zenon
  <2>2. /\ IsFiniteSet(BytesOf(new, Sets))
        /\ Cardinality(BytesOf(new, Sets)) = Cardinality(BytesOf(new, rest)) + new[s]
    BY <1>1, <1>4, <2>1, BytesOfOneMore, Zenon
  <2>. QED
    BY <1>1, <1>2, <2>2, Zenon
<1>7. sets[s] \in Nat
  BY Zenon DEF Document
<1> HIDE DEF n
<1>. QED
  BY <1>3, <1>5, <1>6, <1>7 DEF new

\* Sets that are erased are no longer counted.
LEMMA EraseBytes ==
  ASSUME sets \in Document, IsFiniteSet(BytesOf(sets, Sets)), NEW gone \in SUBSET Sets
  PROVE  LET new == [s \in Sets |-> IF s \in gone THEN 0 ELSE sets[s]] IN
         /\ IsFiniteSet(BytesOf(new, Sets))
         /\ Cardinality(BytesOf(new, Sets)) = Bytes(Sets) - Bytes(gone)
<1> DEFINE new == [s \in Sets |-> IF s \in gone THEN 0 ELSE sets[s]]
           rest == Sets \ gone
<1>1. BytesOf(new, rest) = BytesOf(sets, rest)
  <2>1. \A s \in rest : new[s] = sets[s]
    OBVIOUS
  <2> HIDE DEF new
  <2>. QED
    BY <2>1, BytesAgree, Zenon
<1>2. BytesOf(new, gone) = {}
  <2>1. \A s \in gone : 1..new[s] = {}
    OBVIOUS
  <2> HIDE DEF new
  <2>. QED
    BY <2>1, Zenon DEF BytesOf
<1>3. /\ IsFiniteSet(BytesOf(sets, rest)) /\ Cardinality(BytesOf(sets, rest)) \in Nat
      /\ IsFiniteSet(BytesOf(sets, gone)) /\ Cardinality(BytesOf(sets, gone)) \in Nat
  BY BytesOfSome, Zenon
<1>4. Sets = rest \cup gone /\ rest \cap gone = {}
  OBVIOUS
<1> HIDE DEF new, rest
<1>5. Bytes(Sets) = Cardinality(BytesOf(sets, rest)) + Bytes(gone)
  BY <1>3, <1>4, BytesAddUp, Zenon DEF Bytes
<1>6. /\ IsFiniteSet(BytesOf(new, Sets))
      /\ Cardinality(BytesOf(new, Sets)) = Cardinality(BytesOf(sets, rest)) + 0
  <2>1. IsFiniteSet(BytesOf(new, gone)) /\ Cardinality(BytesOf(new, gone)) = 0
    BY <1>2, FS_EmptySet, Zenon
  <2>2. /\ IsFiniteSet(BytesOf(new, rest \cup gone))
        /\ Cardinality(BytesOf(new, rest \cup gone)) =
             Cardinality(BytesOf(new, rest)) + Cardinality(BytesOf(new, gone))
    BY <1>1, <1>3, <1>4, <2>1, BytesAddUp, Zenon
  <2>. QED
    BY <1>1, <1>4, <2>1, <2>2, Zenon
<1>. QED
  BY <1>3, <1>5, <1>6 DEF new, Bytes

\* The largest sets can be dropped until the rest fits, and none of them is
\* dropped in vain: what set_max_size is said to drop exists.  (Of the sets of
\* largest sets that make room, take one no part of which does.)
LEMMA CapIsMet ==
  ASSUME sets \in Document, IsFiniteSet(BytesOf(sets, Sets)), size = Bytes(Sets), NEW cap \in Nat
  PROVE  DroppedFor(cap) \in SUBSET Sets /\ size - Bytes(DroppedFor(cap)) <= cap
<1> DEFINE Fits(gone) == size - Bytes(gone) <= cap
           Largest(gone) == \A s \in gone, t \in Sets \ gone : sets[s] >= sets[t]
           Cand == {gone \in SUBSET Sets : Fits(gone) /\ Largest(gone)}
<1>1. Sets \in Cand
  <2>1. Bytes(Sets) - Bytes(Sets) = 0
    BY BytesOfSome DEF Bytes
  <2>. QED
    BY <2>1
<1>2. PICK gone \in Cand : \A other \in Cand : ~(<<other, gone>> \in StrictSubsetOrdering(Sets))
  <2>1. IsWellFoundedOn(StrictSubsetOrdering(Sets), SUBSET Sets)
    <3>1. IsFiniteSet(Sets)
      BY RepositoryAssumption
    <3>. QED
      BY <3>1, FS_StrictSubsetOrderingWellFounded, FS_FiniteSubsetsOfFinite, Zenon
  <2>. QED
    BY <1>1, <2>1, WFMin, Zenon
<1>3. ASSUME NEW s \in gone
      PROVE  sets[s] > 0 /\ size - Bytes(gone \ {s}) > cap
  <2>1. PICK m \in gone : \A t \in gone : sets[m] <= sets[t]
    <3> DEFINE S == {sets[t] : t \in gone}
    <3>1. S \in SUBSET Nat /\ S # {}
      BY Zenon DEF Document
    <3>2. PICK k \in S : \A j \in S : k <= j
      BY <3>1, LeastMember, Zenon
    <3>. QED
      BY <3>2
  <2>2. Largest(gone \ {m})
    BY <2>1, Zenon DEF Document
  <2>3. <<gone \ {m}, gone>> \in StrictSubsetOrdering(Sets)
    BY Zenon DEF StrictSubsetOrdering
  <2>4. ~Fits(gone \ {m})
    BY <1>2, <2>2, <2>3, Zenon
  <2>5. ASSUME NEW t \in gone
        PROVE  /\ Bytes(gone) = Bytes(gone \ {t}) + sets[t] /\ Bytes(gone \ {t}) \in Nat
               /\ sets[t] \in Nat /\ Bytes(Sets) \in Nat
    <3>1. gone = (gone \ {t}) \cup {t} /\ t \notin gone \ {t} /\ t \in Sets /\ sets[t] \in Nat
      BY Zenon DEF Document
    <3>2. IsFiniteSet(BytesOf(sets, gone \ {t})) /\ Bytes(gone \ {t}) \in Nat /\ Bytes(Sets) \in Nat
      BY BytesOfSome, Zenon DEF Bytes
    <3>3. Bytes(gone) = Bytes(gone \ {t}) + sets[t]
      BY <3>1, <3>2, BytesOfOneMore, Zenon DEF Bytes
    <3>. QED
      BY <3>1, <3>2, <3>3, Zenon
  <2>6. Fits(gone) /\ sets[m] <= sets[s]
    BY <2>1, Zenon
  <2>. QED
    BY <2>4, <2>5, <2>6
<1>4. /\ DroppedFor(cap) \in SUBSET Sets /\ Fits(DroppedFor(cap))
  BY <1>3, Zenon DEF DroppedFor
<1>. QED
  BY <1>4, Zenon
\* set keeps the books, whether it stores or rejects.
LEMMA SetBooks ==
  ASSUME sets \in Document, OwnerType, BooksInv,
         NEW s \in Sets, NEW p \in Owners, NEW v \in Sizes[s], Set(s, p, v)
  PROVE  BooksInv'
<1> USE RepositoryAssumption
<1>1. CASE UNCHANGED <<sets, owner, size, maxSize>>
  BY <1>1, Zenon DEF BooksInv, Bytes
<1>2. CASE /\ sets' = [sets EXCEPT ![s] = v] /\ owner' = [owner EXCEPT ![s] = p]
           /\ size' = size - sets[s] + v /\ UNCHANGED maxSize
           /\ sets[s] = v \/ size - sets[s] + v <= maxSize
  <2>1. v \in Nat /\ v > 0 /\ sets[s] \in Nat /\ size \in Nat /\ maxSize \in Nat
    <3>1. size \in Nat
      BY FS_CardinalityType, Zenon DEF BooksInv, Bytes
    <3>. QED
      BY <3>1 DEF BooksInv, Document
  <2>2. /\ IsFiniteSet(BytesOf(sets', Sets))
        /\ Bytes(Sets)' = Bytes(Sets) - sets[s] + v
    BY <1>2, <2>1, SetBytes, Zenon DEF BooksInv, Bytes
  <2>3. \A t \in Sets : sets'[t] \in Sizes[t] \cup {0} /\ (sets'[t] > 0 <=> owner'[t] # None)
    BY <1>2, <2>1, Zenon DEF BooksInv, OwnerType, Document
  <2>4. size' = Bytes(Sets)' /\ size' <= maxSize' /\ maxSize' \in Caps
    BY <1>2, <2>1, <2>2 DEF BooksInv
  <2>. QED
    BY <2>2, <2>3, <2>4, Zenon DEF BooksInv
<1>3. (sets[s] # v /\ size - sets[s] + v > maxSize) \/ sets[s] = v \/ size - sets[s] + v <= maxSize
  <2>1. size - sets[s] + v \in Int /\ maxSize \in Int
    <3>1. size \in Nat
      BY FS_CardinalityType, Zenon DEF BooksInv, Bytes
    <3>. QED
      BY <3>1 DEF BooksInv, Document
  <2>. QED
    BY <2>1
<1>. QED
  BY <1>1, <1>2, <1>3, Zenon DEF Set, Touch

\* So does erasing some sets, as long as the rest is within the cap.
LEMMA EraseBooks ==
  ASSUME sets \in Document, OwnerType, BooksInv, NEW gone \in SUBSET Sets, Erase(gone),
         maxSize' \in Caps, size - Bytes(gone) <= maxSize'
  PROVE  BooksInv'
<1>1. /\ sets' = [s \in Sets |-> IF s \in gone THEN 0 ELSE sets[s]]
      /\ owner' = [s \in Sets |-> IF s \in gone THEN None ELSE owner[s]]
      /\ size' = size - Bytes(gone)
  BY Zenon DEF Erase, Touch
<1>2. IsFiniteSet(BytesOf(sets', Sets)) /\ Bytes(Sets)' = Bytes(Sets) - Bytes(gone)
  BY <1>1, EraseBytes, Zenon DEF BooksInv, Bytes
<1>3. \A t \in Sets : sets'[t] \in Sizes[t] \cup {0} /\ (sets'[t] > 0 <=> owner'[t] # None)
  BY <1>1 DEF BooksInv
<1>. QED
  BY <1>1, <1>2, <1>3, Zenon DEF BooksInv

-----------------------------------------------------------------------------
(* What a step does to the repository *)

\* For whom facts are stored: the core, and the modules a round is inside.
Storing == {Core} \cup {within[r] : r \in {q \in Rounders : pc[q] = "store"}}

RepositoryStep ==
  \/ UNCHANGED repositoryVars \/ CacheHash \/ BeginRound
  \/ \E s \in Sets, p \in Storing : \E v \in Sizes[s] : Set(s, p, v)
  \/ \E gone \in SUBSET Sets : Erase(gone) /\ UNCHANGED maxSize
  \/ \E cap \in Caps : SetMaxSize(cap)
  \/ \E now \in {collected, collected + 1} : MarkCollected(now)
  \/ EndRound /\ \E r \in Rounders : pc[r] = "end"

\* Every step is one operation of the repository, or none.
LEMMA RepositoryMoves ==
  ASSUME [Next]_vars
  PROVE  RepositoryStep
<1>1. ASSUME NEW p, NEW S PROVE OwnedBy(p) \ S \in SUBSET Sets /\ OwnedBy(p) \in SUBSET Sets
  BY Zenon DEF OwnedBy
<1>2. ASSUME NEW r \in Rounders, NEW l \in Lists \cup {None}, RoundBegins(r, l)
      PROVE  RepositoryStep
  BY <1>2, Zenon DEF RoundBegins, RepositoryStep
<1>3. ASSUME NEW r \in Rounders, ReadFactsMaxSize(r)
      PROVE  RepositoryStep
  BY <1>3, Zenon DEF ReadFactsMaxSize, RepositoryStep
<1>4. ASSUME NEW r \in Rounders, CollectAgentFacts(r)
      PROVE  RepositoryStep
  <2>1. Agent \in Sets /\ Core \in Storing
    BY RoundsAssumption, Zenon DEF Storing
  <2>. QED
    BY <1>1, <1>4, <2>1, Zenon DEF CollectAgentFacts, RetainOnly, RepositoryStep
<1>5. ASSUME NEW r \in Rounders, NEW s \in Sets, StoreSet(r, s)
      PROVE  RepositoryStep
  <2>1. within[r] \in Storing
    BY <1>5, Zenon DEF StoreSet, Storing
  <2>2. {s} \in SUBSET Sets
    OBVIOUS
  <2>. QED
    BY <1>5, <2>1, <2>2, Zenon DEF StoreSet, Remove, RepositoryStep
<1>6. ASSUME NEW r \in Rounders, StoreDone(r)
      PROVE  RepositoryStep
  BY <1>1, <1>6, Zenon DEF StoreDone, RetainOnly, RepositoryStep
<1>7. ASSUME NEW r \in Rounders, WalkDone(r)
      PROVE  RepositoryStep
  BY <1>7, Zenon DEF WalkDone, RepositoryStep
<1>8. ASSUME NEW r \in Rounders, RoundEnds(r)
      PROVE  RepositoryStep
  BY <1>8, Zenon DEF RoundEnds, RepositoryStep
<1>9. ASSUME NEW r \in Rounders, CopySlots(r) \/ NextSlot(r) \/ CallReturns(r) \/ LeaveGate(r)
      PROVE  RepositoryStep
  BY <1>9, Zenon DEF CopySlots, NextSlot, CallReturns, LeaveGate, RepositoryStep
<1>10. CASE DropFacts \/ DropPurgedFacts
  BY <1>1, <1>10, Zenon DEF DropFacts, DropPurgedFacts, RemoveOwnedBy, RepositoryStep
<1>11. CASE Manage /\ ~(DropFacts \/ DropPurgedFacts)
  BY <1>11, Zenon DEF Manage, AddPlugin, CloseWalks, Refuse, Unload, FinishPurge, RemoveAll, DrainAll, UnloadAll,
     RepositoryStep
<1>12. CASE Poll \/ UNCHANGED vars
  BY <1>12, Zenon DEF Poll, vars, RepositoryStep
<1> HIDE DEF RepositoryStep
<1>. QED
  BY <1>2, <1>3, <1>4, <1>5, <1>6, <1>7, <1>8, <1>9, <1>10, <1>11, <1>12, Zenon DEF Next, Round

\* The modules facts are stored for are still there.
LEMMA StoringIsHere ==
  ASSUME WInv, StoreInv
  PROVE  /\ Storing \subseteq Owners
         /\ \A p \in Storing : p = Core \/ (p \in Ids /\ (Here(p) \/ manager \in Stopping))
<1>1. ASSUME NEW q \in Rounders, pc[q] = "store"
      PROVE  within[q] \in Ids /\ (Here(within[q]) \/ manager \in Stopping)
  <2>1. within[q] \in Ids
    BY <1>1, Zenon DEF WInv, RoundTypes, WalkInv, Visiting
  <2>2. fate[within[q]] \in {"loaded", "purged", "parked", "left"}
    <3>1. fate[within[q]] \in {"new", "loaded", "purged", "unloaded", "parked", "left"}
      BY <2>1, Zenon DEF WInv, ManagerTypes
    <3>2. fate[within[q]] # "new" /\ fate[within[q]] # "unloaded"
      BY <1>1, <2>1, Zenon DEF WInv, WalkInv, VisitInv, Visiting
    <3>. QED
      BY <3>1, <3>2, Zenon
  <2>3. fate[within[q]] = "left" => manager \in Stopping
    BY <2>1, Zenon DEF WInv, ListInv, Stopping
  <2>4. within[q] \in listed[Facts] \/ manager \in Stopping
    BY <1>1, <2>1, Zenon DEF WInv, WalkInv, VisitInv, Visiting, StoreInv, Stopping
  <2>. QED
    BY <2>1, <2>2, <2>3, <2>4, Zenon DEF Here
<1>. QED
  BY <1>1, RoundsAssumption, Zenon DEF Storing

\* A set is given to the core, or by a thread inside a module to that module.
LEMMA OwnerMoves ==
  ASSUME OwnerType, Storing \subseteq Owners, RepositoryStep
  PROVE  OwnerType' /\ \A s \in Sets : owner'[s] \in {owner[s], None} \cup Storing
<1> USE DEF OwnerType
<1>1. CASE UNCHANGED owner
  BY <1>1, Zenon
<1>2. ASSUME NEW gone, Erase(gone)
      PROVE  OwnerType' /\ \A s \in Sets : owner'[s] \in {owner[s], None} \cup Storing
  BY <1>2, OwnerAfterErase, Zenon
<1>3. ASSUME NEW s \in Sets, NEW p \in Storing, NEW v, Set(s, p, v)
      PROVE  OwnerType' /\ \A t \in Sets : owner'[t] \in {owner[t], None} \cup Storing
  BY <1>3, OwnerAfterSet, Zenon
<1> HIDE DEF OwnerType
<1>4. CASE CacheHash \/ BeginRound \/ EndRound \/ UNCHANGED repositoryVars \/ \E now : MarkCollected(now)
  BY <1>1, <1>4, Zenon DEF CacheHash, BeginRound, EndRound, MarkCollected, repositoryVars
<1>. QED
  BY <1>2, <1>3, <1>4, Zenon DEF RepositoryStep, SetMaxSize

-----------------------------------------------------------------------------
(* Each part is preserved by every step. *)

\* Facts are stored in rounds of the facts list, and stuck is the shutdown's.
LEMMA StoreStep ==
  ASSUME WInv, StoreInv, [Next]_vars
  PROVE  StoreInv'
<1>1. ASSUME NEW r \in Rounders, Round(r)
      PROVE  StoreInv'
  <2>0. DOMAIN pc = Rounders /\ DOMAIN walking = Rounders
    BY Zenon DEF WInv, RoundTypes
  <2>1. UNCHANGED <<manager, stuck>>
    BY <1>1, RoundFrame, Zenon
  <2>2. \A q \in Rounders \ {r} : pc'[q] = pc[q] /\ walking'[q] = walking[q]
    <3>1. UNCHANGED pc \/ \E to : pc' = [pc EXCEPT ![r] = to]
      BY <1>1, Zenon DEF Round, RoundBegins, ReadFactsMaxSize, CollectAgentFacts, CopySlots, NextSlot, CallReturns,
         StoreSet, StoreDone, LeaveGate, WalkDone, RoundEnds, Goto
    <3>2. UNCHANGED walking \/ \E l : walking' = [walking EXCEPT ![r] = l]
      BY <1>1, Zenon DEF Round, RoundBegins, ReadFactsMaxSize, CollectAgentFacts, CopySlots, NextSlot, CallReturns,
         StoreSet, StoreDone, LeaveGate, WalkDone, RoundEnds
    <3>. QED
      BY <2>0, <3>1, <3>2, Zenon
  <2>3. ASSUME pc'[r] = "store" PROVE walking'[r] = walking[r] /\ (walking[r] = Facts \/ pc[r] = "store")
    <3>1. \/ CallReturns(r) \/ (\E s \in Sets : StoreSet(r, s)) \/ (UNCHANGED pc /\ pc[r] = "walk")
          \/ \E to \in {"idle", "resize", "agent", "list", "walk", "call", "leave", "end"} : Goto(r, to)
      BY <1>1, Zenon DEF Round, RoundBegins, ReadFactsMaxSize, CollectAgentFacts, CopySlots, NextSlot, StoreDone,
         LeaveGate, WalkDone, RoundEnds
    <3>2. ASSUME NEW to, Goto(r, to) PROVE pc'[r] = to
      BY <2>0, <3>2, Zenon DEF Goto
    <3>3. CASE CallReturns(r)
      BY <2>3, <3>2, <3>3, Zenon DEF CallReturns
    <3>4. CASE \E s \in Sets : StoreSet(r, s)
      BY <2>3, <3>4, Zenon DEF StoreSet
    <3>. QED
      BY <2>3, <3>1, <3>2, <3>3, <3>4, Zenon
  <2>. QED
    BY <2>1, <2>2, <2>3, Zenon DEF StoreInv
<1>2. CASE Manage \/ Poll \/ UNCHANGED vars
  <2>1. UNCHANGED <<pc, walking>>
    BY <1>2, ManageFrame, Zenon DEF roundVars
  <2>2. CASE Manage
    <3>1. manager \in Stopping /\ manager' \notin Stopping => stuck' = {}
      BY <2>2, Zenon DEF Manage, AddPlugin, CloseWalks, Refuse, Unload, DropFacts, FinishPurge, DropPurgedFacts,
         RemoveAll, DrainAll, UnloadAll, Stopping
    <3>2. manager' \in Stopping \/ UNCHANGED stuck
      BY <2>2, Zenon DEF Manage, AddPlugin, CloseWalks, Refuse, Unload, DropFacts, FinishPurge, DropPurgedFacts,
         Return, RemoveAll, DrainAll, UnloadAll, managerVars, Stopping
    <3>. QED
      BY <2>1, <3>1, <3>2, Zenon DEF StoreInv
  <2>3. CASE Poll \/ UNCHANGED vars
    BY <2>1, <2>3, PollFrame, Zenon DEF managerVars, StoreInv
  <2>. QED
    BY <1>2, <2>2, <2>3, Zenon
<1>. QED
  BY <1>1, <1>2, Zenon DEF Next

\* The owners: facts are stored by a round that is inside their module.
LEMMA OwnerStep ==
  ASSUME WInv, OwnerType, StoreInv, OwnerInv, [Next]_vars
  PROVE  OwnerType' /\ OwnerInv'
<1>0. /\ OwnerType' /\ \A s \in Sets : owner'[s] \in {owner[s], None} \cup Storing
      /\ None \notin Ids /\ Core \notin Ids
  BY RepositoryMoves, StoringIsHere, OwnerMoves, RoundsAssumption, RepositoryAssumption, Zenon
<1> SUFFICES OwnerInv'
  BY <1>0, Zenon
<1>1. ASSUME NEW r \in Rounders, Round(r)
      PROVE  OwnerInv'
  <2>1. UNCHANGED <<fate, listed, manager, module>>
    BY <1>1, RoundFrame, Zenon
  <2>2. ASSUME NEW s \in Sets, owner'[s] \in Ids
        PROVE  Here(owner'[s]) \/ (manager = "dropFacts" /\ module = owner'[s]) \/ manager \in Stopping
    BY <1>0, <2>2, StoringIsHere, Zenon DEF OwnerInv
  <2>. QED
    BY <2>1, <2>2, Zenon DEF OwnerInv, Here
<1>2. fate \in [Ids -> {"new", "loaded", "purged", "unloaded", "parked", "left"}]
  BY Zenon DEF WInv, ManagerTypes
<1>3. ASSUME NEW i \in Ids, AddPlugin(i)
      PROVE  OwnerInv'
  <2>1. /\ UNCHANGED <<owner, manager, module>> /\ listed[Facts] \subseteq listed'[Facts]
        /\ \A j \in Ids : fate'[j] = fate[j] \/ fate'[j] = "loaded"
    BY <1>2, <1>3, RoundsAssumption, Zenon DEF AddPlugin, repositoryVars, managerVars
  <2>. QED
    BY <2>1, Zenon DEF OwnerInv, Here
<1>4. ASSUME NEW i \in Ids, NEW for \in {"remove", "purge"}, CloseWalks(i, for)
      PROVE  OwnerInv'
  <2>1. UNCHANGED <<owner, listed>> /\ manager = "idle" /\ \A j \in Ids : fate'[j] = fate[j] \/ fate'[j] = "purged"
    BY <1>2, <1>4, Zenon DEF CloseWalks, repositoryVars
  <2>. QED
    BY <2>1, Zenon DEF OwnerInv, Here, Stopping
<1>5. CASE Unload
  <2>1. /\ UNCHANGED <<owner, module>> /\ manager = "remove" /\ manager' = "dropFacts"
        /\ listed'[Facts] = listed[Facts] \ {module}
        /\ \A j \in Ids : fate'[j] = fate[j] \/ j = module
    BY <1>2, <1>5, RoundsAssumption, Zenon DEF Unload, repositoryVars
  <2>. QED
    BY <2>1, Zenon DEF OwnerInv, Here, Stopping
<1>6. CASE DropFacts \/ DropPurgedFacts
  <2>1. \A s \in Sets : owner'[s] = IF s \in OwnedBy(module) THEN None ELSE owner[s]
    BY <1>6, OwnerAfterErase, Zenon DEF DropFacts, DropPurgedFacts, RemoveOwnedBy, OwnerType
  <2>2. \A s \in Sets : owner'[s] \in Ids => owner'[s] = owner[s] /\ owner[s] # module
    BY <1>0, <2>1, Zenon DEF OwnedBy
  <2>3. manager \in Removing /\ listed' = listed /\ \A j \in Ids : j # module => fate'[j] = fate[j]
    BY <1>2, <1>6, Zenon DEF DropFacts, DropPurgedFacts, Removing, gateVars
  <2>4. ASSUME NEW s \in Sets, owner'[s] \in Ids
        PROVE  Here(owner[s])'
    <3>1. owner[s] \in Ids /\ owner'[s] = owner[s] /\ owner[s] # module
      BY <2>2, <2>4, Zenon
    <3>2. Here(owner[s])
      BY <2>3, <3>1, Zenon DEF OwnerInv, Removing, Stopping
    <3>. QED
      BY <2>3, <3>1, <3>2, Zenon DEF Here
  <2>. QED
    BY <2>4, Zenon DEF OwnerInv
<1>7. CASE UnloadAll
  <2>1. manager' = "stopped"
    BY <1>7, Zenon DEF UnloadAll
  <2>. QED
    BY <2>1, Zenon DEF OwnerInv, Stopping
<1>8. CASE Refuse \/ Poll \/ UNCHANGED vars
  <2>1. UNCHANGED <<owner, fate, listed>> /\ (UNCHANGED <<manager, module>> \/ manager = "remove")
    BY <1>8, Zenon DEF Refuse, Poll, CacheHash, vars, repositoryVars, managerVars, gateVars
  <2>. QED
    BY <2>1, Zenon DEF OwnerInv, Here, Stopping
<1>9. ASSUME NEW delivering \in BOOLEAN, FinishPurge(delivering)
      PROVE  OwnerInv'
  <2>1. UNCHANGED <<owner, fate>> /\ manager = "purge" /\ listed[Facts] \ {module} \subseteq listed'[Facts]
    BY <1>9, RoundsAssumption, Zenon DEF FinishPurge, repositoryVars
  <2>2. fate[module] = "purged"
    BY <2>1, Zenon DEF WInv, ListInv, Purging
  <2>. QED
    BY <2>1, <2>2, Zenon DEF OwnerInv, Here, Stopping
<1>10. CASE (\E l \in Lists : RemoveAll(l)) \/ DrainAll
  <2>1. manager' \in {"drain", "stop"}
    BY <1>10, Zenon DEF RemoveAll, DrainAll
  <2>. QED
    BY <2>1, Zenon DEF OwnerInv, Stopping
<1>. QED
  BY <1>1, <1>3, <1>4, <1>5, <1>6, <1>7, <1>8, <1>9, <1>10, Zenon DEF Next, Manage

\* The count of rounds: scoped_round begins and ends each exactly once.
LEMMA CountStep ==
  ASSUME RoundTypes, WalkInv, CountInv, [Next]_vars
  PROVE  CountInv'
<1> USE RoundsAssumption DEF RoundTypes, WalkInv, CountInv, Visiting, Walking
<1>1. CASE Manage \/ Poll \/ UNCHANGED vars
  <2>1. InRound' = InRound
    BY <1>1, ManageFrame, Zenon DEF roundVars, InRound
  <2>2. rounds' = rounds
    BY <1>1, Zenon DEF Manage, AddPlugin, CloseWalks, Refuse, Unload, DropFacts, FinishPurge, DropPurgedFacts,
       RemoveAll, DrainAll,
       UnloadAll, RemoveOwnedBy, Erase, Poll, CacheHash, vars, repositoryVars
  <2>. QED
    BY <2>1, <2>2, Zenon
<1>2. ASSUME NEW r \in Rounders, NEW l \in Lists \cup {None}, RoundBegins(r, l)
      PROVE  CountInv'
  <2>1. CASE l \in Lists \ {Facts}
    <3>1. InRound' = InRound
      BY <1>2, <2>1, Zenon DEF RoundBegins, Goto, InRound
    <3>2. rounds' = rounds
      BY <1>2, <2>1, Zenon DEF RoundBegins, repositoryVars
    <3>. QED
      BY <3>1, <3>2, Zenon
  <2>2. CASE l \notin Lists \ {Facts}
    <3>1. InRound' = InRound \cup {r} /\ r \notin InRound
      BY <1>2, <2>2 DEF RoundBegins, Goto, InRound
    <3>2. rounds' = rounds + 1
      BY <1>2, <2>2, Zenon DEF RoundBegins, BeginRound
    <3>3. IsFiniteSet(InRound') /\ Cardinality(InRound') = Cardinality(InRound) + 1
      BY <3>1, FS_AddElement, Zenon
    <3>. QED
      BY <3>2, <3>3, Zenon
  <2>. QED
    BY <2>1, <2>2, Zenon
<1>3. ASSUME NEW r \in Rounders, ReadFactsMaxSize(r)
      PROVE  CountInv'
  <2>1. InRound' = InRound
    BY <1>3, Zenon DEF ReadFactsMaxSize, Goto, InRound
  <2>2. rounds' = rounds
    BY <1>3, Zenon DEF ReadFactsMaxSize, Remove, RemoveOwnedBy, RetainOnly, SetMaxSize, Erase, Set
  <2>. QED
    BY <2>1, <2>2, Zenon
<1>4. ASSUME NEW r \in Rounders, CollectAgentFacts(r)
      PROVE  CountInv'
  <2>1. InRound' = InRound
    BY <1>4, Zenon DEF CollectAgentFacts, Goto, InRound
  <2>2. rounds' = rounds
    BY <1>4, Zenon DEF CollectAgentFacts, Remove, RemoveOwnedBy, RetainOnly, SetMaxSize, Erase, Set, repositoryVars
  <2>. QED
    BY <2>1, <2>2, Zenon
<1>5. ASSUME NEW r \in Rounders, CopySlots(r)
      PROVE  CountInv'
  <2>1. InRound' = InRound
    BY <1>5, Zenon DEF CopySlots, Goto, InRound
  <2>2. rounds' = rounds
    BY <1>5, Zenon DEF CopySlots, repositoryVars
  <2>. QED
    BY <2>1, <2>2, Zenon
<1>6. ASSUME NEW r \in Rounders, NextSlot(r)
      PROVE  CountInv'
  <2>1. InRound' = InRound
    <3>1. pc[r] = "walk" /\ (pc' = pc \/ pc' = [pc EXCEPT ![r] = "call"])
      BY <1>6, Zenon DEF NextSlot, Goto
    <3>2. pc' \in {pc, [pc EXCEPT ![r] = "call"]} /\ walking' = walking
      BY <1>6, <3>1, Zenon DEF NextSlot
    <3>3. \A q \in Rounders : pc'[q] = pc[q] \/ (pc[q] = "walk" /\ pc'[q] = "call")
      BY <3>1, <3>2, Zenon
    <3>. QED
      BY <3>2, <3>3, Zenon DEF InRound, Walking
  <2>2. rounds' = rounds
    BY <1>6, Zenon DEF NextSlot, repositoryVars
  <2>. QED
    BY <2>1, <2>2, Zenon
<1>7. ASSUME NEW r \in Rounders, CallReturns(r)
      PROVE  CountInv'
  <2>1. InRound' = InRound
    BY <1>7, Zenon DEF CallReturns, Goto, InRound
  <2>2. rounds' = rounds
    BY <1>7, Zenon DEF CallReturns, repositoryVars
  <2>. QED
    BY <2>1, <2>2, Zenon
<1>8. ASSUME NEW r \in Rounders, NEW s \in Sets, StoreSet(r, s)
      PROVE  CountInv'
  <2>1. InRound' = InRound
    BY <1>8, Zenon DEF StoreSet, InRound
  <2>2. rounds' = rounds
    BY <1>8, Zenon DEF StoreSet, Remove, RemoveOwnedBy, RetainOnly, SetMaxSize, Erase, Set, repositoryVars
  <2>. QED
    BY <2>1, <2>2, Zenon
<1>9. ASSUME NEW r \in Rounders, StoreDone(r)
      PROVE  CountInv'
  <2>1. InRound' = InRound
    BY <1>9, Zenon DEF StoreDone, Goto, InRound
  <2>2. rounds' = rounds
    BY <1>9, Zenon DEF StoreDone, Remove, RemoveOwnedBy, RetainOnly, SetMaxSize, Erase, Set
  <2>. QED
    BY <2>1, <2>2, Zenon
<1>10. ASSUME NEW r \in Rounders, LeaveGate(r)
       PROVE  CountInv'
  <2>1. InRound' = InRound
    BY <1>10, Zenon DEF LeaveGate, Goto, InRound
  <2>2. rounds' = rounds
    BY <1>10, Zenon DEF LeaveGate, repositoryVars
  <2>. QED
    BY <2>1, <2>2, Zenon
<1>11. ASSUME NEW r \in Rounders, WalkDone(r)
       PROVE  CountInv'
  <2>1. InRound' = InRound
    BY <1>11, Zenon DEF WalkDone, Goto, InRound
  <2>2. rounds' = rounds
    BY <1>11, Zenon DEF WalkDone, MarkCollected, repositoryVars
  <2>. QED
    BY <2>1, <2>2, Zenon
<1>12. ASSUME NEW r \in Rounders, RoundEnds(r)
       PROVE  CountInv'
  <2>1. InRound' = InRound \ {r} /\ r \in InRound
    BY <1>12, Zenon DEF RoundEnds, Goto, InRound
  <2>2. rounds' = rounds - 1
    BY <1>12, Zenon DEF RoundEnds, EndRound
  <2>3. IsFiniteSet(InRound') /\ Cardinality(InRound') = Cardinality(InRound) - 1
    BY <2>1, FS_RemoveElement, Zenon
  <2>. QED
    BY <2>2, <2>3, Zenon
<1> HIDE DEF CountInv
<1>. QED
  BY <1>1, <1>2, <1>3, <1>4, <1>5, <1>6, <1>7, <1>8, <1>9, <1>10, <1>11, <1>12, Zenon DEF Next, Round

\* The copy: freeze_locked comes before every change a round or a removal makes.
LEMMA FrozenStep ==
  ASSUME CountInv, FrozenInv, RepositoryStep
  PROVE  FrozenInv'
<1>1. CASE UNCHANGED repositoryVars
  BY <1>1, Zenon DEF repositoryVars, FrozenInv
<1>2. ASSUME NEW gone, Erase(gone)
      PROVE  FrozenInv'
  BY <1>2, EraseKeeps, Zenon
<1>3. ASSUME NEW s \in Sets, NEW p, NEW v \in Sizes[s], Set(s, p, v)
      PROVE  FrozenInv'
  BY <1>3, SetKeeps, RepositoryAssumption, Zenon
<1>4. CASE BeginRound
  <2>1. rounds' = rounds + 1 /\ UNCHANGED <<sets, collected, hash, frozen, published>>
    BY <1>4, Zenon DEF BeginRound
  <2>2. rounds' \in Nat /\ rounds' > 0
    BY <2>1 DEF FrozenInv
  <2>. QED
    BY <2>1, <2>2, Zenon DEF FrozenInv
<1>5. ASSUME NEW now \in {collected, collected + 1}, MarkCollected(now)
      PROVE  FrozenInv'
  BY <1>5, MarkKeeps DEF FrozenInv
<1>6. ASSUME EndRound, NEW r \in Rounders, pc[r] = "end"
      PROVE  FrozenInv'
  <2>1. r \in InRound
    BY <1>6, Zenon DEF InRound
  <2>2. rounds > 0
    BY <2>1, FS_EmptySet DEF CountInv, FrozenInv
  <2>. QED
    BY <1>6, <2>2, RepositoryAssumption DEF EndRound, Publish, FrozenInv
<1>7. CASE CacheHash
  BY <1>7, RepositoryAssumption, Zenon DEF CacheHash, GetHash, HasCopy, FrozenInv
<1>. QED
  BY <1>1, <1>2, <1>3, <1>4, <1>5, <1>6, <1>7, Zenon DEF RepositoryStep, SetMaxSize

\* The books: whatever is stored or dropped is counted once.
LEMMA BooksStep ==
  ASSUME FrozenInv, OwnerType, BooksInv, Storing \subseteq Owners, RepositoryStep
  PROVE  BooksInv'
<1>0. sets \in Document /\ Caps \subseteq Nat
  BY RepositoryAssumption, Zenon DEF FrozenInv
<1>1. CASE UNCHANGED <<sets, owner, size, maxSize>>
  BY <1>1, Zenon DEF BooksInv, Bytes
<1>2. ASSUME NEW gone \in SUBSET Sets, Erase(gone), UNCHANGED maxSize
      PROVE  BooksInv'
  <2>1. Bytes(gone) \in Nat /\ Bytes(Sets) \in Nat
    BY BytesOfSome, Zenon DEF BooksInv, Bytes
  <2>2. size - Bytes(gone) <= maxSize' /\ maxSize' \in Caps
    BY <1>0, <1>2, <2>1 DEF BooksInv
  <2>. QED
    BY <1>0, <1>2, <2>2, EraseBooks, Zenon
<1>3. ASSUME NEW cap \in Caps, SetMaxSize(cap)
      PROVE  BooksInv'
  <2>1. DroppedFor(cap) \in SUBSET Sets /\ size - Bytes(DroppedFor(cap)) <= cap
    BY <1>0, CapIsMet, Zenon DEF BooksInv
  <2>. QED
    BY <1>0, <1>3, <2>1, EraseBooks, Zenon DEF SetMaxSize
<1>4. ASSUME NEW s \in Sets, NEW p \in Storing, NEW v \in Sizes[s], Set(s, p, v)
      PROVE  BooksInv'
  BY <1>0, <1>4, SetBooks, Zenon
<1>5. CASE CacheHash \/ BeginRound \/ EndRound \/ UNCHANGED repositoryVars \/ \E now : MarkCollected(now)
  BY <1>1, <1>5, Zenon DEF CacheHash, BeginRound, EndRound, MarkCollected, repositoryVars
<1>. QED
  BY <1>2, <1>3, <1>4, <1>5, Zenon DEF RepositoryStep

\* The empty repository, with no module loaded and no round begun.
LEMMA InitIInv == Init => IInv
<1> USE RepositoryAssumption, RoundsAssumption DEF Init, EmptyRepository
<1>1. Init => OwnerType /\ StoreInv /\ OwnerInv
  BY DEF OwnerType, StoreInv, OwnerInv
<1>2. Init => CountInv
  <2>1. Init => InRound = {}
    BY Zenon DEF InRound, Walking, Visiting
  <2>. QED
    BY <2>1, FS_EmptySet, Zenon DEF CountInv
<1>3. Init => FrozenInv
  BY DEF FrozenInv, Document
<1>4. Init => BooksInv
  <2>1. Init => BytesOf(sets, Sets) = {}
    BY DEF BytesOf
  <2>2. Init => IsFiniteSet(BytesOf(sets, Sets)) /\ Bytes(Sets) = 0
    BY <2>1, FS_EmptySet, Zenon DEF Bytes
  <2>3. Init => size = 0 /\ maxSize \in Caps /\ size <= maxSize
    OBVIOUS
  <2>4. Init => \A s \in Sets : sets[s] \in Sizes[s] \cup {0} /\ (sets[s] > 0 <=> owner[s] # None)
    <3>1. Init => \A s \in Sets : sets[s] = 0 /\ owner[s] = None
      OBVIOUS
    <3>. QED
      BY <3>1
  <2>. QED
    BY <2>2, <2>3, <2>4, Zenon DEF BooksInv
<1>. QED
  BY InitWInv, <1>1, <1>2, <1>3, <1>4, Zenon DEF IInv

\* The invariant holds for ever.
THEOREM InvariantHolds == Spec => []IInv
<1>1. IInv /\ WInv' /\ [Next]_vars => IInv'
  <2> SUFFICES ASSUME IInv, WInv', [Next]_vars PROVE IInv'
    OBVIOUS
  <2>1. WInv /\ OwnerType /\ StoreInv /\ OwnerInv /\ CountInv /\ FrozenInv /\ BooksInv
    BY Zenon DEF IInv
  <2>2. RoundTypes /\ WalkInv
    BY <2>1, Zenon DEF WInv
  <2>3. RepositoryStep /\ Storing \subseteq Owners
    BY <2>1, RepositoryMoves, StoringIsHere, Zenon
  <2>4. OwnerType' /\ StoreInv' /\ OwnerInv'
    BY <2>1, OwnerStep, StoreStep, Zenon
  <2>5. CountInv' /\ FrozenInv' /\ BooksInv'
    BY <2>1, <2>2, <2>3, CountStep, FrozenStep, BooksStep, Zenon
  <2>. QED
    BY <2>4, <2>5, Zenon DEF IInv
<1>. QED
  BY InitIInv, WalksHold, <1>1, PTL DEF Spec

-----------------------------------------------------------------------------
(* Theorems *)

\* What is hashed and uploaded (get_hash, get_snapshot) is the document of the
\* last moment without a round, however many rounds overlap and whatever they
\* or a removal change: the copy was made before the first change.
THEOREM SnapshotsAreWhole == Spec => []SnapshotWhole
<1>1. IInv => SnapshotWhole
  BY RepositoryAssumption, Zenon
     DEF IInv, FrozenInv, SnapshotWhole, SnapshotJson, SnapshotCollected, GetHash, HasCopy
<1>. QED
  BY InvariantHolds, <1>1, PTL

\* The repository's books agree at any moment, for any sizes and caps: a set is
\* owned as long as it is held, the size kept by differences (set, erase_locked)
\* is that of the sets held, and it is within the cap, also right after the cap
\* was lowered (set_max_size).
THEOREM BooksAgree == Spec => []BooksBalance
<1>1. IInv => TypeOK
  <2>1. IInv => size \in Nat
    BY FS_CardinalityType, Zenon DEF IInv, BooksInv, Bytes
  <2>2. IInv => IsDocument(sets)
    BY Zenon DEF IInv, FrozenInv, BooksInv, Document, IsDocument
  <2>3. IInv => hash = None \/ IsDocument(hash)
    BY <2>2, Zenon DEF IInv, FrozenInv
  <2>. QED
    BY <2>1, <2>2, <2>3, Zenon DEF IInv, WInv, OwnerType, FrozenInv, BooksInv, TypeOK
<1>2. IInv => BooksBalance
  BY <1>1, Zenon DEF IInv, BooksInv, BooksBalance
<1>. QED
  BY InvariantHolds, <1>2, PTL

\* Once a removal or a purge is over no fact is held of a module that is gone,
\* unless a facts round was inside it when it was purged (remove_plugin,
\* purge_broken_plugin), which is why its slot is still listed: only a round inside a module stores its facts, and the
\* module is unloaded, and its facts dropped, with nobody inside.
THEOREM FactsGo == Spec => []FactsGoWithModule
<1>1. IInv => FactsGoWithModule
  <2> SUFFICES ASSUME IInv, manager = "idle", NEW s \in Sets, owner[s] \in Ids
               PROVE  fate[owner[s]] = "loaded" \/ (fate[owner[s]] = "parked" /\ owner[s] \in listed[Facts])
    BY RoundsAssumption, Zenon DEF FactsGoWithModule, OwnedBy, Alive
  <2>1. Here(owner[s])
    BY Zenon DEF IInv, OwnerInv, Stopping
  <2>2. fate[owner[s]] # "purged"
    BY Zenon DEF IInv, WInv, ListInv, Purging
  <2>. QED
    BY <2>1, <2>2, Zenon DEF Here
<1>. QED
  BY InvariantHolds, <1>1, PTL
=============================================================================
