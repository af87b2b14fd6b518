----------------------------- MODULE FactsRounds -----------------------------
(***************************************************************************)
(* The rounds of metrics and facts (plugins/plugin_list.hpp, and the parts  *)
(* of plugin_manager.cpp and NSClient++.cpp around them), composed with the *)
(* repository the facts go to.                                             *)
(*                                                                         *)
(* A round copies the list of modules to walk and calls each through the    *)
(* module's gate; for facts, what the module answered is stored before the  *)
(* gate is left.  A removal closes the module's gates, waits for the rounds *)
(* inside it up to a deadline, and then refuses (and reopens them) or tears *)
(* the module down and drops its facts.  A purge, after a load that failed, *)
(* cannot refuse: it drops the facts, and leaves the module mapped when a   *)
(* round is still inside.  Rounds overlap: the scheduler's, a reload's and  *)
(* a manual refresh run on threads of their own.                            *)
(*                                                                         *)
(* Modules are instance ids, handed out in increasing order and never       *)
(* reused, so the order of a list is that of its ids.  The two metrics      *)
(* lists are treated alike; Lists has one of them.                          *)
(***************************************************************************)
EXTENDS FactRepository

CONSTANTS
  Rounders,   \* threads that run rounds
  Agent,      \* the fact set the core produces itself
  Lists,      \* the walk lists
  Facts,      \* the one of the facts fetchers
  MaxId,      \* bound on the modules ever loaded
  MaxLoaded,  \* bound on the modules loaded at the same time
  MaxRounds,  \* bound on the rounds ever begun
  Core        \* the core's owner id

Ids == 1..MaxId

ASSUME RoundsAssumption ==
  /\ MaxId \in Nat /\ MaxLoaded \in Nat /\ MaxRounds \in Nat /\ Facts \in Lists /\ Agent \in Sets
  /\ Owners = Ids \cup {Core} /\ Core \notin Ids

VARIABLES
  listed,    \* per list, the modules with a slot in it
  closed,    \* per list, the modules whose gate is closed
  fate,      \* per module: "new", "loaded", "purged", "unloaded", "parked" or "left"
  pc,        \* per rounder
  walking,   \* per rounder, the list it walks (None: a settings reload, or no round)
  snapshot,  \* per rounder, the slots it has not come to
  within,    \* per rounder, the module whose gate it is in
  unstored,  \* per rounder, the sets of the answer it has not stored
  produced,  \* per rounder, the sets the answer claims
  begun,     \* rounds so far
  manager,   \* what the lifecycle lock is held for
  module,    \* the module removed or purged
  waiting,   \* per list, the rounds inside the gate when it was closed
  stuck      \* at shutdown, the modules a round did not leave

roundVars == <<pc, walking, snapshot, within, unstored, produced, begun>>
managerVars == <<manager, module, stuck>>
gateVars == <<listed, closed, fate, waiting>>
vars == <<repositoryVars, roundVars, managerVars, gateVars>>

Init ==
  /\ EmptyRepository
  /\ listed = [l \in Lists |-> {}] /\ closed = [l \in Lists |-> {}]
  /\ fate = [i \in Ids |-> "new"]
  /\ pc = [r \in Rounders |-> "idle"] /\ walking = [r \in Rounders |-> None]
  /\ snapshot = [r \in Rounders |-> {}] /\ within = [r \in Rounders |-> None]
  /\ unstored = [r \in Rounders |-> {}] /\ produced = [r \in Rounders |-> {}]
  /\ begun = 0
  /\ manager = "idle" /\ module = None
  /\ waiting = [l \in Lists |-> {}] /\ stuck = {}

Goto(r, to) == pc' = [pc EXCEPT ![r] = to]

Inside(l, i) == {r \in Rounders : walking[r] = l /\ within[r] = i}

-----------------------------------------------------------------------------
(* Rounds *)

\* NSClientT::process_facts and process_metrics; l = None is the round of a
\* settings reload, which walks no module.  The scheduler is stopped before the
\* modules are, and once they are none is left to ask for a refresh.
RoundBegins(r, l) ==
  /\ pc[r] = "idle" /\ manager # "stopped"
  /\ begun < MaxRounds /\ begun' = begun + 1
  /\ walking' = [walking EXCEPT ![r] = l]
  /\ IF l \in Lists \ {Facts} THEN Goto(r, "list") /\ UNCHANGED repositoryVars
     ELSE /\ BeginRound
          /\ \E to \in IF l = None THEN {"resize"} ELSE {"resize", "agent"} : Goto(r, to)
  /\ UNCHANGED <<snapshot, within, unstored, produced, managerVars, gateVars>>

\* read_facts_max_size; a value that does not parse or is too small keeps the cap.
ReadFactsMaxSize(r) ==
  /\ pc[r] = "resize" /\ Goto(r, "agent")
  /\ \E cap \in Caps : SetMaxSize(cap)
  /\ UNCHANGED <<walking, snapshot, within, unstored, produced, begun, managerVars, gateVars>>

\* collect_agent_facts; after a set, the retain_only has nothing to drop.
CollectAgentFacts(r) ==
  /\ pc[r] = "agent" /\ Goto(r, IF walking[r] = None THEN "end" ELSE "list")
  /\ \/ \E v \in Sizes[Agent] : Set(Agent, Core, v)
     \/ RetainOnly(Core, {})
     \/ UNCHANGED repositoryVars
  /\ UNCHANGED <<walking, snapshot, within, unstored, produced, begun, managerVars, gateVars>>

\* do_all copies the slots,
CopySlots(r) ==
  /\ pc[r] = "list" /\ Goto(r, "walk")
  /\ snapshot' = [snapshot EXCEPT ![r] = listed[walking[r]]]
  /\ UNCHANGED <<walking, within, unstored, produced, begun, repositoryVars, managerVars, gateVars>>

\* and enters each module's gate, or skips the module when it is closed.
NextSlot(r) == \E i \in snapshot[r] :
  /\ pc[r] = "walk" /\ \A j \in snapshot[r] : i <= j
  /\ snapshot' = [snapshot EXCEPT ![r] = @ \ {i}]
  /\ IF i \in closed[walking[r]] THEN UNCHANGED <<pc, within>>
     ELSE Goto(r, "call") /\ within' = [within EXCEPT ![r] = i]
  /\ UNCHANGED <<walking, unstored, produced, begun, repositoryVars, managerVars, gateVars>>

\* Mutant: the gate is left when the module has answered, before its facts are stored.
CallReturnsEarly(r) ==
  /\ pc[r] = "call"
  /\ \/ Goto(r, "leave") /\ UNCHANGED <<unstored, produced, waiting>>
     \/ /\ walking[r] = Facts /\ Goto(r, "store")
        /\ unstored' = [unstored EXCEPT ![r] = Sets] /\ produced' = [produced EXCEPT ![r] = {}]
        /\ waiting' = [l \in Lists |-> waiting[l] \ {r}]
  /\ UNCHANGED <<walking, snapshot, within, begun, repositoryVars, managerVars, listed, closed, fate>>

\* fetchFacts or fetchMetrics returns.  A facts answer that is a failure (an
\* exception, no message, a result that is not OK) changes nothing.
CallReturns(r) ==
  /\ pc[r] = "call"
  /\ \/ Goto(r, "leave") /\ UNCHANGED <<unstored, produced>>
     \/ /\ walking[r] = Facts /\ Goto(r, "store")
        /\ unstored' = [unstored EXCEPT ![r] = Sets] /\ produced' = [produced EXCEPT ![r] = {}]
  /\ UNCHANGED <<walking, snapshot, within, begun, repositoryVars, managerVars, gateVars>>

\* apply_facts_response, one set of the answer: removed, claimed without
\* facts, or claimed with a new value.
StoreSet(r, s) ==
  /\ pc[r] = "store" /\ s \in unstored[r]
  /\ unstored' = [unstored EXCEPT ![r] = @ \ {s}]
  /\ \/ Remove(s) /\ UNCHANGED produced
     \/ /\ produced' = [produced EXCEPT ![r] = @ \cup {s}]
        /\ \/ UNCHANGED repositoryVars
           \/ \E v \in Sizes[s] : Set(s, within[r], v)
  /\ UNCHANGED <<pc, walking, snapshot, within, begun, managerVars, gateVars>>

\* The end of collect_facts_from: what the answer did not mention goes.
StoreDone(r) ==
  /\ pc[r] = "store" /\ Goto(r, "leave")
  /\ RetainOnly(within[r], produced[r])
  /\ unstored' = [unstored EXCEPT ![r] = {}] /\ produced' = [produced EXCEPT ![r] = {}]
  /\ UNCHANGED <<walking, snapshot, within, begun, managerVars, gateVars>>

LeaveGate(r) ==
  /\ pc[r] = "leave" /\ Goto(r, "walk")
  /\ within' = [within EXCEPT ![r] = None]
  /\ waiting' = [waiting EXCEPT ![walking[r]] = @ \ {r}]
  /\ UNCHANGED <<walking, snapshot, unstored, produced, begun, repositoryVars, managerVars, listed, closed, fate>>

\* The end of process_facts: set_errors, and the time in seconds.
WalkDone(r) ==
  /\ pc[r] = "walk" /\ snapshot[r] = {}
  /\ IF walking[r] = Facts
       THEN Goto(r, "end") /\ \E now \in {collected, collected + 1} : MarkCollected(now)
       ELSE Goto(r, "idle") /\ UNCHANGED repositoryVars
  /\ walking' = [walking EXCEPT ![r] = IF @ = Facts THEN @ ELSE None]
  /\ UNCHANGED <<snapshot, within, unstored, produced, begun, managerVars, gateVars>>

\* ~scoped_round
RoundEnds(r) ==
  /\ pc[r] = "end" /\ Goto(r, "idle") /\ EndRound
  /\ walking' = [walking EXCEPT ![r] = None]
  /\ UNCHANGED <<snapshot, within, unstored, produced, begun, managerVars, gateVars>>

Round(r) ==
  \/ \E l \in Lists \cup {None} : RoundBegins(r, l)
  \/ ReadFactsMaxSize(r) \/ CollectAgentFacts(r)
  \/ CopySlots(r) \/ NextSlot(r) \/ CallReturns(r)
  \/ (\E s \in Sets : StoreSet(r, s)) \/ StoreDone(r) \/ LeaveGate(r)
  \/ WalkDone(r) \/ RoundEnds(r)

\* The fleet sync, on its own thread, asks for the hash.
Poll == CacheHash /\ UNCHANGED <<roundVars, managerVars, gateVars>>

-----------------------------------------------------------------------------
(* The plugin manager, under the lifecycle lock *)

\* add_plugin: a new instance, in every list.
AddPlugin(i) ==
  /\ manager = "idle" /\ fate[i] = "new" /\ \A j \in 1..(i - 1) : fate[j] # "new"
  /\ Cardinality({j \in Ids : fate[j] = "loaded"}) < MaxLoaded
  /\ fate' = [fate EXCEPT ![i] = "loaded"]
  /\ listed' = [l \in Lists |-> listed[l] \cup {i}]
  /\ UNCHANGED <<closed, waiting, repositoryVars, roundVars, managerVars>>

\* close_walks for a removal, or for the purge of a module that failed to
\* load, reload or start: every list's gate is closed,
CloseWalks(i, for) ==
  /\ manager = "idle" /\ fate[i] = "loaded"
  /\ manager' = for /\ module' = i
  /\ closed' = [l \in Lists |-> IF i \in listed[l] THEN closed[l] \cup {i} ELSE closed[l]]
  /\ waiting' = [l \in Lists |-> Inside(l, i)]
  /\ fate' = IF for = "purge" THEN [fate EXCEPT ![i] = "purged"] ELSE fate
  /\ UNCHANGED <<listed, stuck, repositoryVars, roundVars>>

\* and drained under one deadline, each with its own outcome.
Drained(l) == waiting[l] = {}
AllDrained == \A l \in Lists : Drained(l)

Return == manager' = "idle" /\ module' = None /\ UNCHANGED stuck
Forget == waiting' = [l \in Lists |-> {}]

\* Mutant: a refusal leaves the gate of the list it was about closed.
RefuseHalf ==
  /\ manager = "remove" /\ Return /\ Forget
  /\ closed' = [l \in Lists |-> IF Drained(l) THEN closed[l] \ {module} ELSE closed[l]]
  /\ UNCHANGED <<listed, fate, repositoryVars, roundVars>>

\* remove_plugin refuses: a round or a log line is still inside at its
\* deadline, or the module does not unload.  Every gate is reopened.
Refuse ==
  /\ manager = "remove" /\ Return /\ Forget
  /\ closed' = [l \in Lists |-> closed[l] \ {module}]
  /\ UNCHANGED <<listed, fate, repositoryVars, roundVars>>

\* remove_plugin unloads the module and takes it out of the lists,
Unload ==
  /\ manager = "remove" /\ AllDrained
  /\ manager' = "dropFacts" /\ Forget
  /\ fate' = [fate EXCEPT ![module] = "unloaded"]
  /\ listed' = [l \in Lists |-> listed[l] \ {module}]
  /\ UNCHANGED <<closed, module, stuck, repositoryVars, roundVars>>

\* and its facts out of the repository.
DropFacts ==
  /\ manager = "dropFacts" /\ Return
  /\ RemoveOwnedBy(module)
  /\ UNCHANGED <<gateVars, roundVars>>

\* Mutant: a purge takes the module out of every list, drained or not.
FinishPurgeForgets(delivering) ==
  /\ manager = "purge" /\ Forget
  /\ listed' = [l \in Lists |-> listed[l] \ {module}]
  /\ manager' = IF AllDrained /\ ~delivering THEN "dropPurged" ELSE "dropParked"
  /\ UNCHANGED <<closed, fate, module, stuck, repositoryVars, roundVars>>

\* purge_broken_plugin finishes each list with its own outcome: a slot a round
\* is still inside stays, closed.  delivering: a log line is inside instead.
FinishPurge(delivering) ==
  /\ manager = "purge" /\ Forget
  /\ listed' = [l \in Lists |-> IF Drained(l) THEN listed[l] \ {module} ELSE listed[l]]
  /\ manager' = IF AllDrained /\ ~delivering THEN "dropPurged" ELSE "dropParked"
  /\ UNCHANGED <<closed, fate, module, stuck, repositoryVars, roundVars>>

\* It then drops the facts, and unloads the module unless it was parked.  (A
\* module that refuses, here or at shutdown, for a call PluginDispatch models,
\* stays mapped for good: the unload that takes place is the one to fear.)
DropPurgedFacts ==
  /\ manager \in {"dropPurged", "dropParked"} /\ Return
  /\ RemoveOwnedBy(module)
  /\ fate' = [fate EXCEPT ![module] = IF manager = "dropParked" THEN "parked" ELSE "unloaded"]
  /\ UNCHANGED <<listed, closed, waiting, roundVars>>

\* stop_plugins: remove_all closes, empties and drains one list after another,
\* that of the facts last; the modules a round did not leave in time are
\* neither unloaded nor released.
RemoveAll(l) ==
  /\ manager \in {"idle", "stop"} /\ listed[l] # {} /\ (l = Facts => \A k \in Lists \ {Facts} : listed[k] = {})
  /\ closed' = [closed EXCEPT ![l] = @ \cup listed[l]]
  /\ listed' = [listed EXCEPT ![l] = {}]
  /\ waiting' = [waiting EXCEPT ![l] = UNION {Inside(l, i) : i \in listed[l]}]
  /\ manager' = "drain" /\ UNCHANGED <<fate, module, stuck, repositoryVars, roundVars>>

DrainAll ==
  /\ manager = "drain" /\ manager' = "stop" /\ Forget
  /\ stuck' = stuck \cup {within[r] : r \in UNION {waiting[l] : l \in Lists}}
  /\ UNCHANGED <<listed, closed, fate, module, repositoryVars, roundVars>>

UnloadAll ==
  /\ manager \in {"idle", "stop"} /\ \A l \in Lists : listed[l] = {}
  /\ manager' = "stopped"
  /\ fate' = [i \in Ids |-> IF fate[i] \notin {"loaded", "parked"} THEN fate[i]
                            ELSE IF i \in stuck THEN "left" ELSE "unloaded"]
  /\ UNCHANGED <<listed, closed, waiting, module, stuck, repositoryVars, roundVars>>

Manage ==
  \/ \E i \in Ids : AddPlugin(i) \/ CloseWalks(i, "remove") \/ CloseWalks(i, "purge")
  \/ Refuse \/ Unload \/ DropFacts
  \/ (\E delivering \in BOOLEAN : FinishPurge(delivering)) \/ DropPurgedFacts
  \/ (\E l \in Lists : RemoveAll(l)) \/ DrainAll \/ UnloadAll

Next == (\E r \in Rounders : Round(r)) \/ Poll \/ Manage

Spec == Init /\ [][Next]_vars

-----------------------------------------------------------------------------
(* Properties *)

IsDocument(d) == DOMAIN d = Sets /\ \A s \in Sets : d[s] \in Sizes[s] \cup {0}

RoundTypes ==
  /\ pc \in [Rounders -> {"idle", "resize", "agent", "list", "walk", "call", "store", "leave", "end"}]
  /\ walking \in [Rounders -> Lists \cup {None}] /\ snapshot \in [Rounders -> SUBSET Ids]
  /\ within \in [Rounders -> Ids \cup {None}]
  /\ unstored \in [Rounders -> SUBSET Sets] /\ produced \in [Rounders -> SUBSET Sets]

ManagerTypes ==
  /\ listed \in [Lists -> SUBSET Ids] /\ closed \in [Lists -> SUBSET Ids]
  /\ fate \in [Ids -> {"new", "loaded", "purged", "unloaded", "parked", "left"}]
  /\ manager \in {"idle", "remove", "dropFacts", "purge", "dropPurged", "dropParked", "stop", "drain", "stopped"}
  /\ module \in Ids \cup {None} /\ waiting \in [Lists -> SUBSET Rounders] /\ stuck \subseteq Ids

\* Every variable has its type.
TypeOK ==
  /\ IsDocument(sets) /\ owner \in [Sets -> Owners \cup {None}]
  /\ size \in Nat /\ maxSize \in Caps
  /\ collected \in Nat /\ rounds \in Nat
  /\ hash = None \/ IsDocument(hash)
  /\ RoundTypes /\ ManagerTypes

\* What the fleet sync hashes and uploads is a document no round was at work
\* on: its sets, its hash and its time of collection are those of the last
\* moment without a round, however many overlap, and whatever they or a
\* removal change meanwhile (begin_round, freeze_locked, get_snapshot).
SnapshotWhole ==
  /\ SnapshotJson = published.json /\ GetHash = published.json
  /\ SnapshotCollected = published.collected

\* The repository's books agree: a set is owned as long as it is held, the
\* size kept by differences is that of the sets, and it is within the cap,
\* also right after the cap was lowered (set, erase_locked, set_max_size).
BooksBalance ==
  /\ TypeOK
  /\ \A s \in Sets : sets[s] > 0 <=> owner[s] # None
  /\ size = Bytes(Sets) /\ size <= maxSize

\* A module's gates as one: it is open as long as the gate of some list is.
WalkDoor ==
  [i \in Ids |-> IF fate[i] = "unloaded" THEN "down"
                 ELSE IF \E l \in Lists : i \notin closed[l] THEN "open" ELSE "closed"]
RoundersInside == [i \in Ids |-> {r \in Rounders : within[r] = i}]

\* A round is let into a module only by an open gate, and the module is torn
\* down only once every round has left it, whatever list it came from and
\* however long it stays: the walk lists implement ModuleGate.  (do_all,
\* close_walks, finish, remove_all)
Gate == INSTANCE ModuleGate WITH
  Modules <- Ids, Visitors <- Rounders, door <- WalkDoor, inside <- RoundersInside
RoundsKeepTheGate == Gate!Spec

Alive(p) == p = Core \/ fate[p] = "loaded"

\* "A frozen fact set from a module that is no longer running is worse than
\* none" (remove_plugin, purge_broken_plugin): once a removal or purge is
\* over, the facts held are of modules still loaded.  The one exception is a
\* module purged while a facts round was stuck in it, whose closed slot is still
\* listed: that round stores its answer after the facts were dropped, and
\* nothing drops them again.  A module parked for a log line or a metrics round
\* is no exception.
FactsGoWithModule ==
  manager = "idle" => \A p \in Owners :
    OwnedBy(p) # {} => Alive(p) \/ (fate[p] = "parked" /\ p \in listed[Facts])

\* A loaded module is in every walk list with its gate open, also after an
\* unload that was refused, and a module that is gone is in none, except the
\* closed slot a stuck round keeps for the shutdown to wait for (closing).
EveryRoundReachesLoaded ==
  manager = "idle" =>
    \A i \in Ids, l \in Lists :
      /\ fate[i] = "loaded" => i \in listed[l] \ closed[l]
      /\ i \in listed[l] => fate[i] = "loaded" \/ (fate[i] = "parked" /\ i \in closed[l])
=============================================================================
