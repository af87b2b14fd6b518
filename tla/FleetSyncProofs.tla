-------------------------- MODULE FleetSyncProofs --------------------------
(***************************************************************************)
(* Proofs about FleetSync, for every set of states, contents and scripts,  *)
(* and any number of crashes and failures.                                 *)
(***************************************************************************)
EXTENDS FleetSync, TLAPS

(***************************************************************************)
(* The inductive invariant, in three parts.                                *)
(*                                                                         *)
(* While an apply or a recovery is at work the directory counts as torn,   *)
(* and what has been put in place is the target's: so the record that ends *)
(* the apply is true of the directory.                                     *)
(***************************************************************************)
Applying == {"fetch", "cache", "stage", "ini", "aside", "promote", "cleanup", "save", "report", "rollback"}

SwapInv ==
  /\ pc \in {"recover", "aside", "promote", "cleanup", "save", "rollback"} => torn
  /\ pc \in Applying => target \in States
  /\ pc \in {"aside", "promote", "cleanup"} => ini = ContentOf[target]
  /\ pc = "promote" => scripts \subseteq Tree(ContentOf[target])
  /\ pc = "cleanup" => scripts = Tree(ContentOf[target])
  /\ pc = "save" => current = target /\ InSync(target)
  /\ SyncedUnlessTorn

(***************************************************************************)
(* The whole tree is in scripts.old exactly while something else may be in *)
(* its place: from the moment it was moved aside until the new one is      *)
(* complete, or the old one is back.                                       *)
(***************************************************************************)
Survivable == had /\ ~cut /\ (fails = 0 \/ (fails = 1 /\ crashes = 0))

TreeInv ==
  /\ pc = "rollback" => fails > 0
  /\ crashes + fails = 0 => pc # "recover" /\ (old # {} => pc \in {"promote", "cleanup"})
  /\ Survivable =>
       /\ pc \in {"promote", "rollback", "recover"} => Whole(old)
       /\ pc \notin {"promote", "rollback", "recover", "off"} => Whole(scripts)
       /\ pc = "off" => Whole(scripts) \/ Whole(old)

(***************************************************************************)
(* An apply that asks for no reload has rendered what is in place already. *)
(***************************************************************************)
ReloadInv ==
  crashes + fails = 0 =>
    /\ pc \in {"off", "poll", "fetch", "cache", "stage", "ini", "report"} => ~torn
    /\ pc \in {"poll", "fetch", "cache", "stage", "ini"} => running = ini \/ pendingReload
    /\ pc = "ini" => reloadNeeded \/ ContentOf[target] = ContentHash
    /\ pc \in {"aside", "promote", "cleanup", "save", "report"} => running = ini \/ pendingReload \/ reloadNeeded

IInv == TypeOK /\ SwapInv /\ TreeInv /\ ReloadInv

-----------------------------------------------------------------------------
(* Each part is preserved by every step. *)

\* No tree at all is not a whole one, and a tree has nothing but a directory
\* and scripts.
LEMMA TreeFacts ==
  /\ ~Whole({})
  /\ \A c \in Contents : Tree(c) \subseteq {Dir} \cup (WithScripts \X Files)
BY Zenon DEF Whole, Tree

\* Trees stay trees: remove_all and promote_tree keep the directory as long as
\* there is a file in it.
LEMMA TypeStep ==
  ASSUME TypeOK, SwapInv, [Next]_vars
  PROVE  TypeOK'
<1> USE FleetAssumption DEF TypeOK, SwapInv, Applying, Trees, disk, memory, core, faults, history
<1>1. CASE Boot
  BY <1>1, Zenon DEF Boot, LoadAppliedState
<1>2. CASE Retry
  BY <1>2, Zenon DEF Retry, LoadAppliedState
<1>3. CASE RecoverRemove
  BY <1>3 DEF RecoverRemove, Removable
<1>4. CASE RecoverRename
  BY <1>4, Zenon DEF RecoverRename, Recovered
<1>5. CASE RecoverFails
  BY <1>5 DEF RecoverFails, Recovered, Failed
<1>6. CASE Poll
  BY <1>6, Zenon DEF Poll
<1>7. CASE FetchStale
  BY <1>7, Zenon DEF FetchStale, GiveUp
<1>8. CASE FetchCached
  BY <1>8, Zenon DEF FetchCached, GiveUp
<1>9. CASE FetchDownload
  BY <1>9, Zenon DEF FetchDownload
<1>10. CASE FetchWrite
  BY <1>10, Zenon DEF FetchWrite
<1>11. CASE Stage
  BY <1>11, Zenon DEF Stage
<1>12. CASE SwapIni
  BY <1>12 DEF SwapIni
<1>13. CASE RemoveOld
  BY <1>13 DEF RemoveOld, Removable
<1>14. CASE MoveAside
  BY <1>14, Zenon DEF MoveAside
<1>15. CASE Promote
  <2>1. PICK e \in Tree(ContentOf[target]) : (e = Dir \/ Dir \in scripts) /\ scripts' = scripts \cup {e}
    BY <1>15, Zenon DEF Promote
  <2>2. e \in {Dir} \cup (WithScripts \X Files)
    BY <1>15, <2>1, TreeFacts, Zenon DEF Promote
  <2>3. scripts' \in Trees
    BY <2>1, <2>2, Zenon
  <2>. QED
    BY <1>15, <2>3, Zenon DEF Promote
<1>16. CASE Promoted
  <2>1. had' \in BOOLEAN
    BY <1>16 DEF Promoted
  <2>2. pc' = "cleanup" /\ cut' = FALSE /\ UNCHANGED <<desired, disk, memory, core, faults, torn>>
    BY <1>16, Zenon DEF Promoted
  <2>. QED
    BY <2>1, <2>2, Zenon
<1>17. CASE Commit
  BY <1>17, Zenon DEF Commit
<1>18. CASE SaveAppliedState
  BY <1>18, Zenon DEF SaveAppliedState
<1>19. CASE Report
  BY <1>19, Zenon DEF Report, GiveUp
<1>20. CASE RollbackRemove
  BY <1>20 DEF RollbackRemove, Removable
<1>21. CASE RollbackRename
  BY <1>21, Zenon DEF RollbackRename, GiveUp
<1>22. CASE ApplyFails
  <2>1. {reloadNeeded, pendingReload, torn, had, cut}' \subseteq BOOLEAN
    BY <1>22, Zenon DEF ApplyFails, GiveUp, Failed
  <2>. QED
    BY <1>22, <2>1 DEF ApplyFails, GiveUp, Failed
<1>23. CASE PromoteFails
  BY <1>23 DEF PromoteFails, Failed
<1>24. CASE RemoveOldFails
  BY <1>24 DEF RemoveOldFails, Failed
<1>25. CASE CommitFails
  <2>1. {reloadNeeded, pendingReload, torn, had, cut}' \subseteq BOOLEAN
    BY <1>25, Zenon DEF CommitFails, Failed, GiveUp
  <2>. QED
    BY <1>25, <2>1 DEF CommitFails, Failed, GiveUp
<1>26. CASE Crash
  <2>1. {reloadNeeded, pendingReload, torn, had, cut}' \subseteq BOOLEAN
    BY <1>26, Zenon DEF Crash, ProcessEnds
  <2>. QED
    BY <1>26, <2>1 DEF Crash, ProcessEnds
<1>27. CASE StopService
  BY <1>27, Zenon DEF StopService, ProcessEnds
<1>28. CASE ServerMoves
  BY <1>28, Zenon DEF ServerMoves
<1>29. CASE Reload
  BY <1>29, Zenon DEF Reload
<1>30. CASE UNCHANGED vars
  BY <1>30, Zenon DEF vars
<1>. QED
  BY <1>1, <1>2, <1>3, <1>4, <1>5, <1>6, <1>7, <1>8, <1>9, <1>10, <1>11, <1>12, <1>13, <1>14, <1>15, <1>16, <1>17,
     <1>18, <1>19, <1>20, <1>21, <1>22, <1>23, <1>24, <1>25, <1>26, <1>27, <1>28, <1>29, <1>30, Zenon DEF Next, Sync

\* What apply_state records is what it has put in place.
LEMMA SwapStep ==
  ASSUME TypeOK, SwapInv, [Next]_vars
  PROVE  SwapInv'
<1> USE FleetAssumption DEF TypeOK, SwapInv, Applying, SyncedUnlessTorn, InSync, disk, memory, core, faults, history
<1>1. CASE Boot
  BY <1>1, Zenon DEF Boot, LoadAppliedState
<1>2. CASE Retry
  BY <1>2, Zenon DEF Retry, LoadAppliedState
<1>3. CASE RecoverRemove
  BY <1>3, Zenon DEF RecoverRemove, Removable
<1>4. CASE RecoverRename
  BY <1>4, Zenon DEF RecoverRename, Recovered
<1>5. CASE RecoverFails
  BY <1>5, Zenon DEF RecoverFails, Recovered, Failed
<1>6. CASE Poll
  BY <1>6, Zenon DEF Poll
<1>7. CASE FetchStale
  BY <1>7, Zenon DEF FetchStale, GiveUp
<1>8. CASE FetchCached
  BY <1>8, Zenon DEF FetchCached, GiveUp
<1>9. CASE FetchDownload
  BY <1>9, Zenon DEF FetchDownload
<1>10. CASE FetchWrite
  BY <1>10, Zenon DEF FetchWrite
<1>11. CASE Stage
  BY <1>11, Zenon DEF Stage
<1>12. CASE SwapIni
  BY <1>12, Zenon DEF SwapIni
<1>13. CASE RemoveOld
  BY <1>13, Zenon DEF RemoveOld, Removable
<1>14. CASE MoveAside
  BY <1>14, Zenon DEF MoveAside
<1>15. CASE Promote
  BY <1>15, Zenon DEF Promote
<1>16. CASE Promoted
  BY <1>16, Zenon DEF Promoted
<1>17. CASE Commit
  BY <1>17, Zenon DEF Commit
<1>18. CASE SaveAppliedState
  BY <1>18, Zenon DEF SaveAppliedState
<1>19. CASE Report
  BY <1>19, Zenon DEF Report, GiveUp
<1>20. CASE RollbackRemove
  BY <1>20, Zenon DEF RollbackRemove, Removable
<1>21. CASE RollbackRename
  BY <1>21, Zenon DEF RollbackRename, GiveUp
<1>22. CASE ApplyFails
  BY <1>22, Zenon DEF ApplyFails, GiveUp, Failed
<1>23. CASE PromoteFails
  BY <1>23, Zenon DEF PromoteFails, Failed
<1>24. CASE RemoveOldFails
  BY <1>24, Zenon DEF RemoveOldFails, Failed
<1>25. CASE CommitFails
  BY <1>25, Zenon DEF CommitFails, Failed, GiveUp
<1>26. CASE Crash
  BY <1>26, Zenon DEF Crash, ProcessEnds
<1>27. CASE StopService
  BY <1>27, Zenon DEF StopService, ProcessEnds
<1>28. CASE ServerMoves
  BY <1>28, Zenon DEF ServerMoves
<1>29. CASE Reload
  BY <1>29, Zenon DEF Reload
<1>30. CASE UNCHANGED vars
  BY <1>30, Zenon DEF vars
<1>. QED
  BY <1>1, <1>2, <1>3, <1>4, <1>5, <1>6, <1>7, <1>8, <1>9, <1>10, <1>11, <1>12, <1>13, <1>14, <1>15, <1>16, <1>17,
     <1>18, <1>19, <1>20, <1>21, <1>22, <1>23, <1>24, <1>25, <1>26, <1>27, <1>28, <1>29, <1>30, Zenon DEF Next, Sync

\* The tree that was moved aside is not touched before the next one is whole.
LEMMA TreeStep ==
  ASSUME TypeOK, SwapInv, TreeInv, [Next]_vars
  PROVE  TreeInv'
<1> USE FleetAssumption DEF TypeOK, SwapInv, TreeInv, Survivable, disk, memory, core, faults, history
<1>1. CASE Boot
  BY <1>1, TreeFacts, Zenon DEF Boot, LoadAppliedState
<1>2. CASE Retry
  BY <1>2, Zenon DEF Retry, LoadAppliedState
<1>3. CASE RecoverRemove
  BY <1>3, Zenon DEF RecoverRemove, Removable
<1>4. CASE RecoverRename
  BY <1>4, Zenon DEF RecoverRename, Recovered
<1>5. CASE RecoverFails
  BY <1>5 DEF RecoverFails, Recovered, Failed
<1>6. CASE Poll
  BY <1>6, Zenon DEF Poll
<1>7. CASE FetchStale
  BY <1>7, Zenon DEF FetchStale, GiveUp
<1>8. CASE FetchCached
  BY <1>8, Zenon DEF FetchCached, GiveUp
<1>9. CASE FetchDownload
  BY <1>9, Zenon DEF FetchDownload
<1>10. CASE FetchWrite
  BY <1>10, Zenon DEF FetchWrite
<1>11. CASE Stage
  BY <1>11, Zenon DEF Stage
<1>12. CASE SwapIni
  BY <1>12, Zenon DEF SwapIni
<1>13. CASE RemoveOld
  BY <1>13, Zenon DEF RemoveOld, Removable
<1>14. CASE MoveAside
  BY <1>14, Zenon DEF MoveAside
<1>15. CASE Promote
  BY <1>15, Zenon DEF Promote
<1>16. CASE Promoted
  <2>1. had' <=> ContentOf[target] \in WithScripts
    BY <1>16, Zenon DEF Promoted
  <2>2. pc' = "cleanup" /\ UNCHANGED <<scripts, old, faults>> /\ scripts = Tree(ContentOf[target])
    BY <1>16, Zenon DEF Promoted
  <2>3. had' => Whole(scripts)'
    BY <2>1, <2>2, Zenon DEF Whole
  <2>. QED
    BY <1>16, <2>2, <2>3, Zenon
<1>17. CASE Commit
  BY <1>17, Zenon DEF Commit
<1>18. CASE SaveAppliedState
  BY <1>18, Zenon DEF SaveAppliedState
<1>19. CASE Report
  BY <1>19, Zenon DEF Report, GiveUp
<1>20. CASE RollbackRemove
  BY <1>20, Zenon DEF RollbackRemove, Removable
<1>21. CASE RollbackRename
  BY <1>21, Zenon DEF RollbackRename, GiveUp
<1>22. CASE ApplyFails
  BY <1>22 DEF ApplyFails, GiveUp, Failed
<1>23. CASE PromoteFails
  BY <1>23 DEF PromoteFails, Failed
<1>24. CASE RemoveOldFails
  BY <1>24 DEF RemoveOldFails, Failed
<1>25. CASE CommitFails
  BY <1>25 DEF CommitFails, Failed, GiveUp
<1>26. CASE Crash
  BY <1>26 DEF Crash, ProcessEnds
<1>27. CASE StopService
  BY <1>27, Zenon DEF StopService, ProcessEnds
<1>28. CASE ServerMoves
  BY <1>28, Zenon DEF ServerMoves
<1>29. CASE Reload
  BY <1>29, Zenon DEF Reload
<1>30. CASE UNCHANGED vars
  BY <1>30, Zenon DEF vars
<1>. QED
  BY <1>1, <1>2, <1>3, <1>4, <1>5, <1>6, <1>7, <1>8, <1>9, <1>10, <1>11, <1>12, <1>13, <1>14, <1>15, <1>16, <1>17,
     <1>18, <1>19, <1>20, <1>21, <1>22, <1>23, <1>24, <1>25, <1>26, <1>27, <1>28, <1>29, <1>30, Zenon DEF Next, Sync

\* A reload is asked for unless the service runs what is there.
LEMMA ReloadStep ==
  ASSUME IInv, [Next]_vars
  PROVE  ReloadInv'
<1> USE FleetAssumption DEF IInv, TypeOK, SwapInv, TreeInv, ReloadInv, ContentHash, SyncedUnlessTorn, InSync, Applying, disk, memory, core, faults, history
<1>1. CASE Boot
  BY <1>1, Zenon DEF Boot, LoadAppliedState
<1>2. CASE Retry
  BY <1>2, Zenon DEF Retry, LoadAppliedState
<1>3. CASE RecoverRemove
  BY <1>3, Zenon DEF RecoverRemove, Removable
<1>4. CASE RecoverRename
  BY <1>4, Zenon DEF RecoverRename, Recovered
<1>5. CASE RecoverFails
  BY <1>5 DEF RecoverFails, Recovered, Failed
<1>6. CASE Poll
  BY <1>6, Zenon DEF Poll
<1>7. CASE FetchStale
  BY <1>7, Zenon DEF FetchStale, GiveUp
<1>8. CASE FetchCached
  BY <1>8, Zenon DEF FetchCached, GiveUp
<1>9. CASE FetchDownload
  BY <1>9, Zenon DEF FetchDownload
<1>10. CASE FetchWrite
  BY <1>10, Zenon DEF FetchWrite
<1>11. CASE Stage
  BY <1>11, Zenon DEF Stage
<1>12. CASE SwapIni
  BY <1>12 DEF SwapIni
<1>13. CASE RemoveOld
  BY <1>13, Zenon DEF RemoveOld, Removable
<1>14. CASE MoveAside
  BY <1>14, Zenon DEF MoveAside
<1>15. CASE Promote
  BY <1>15, Zenon DEF Promote
<1>16. CASE Promoted
  BY <1>16, Zenon DEF Promoted
<1>17. CASE Commit
  BY <1>17, Zenon DEF Commit
<1>18. CASE SaveAppliedState
  BY <1>18, Zenon DEF SaveAppliedState
<1>19. CASE Report
  BY <1>19, Zenon DEF Report, GiveUp
<1>20. CASE RollbackRemove
  BY <1>20, Zenon DEF RollbackRemove, Removable
<1>21. CASE RollbackRename
  BY <1>21 DEF RollbackRename, GiveUp
<1>22. CASE ApplyFails
  BY <1>22 DEF ApplyFails, GiveUp, Failed
<1>23. CASE PromoteFails
  BY <1>23, Zenon DEF PromoteFails, Failed
<1>24. CASE RemoveOldFails
  BY <1>24 DEF RemoveOldFails, Failed
<1>25. CASE CommitFails
  BY <1>25 DEF CommitFails, Failed, GiveUp
<1>26. CASE Crash
  BY <1>26 DEF Crash, ProcessEnds
<1>27. CASE StopService
  BY <1>27, Zenon DEF StopService, ProcessEnds
<1>28. CASE ServerMoves
  BY <1>28, Zenon DEF ServerMoves
<1>29. CASE Reload
  BY <1>29, Zenon DEF Reload
<1>30. CASE UNCHANGED vars
  BY <1>30, Zenon DEF vars
<1>. QED
  BY <1>1, <1>2, <1>3, <1>4, <1>5, <1>6, <1>7, <1>8, <1>9, <1>10, <1>11, <1>12, <1>13, <1>14, <1>15, <1>16, <1>17,
     <1>18, <1>19, <1>20, <1>21, <1>22, <1>23, <1>24, <1>25, <1>26, <1>27, <1>28, <1>29, <1>30, Zenon DEF Next, Sync

-----------------------------------------------------------------------------
(* The theorems *)

\* A host on which no state was ever applied satisfies the invariant.
LEMMA InitIInv == Init => IInv
<1> SUFFICES ASSUME Init PROVE IInv
  OBVIOUS
<1> USE FleetAssumption DEF Init
<1>1. TypeOK
  <2>1. {reloadNeeded, pendingReload, torn, had, cut} \subseteq BOOLEAN
    BY Zenon
  <2>. QED
    BY <2>1 DEF TypeOK, Trees
<1>2. SwapInv
  BY Zenon DEF SwapInv, Applying, SyncedUnlessTorn
<1>3. TreeInv /\ ReloadInv
  BY Zenon DEF TreeInv, ReloadInv, Survivable
<1>. QED
  BY <1>1, <1>2, <1>3, Zenon DEF IInv

\* The invariant holds in every state of every behaviour of the fleet sync.
THEOREM InvariantHolds == Spec => []IInv
<1>1. IInv /\ [Next]_vars => IInv'
  BY TypeStep, SwapStep, TreeStep, ReloadStep, Zenon DEF IInv
<1>. QED
  BY <1>1, InitIInv, PTL DEF Spec

\* What applied-state.json and the next poll claim is what the directory holds,
\* unless an apply was cut short or failed since (save_applied_state,
\* load_applied_state): whatever was rendered, and however often the process
\* was killed and operations failed.
THEOREM ClaimsAreTrue == Spec => []SyncedUnlessTorn
<1>1. IInv => SyncedUnlessTorn
  BY Zenon DEF IInv, SwapInv
<1>. QED
  BY <1>1, InvariantHolds, PTL

\* The swap of apply_state keeps a whole tree of scripts, in place or in
\* scripts.old, over any number of crashes or one failed operation.
THEOREM TreeSurvives == Spec => []OneWholeTree
<1>1. IInv => OneWholeTree
  BY Zenon DEF IInv, TreeInv, OneWholeTree, Survivable, TypeOK
<1>. QED
  BY <1>1, InvariantHolds, PTL

\* The service runs, or is about to reload, what the sync has put in place, in
\* every behaviour without crash or failure (poll_once, apply_state).
THEOREM ServiceFollows == Spec => []ReloadFollows
<1>1. IInv => ReloadFollows
  BY Zenon DEF IInv, ReloadInv, ReloadFollows
<1>. QED
  BY <1>1, InvariantHolds, PTL
=============================================================================
