----------------------------- MODULE FleetSync -----------------------------
(***************************************************************************)
(* The fleet sync (service/fleet_sync.cpp): a thread that polls a server   *)
(* for the state this host should be in, downloads the bundle of that      *)
(* state, and swaps the rendered fleet.ini and the tree of scripts into    *)
(* the managed directory, while the process may be killed between any two  *)
(* file operations, any of them may fail, and the core may reload the      *)
(* configuration at any time.                                              *)
(*                                                                         *)
(* The managed directory is the only state that survives.  A tree is the   *)
(* set of its entries, the directory itself included, since remove_all and *)
(* promote_tree work on it entry by entry; a rename is one step.  What is  *)
(* written is there after a kill: losing it in a power cut is not modelled.*)
(***************************************************************************)
EXTENDS Naturals

CONSTANTS
  States,       \* desired states, named by their state_hash
  Contents,     \* what a state renders to: fleet.ini and scripts
  ContentOf,    \* the content of each state; several may render the same
  WithScripts,  \* the contents that have scripts
  Files,        \* the scripts of such a content
  None, Unreadable,
  MaxCrashes,   \* bound: kills of the process
  MaxFails      \* bound: operations that fail

ASSUME FleetAssumption ==
  /\ ContentOf \in [States -> Contents] /\ WithScripts \subseteq Contents
  /\ {None, Unreadable} \cap (States \cup Contents \cup Files) = {} /\ None # Unreadable
  /\ MaxCrashes \in Nat /\ MaxFails \in Nat

VARIABLES
  desired,        \* the server's desired state
  \* the managed directory
  ini,            \* content of fleet.ini
  scripts, old,   \* the trees scripts and scripts.old
  applied,        \* the state in applied-state.json (None: no such file)
  cached,         \* cache: the bundle file of each state
  \* the sync thread
  pc,
  current,        \* current_hash_, and with it content_hash_
  target,         \* the desired state being applied
  reloadNeeded,
  \* the core
  running,        \* the content the service runs with
  pendingReload,  \* a reload was handed to the core's scheduler
  \* history
  crashes, fails,
  torn,     \* the directory has been changed since an apply was last recorded
  had,      \* the last complete promote put scripts in place
  cut       \* since then a boot found scripts.old partly removed

disk == <<ini, scripts, old, applied, cached>>
memory == <<current, target, reloadNeeded>>
core == <<running, pendingReload>>
faults == <<crashes, fails>>
history == <<torn, had, cut>>
vars == <<desired, disk, pc, memory, core, faults, history>>

-----------------------------------------------------------------------------
(* Trees *)

Dir == <<None, None>>
Tree(c) == IF c \in WithScripts THEN {Dir} \cup ({c} \X Files) ELSE {}
Whole(tree) == \E c \in WithScripts : tree = Tree(c)

\* remove_all removes the files before their directory.
Removable(tree) == IF tree = {Dir} THEN tree ELSE tree \ {Dir}

ContentHash == IF current = None THEN None ELSE ContentOf[current]

Init ==
  /\ desired \in States
  /\ ini = None /\ scripts = {} /\ old = {} /\ applied = None
  /\ cached = [s \in States |-> "none"]
  /\ pc = "off" /\ current = None /\ target = None /\ reloadNeeded = FALSE
  /\ running = None /\ pendingReload = FALSE
  /\ crashes = 0 /\ fails = 0 /\ torn = FALSE /\ had = FALSE /\ cut = FALSE

-----------------------------------------------------------------------------
(* run: load_applied_state and recover_interrupted_apply *)

LoadAppliedState ==
  /\ current' = CASE applied = None -> current
                  [] applied = Unreadable -> None
                  [] OTHER -> applied
  /\ pc' = IF old = {} THEN "poll" ELSE "recover"
  /\ torn' = (torn \/ old # {})
  /\ cut' = (cut \/ (old # {} /\ ~Whole(old)))
  /\ UNCHANGED <<target, reloadNeeded, had>>

\* The service boots with the fleet.ini that is there.
Boot ==
  /\ pc = "off"
  /\ running' = ini /\ pendingReload' = FALSE
  /\ LoadAppliedState
  /\ UNCHANGED <<desired, disk, faults>>

\* Something escaped run(): thread_proc starts it again in the same process.
Retry ==
  /\ pc = "poll"
  /\ LoadAppliedState
  /\ UNCHANGED <<desired, disk, core, faults>>

RecoverRemove ==
  /\ pc = "recover"
  /\ \E e \in Removable(scripts) : scripts' = scripts \ {e}
  /\ UNCHANGED <<desired, ini, old, applied, cached, pc, memory, core, faults, history>>

Recovered == pc' = "poll" /\ current' = None

RecoverRename ==
  /\ pc = "recover" /\ scripts = {}
  /\ scripts' = old /\ old' = {}
  /\ Recovered
  /\ UNCHANGED <<desired, ini, applied, cached, target, reloadNeeded, core, faults, history>>

Failed == fails < MaxFails /\ fails' = fails + 1

\* Both operations ignore errors.
RecoverFails ==
  /\ pc = "recover" /\ Failed
  /\ Recovered
  /\ UNCHANGED <<desired, disk, target, reloadNeeded, core, crashes, history>>

-----------------------------------------------------------------------------
(* poll_once.  A poll that fails, and a 304 (the server's desired state is *)
(* the current_hash the poll carries), change nothing.                     *)

Poll ==
  /\ pc = "poll" /\ desired # current
  /\ target' = desired /\ pc' = "fetch"
  /\ UNCHANGED <<desired, disk, current, reloadNeeded, core, faults, history>>

\* Back to polling: the apply failed, or the state was superseded meanwhile.
GiveUp == pc' = "poll" /\ target' = None /\ reloadNeeded' = FALSE

FetchStale ==
  /\ pc = "fetch" /\ cached[target] = "none" /\ desired # target
  /\ GiveUp
  /\ UNCHANGED <<desired, disk, current, core, faults, history>>

\* Mutant: a cache hit hands out no bytes, which then fail their verification.
FetchCachedEmpty ==
  /\ pc = "fetch" /\ cached[target] # "none"
  /\ GiveUp
  /\ UNCHANGED <<desired, disk, current, core, faults, history>>

\* A cached bundle is never downloaded again; one that was cut short while it
\* was written fails its verification.
FetchCached ==
  /\ pc = "fetch" /\ cached[target] # "none"
  /\ IF cached[target] = "whole" THEN pc' = "stage" /\ UNCHANGED <<target, reloadNeeded>> ELSE GiveUp
  /\ UNCHANGED <<desired, disk, current, core, faults, history>>

\* Downloaded and verified: the file is opened, then written.
FetchDownload ==
  /\ pc = "fetch" /\ cached[target] = "none"
  /\ cached' = [cached EXCEPT ![target] = "cut"] /\ pc' = "cache"
  /\ UNCHANGED <<desired, ini, scripts, old, applied, memory, core, faults, history>>

FetchWrite ==
  /\ pc = "cache"
  /\ cached' = [cached EXCEPT ![target] = "whole"] /\ pc' = "stage"
  /\ UNCHANGED <<desired, ini, scripts, old, applied, memory, core, faults, history>>

-----------------------------------------------------------------------------
(* apply_state *)

\* Mutant: only the first apply of a process asks for a reload.
StageFirst ==
  /\ pc = "stage" /\ pc' = "ini"
  /\ reloadNeeded' = (current = None)
  /\ UNCHANGED <<desired, disk, current, target, core, faults, history>>

\* Everything is rendered into the staging directory, which nothing but this
\* apply reads.
Stage ==
  /\ pc = "stage" /\ pc' = "ini"
  /\ reloadNeeded' = (ContentOf[target] # ContentHash)
  /\ UNCHANGED <<desired, disk, current, target, core, faults, history>>

SwapIni ==
  /\ pc = "ini" /\ pc' = "aside"
  /\ ini' = ContentOf[target] /\ torn' = TRUE
  /\ UNCHANGED <<desired, scripts, old, applied, cached, memory, core, faults, had, cut>>

\* remove_all(scripts_old) before the swap, and again after it.
RemoveOld ==
  /\ pc \in {"aside", "cleanup"}
  /\ \E e \in Removable(old) : old' = old \ {e}
  /\ UNCHANGED <<desired, ini, scripts, applied, cached, pc, memory, core, faults, history>>

\* Mutant: the new files are promoted onto the live tree.
MoveAsideKept ==
  /\ pc = "aside" /\ old = {} /\ pc' = "promote"
  /\ UNCHANGED <<desired, disk, memory, core, faults, history>>

\* Mutant: the live tree is deleted rather than moved aside.
MoveAsideDeletes ==
  /\ pc = "aside" /\ old = {} /\ pc' = "promote"
  /\ scripts' = {}
  /\ UNCHANGED <<desired, ini, old, applied, cached, memory, core, faults, history>>

MoveAside ==
  /\ pc = "aside" /\ old = {} /\ pc' = "promote"
  /\ old' = scripts /\ scripts' = {}
  /\ UNCHANGED <<desired, ini, applied, cached, memory, core, faults, history>>

\* promote_tree: the directory is made, then the files are moved one by one.
Promote ==
  /\ pc = "promote"
  /\ \E e \in Tree(ContentOf[target]) \ scripts :
       (e = Dir \/ Dir \in scripts) /\ scripts' = scripts \cup {e}
  /\ UNCHANGED <<desired, ini, old, applied, cached, pc, memory, core, faults, history>>

Promoted ==
  /\ pc = "promote" /\ Tree(ContentOf[target]) \subseteq scripts
  /\ pc' = "cleanup" /\ had' = (ContentOf[target] \in WithScripts) /\ cut' = FALSE
  /\ UNCHANGED <<desired, disk, memory, core, faults, torn>>

\* The new state is current in memory, then applied-state.json is opened ...
Commit ==
  /\ pc = "cleanup" /\ old = {} /\ pc' = "save"
  /\ current' = target /\ applied' = Unreadable
  /\ UNCHANGED <<desired, ini, scripts, old, cached, target, reloadNeeded, core, faults, history>>

\* ... and written.
SaveAppliedState ==
  /\ pc = "save" /\ pc' = "report"
  /\ applied' = current /\ torn' = FALSE
  /\ UNCHANGED <<desired, ini, scripts, old, cached, memory, core, faults, had, cut>>

\* poll_once reports the state and asks the core for a reload.
Report ==
  /\ pc = "report"
  /\ pendingReload' = (pendingReload \/ reloadNeeded)
  /\ GiveUp
  /\ UNCHANGED <<desired, disk, current, running, faults, history>>

RollbackRemove ==
  /\ pc = "rollback"
  /\ \E e \in Removable(scripts) : scripts' = scripts \ {e}
  /\ UNCHANGED <<desired, ini, old, applied, cached, pc, memory, core, faults, history>>

RollbackRename ==
  /\ pc = "rollback" /\ scripts = {}
  /\ scripts' = old /\ old' = {}
  /\ GiveUp
  /\ UNCHANGED <<desired, ini, applied, cached, current, core, faults, history>>

-----------------------------------------------------------------------------
(* Failures.  A failed promote is rolled back, and a failure to remove     *)
(* scripts.old is ignored; any other ends the apply where it is.           *)

ApplyFails ==
  /\ pc \in {"fetch", "cache", "stage", "ini", "aside", "rollback", "save"}
  /\ Failed /\ GiveUp
  /\ UNCHANGED <<desired, disk, current, core, crashes, history>>

PromoteFails ==
  /\ pc = "promote" /\ pc' = "rollback"
  /\ Failed
  /\ UNCHANGED <<desired, disk, memory, core, crashes, history>>

\* scripts.old stays; without a scripts tree there is nothing to move onto it.
RemoveOldFails ==
  /\ old # {} /\ Failed
  /\ \/ pc = "aside" /\ scripts = {} /\ pc' = "promote" /\ UNCHANGED <<current, applied>>
     \/ pc = "cleanup" /\ pc' = "save" /\ current' = target /\ applied' = Unreadable
  /\ UNCHANGED <<desired, ini, scripts, old, cached, target, reloadNeeded, core, crashes, history>>

\* applied-state.json cannot be opened: it is left as it was.
CommitFails ==
  /\ pc = "cleanup" /\ old = {}
  /\ Failed /\ GiveUp /\ current' = target
  /\ UNCHANGED <<desired, disk, core, crashes, history>>

\* The process ends: killed anywhere, or stopped, which waits for the poll.
ProcessEnds ==
  /\ pc # "off" /\ pc' = "off"
  /\ current' = None /\ target' = None /\ reloadNeeded' = FALSE
  /\ UNCHANGED <<desired, disk, core, fails, history>>

Crash == crashes < MaxCrashes /\ crashes' = crashes + 1 /\ ProcessEnds
StopService == pc = "poll" /\ UNCHANGED crashes /\ ProcessEnds

-----------------------------------------------------------------------------
(* The server and the core *)

ServerMoves ==
  /\ \E s \in States \ {desired} : desired' = s
  /\ UNCHANGED <<disk, pc, memory, core, faults, history>>

\* A reload of the service, requested by the sync or by anybody else.
Reload ==
  /\ pc # "off" /\ running' = ini /\ pendingReload' = FALSE
  /\ UNCHANGED <<desired, disk, pc, memory, faults, history>>

-----------------------------------------------------------------------------

Sync ==
  \/ Boot \/ RecoverRemove \/ RecoverRename
  \/ Poll \/ FetchStale \/ FetchCached \/ FetchDownload \/ FetchWrite
  \/ Stage \/ SwapIni \/ RemoveOld \/ MoveAside \/ Promote \/ Promoted
  \/ Commit \/ SaveAppliedState \/ Report \/ RollbackRemove \/ RollbackRename

Next ==
  \/ Sync \/ Retry \/ Crash \/ StopService
  \/ RecoverFails \/ ApplyFails \/ PromoteFails \/ RemoveOldFails \/ CommitFails
  \/ ServerMoves \/ Reload

Spec == Init /\ [][Next]_vars

\* The thread runs, a poll gets through in the end however often the service
\* is restarted, and the core's scheduler runs the reload it was handed.
FairSpec ==
  Spec /\ WF_vars(Sync) /\ SF_vars(Poll) /\ WF_vars(Reload /\ pendingReload)

-----------------------------------------------------------------------------
(* Properties *)

Trees == {t \in SUBSET ({Dir} \cup (WithScripts \X Files)) : t # {} => Dir \in t}

\* Types.
TypeOK ==
  /\ desired \in States /\ current \in States \cup {None} /\ target \in States \cup {None}
  /\ {ini, running} \subseteq Contents \cup {None} /\ {scripts, old} \subseteq Trees
  /\ applied \in States \cup {None, Unreadable} /\ cached \in [States -> {"none", "cut", "whole"}]
  /\ pc \in {"off", "recover", "poll", "fetch", "cache", "stage", "ini", "aside", "promote", "cleanup", "save",
             "report", "rollback"}
  /\ {reloadNeeded, pendingReload, torn, had, cut} \subseteq BOOLEAN
  /\ crashes \in 0..MaxCrashes /\ fails \in 0..MaxFails

InSync(s) == ini = ContentOf[s] /\ scripts = Tree(ContentOf[s])

\* What applied-state.json and the next poll claim is what the directory
\* holds, with no script of an earlier state left in it, unless an apply was
\* cut short or failed since: also after that one was healed by a later apply.
SyncedUnlessTorn == ~torn => \A s \in {current, applied} \cap States : InSync(s)

\* apply_state moves the scripts aside so that "a crash or a failed promote
\* rolls back to the previous tree": over any number of crashes, or one failed
\* operation, a whole tree is in place or in scripts.old (but for a boot that
\* met scripts.old partly removed, see TreeSurvivesCrash).
OneWholeTree ==
  /\ TypeOK
  /\ had /\ ~cut /\ (fails = 0 \/ (fails = 1 /\ crashes = 0)) => Whole(scripts) \/ Whole(old)

\* Without crash or failure the service runs, or is about to reload, what the
\* sync has put in place, whatever other reloads come between its steps.
ReloadFollows == crashes + fails = 0 /\ pc = "poll" => running = ini \/ pendingReload

\* The state the server settles on is the one the sync comes to claim, over
\* restarts, crashes and failures, unless the cache file of its bundle was cut
\* short while it was written: such a file is never downloaded again.
Converges ==
  \A s \in States : <>[](desired = s) => <>[](pc = "poll" => current = s \/ cached[s] = "cut")

\* The comments on the swap say that a crash leaves the previous tree "instead
\* of leaving the host with no scripts at all": when the sync polls again after
\* crashes alone, a whole tree is in place.
TreeSurvivesCrash == had /\ fails = 0 /\ pc = "poll" => Whole(scripts)
=============================================================================
