--------------------------- MODULE FactRepository ---------------------------
(***************************************************************************)
(* The inventory the agent keeps of its host (service/fact_repository.hpp): *)
(* one document made of fact sets, each owned by the module that produced   *)
(* it, within a budget of bytes.  A round of collection stores its sets one *)
(* by one; what is hashed and uploaded is the document as it stood before   *)
(* the rounds in progress, kept by a copy made at their first change only.  *)
(*                                                                         *)
(* Every operation is one critical section of the repository's mutex.  The *)
(* value of a fact set is its encoded size, 0 when there is no such set (an *)
(* empty object, which takes no bytes, is left out); a hash is the document *)
(* it was computed from.  What only the REST view shows (errors, the ages of *)
(* sets, what producers say they produce) is left out.  FactsRounds has the *)
(* callers.                                                                *)
(***************************************************************************)
EXTENDS Naturals, FiniteSets

CONSTANTS
  Sets,     \* names of fact sets
  Sizes,    \* per fact set, the encoded sizes it may have
  Caps,     \* what "max size" may be set to
  DefaultMaxSize,
  Owners,   \* module ids, and the core's own
  None

\* A document, and what freeze_locked keeps of one.
Document == [Sets -> Nat]
Copy == [collected : Nat, json : Document \cup {None}, hash : Document \cup {None}]

ASSUME RepositoryAssumption ==
  /\ IsFiniteSet(Sets) /\ Sizes \in [Sets -> SUBSET (Nat \ {0})]
  /\ Caps \subseteq Nat \ {0} /\ DefaultMaxSize \in Caps
  /\ None \notin Owners /\ None \notin Document /\ None \notin Copy

VARIABLES
  sets,       \* sets_ and encoded_
  owner,      \* owners_
  size, maxSize,
  collected,  \* when the last round completed: how many did, seen by the second
  hash,       \* the cached hash, None while it is dirty
  rounds,     \* rounds in progress
  frozen,     \* the state the rounds in progress started from, None before a change
  published   \* history: the document and its time when no round was in progress

repositoryVars == <<sets, owner, size, maxSize, collected, hash, rounds, frozen, published>>

EmptyRepository ==
  /\ sets = [s \in Sets |-> 0] /\ owner = [s \in Sets |-> None]
  /\ size = 0 /\ maxSize = DefaultMaxSize /\ collected = 0 /\ hash = None
  /\ rounds = 0 /\ frozen = None /\ published = [json |-> sets, collected |-> 0]

Publish == published' = IF rounds' = 0 THEN [json |-> sets', collected |-> collected'] ELSE published

-----------------------------------------------------------------------------
(* Freezing, and what the fleet sync is shown *)

\* Mutant: the document is copied only by the first change of any kind.
FreezeOnce(setsChange) ==
  frozen' = IF rounds = 0 \/ frozen # None THEN frozen
            ELSE [collected |-> collected, json |-> IF setsChange THEN sets ELSE None, hash |-> hash]

\* freeze_locked, before every change: the time of the last round is kept at
\* the first change of any kind, the document at the first change of a set.
Freeze(setsChange) ==
  LET first == IF frozen # None THEN frozen ELSE [collected |-> collected, json |-> None, hash |-> None] IN
  frozen' = IF rounds = 0 THEN frozen
            ELSE IF ~setsChange \/ first.json # None THEN first
            ELSE [first EXCEPT !.json = sets, !.hash = hash]

HasCopy == IF frozen = None THEN FALSE ELSE frozen.json # None

\* get_snapshot and get_hash
SnapshotJson == IF HasCopy THEN frozen.json ELSE sets
SnapshotCollected == IF frozen = None THEN collected ELSE frozen.collected
GetHash ==
  IF HasCopy THEN (IF frozen.hash # None THEN frozen.hash ELSE frozen.json)
             ELSE (IF hash # None THEN hash ELSE sets)

\* A reader asks for the hash, which is then cached (unless the digest fails;
\* that of the copy, which does not change, need not be).
CacheHash ==
  /\ ~HasCopy /\ hash' = GetHash
  /\ UNCHANGED <<sets, owner, size, maxSize, collected, rounds, frozen, published>>

-----------------------------------------------------------------------------
(* Changes *)

\* touch and freeze_locked around a change of the sets
Touch(new) ==
  /\ sets' = new
  /\ IF new = sets THEN UNCHANGED <<hash, frozen>> ELSE hash' = None /\ Freeze(TRUE)

\* Mutant: the budget is charged with the new value on top of the old one.
SetCharged(s, p, v) ==
  /\ IF owner[s] \notin {None, p} \/ (sets[s] # v /\ size + v > maxSize)
       THEN UNCHANGED <<sets, owner, size, hash, frozen>>
       ELSE /\ owner' = [owner EXCEPT ![s] = p]
            /\ size' = IF sets[s] = v THEN size ELSE size + v
            /\ Touch([sets EXCEPT ![s] = v])
  /\ UNCHANGED <<maxSize, collected, rounds>> /\ Publish

\* set, for a set that follows the document rules: rejected when another
\* producer owns it or the budget does not have room for it.
Set(s, p, v) ==
  /\ IF owner[s] \notin {None, p} \/ (sets[s] # v /\ size - sets[s] + v > maxSize)
       THEN UNCHANGED <<sets, owner, size, hash, frozen>>
       ELSE /\ owner' = [owner EXCEPT ![s] = p]
            /\ size' = size - sets[s] + v
            /\ Touch([sets EXCEPT ![s] = v])
  /\ UNCHANGED <<maxSize, collected, rounds>> /\ Publish

\* The bytes of the sets S of document d, and how many they are.
BytesOf(d, S) == UNION {{s} \X (1..d[s]) : s \in S}
Bytes(S) == Cardinality(BytesOf(sets, S))

Erase(gone) ==
  /\ owner' = [s \in Sets |-> IF s \in gone THEN None ELSE owner[s]]
  /\ size' = size - Bytes(gone)
  /\ Touch([s \in Sets |-> IF s \in gone THEN 0 ELSE sets[s]])
  /\ UNCHANGED <<collected, rounds>> /\ Publish

Remove(s) == Erase({s}) /\ UNCHANGED maxSize

OwnedBy(p) == {s \in Sets : owner[s] = p}

RemoveOwnedBy(p) == Erase(OwnedBy(p)) /\ UNCHANGED maxSize

RetainOnly(p, produced) == Erase(OwnedBy(p) \ produced) /\ UNCHANGED maxSize

\* set_max_size drops a largest set until the rest fits.
DroppedFor(cap) ==
  CHOOSE gone \in SUBSET Sets :
    /\ size - Bytes(gone) <= cap
    /\ \A s \in gone, t \in Sets \ gone : sets[s] >= sets[t]
    /\ \A s \in gone : sets[s] > 0 /\ size - Bytes(gone \ {s}) > cap

SetMaxSize(cap) == maxSize' = cap /\ Erase(DroppedFor(cap))

MarkCollected(now) ==
  /\ collected' = now
  /\ IF now = collected THEN UNCHANGED frozen ELSE Freeze(FALSE)
  /\ UNCHANGED <<sets, owner, size, maxSize, hash, rounds>> /\ Publish

BeginRound ==
  rounds' = rounds + 1 /\ UNCHANGED <<sets, owner, size, maxSize, collected, hash, frozen, published>>

EndRound ==
  /\ rounds' = rounds - 1 /\ frozen' = IF rounds = 1 THEN None ELSE frozen
  /\ UNCHANGED <<sets, owner, size, maxSize, collected, hash>> /\ Publish
=============================================================================
