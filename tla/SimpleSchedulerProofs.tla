------------------------ MODULE SimpleSchedulerProofs ------------------------
(***************************************************************************)
(* What the pool of SimpleScheduler keeps to whoever owns it, for any      *)
(* number of threads, tasks and instances.  SchedulerModuleProofs and      *)
(* CoreSchedulerProofs build on it.                                        *)
(***************************************************************************)
EXTENDS SimpleScheduler, FiniteSetTheorems, TLAPS

(***************************************************************************)
(* The pool's part of the inductive invariant: a thread is where its role  *)
(* lets it be and holds an instance exactly between taking and giving it   *)
(* back; there is one watchdog, and only an empty pool has none.  The flag *)
(* has_watchdog_ is set only while there is one.                           *)
(***************************************************************************)
Holding == {"wait", "asleep", "due", "run", "call", "push"}
WorkerPcs == {"loop", "pop", "idle"} \cup Holding
DogPcs == {"watch", "scale", "dogWait", "asleep"}
Pcs == {"none"} \cup WorkerPcs \cup DogPcs

Fits(r, p, h) ==
  /\ r = "off" => p = "none" /\ h = 0
  /\ r = "worker" => p \in WorkerPcs /\ (h # 0 <=> p \in Holding)
  /\ r = "watchdog" => p \in DogPcs /\ h = 0

PoolInv ==
  /\ \A s \in Slots : Fits(role[s], pc[s], hold[s])
  /\ \A s, t \in Slots : role[s] = "watchdog" /\ role[t] = "watchdog" => s = t
  /\ running /\ ~stopRequested /\ ~hasWatchdog => Live = {}
  /\ hasWatchdog => running /\ ~stopRequested /\ \E s \in Slots : role[s] = "watchdog"

-----------------------------------------------------------------------------
(* Counting instances *)

\* Any number of threads up to all of them can be had from a set of free ones.
LEMMA SubsetOfSize ==
  ASSUME NEW S, IsFiniteSet(S), NEW n \in Nat, n <= Cardinality(S)
  PROVE  \E T \in SUBSET S : Cardinality(T) = n
<1>1. Cardinality(S) \in Nat /\ ExistsBijection(1..Cardinality(S), S)
  BY FS_CardinalityType, Zenon
<1>2. PICK f : f \in Bijection(1..Cardinality(S), S)
  BY <1>1, Zenon DEF ExistsBijection
<1> DEFINE g == [i \in 1..n |-> f[i]]
           T == {f[i] : i \in 1..n}
<1>3. 1..n \subseteq 1..Cardinality(S)
  BY <1>1
<1>4. g \in Bijection(1..n, T)
  <2>1. g \in [1..n -> T]
    BY Zenon
  <2>2. \A i, j \in 1..n : g[i] = g[j] => i = j
    <3>1. f \in [1..Cardinality(S) -> S] /\ \A i, j \in DOMAIN f : f[i] = f[j] => i = j
      BY <1>2, Zenon DEF Bijection, Injection, IsInjective
    <3> QED
      BY <1>3, <3>1
  <2>3. \A t \in T : \E i \in 1..n : g[i] = t
    BY Zenon
  <2> QED
    BY <2>1, <2>2, <2>3 DEF Bijection, Injection, Surjection, IsInjective
<1>5. Cardinality(T) = n
  BY <1>4, FS_CountingElements, Zenon DEF ExistsBijection
<1>6. T \in SUBSET S
  BY <1>2, <1>3, Zenon DEF Bijection, Injection
<1> QED
  BY <1>5, <1>6, Zenon

LEMMA SpawnedIs ==
  ASSUME NEW free, IsFiniteSet(free), NEW n \in Nat, n <= Cardinality(free)
  PROVE  Spawned(n, free) \in SUBSET free /\ Cardinality(Spawned(n, free)) = n
BY SubsetOfSize, Zenon DEF Spawned

Taken(id) == {s \in Slots : hold[s] = id}

LEMMA TakenCounts ==
  ASSUME NEW id
  PROVE  IsFiniteSet(Taken(id)) /\ Cardinality(Taken(id)) \in Nat
<1>1. Taken(id) \in SUBSET Slots
  BY Zenon DEF Taken
<1> QED
  BY <1>1, PoolAssumption, FS_Subset, FS_CardinalityType, Zenon

\* An instance that is queued or with a thread counts.
LEMMA ChainsCount ==
  ASSUME SchedulerTypes, NEW id \in Ids
  PROVE  /\ Chains(id) \in Nat
         /\ queue[id] > 0 => Chains(id) >= 1
         /\ \A s \in Slots : hold[s] = id => Chains(id) >= 1
         /\ \A s \in Slots : hold[s] = id /\ queue[id] > 0 => Chains(id) >= 2
         /\ (\A s \in Slots : hold[s] # id) => Chains(id) = queue[id]
         /\ \A s, t \in Slots : hold[s] = id /\ hold[t] = id /\ s # t => Chains(id) >= 2
<1>1. queue[id] \in Nat /\ Cardinality(Taken(id)) \in Nat /\ Chains(id) = queue[id] + Cardinality(Taken(id))
  BY TakenCounts, Zenon DEF SchedulerTypes, Chains, Taken
<1>2. ASSUME NEW s \in Slots, hold[s] = id PROVE Cardinality(Taken(id)) >= 1
  <2>1. Taken(id) # {}
    BY <1>2, Zenon DEF Taken
  <2>2. Cardinality(Taken(id)) # 0
    BY <2>1, TakenCounts, FS_EmptySet, Zenon
  <2> QED
    BY <1>1, <2>2
<1>3. ASSUME \A s \in Slots : hold[s] # id PROVE Cardinality(Taken(id)) = 0
  <2>1. Taken(id) = {}
    BY <1>3, Zenon DEF Taken
  <2> QED
    BY <2>1, FS_EmptySet, Zenon
<1>4. ASSUME NEW s \in Slots, NEW t \in Slots, hold[s] = id, hold[t] = id, s # t PROVE Cardinality(Taken(id)) >= 2
  <2>1. s \in Taken(id) /\ t \in Taken(id)
    BY <1>4, Zenon DEF Taken
  <2>2. Cardinality(Taken(id)) # 0
    BY <2>1, TakenCounts, FS_EmptySet, Zenon
  <2>3. Cardinality(Taken(id)) # 1
    <3>1. ASSUME NEW x, Taken(id) = {x} PROVE FALSE
      BY <1>4, <2>1, <3>1, Zenon
    <3> QED
      BY <3>1, TakenCounts, FS_Singleton, Zenon
  <2> QED
    BY <1>1, <2>2, <2>3
<1>5. /\ Chains(id) \in Nat
      /\ queue[id] > 0 => Chains(id) >= 1
      /\ (\A s \in Slots : hold[s] # id) => Chains(id) = queue[id]
  BY <1>1, <1>3
<1>6. ASSUME NEW s \in Slots, hold[s] = id PROVE Chains(id) >= 1 /\ (queue[id] > 0 => Chains(id) >= 2)
  BY <1>1, <1>2, <1>6
<1>7. ASSUME NEW s \in Slots, NEW t \in Slots, hold[s] = id, hold[t] = id, s # t PROVE Chains(id) >= 2
  BY <1>1, <1>4, <1>7
<1> QED
  BY <1>5, <1>6, <1>7, Zenon

\* What a thread may do to the instances: take one, give it back, drop it.
Takes(s) ==
  \E id \in Ids : /\ hold[s] = 0 /\ queue[id] > 0
                  /\ queue' = [queue EXCEPT ![id] = @ - 1] /\ hold' = [hold EXCEPT ![s] = id]
GivesBack(s) == hold[s] \in Ids /\ Push(hold[s]) /\ hold' = [hold EXCEPT ![s] = 0]
Drops(s) == hold[s] \in Ids /\ queue' = queue /\ hold' = [hold EXCEPT ![s] = 0]

LEMMA TakenMoves ==
  ASSUME SchedulerTypes, NEW s \in Slots, NEW id \in Ids
  PROVE  /\ hold[s] = 0 /\ hold' = [hold EXCEPT ![s] = id] =>
              \A i \in Ids : Cardinality(Taken(i)') = Cardinality(Taken(i)) + IF i = id THEN 1 ELSE 0
         /\ hold[s] = id /\ hold' = [hold EXCEPT ![s] = 0] =>
              \A i \in Ids : Cardinality(Taken(i)') = Cardinality(Taken(i)) - IF i = id THEN 1 ELSE 0
<1>0. 0 \notin Ids /\ \A u \in Slots : hold[u] \in 0..MaxIds
  BY PoolAssumption DEF Ids, SchedulerTypes
<1>1. ASSUME hold[s] = 0, hold' = [hold EXCEPT ![s] = id], NEW i \in Ids
      PROVE  Cardinality(Taken(i)') = Cardinality(Taken(i)) + IF i = id THEN 1 ELSE 0
  <2>1. \A u \in Slots : hold'[u] = IF u = s THEN id ELSE hold[u]
    BY <1>1, Zenon DEF SchedulerTypes
  <2>2. Taken(i)' = (IF i = id THEN Taken(i) \cup {s} ELSE Taken(i)) /\ s \notin Taken(i)
    BY <1>0, <1>1, <2>1 DEF Taken
  <2>3. Cardinality(Taken(i) \cup {s}) = Cardinality(Taken(i)) + 1 /\ Cardinality(Taken(i)) \in Nat
    BY <2>2, TakenCounts, FS_AddElement, Zenon
  <2> QED
    BY <2>2, <2>3
<1>2. ASSUME hold[s] = id, hold' = [hold EXCEPT ![s] = 0], NEW i \in Ids
      PROVE  Cardinality(Taken(i)') = Cardinality(Taken(i)) - IF i = id THEN 1 ELSE 0
  <2>1. \A u \in Slots : hold'[u] = IF u = s THEN 0 ELSE hold[u]
    BY <1>2, Zenon DEF SchedulerTypes
  <2>2. Taken(i)' = IF i = id THEN Taken(i) \ {s} ELSE Taken(i)
    BY <1>0, <1>2, <2>1 DEF Taken
  <2>3. s \in Taken(id)
    BY <1>2, Zenon DEF Taken
  <2>4. /\ i = id => Cardinality(Taken(i) \ {s}) = Cardinality(Taken(i)) - 1
        /\ Cardinality(Taken(i)) \in Nat
    BY <2>3, TakenCounts, FS_RemoveElement, Zenon
  <2> QED
    BY <2>2, <2>4
<1> QED
  BY <1>1, <1>2, Zenon

\* Taking an instance and giving it back leave a task as many as it had.
LEMMA ChainsKept ==
  ASSUME SchedulerTypes, NEW s \in Slots, Takes(s) \/ GivesBack(s) \/ UNCHANGED <<queue, hold>>
  PROVE  \A i \in Ids : Chains(i)' = Chains(i)
<1>0. \A i \in Ids : queue[i] \in Nat /\ Cardinality(Taken(i)) \in Nat
  BY TakenCounts, Zenon DEF SchedulerTypes
<1>1. ASSUME NEW i \in Ids
      PROVE  Chains(i) = queue[i] + Cardinality(Taken(i)) /\ Chains(i)' = queue'[i] + Cardinality(Taken(i)')
  BY Zenon DEF Chains, Taken
<1>2. CASE Takes(s)
  <2>1. PICK id \in Ids : /\ hold[s] = 0 /\ queue[id] > 0
                          /\ queue' = [queue EXCEPT ![id] = @ - 1] /\ hold' = [hold EXCEPT ![s] = id]
    BY <1>2, Zenon DEF Takes
  <2>2. \A i \in Ids : Cardinality(Taken(i)') = Cardinality(Taken(i)) + IF i = id THEN 1 ELSE 0
    BY <2>1, TakenMoves, Zenon
  <2>3. \A i \in Ids : queue'[i] = IF i = id THEN queue[i] - 1 ELSE queue[i]
    BY <2>1, Zenon DEF SchedulerTypes
  <2> QED
    BY <1>0, <1>1, <2>2, <2>3
<1>3. CASE GivesBack(s)
  <2>1. \A i \in Ids : Cardinality(Taken(i)') = Cardinality(Taken(i)) - IF i = hold[s] THEN 1 ELSE 0
    BY <1>3, TakenMoves, Zenon DEF GivesBack
  <2>2. \A i \in Ids : queue'[i] = IF i = hold[s] THEN queue[i] + 1 ELSE queue[i]
    BY <1>3, Zenon DEF GivesBack, Push, SchedulerTypes
  <2> QED
    BY <1>0, <1>1, <2>1, <2>2
<1>4. CASE UNCHANGED <<queue, hold>>
  BY <1>4, Zenon DEF Chains
<1> QED
  BY <1>2, <1>3, <1>4, Zenon

LEMMA ChainsDropped ==
  ASSUME SchedulerTypes, NEW s \in Slots, Drops(s)
  PROVE  \A i \in Ids : Chains(i)' = Chains(i) - IF i = hold[s] THEN 1 ELSE 0
<1>1. ASSUME NEW i \in Ids
      PROVE  Chains(i) = queue[i] + Cardinality(Taken(i)) /\ Chains(i)' = queue[i] + Cardinality(Taken(i)')
  BY Zenon DEF Chains, Taken, Drops
<1>2. \A i \in Ids : Cardinality(Taken(i)') = Cardinality(Taken(i)) - IF i = hold[s] THEN 1 ELSE 0
  BY TakenMoves, Zenon DEF Drops
<1>3. \A i \in Ids : queue[i] \in Nat /\ Cardinality(Taken(i)) \in Nat
  BY TakenCounts, Zenon DEF SchedulerTypes
<1> QED
  BY <1>1, <1>2, <1>3

LEMMA ChainsPushed ==
  ASSUME SchedulerTypes, NEW id \in Ids, Push(id), hold' = hold
  PROVE  \A i \in Ids : Chains(i)' = Chains(i) + IF i = id THEN 1 ELSE 0
<1>1. \A i \in Ids : queue'[i] = IF i = id THEN queue[i] + 1 ELSE queue[i]
  BY Zenon DEF Push, SchedulerTypes
<1>2. \A i \in Ids : Chains(i) = queue[i] + Cardinality(Taken(i)) /\ Chains(i)' = queue'[i] + Cardinality(Taken(i))
  BY Zenon DEF Chains, Taken
<1>3. \A i \in Ids : queue[i] \in Nat /\ Cardinality(Taken(i)) \in Nat
  BY TakenCounts, Zenon DEF SchedulerTypes
<1> QED
  BY <1>1, <1>2, <1>3

-----------------------------------------------------------------------------
(* Starting threads *)

Spawns(at) ==
  /\ running /\ ~stopRequested
  /\ \E new, dog \in SUBSET (Slots \ Live) :
       /\ new \cap dog = {} /\ (hasWatchdog <=> dog = {}) /\ \A s, t \in dog : s = t
       /\ role' = [s \in Slots |-> IF s \in new THEN "worker" ELSE IF s \in dog THEN "watchdog" ELSE role[s]]
       /\ pc' = [s \in Slots |-> IF s \in new THEN "loop" ELSE IF s \in dog THEN "watch" ELSE at[s]]
  /\ hasWatchdog' = TRUE /\ gaveUp' \in BOOLEAN

\* spawn_missing_locked starts its threads in free slots, and one watchdog at most.
LEMMA SpawnIs ==
  ASSUME SchedulerTypes, NEW at, SpawnMissing(at)
  PROVE  (pc' = at /\ UNCHANGED <<role, hasWatchdog, gaveUp>>) \/ Spawns(at)
<1>1. CASE ~running \/ stopRequested
  BY <1>1, Zenon DEF SpawnMissing
<1>2. CASE running /\ ~stopRequested
  <2> DEFINE free == Slots \ Live
             n == MissingWorkers
             k == IF hasWatchdog THEN 0 ELSE 1
             new == Spawned(n, free)
             rest == Slots \ (Live \cup new)
             dog == Spawned(k, rest)
  <2>1. /\ Cardinality(free) >= n + k
        /\ role' = [s \in Slots |-> IF s \in new THEN "worker" ELSE IF s \in dog THEN "watchdog" ELSE role[s]]
        /\ pc' = [s \in Slots |-> IF s \in new THEN "loop" ELSE IF s \in dog THEN "watch" ELSE at[s]]
        /\ gaveUp' = (gaveUp /\ dog = {}) /\ hasWatchdog' = TRUE
    BY <1>2, Zenon DEF SpawnMissing
  <2>2. /\ IsFiniteSet(free) /\ IsFiniteSet(rest) /\ Cardinality(free) \in Nat
        /\ Cardinality(Live) \in Nat
    <3>1. free \in SUBSET Slots /\ rest \in SUBSET Slots /\ Live \in SUBSET Slots
      BY Zenon DEF Live
    <3> QED
      BY <3>1, PoolAssumption, FS_Subset, FS_CardinalityType, Zenon
  <2>3. n \in Nat /\ k \in Nat
    BY <2>2 DEF MissingWorkers, SchedulerTypes
  <2>4. n <= Cardinality(free)
    BY <2>1, <2>2, <2>3
  <2>5. new \in SUBSET free /\ Cardinality(new) = n
    BY <2>2, <2>3, <2>4, SpawnedIs, Zenon
  <2>6. Cardinality(rest) = Cardinality(free) - n
    <3>1. rest = free \ new /\ free \cap new = new
      BY <2>5, Zenon
    <3>2. Cardinality(free \ new) = Cardinality(free) - Cardinality(free \cap new)
      <4> HIDE DEF free, new
      <4> QED
        BY <2>2, FS_Difference, Zenon
    <3> HIDE DEF free, new, rest
    <3> QED
      BY <2>5, <3>1, <3>2, Zenon
  <2>7. k <= Cardinality(rest)
    BY <2>1, <2>2, <2>3, <2>6
  <2>8. dog \in SUBSET rest /\ Cardinality(dog) = k
    BY <2>2, <2>3, <2>7, SpawnedIs, Zenon
  <2>9. IsFiniteSet(dog)
    BY <2>2, <2>8, FS_Subset, Zenon
  <2>10. (hasWatchdog <=> dog = {}) /\ \A s, t \in dog : s = t
    <3>1. CASE hasWatchdog
      BY <2>8, <2>9, <3>1, FS_EmptySet, Zenon
    <3>2. CASE ~hasWatchdog
      <4>1. Cardinality(dog) = 1
        BY <2>8, <3>2, Zenon
      <4>2. PICK d : dog = {d}
        BY <2>9, <4>1, FS_Singleton, Zenon
      <4> QED
        BY <3>2, <4>2, Zenon
    <3> QED
      BY <3>1, <3>2, Zenon
  <2>11. new \in SUBSET free /\ dog \in SUBSET free /\ new \cap dog = {}
    BY <2>5, <2>8, Zenon
  <2>12. hasWatchdog' = TRUE /\ gaveUp' \in BOOLEAN
    BY <2>1, Zenon
  <2> HIDE DEF new, dog
  <2> QED
    BY <1>2, <2>1, <2>10, <2>11, <2>12, Zenon DEF Spawns
<1> QED
  BY <1>1, <1>2, Zenon DEF SchedulerTypes

PoolTypes ==
  /\ role \in [Slots -> {"off", "worker", "watchdog"}] /\ pc \in [Slots -> Pcs] /\ hold \in [Slots -> 0..MaxIds]

LEMMA PoolTypesHold == SchedulerTypes => PoolTypes
BY DEF SchedulerTypes, PoolTypes, Pcs, WorkerPcs, DogPcs, Holding

LEMMA SpawnKeeps ==
  ASSUME SchedulerTypes, PoolInv, NEW at \in [Slots -> Pcs], SpawnMissing(at),
         \A s \in Slots : Fits(role[s], at[s], hold[s]),
         UNCHANGED <<hold, running, stopRequested>>
  PROVE  /\ PoolTypes' /\ PoolInv' /\ hasWatchdog' \in BOOLEAN /\ gaveUp' \in BOOLEAN
         /\ \A s \in Slots : pc'[s] \in {at[s], "loop", "watch"} /\ (s \in Live => pc'[s] = at[s])
<1>0. PoolTypes
  BY PoolTypesHold, Zenon
<1>1. CASE pc' = at /\ UNCHANGED <<role, hasWatchdog, gaveUp>>
  <2>1. PoolTypes' /\ hasWatchdog' \in BOOLEAN /\ gaveUp' \in BOOLEAN
    BY <1>0, <1>1, Zenon DEF PoolTypes, SchedulerTypes
  <2>2. PoolInv'
    BY <1>1, Zenon DEF PoolInv, Live
  <2> QED
    BY <1>1, <2>1, <2>2, Zenon
<1>2. CASE Spawns(at)
  <2>1. PICK new \in SUBSET (Slots \ Live), dog \in SUBSET (Slots \ Live) :
          /\ new \cap dog = {} /\ (hasWatchdog <=> dog = {}) /\ \A s, t \in dog : s = t
          /\ role' = [s \in Slots |-> IF s \in new THEN "worker" ELSE IF s \in dog THEN "watchdog" ELSE role[s]]
          /\ pc' = [s \in Slots |-> IF s \in new THEN "loop" ELSE IF s \in dog THEN "watch" ELSE at[s]]
    BY <1>2, Zenon DEF Spawns
  <2>2. /\ running /\ ~stopRequested
        /\ hasWatchdog' = TRUE /\ gaveUp' \in BOOLEAN
    BY <1>2, Zenon DEF Spawns
  <2>3. ASSUME NEW s \in Slots
        PROVE  /\ role'[s] = IF s \in new THEN "worker" ELSE IF s \in dog THEN "watchdog" ELSE role[s]
               /\ pc'[s] = IF s \in new THEN "loop" ELSE IF s \in dog THEN "watch" ELSE at[s]
    BY <2>1, Zenon
  <2>4. PoolTypes'
    <3>1. \A s \in Slots : role'[s] \in {"off", "worker", "watchdog"} /\ pc'[s] \in Pcs
      BY <1>0, <2>3, Zenon DEF PoolTypes, Pcs, WorkerPcs, DogPcs
    <3>2. role' \in [Slots -> {"off", "worker", "watchdog"}]
      BY <2>1, <3>1, Zenon
    <3>3. pc' \in [Slots -> Pcs]
      BY <2>1, <3>1, Zenon
    <3> QED
      BY <1>0, <3>2, <3>3, Zenon DEF PoolTypes
  <2>5. ASSUME NEW s \in Slots PROVE Fits(role[s], pc[s], hold[s])'
    <3>1. s \notin Live => hold[s] = 0
      BY Zenon DEF PoolInv, Fits, Live
    <3>2. CASE s \in new
      BY <2>1, <2>3, <3>1, <3>2, Zenon DEF Fits, WorkerPcs, Holding
    <3>3. CASE s \in dog
      BY <2>1, <2>3, <3>1, <3>3, Zenon DEF Fits, DogPcs
    <3>4. CASE s \notin new \cup dog
      BY <2>3, <3>4, Zenon DEF Fits
    <3> QED
      BY <3>2, <3>3, <3>4, Zenon
  <2>6. ASSUME NEW s \in Slots, NEW t \in Slots, role'[s] = "watchdog", role'[t] = "watchdog" PROVE s = t
    <3>1. s \in dog \/ role[s] = "watchdog"
      BY <2>3, <2>6, Zenon
    <3>2. t \in dog \/ role[t] = "watchdog"
      BY <2>3, <2>6, Zenon
    <3>3. dog # {} => \A u \in Slots : role[u] # "watchdog"
      BY <2>1, <2>2, Zenon DEF PoolInv, Live
    <3> QED
      BY <2>1, <3>1, <3>2, <3>3, Zenon DEF PoolInv
  <2>7. \E s \in Slots : role'[s] = "watchdog"
    <3>1. CASE hasWatchdog
      <4>1. PICK s \in Slots : role[s] = "watchdog"
        BY <3>1, Zenon DEF PoolInv
      <4>2. s \notin new
        BY <2>1, <4>1, Zenon DEF Live
      <4> QED
        BY <2>3, <4>1, <4>2, Zenon
    <3>2. CASE ~hasWatchdog
      <4>1. PICK s \in dog : s \in Slots /\ s \notin new
        BY <2>1, <3>2, Zenon
      <4> QED
        BY <2>3, <4>1, Zenon
    <3> QED
      BY <3>1, <3>2, Zenon
  <2>8. PoolInv'
    BY <2>2, <2>5, <2>6, <2>7, Zenon DEF PoolInv
  <2>9. \A s \in Slots : pc'[s] \in {at[s], "loop", "watch"} /\ (s \in Live => pc'[s] = at[s])
    BY <2>1, <2>3, Zenon
  <2> QED
    BY <2>2, <2>4, <2>8, <2>9, Zenon
<1> QED
  BY <1>1, <1>2, SpawnIs, Zenon

-----------------------------------------------------------------------------
(* The pool's steps *)

\* One thread moves, within its role or, once the pool is stopped, out of it.
LEMMA OneMoves ==
  ASSUME SchedulerTypes, PoolInv, NEW s \in Slots, PoolTypes',
         \A u \in Slots \ {s} : role'[u] = role[u] /\ pc'[u] = pc[u] /\ hold'[u] = hold[u],
         role'[s] = role[s] \/ (role'[s] = "off" /\ stopRequested), Fits(role'[s], pc'[s], hold'[s]),
         UNCHANGED flagVars
  PROVE  PoolInv'
<1>1. \A u \in Slots : Fits(role'[u], pc'[u], hold'[u])
  BY Zenon DEF PoolInv
<1>2. \A u \in Slots : role'[u] # "off" => role'[u] = role[u]
  BY Zenon
<1>3. ASSUME hasWatchdog PROVE \E u \in Slots : role'[u] = "watchdog"
  <2>1. PICK d \in Slots : role[d] = "watchdog" /\ ~stopRequested
    BY <1>3, Zenon DEF PoolInv
  <2> QED
    BY <2>1, Zenon
<1> QED
  BY <1>1, <1>2, <1>3, Zenon DEF PoolInv, Live, flagVars

\* What a thread of the pool may do to the instances and to the owner's calls.
Instances(s) ==
  \/ Takes(s) \/ GivesBack(s) \/ UNCHANGED <<queue, hold>>
  \/ Drops(s) /\ pc[s] = "due" /\ ~(hold[s] \in tasks /\ handler)

Calls(s) ==
  /\ \A u \in Slots : pc'[u] \in {"run", "call"} =>
       \/ pc'[u] = pc[u] /\ hold'[u] = hold[u]
       \/ u = s /\ pc[s] = "due" /\ pc'[s] = "run" /\ handler /\ hold' = hold
  /\ pc[s] # "call" /\ \A u \in Slots : pc[u] = "call" => pc'[u] = "call"

PoolKeeps == UNCHANGED <<tasks, lastId, running, stopRequested, handler, mpc>>

\* A step of one of the pool's threads, in short.
LEMMA PoolMoves ==
  ASSUME SchedulerTypes, PoolInv, NEW s \in Slots, PoolStep(s)
  PROVE  PoolKeeps /\ SchedulerTypes' /\ PoolInv' /\ Instances(s) /\ Calls(s)
<1>0. /\ PoolTypes /\ queue \in [Ids -> Nat] /\ threadCount \in Nat
      /\ 0 \notin Ids /\ 0..MaxIds = Ids \cup {0}
  BY PoolTypesHold, PoolAssumption DEF SchedulerTypes, Ids
<1>1. Fits(role[s], pc[s], hold[s])
  BY Zenon DEF PoolInv
<1>2. /\ pc[s] \in WorkerPcs \ {"asleep"} => role[s] = "worker"
      /\ pc[s] \in DogPcs \ {"asleep"} => role[s] = "watchdog"
      /\ pc[s] \in {"loop", "pop", "idle"} => hold[s] = 0
      /\ role[s] = "worker" /\ pc[s] \in Holding => hold[s] \in Ids
      /\ role[s] = "watchdog" => hold[s] = 0
  BY <1>0, <1>1 DEF Fits, PoolTypes, WorkerPcs, DogPcs, Holding
<1>3. ASSUME PoolKeeps, PoolTypes', threadCount' \in Nat, UNCHANGED flagVars, gaveUp' \in BOOLEAN,
             UNCHANGED queue \/ Takes(s) \/ GivesBack(s)
      PROVE  SchedulerTypes'
  <2>1. queue' \in [Ids -> Nat]
    BY <1>0, <1>3 DEF Takes, GivesBack, Push
  <2> QED
    BY <1>3, <2>1 DEF SchedulerTypes, PoolTypes, PoolKeeps, flagVars, Pcs, WorkerPcs, DogPcs, Holding
<1>4. role = [role EXCEPT ![s] = role[s]] /\ hold = [hold EXCEPT ![s] = hold[s]]
  BY <1>0, Zenon DEF PoolTypes
<1>c. pc[s] # "call"
  BY Zenon DEF PoolStep, WorkerStep, WatchdogStep, WorkerLoop, WorkerPop, WorkerIdle, WorkerWait, WorkerCall,
     Reschedule, WorkerDue, WatchdogRound, ScaleUp, WatchdogWait
<1>5. ASSUME NEW r \in {role[s], "off"}, r = role[s] \/ stopRequested, NEW p \in Pcs, NEW h \in 0..MaxIds,
             Fits(r, p, h),
             p \notin {"run", "call"} \/ (p = "run" /\ pc[s] = "due" /\ handler /\ hold' = hold),
             role' = [role EXCEPT ![s] = r], pc' = [pc EXCEPT ![s] = p], hold' = [hold EXCEPT ![s] = h],
             PoolKeeps, UNCHANGED flagVars, threadCount' \in Nat, gaveUp' \in BOOLEAN, Instances(s)
      PROVE  PoolKeeps /\ SchedulerTypes' /\ PoolInv' /\ Instances(s) /\ Calls(s)
  <2>1. PoolTypes'
    BY <1>0, <1>5 DEF PoolTypes
  <2>2. \A u \in Slots : /\ role'[u] = IF u = s THEN r ELSE role[u]
                         /\ pc'[u] = IF u = s THEN p ELSE pc[u]
                         /\ hold'[u] = IF u = s THEN h ELSE hold[u]
    BY <1>0, <1>5, Zenon DEF PoolTypes
  <2>3. PoolInv'
    <3>1. \A u \in Slots \ {s} : role'[u] = role[u] /\ pc'[u] = pc[u] /\ hold'[u] = hold[u]
      BY <2>2, Zenon
    <3>2. (role'[s] = role[s] \/ (role'[s] = "off" /\ stopRequested)) /\ Fits(role'[s], pc'[s], hold'[s])
      BY <1>5, <2>2, Zenon
    <3> QED
      BY <1>5, <2>1, <3>1, <3>2, OneMoves, Zenon
  <2>4. SchedulerTypes'
    BY <1>3, <1>5, <2>1, Zenon DEF Instances, Drops
  <2>5. Calls(s)
    BY <1>c, <1>5, <2>2, Zenon DEF Calls
  <2> QED
    BY <1>5, <2>3, <2>4, <2>5, Zenon
<1> USE DEF PoolKeeps, flagVars, taskVars, Fits, Pcs, WorkerPcs, DogPcs, Holding
<1>6. CASE WorkerLoop(s)
  BY <1>0, <1>2, <1>4, <1>5, <1>6, Zenon DEF WorkerLoop, Exit, Go, Instances, SchedulerTypes
<1>7. CASE WorkerIdle(s)
  BY <1>0, <1>2, <1>4, <1>5, <1>7, Zenon DEF WorkerIdle, Go, Instances, SchedulerTypes
<1>8. CASE WatchdogWait(s)
  BY <1>0, <1>2, <1>4, <1>5, <1>8, Zenon DEF WatchdogWait, Exit, Go, Instances, SchedulerTypes
<1>9. CASE WorkerPop(s)
  <2>1. CASE UNCHANGED <<queue, hold>> /\ Go(s, "idle")
    BY <1>0, <1>2, <1>4, <1>5, <1>9, <2>1, Zenon DEF WorkerPop, Go, Instances, SchedulerTypes
  <2>2. ASSUME NEW id \in Ids, queue[id] > 0, queue' = [queue EXCEPT ![id] = @ - 1],
               hold' = [hold EXCEPT ![s] = id], Go(s, "wait")
        PROVE  PoolKeeps /\ SchedulerTypes' /\ PoolInv' /\ Instances(s) /\ Calls(s)
    <3>1. Instances(s)
      BY <1>2, <1>9, <2>2, Zenon DEF WorkerPop, Instances, Takes
    <3>2. id # 0 /\ id \in 0..MaxIds
      BY <1>0, Zenon
    <3> QED
      BY <1>0, <1>2, <1>4, <1>5, <1>9, <2>2, <3>1, <3>2, Zenon DEF WorkerPop, Go, SchedulerTypes
  <2> QED
    BY <1>9, <2>1, <2>2, Zenon DEF WorkerPop
<1>10. ASSUME NEW then \in {"asleep", "due"}, role[s] = "worker", pc[s] \in Holding, WaitForStop(s, then)
       PROVE  PoolKeeps /\ SchedulerTypes' /\ PoolInv' /\ Instances(s) /\ Calls(s)
  <2>1. Instances(s)
    BY <1>2, <1>10, Zenon DEF WaitForStop, Instances, GivesBack
  <2> QED
    BY <1>0, <1>2, <1>4, <1>5, <1>10, <2>1, Zenon DEF WaitForStop, Exit, Go, SchedulerTypes
<1>11. CASE WorkerWait(s) \/ WorkerDue(s)
  BY <1>2, <1>10, <1>11, Zenon DEF WorkerWait, WorkerDue
<1>12. CASE WorkerCall(s)
  <2>1. Instances(s)
    BY <1>2, <1>12, Zenon DEF WorkerCall, Instances, Drops
  <2> QED
    BY <1>0, <1>2, <1>4, <1>5, <1>12, <2>1, Zenon DEF WorkerCall, Go, SchedulerTypes
<1>13. CASE Reschedule(s)
  <2>1. Instances(s)
    BY <1>2, <1>13, Zenon DEF Reschedule, Instances, GivesBack
  <2> QED
    BY <1>0, <1>2, <1>4, <1>5, <1>13, <2>1, Zenon DEF Reschedule, Go, SchedulerTypes
<1>14. CASE WatchdogRound(s)
  <2>1. threadCount' \in Nat
    BY <1>0, <1>14 DEF WatchdogRound
  <2> QED
    BY <1>0, <1>2, <1>4, <1>5, <1>14, <2>1, Zenon DEF WatchdogRound, Exit, Go, Instances, SchedulerTypes
<1>15. CASE ScaleUp(s)
  <2> DEFINE at == [pc EXCEPT ![s] = "dogWait"]
  <2>1. UNCHANGED <<tasks, lastId, queue, hold, running, stopRequested, threadCount, handler, mpc>> /\ pc[s] = "scale"
    BY <1>15, Zenon DEF ScaleUp
  <2>2. CASE pc' = at /\ UNCHANGED <<role, hasWatchdog, gaveUp>>
    BY <1>0, <1>2, <1>4, <1>5, <2>1, <2>2, Zenon DEF Instances, SchedulerTypes
  <2>3. CASE SpawnMissing(at)
    <3>1. at \in [Slots -> Pcs]
      BY <1>0, Zenon DEF PoolTypes
    <3>2. \A u \in Slots : at[u] = IF u = s THEN "dogWait" ELSE pc[u]
      BY <1>0, Zenon DEF PoolTypes
    <3>3. ASSUME NEW u \in Slots PROVE Fits(role[u], at[u], hold[u])
      <4>1. Fits(role[u], pc[u], hold[u])
        BY Zenon DEF PoolInv
      <4>2. role[s] = "watchdog" /\ hold[s] = 0
        BY <1>2, <2>1, Zenon
      <4> QED
        BY <3>2, <4>1, <4>2, Zenon
    <3> HIDE DEF at
    <3>4. /\ PoolTypes' /\ PoolInv' /\ hasWatchdog' \in BOOLEAN /\ gaveUp' \in BOOLEAN
          /\ \A u \in Slots : pc'[u] \in {at[u], "loop", "watch"} /\ (u \in Live => pc'[u] = at[u])
      BY <2>1, <2>3, <3>1, <3>3, SpawnKeeps, Zenon
    <3>5. SchedulerTypes'
      BY <2>1, <3>4, Zenon DEF SchedulerTypes, PoolTypes
    <3>6. \A u \in Slots : pc[u] = "call" => u \in Live
      BY Zenon DEF PoolInv, Live
    <3>7. Calls(s)
      BY <1>c, <2>1, <3>2, <3>4, <3>6, Zenon DEF Calls
    <3> QED
      BY <2>1, <3>4, <3>5, <3>7, Zenon DEF Instances
  <2> QED
    BY <1>15, <2>2, <2>3, Zenon DEF ScaleUp
<1> QED
  BY <1>6, <1>7, <1>8, <1>9, <1>11, <1>12, <1>13, <1>14, <1>15, Zenon DEF PoolStep, WorkerStep, WatchdogStep

-----------------------------------------------------------------------------
(* The handler and the owner *)

\* The handler is called, calls on, or returns.
LEMMA HandlerMoves ==
  ASSUME SchedulerTypes, PoolInv, NEW s \in Slots, pc[s] \in {"run", "call"},
         UNCHANGED <<lastId, queue, role, flagVars, threadCount, handler, gaveUp, mpc>>, tasks' \subseteq Ids,
         \/ (Go(s, "run") \/ Go(s, "call") \/ Go(s, "push")) /\ hold' = hold
         \/ Go(s, "loop") /\ hold' = [hold EXCEPT ![s] = 0]
  PROVE  /\ SchedulerTypes' /\ PoolInv'
         /\ hold[s] \in Ids /\ (UNCHANGED hold \/ Drops(s))
         /\ \A u \in Slots \ {s} : pc'[u] = pc[u] /\ hold'[u] = hold[u]
<1>0. /\ PoolTypes /\ 0 \in 0..MaxIds /\ 0..MaxIds = Ids \cup {0}
  BY PoolTypesHold, PoolAssumption DEF Ids
<1>1. Fits(role[s], pc[s], hold[s])
  BY Zenon DEF PoolInv
<1>2. role[s] = "worker" /\ hold[s] \in Ids
  BY <1>0, <1>1 DEF Fits, PoolTypes, WorkerPcs, DogPcs, Holding
<1>3. PoolTypes'
  BY <1>0 DEF PoolTypes, Go, Pcs, WorkerPcs, Holding
<1>4. \A u \in Slots \ {s} : role'[u] = role[u] /\ pc'[u] = pc[u] /\ hold'[u] = hold[u]
  BY <1>0, Zenon DEF PoolTypes, Go
<1>5. Fits(role'[s], pc'[s], hold'[s])
  BY <1>0, <1>1, <1>2 DEF PoolTypes, Go, Fits, WorkerPcs, Holding
<1>6. PoolInv'
  BY <1>3, <1>4, <1>5, OneMoves, Zenon
<1>7. SchedulerTypes'
  BY <1>3, Zenon DEF SchedulerTypes, PoolTypes, flagVars, Pcs, WorkerPcs, DogPcs, Holding
<1> QED
  BY <1>2, <1>4, <1>6, <1>7, Zenon DEF Drops

\* The owner starts and stops the pool.
LEMMA OwnerMoves ==
  ASSUME SchedulerTypes, PoolInv, OwnerStep \/ \E givingUp \in BOOLEAN : Join(givingUp), mpc = "start" => Live = {}
  PROVE  /\ SchedulerTypes' /\ PoolInv' /\ UNCHANGED <<tasks, lastId, queue, hold, handler>>
         /\ mpc # "startThreads" => UNCHANGED role
         /\ \A s \in Slots : pc'[s] \in {"run", "call"} \/ pc[s] \in {"run", "call"} => pc'[s] = pc[s]
<1>0. PoolTypes
  BY PoolTypesHold, Zenon
<1>1. ASSUME UNCHANGED <<taskVars, hold, handler>>, threadCount' \in Nat, PoolTypes',
             {running', stopRequested', hasWatchdog', gaveUp'} \subseteq BOOLEAN
      PROVE  SchedulerTypes' /\ UNCHANGED <<tasks, lastId, queue, hold, handler>>
  BY <1>1, Zenon DEF SchedulerTypes, PoolTypes, taskVars, Pcs, WorkerPcs, DogPcs, Holding
<1>2. ASSUME WakeAll, UNCHANGED <<role, hold, flagVars>>
      PROVE  /\ PoolTypes' /\ PoolInv'
             /\ \A s \in Slots : pc'[s] \in {"run", "call"} \/ pc[s] \in {"run", "call"} => pc'[s] = pc[s]
  <2>1. \A s \in Slots : pc'[s] = IF pc[s] # "asleep" THEN pc[s] ELSE IF role[s] = "worker" THEN "wait" ELSE "dogWait"
    BY <1>2, Zenon DEF WakeAll
  <2>2. PoolTypes'
    BY <1>0, <1>2 DEF PoolTypes, WakeAll, Pcs, WorkerPcs, DogPcs, Holding
  <2>3. ASSUME NEW s \in Slots PROVE Fits(role[s], pc'[s], hold[s])
    <3>1. Fits(role[s], pc[s], hold[s])
      BY Zenon DEF PoolInv
    <3> QED
      BY <1>0, <2>1, <3>1 DEF Fits, PoolTypes, WorkerPcs, DogPcs, Holding
  <2> QED
    BY <1>2, <2>1, <2>2, <2>3, Zenon DEF PoolInv, Live, flagVars
<1>3. CASE Start
  <2>1. PoolInv'
    BY <1>3, Zenon DEF Start, PoolInv, Live, poolVars
  <2> QED
    BY <1>0, <1>1, <1>3, <2>1, Zenon DEF Start, poolVars, PoolTypes, SchedulerTypes
<1>4. CASE StartThreads
  <2>1. pc \in [Slots -> Pcs] /\ SpawnMissing(pc) /\ mpc = "startThreads"
        /\ UNCHANGED <<taskVars, hold, running, stopRequested, threadCount, handler>>
    BY <1>0, <1>4, Zenon DEF StartThreads, PoolTypes
  <2>2. \A s \in Slots : Fits(role[s], pc[s], hold[s])
    BY Zenon DEF PoolInv
  <2>3. /\ PoolTypes' /\ PoolInv' /\ hasWatchdog' \in BOOLEAN /\ gaveUp' \in BOOLEAN
        /\ \A s \in Slots : pc'[s] \in {pc[s], "loop", "watch"} /\ (s \in Live => pc'[s] = pc[s])
    BY <2>1, <2>2, SpawnKeeps, Zenon
  <2>4. threadCount' \in Nat /\ {running', stopRequested', hasWatchdog', gaveUp'} \subseteq BOOLEAN
    BY <2>1, <2>3, Zenon DEF SchedulerTypes
  <2>5. \A s \in Slots : pc[s] \in {"run", "call"} => s \in Live
    BY <2>2, Zenon DEF Fits, Live
  <2> QED
    BY <1>1, <2>1, <2>3, <2>4, <2>5, Zenon
<1>5. CASE PrepareShutdown \/ Stop
  <2>1. PoolInv'
    BY <1>5, Zenon DEF PrepareShutdown, Stop, StopFlags, PoolInv, poolVars
  <2> QED
    BY <1>0, <1>1, <1>5, <2>1, Zenon DEF PrepareShutdown, Stop, StopFlags, poolVars, PoolTypes, SchedulerTypes
<1>6. CASE PrepareWake \/ StopWake
  <2>1. WakeAll /\ UNCHANGED <<taskVars, role, hold, flagVars, threadCount, handler, gaveUp>>
    BY <1>6, Zenon DEF PrepareWake, StopWake
  <2>2. threadCount' \in Nat /\ {running', stopRequested', hasWatchdog', gaveUp'} \subseteq BOOLEAN
    BY <2>1, Zenon DEF SchedulerTypes, flagVars
  <2> QED
    BY <1>1, <1>2, <2>1, <2>2, Zenon
<1>7. ASSUME NEW givingUp \in BOOLEAN, Join(givingUp)
      PROVE  /\ SchedulerTypes' /\ PoolInv' /\ UNCHANGED <<tasks, lastId, queue, hold, handler>>
             /\ UNCHANGED <<role, pc>>
  <2>1. UNCHANGED <<taskVars, poolVars, flagVars, handler, gaveUp>> /\ threadCount' \in Nat
    BY <1>7 DEF Join
  <2>2. PoolInv'
    BY <2>1, Zenon DEF PoolInv, Live, poolVars, flagVars
  <2> QED
    BY <1>0, <1>1, <2>1, <2>2, Zenon DEF poolVars, flagVars, PoolTypes, SchedulerTypes
<1> QED
  BY <1>3, <1>4, <1>5, <1>6, <1>7, Zenon DEF OwnerStep, Start, PrepareShutdown, PrepareWake, Stop, StopWake, poolVars

\* A pool that is not running is given no thread by set_threads.
LEMMA SetThreadsKeeps ==
  ASSUME SchedulerTypes, PoolInv, NEW n \in Nat, SetThreads(n), ~running,
         UNCHANGED <<tasks, lastId, queue, hold, running, stopRequested>>, handler' \in BOOLEAN
  PROVE  SchedulerTypes' /\ PoolInv' /\ UNCHANGED <<role, pc>>
<1>1. threadCount' \in Nat /\ UNCHANGED <<role, pc, hasWatchdog, gaveUp>>
  BY Zenon DEF SetThreads, SpawnMissing
<1> QED
  BY <1>1, Zenon DEF SchedulerTypes, PoolInv, Live

\* Steps that leave the threads alone.
LEMMA Idles ==
  ASSUME PoolInv, UNCHANGED poolVars, UNCHANGED flagVars
  PROVE  PoolInv'
BY Zenon DEF PoolInv, Live, poolVars, flagVars
=============================================================================
