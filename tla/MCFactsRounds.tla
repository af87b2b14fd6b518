---------------------------- MODULE MCFactsRounds ----------------------------
(* FactsRounds for TLC; the threads that run rounds are interchangeable.     *)
EXTENDS FactsRounds, TLC

MCSizes == [s \in Sets |-> IF s = Agent THEN {1} ELSE {1, 2}]
MCOwners == Ids \cup {Core}
Symmetry == Permutations(Rounders)
=============================================================================
