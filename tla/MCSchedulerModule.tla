------------------------- MODULE MCSchedulerModule -------------------------
(* SchedulerModule for TLC; the pool's threads are interchangeable.         *)
EXTENDS SchedulerModule, TLC

Symmetry == Permutations(Slots)
=============================================================================
