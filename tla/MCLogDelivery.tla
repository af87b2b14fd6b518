--------------------------- MODULE MCLogDelivery ---------------------------
(* LogDelivery for TLC: the subscribers and the logging threads are         *)
(* interchangeable where no liveness property is checked.                   *)
EXTENDS LogDelivery, TLC

Symmetry == Permutations(Subs) \cup Permutations(Loggers)
=============================================================================
