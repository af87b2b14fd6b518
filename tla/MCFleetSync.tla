--------------------------- MODULE MCFleetSync ---------------------------
(* FleetSync for TLC: a state with scripts, one without, and a third that  *)
(* renders what the first does.                                            *)
EXTENDS FleetSync, TLC

CONSTANTS s1, s2, s3, c1, c2

MCContentOf == s1 :> c1 @@ s2 :> c2 @@ s3 :> c1
=============================================================================
