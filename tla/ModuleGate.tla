----------------------------- MODULE ModuleGate -----------------------------
(***************************************************************************)
(* What a gate around a module promises (include/threads/in_flight.hpp):    *)
(* threads get in while its door is open, nobody new does while it is       *)
(* closed, and the module goes down only with nobody inside, for good.      *)
(*                                                                         *)
(* The code has the gate three times: around the log handlers (LogDelivery),*)
(* around every call into a module (PluginDispatch) and around the rounds   *)
(* of metrics and facts (FactsRounds).  How each closes the door, waits and *)
(* gives up differs; each is shown to implement this specification.         *)
(***************************************************************************)
CONSTANTS Modules, Visitors

VARIABLES
  door,    \* per module: "open", "closed", or "down" once it was torn down
  inside   \* per module, the threads in it

Init ==
  /\ door \in [Modules -> {"open", "closed"}]
  /\ inside = [m \in Modules |-> {}]

\* A thread that is in already may call the module again, and stays counted once.
Enter(m, v) ==
  /\ door[m] = "open"
  /\ inside' = [inside EXCEPT ![m] = @ \cup {v}]
  /\ UNCHANGED door

Leave(m, v) ==
  /\ v \in inside[m]
  /\ inside' = [inside EXCEPT ![m] = @ \ {v}]
  /\ UNCHANGED door

\* A door is closed, or opened again after an unload that was refused, or the
\* module behind it goes down.  A shutdown does this to several at once.
MayTurn(m, to) ==
  \/ to = door[m]
  \/ to \in {"open", "closed"} /\ door[m] # "down"
  \/ to = "down" /\ inside[m] = {}

Turn ==
  /\ UNCHANGED inside
  /\ DOMAIN door' = Modules
  /\ \A m \in Modules : MayTurn(m, door'[m])

Next == Turn \/ \E m \in Modules, v \in Visitors : Enter(m, v) \/ Leave(m, v)

Spec == Init /\ [][Next]_<<door, inside>>
=============================================================================
