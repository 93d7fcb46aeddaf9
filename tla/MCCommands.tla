------------------------------ MODULE MCCommands ------------------------------
(***************************************************************************)
(* Runs and the commands of agents and operators, in two parts of one run. *)
(* One part is chosen at the start, the other stands still:                *)
(*   "lease"  who may write the board (RunLease);                          *)
(*   "ship"   the commands of `aet ship` on the branch of a task (Ship).   *)
(***************************************************************************)
EXTENDS MCRunLease, Ship

VARIABLE part

all == <<part, vars, shipVars>>

\* A plan of two tasks, what an operator may split it into, and a version of
\* the trunk that conflicts with the first task.
Touched == {"a", "b", "VERSION"}
Planned == <<{"a"}, {"b"}>>
Offered == {<<{"a"}, {"b"}>>, <<{"b"}>>, <<{"b"}, {"typo"}>>}
Moving == <<{"a"}>>
Drifting == {}

CommandsInit == part \in {"lease", "ship"} /\ Init /\ ShipInit

Claiming == part = "lease" /\ Next /\ UNCHANGED <<part, shipVars>>
Shipping == part = "ship" /\ ShipNext /\ UNCHANGED <<part, vars>>
\* Only the competition for the lease must never stop.
Rest == part = "ship" /\ UNCHANGED all
CommandsNext == Claiming \/ Shipping \/ Rest

CommandsSpec == CommandsInit /\ [][CommandsNext]_all
===============================================================================
