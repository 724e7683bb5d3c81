--------------------------- MODULE MCClientMirror ---------------------------
(* One client, one other player, one program, two rooms and a few items.   *)
EXTENDS ClientMirror, TLC

CONSTANT boost

\* The boost doubles the CPU and needs a level.
MCBoost == [i \in Items |-> IF i = boost THEN 1 ELSE 0]
MCNeeds == MCBoost

=============================================================================
