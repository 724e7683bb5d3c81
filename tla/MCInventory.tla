---------------------------- MODULE MCInventory ----------------------------
(* Small instances of Inventory for TLC. *)
EXTENDS Inventory, TLC

CONSTANTS script, ram, card

\* A finger request script, which is carried only; a card that drops on exit
\* and costs more HP than there is, so that the maximum wraps; and a memory
\* module that drops on PK but not on exit.
MCSize == [k \in Kinds |-> IF k = script THEN 1 ELSE 2]
MCMod == [k \in Kinds |-> IF k = ram THEN 1 ELSE IF k = card THEN -2 ELSE 0]
MCSlotOf == [k \in Kinds |-> IF k = script THEN NULL ELSE 1]

NameSymmetry == Permutations(Names)

=============================================================================
