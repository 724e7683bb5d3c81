------------------------------ MODULE MCCombat ------------------------------
(* Small instances of Combat for TLC. *)
EXTENDS Combat, TLC

CONSTANTS square, hall

\* Players fight in the square and not in the hall, and walk between them.
MCExits == {<<square, hall>>, <<hall, square>>}

Symmetry == Permutations(Players)

=============================================================================
