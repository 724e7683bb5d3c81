------------------------------ MODULE MCSession ------------------------------
(* Small instances of Session for TLC. *)
EXTENDS Session, TLC

\* Connection and player objects are told apart only by identity.
Symmetry == Permutations(Conns) \cup Permutations(Players)

=============================================================================
