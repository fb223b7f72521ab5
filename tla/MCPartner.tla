------------------------------ MODULE MCPartner ------------------------------
(* Values of the constants of Partner for TLC. *)
EXTENDS Partner, TLC

OneEmail == [p \in Partner |-> "email"]

Symmetry == Permutations(Request) \cup Permutations(Credential) \cup Permutations(Scope)
=============================================================================
