----------------------------- MODULE MCAccount -----------------------------
(* Symmetry of the instances of Account that TLC checks. *)
EXTENDS Account, TLC

Symmetry == Permutations(User) \cup Permutations(Password) \cup Permutations(Request)
=============================================================================
