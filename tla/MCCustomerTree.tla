--------------------------- MODULE MCCustomerTree ---------------------------
(* Symmetry of the instances of CustomerTree that TLC checks. *)
EXTENDS CustomerTree, TLC

Symmetry == Permutations(Customer) \cup Permutations(Mover) \cup Permutations(Request \ Mover)
              \cup Permutations(Setting)
=============================================================================
