--------------------------- MODULE MCAuthorization ---------------------------
(* Values of the constants of Authorization for TLC. *)
EXTENDS Authorization, TLC

Read == <<"energy", "settings", "read">>
AnyAction == <<"energy", "settings", "*">>

OnePermission == {Read}
TwoPatterns == {Read, AnyAction}

\* Policies that allow by a wildcard or deny by name, or the other way round.
SomeContent ==
  {[allow |-> {Read}, deny |-> {}], [allow |-> {AnyAction}, deny |-> {}],
   [allow |-> {}, deny |-> {Read}], [allow |-> {}, deny |-> {AnyAction}]}

\* A customer, or every customer; an asset of that customer.
Customer1 == <<"customer:", "1">>
Customers == <<"customer:", "*">>
Asset1 == <<"customer:", "1", "/", "asset:", "1">>

TwoScopes == {Customer1, Customers}
OneResource == {Asset1}

Symmetry ==
  Permutations(PolicyId) \cup Permutations(PolicyKey) \cup Permutations(RoleId)
    \cup Permutations(RoleKey) \cup Permutations(User) \cup Permutations(Request)
=============================================================================
