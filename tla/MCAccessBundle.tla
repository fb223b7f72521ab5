---------------------------- MODULE MCAccessBundle ----------------------------
(* Values of the constants of AccessBundle for TLC. *)
EXTENDS AccessBundle, TLC

Read == <<"energy", "settings", "read">>
Write == <<"energy", "settings", "write">>
AnyAction == <<"energy", "settings", "*">>

OnePermission == {Read}
ThreePatterns == {Read, Write, AnyAction}

\* A policy allows by name and by a wildcard, allows something else, or denies by
\* name.
SomeContent ==
  {[allow |-> {Read, AnyAction}, deny |-> {}], [allow |-> {Write}, deny |-> {}],
   [allow |-> {}, deny |-> {Read}]}

\* Where the wildcard stands alone.
WildcardContent == {[allow |-> {AnyAction}, deny |-> {}]}

Everywhere == <<"*">>
OneScope == {Everywhere}
OneResource == {Everywhere}

Symmetry ==
  Permutations(PolicyId) \cup Permutations(PolicyKey) \cup Permutations(RoleId)
    \cup Permutations(RoleKey) \cup Permutations(User) \cup Permutations(Client)
=============================================================================
