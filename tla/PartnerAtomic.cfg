SPECIFICATION Spec
CONSTANTS
  Partner = {p1}
  EmailOf <- OneEmail
  Request = {r1, r2}
  Credential = {c1, c2}
  Hook = {h1}
  Scope = {x1, x2}
  MaxVersion = 6
CHECK_DEADLOCK FALSE
SYMMETRY Symmetry
INVARIANTS
  OnlyApprovedHaveCredentials
  ScopesWithinGrant
PROPERTY
  Atomic
