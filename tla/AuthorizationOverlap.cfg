SPECIFICATION Spec
CONSTANTS
  PolicyId = {p1, p2}
  PolicyKey = {k1, k2}
  RoleId = {o1}
  RoleKey = {x1}
  User = {u1}
  None = None
  Scope <- TwoScopes
  Resource <- OneResource
  Pattern <- TwoPatterns
  Permission <- OnePermission
  Content <- SomeContent
  Request = {r1, r2}
  Operation = {"createPolicy", "updatePolicy", "deletePolicy", "createRole", "updateRole", "deleteRole", "assignRole", "revokeAssignment", "evaluate"}
  MaxRequests = 6
  MaxFaults = 1
CHECK_DEADLOCK FALSE
SYMMETRY Symmetry
INVARIANTS
  StandingDenyWins
  StandingAllowGranted
