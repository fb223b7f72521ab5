SPECIFICATION AccessSpec
CONSTANTS
  PolicyId = {p1, p2}
  PolicyKey = {k1, k2}
  RoleId = {o1}
  RoleKey = {x1}
  User = {u1}
  None = None
  Scope <- OneScope
  Resource <- OneResource
  Pattern <- ThreePatterns
  Permission <- OnePermission
  Content <- SomeContent
  Request = {r1}
  Client = {c1, c2}
  BundleScope <- OneScope
  Every <- Everywhere
  Operation = {"createPolicy", "updatePolicy", "deletePolicy", "createRole", "updateRole", "deleteRole", "assignRole", "revokeAssignment"}
  MaxRequests = 4
  MaxFaults = 0
  PartSet = {{"domains", "features", "flat"}}
  MaxCalls = 2
CHECK_DEADLOCK FALSE
SYMMETRY Symmetry
INVARIANTS
  ReferencesHold
  StandingAllowBundled
