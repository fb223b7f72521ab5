SPECIFICATION Spec
CONSTANTS
  User = {u1, u2}
  NoUser = NoUser
  Password = {p1, p2}
  NoPassword = NoPassword
  Request = {r1}
  Operation = {"register", "verify", "resend", "forgot", "reset", "login", "fail", "approve", "reject", "unlock", "password", "delete"}
  MaxFailedLogins = 2
  MaxFallback = 1
  MaxCodeAttempts = 2
  MaxResends = 2
  MaxRequests = 9
  MaxFaults = 1
CHECK_DEADLOCK FALSE
SYMMETRY Symmetry
INVARIANT
  OneCode
  ResendsWithinLimit
  LocksInTime
PROPERTY
  FollowsWorkflow
