SPECIFICATION Spec
CONSTANTS
  Session = {s1}
  Tenant = {t1}
  TenantOf <- OneTenant
  StopLane = {u1}
  ScanLane = {a1, a2}
  MaxConcurrentSessions = 1
  MaxScansPerHour = 1
  MaxStarts = 1
  MaxFaults = 1
  MaxCrashes = 1
SYMMETRY Symmetry
INVARIANTS
  HourlyOverrunBounded
  ExpiredOnlyWhenOverdue
  ArmedEntryHasBundle
CHECK_DEADLOCK FALSE
