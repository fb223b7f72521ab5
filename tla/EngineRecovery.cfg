SPECIFICATION Spec
CONSTANTS
  Session = {s1, s2}
  Tenant = {t1, t2}
  TenantOf <- TwoTenants
  StopLane = {}
  ScanLane = {}
  MaxConcurrentSessions = 1
  MaxScansPerHour = 1
  MaxStarts = 1
  MaxFaults = 1
  MaxCrashes = 1
CHECK_DEADLOCK FALSE
INVARIANTS
  OrphanRunningWasEnded
