SPECIFICATION FairSpec
CONSTANTS
  Session = {s1}
  Tenant = {t1}
  TenantOf <- OneTenant
  StopLane = {u1}
  ScanLane = {a1}
  MaxConcurrentSessions = 1
  MaxScansPerHour = 1
  MaxStarts = 1
  MaxFaults = 0
  MaxCrashes = 1
CHECK_DEADLOCK FALSE
PROPERTIES
  OverdueUnregistered
  RecoveryResumes
