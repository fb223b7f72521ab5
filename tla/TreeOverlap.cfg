SPECIFICATION Spec
CONSTANTS
  Customer = {c1, c2, c3}
  NoParent = NoParent
  Request = {r1, r2}
  Mover = {r1}
  Setting = {k1, k2}
  MaxRequests = 6
  MaxFaults = 1
CHECK_DEADLOCK FALSE
SYMMETRY Symmetry
INVARIANTS
  PathNamesParent
PROPERTY
  SettingsNeverLost
