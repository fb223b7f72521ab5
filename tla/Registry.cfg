SPECIFICATION Spec
CONSTANTS
  Component = {"market", "groups", "assets", "devices", "centrals", "teams", "themes", "rules", "keys", "sessions", "monitor", "audit", "listings", "users", "evaluation", "permissions"}
  MaxPackages = 2
  Subscriber = {s1, s2}
  Version = {1, 2}
  MaxGroups = 3
  Member = {m1}
  MaxAssets = 3
  AssetOwner = {c1, c2}
  MaxFleetAssets = 2
  MaxDevices = 2
  ExternalId = {e1}
  MaxGatewayAssets = 1
  MaxCentrals = 1
  MaxTeams = 2
  User = {u1, u2}
  MaxThemes = 3
  Brand = {b1}
  MaxRules = 1
  Sensor = {d1}
  Place = {p1, p2}
  Owner = c1
  Other = c2
  MaxSeconds = 2
  MaxKeys = 1
  ScopeSet = {{"bundles:read"}, {"rules:read"}, {"*:read"}}
  Person = {v1}
  MaxTokens = 3
  MaxMfaFailed = 2
  Client = {k1, k2}
  Watched = {w1, w2}
  Exercised = {"session:started", "bundle:fetched", "bundle:unchanged"}
  MaxEvents = 3
  MaxCustomers = 1
  MaxRows = 4
  MaxKey = 4
  PageSize = 1
  MaxPages = 4
  MaxChanges = 1
  MaxUsers = 2
  MaxLinks = 3
  ListLimit = 1
  Email = {m2, m3}
  Username = {n1}
  Metric = {q1, q2}
  Measured = {0, 1, 2, 3}
  Config <- SomeConfigs
  Hours = 2
  MaxPermissions = 3
  Tenant = {t1, t2}
  PermissionKey = {n1, n2}
  MaxBulk = 2
  Request = {r1, r2}
  MaxRequests = 7
CHECK_DEADLOCK FALSE
SYMMETRY Symmetry
INVARIANTS RegistryTypeOK GroupsConsistent AssetsConsistent DevicesConsistent CentralsConsistent TeamsConsistent ThemesConsistent MonitorConsistent AuditConsistent ListingsConsistent UsersConsistent PermissionsConsistent
PROPERTIES PackagesConsistent BundlesConsistent KeysConsistent SessionsConsistent
