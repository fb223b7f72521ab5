------------------------------ MODULE Registry ------------------------------
(***************************************************************************)
(* The components whose requests only touch tables of their own, checked   *)
(* by one run.  Nothing is shared between them but the event loop, so what *)
(* one can do does not depend on what another has done, and it is enough   *)
(* that the requests of a behaviour all go to one component, which the     *)
(* initial state chooses.  Devices and centrals stand in assets, and take  *)
(* the requests of that component with theirs.  Sessions and users are two *)
(* views of the users table: each has the other's writers as requests that *)
(* write back what they have read of its columns.  Maintenance groups have *)
(* the users by a foreign key, and take their deletion with the requests   *)
(* of their own.  The tables that are not used are empty.                  *)
(***************************************************************************)
EXTENDS Estate, TLC

CONSTANTS
  Component,    \* the components that are exercised
  MaxPackages, Subscriber, Version,
  MaxThemes, Brand,
  MaxRules, Sensor, Place, Owner, Other, MaxSeconds,
  Person, MaxTokens, MaxMfaFailed,
  Client, Watched, Exercised, MaxEvents,
  MaxCustomers,
  MaxRows, MaxKey, PageSize, MaxPages, MaxChanges,
  MaxUsers, MaxLinks, ListLimit, Email, Username,
  Metric, Measured, Config, Hours,
  MaxPermissions, Tenant, PermissionKey, MaxBulk

VARIABLES
  active,       \* the component whose requests these are
  package, subscription, submitted,
  theme, asked, alone,
  rule, place, second, held, stirred,
  account, refreshTokens, challenged, secured, cut,
  listening, clients, counters, emitted,
  customer, change, entry, pending, level, unlogged,
  list, item, reader, seen, changes, stood, went, came, tied,
  person, issued, lapsed, spent, chosen, filled, rewound, denied,
  config, enabled, hour, bundled, sample, verdict, scanned, raised,
  permission, bulk, standing, foreign

\* Bounds: the requests made to a component.
Market == INSTANCE Marketplace
Looks == INSTANCE Themes WITH MaxRequests <- MaxRequests - 3
Rules == INSTANCE AlarmRules WITH MaxRequests <- MaxRequests - 4, Customer <- Owner
Signing == INSTANCE Sessions WITH MaxRequests <- MaxRequests - 2
Watching == INSTANCE SimulatorMonitor
Paging == INSTANCE Listings
Trail == INSTANCE AuditTrail WITH MaxRequests <- MaxRequests - 4
Directory == INSTANCE Users WITH MaxRequests <- MaxRequests - 4
Judging == INSTANCE RuleEvaluation WITH Reading <- Measured
Naming == INSTANCE DomainPermissions WITH MaxRequests <- MaxRequests - 4, Key <- PermissionKey

ASSUME RegistryAssumption ==
  /\ MaxPermissions \in Nat /\ Tenant # {} /\ PermissionKey # {}
  /\ MaxEvents \in Nat /\ Watched # {}
  /\ Person # {} /\ MaxTokens \in Nat
  /\ MaxUsers \in Nat /\ MaxLinks \in Nat \ {0} /\ Email # {} /\ Directory!None \notin Username

market == <<package, subscription, submitted>>
looks == <<theme, asked, alone>>
rules == <<rule, place, second, held, stirred>>
sessions == <<account, refreshTokens, challenged, secured, cut>>
monitor == <<listening, clients, counters, emitted>>
trail == <<customer, change, entry, pending, level, unlogged>>
paging == <<list, item, reader, seen, changes, stood, went, came, tied>>
directory == <<person, issued, lapsed, spent, chosen, filled, rewound, denied>>
judging == <<config, enabled, hour, bundled, sample, verdict, scanned, raised>>
naming == <<permission, bulk, standing, foreign>>

vars == <<requests, active, market, group, asset, fleet, gateways, teams, looks, rules, keys, sessions, monitor,
          trail, paging, directory, judging, naming>>

Init ==
  /\ active \in Component
  /\ IF active = "market" THEN Market!MarketInit
     ELSE package = <<>> /\ subscription = <<>> /\ submitted = {}
  /\ IF active = "groups" THEN Grouping!GroupsInit ELSE group = <<>>
  /\ CASE active = "assets" -> Tree!AssetsInit
       [] active = "devices" -> Fleet!AssetsInit
       [] active = "centrals" -> Gateways!AssetsInit
       [] OTHER -> asset = <<>>
  /\ IF active = "devices" THEN Fleet!DevicesInit ELSE device = <<>> /\ owners = {} /\ merged = <<>>
  /\ IF active = "centrals" THEN Gateways!CentralsInit ELSE central = <<>> /\ mergedKeys = <<>>
  /\ IF active = "teams" THEN Teams!TeamsInit
     ELSE team = <<>> /\ membership = <<>> /\ enrolled = {} /\ left = <<>>
  /\ IF active = "themes" THEN Looks!ThemesInit ELSE theme = <<>> /\ asked = <<>> /\ alone = TRUE
  /\ IF active = "rules" THEN Rules!RulesInit
     ELSE rule = <<>> /\ place = <<>> /\ second = 0 /\ held = <<>> /\ stirred = {}
  /\ IF active = "keys" THEN Keys!KeysInit
     ELSE key = <<>> /\ late = FALSE /\ wanted = <<>> /\ admitted = <<>> /\ lost = <<>>
  /\ IF active = "sessions" THEN Signing!SessionsInit
     ELSE account = <<>> /\ refreshTokens = <<>> /\ challenged = {} /\ secured = {} /\ cut = <<>>
  /\ IF active = "monitor" THEN Watching!MonitorInit /\ RequestsInit
     ELSE listening = FALSE /\ clients = <<>> /\ counters = <<>> /\ emitted = <<>>
  /\ IF active = "audit" THEN Trail!TrailInit
     ELSE customer = <<>> /\ change = <<>> /\ entry = <<>> /\ pending = {} /\ level = 0 /\ unlogged = {}
  /\ IF active = "listings" THEN Paging!ListingsInit /\ RequestsInit
     ELSE /\ list = <<>> /\ item = <<>> /\ reader = <<>> /\ seen = <<>> /\ changes = 0
          /\ stood = {} /\ went = 0 /\ came = 0 /\ tied = FALSE
  /\ IF active = "users" THEN Directory!UsersInit
     ELSE /\ person = <<>> /\ issued = 0 /\ lapsed = {} /\ spent = {} /\ chosen = <<>> /\ filled = <<>>
          /\ rewound = {} /\ denied = FALSE
  /\ IF active = "evaluation" THEN Judging!EvaluationInit /\ RequestsInit
     ELSE /\ config = <<>> /\ enabled = FALSE /\ hour = 0 /\ bundled = {} /\ sample = <<>>
          /\ verdict = "none" /\ scanned = FALSE /\ raised = {}
  /\ IF active = "permissions" THEN Naming!PermissionsInit
     ELSE permission = <<>> /\ bulk = <<>> /\ standing = <<>> /\ foreign = {}

\* The tables of the components that are not exercised stay empty.
OthersRest ==
  /\ IF active = "market" THEN TRUE ELSE UNCHANGED market
  /\ IF active = "groups" THEN TRUE ELSE UNCHANGED group
  /\ IF active \in {"assets", "devices", "centrals"} THEN TRUE ELSE UNCHANGED asset
  /\ IF active = "devices" THEN TRUE ELSE UNCHANGED fleet
  /\ IF active = "centrals" THEN TRUE ELSE UNCHANGED gateways
  /\ IF active = "teams" THEN TRUE ELSE UNCHANGED teams
  /\ IF active = "themes" THEN TRUE ELSE UNCHANGED looks
  /\ IF active = "rules" THEN TRUE ELSE UNCHANGED rules
  /\ IF active = "keys" THEN TRUE ELSE UNCHANGED keys
  /\ IF active = "sessions" THEN TRUE ELSE UNCHANGED sessions
  /\ IF active = "monitor" THEN TRUE ELSE UNCHANGED monitor
  /\ IF active \in {"monitor", "listings", "evaluation"} THEN UNCHANGED requests ELSE TRUE
  /\ IF active = "audit" THEN TRUE ELSE UNCHANGED trail
  /\ IF active = "listings" THEN TRUE ELSE UNCHANGED paging
  /\ IF active = "users" THEN TRUE ELSE UNCHANGED directory
  /\ IF active = "evaluation" THEN TRUE ELSE UNCHANGED judging
  /\ IF active = "permissions" THEN TRUE ELSE UNCHANGED naming

Next ==
  /\ UNCHANGED active
  /\ \/ active = "market" /\ Market!MarketNext
     \/ active = "groups" /\ Grouping!GroupsNext
     \/ active = "assets" /\ Tree!AssetsNext
     \/ active = "devices" /\ Fleet!DevicesNext
     \/ active = "centrals" /\ Gateways!CentralsNext
     \/ active = "teams" /\ Teams!TeamsNext
     \/ active = "themes" /\ Looks!ThemesNext
     \/ active = "rules" /\ Rules!RulesNext
     \/ active = "keys" /\ Keys!KeysNext
     \/ active = "sessions" /\ Signing!SessionsNext
     \/ active = "monitor" /\ Watching!MonitorNext
     \/ active = "audit" /\ Trail!TrailNext
     \/ active = "listings" /\ Paging!ListingsNext
     \/ active = "users" /\ Directory!UsersNext
     \/ active = "evaluation" /\ Judging!EvaluationNext
     \/ active = "permissions" /\ Naming!PermissionsNext
  /\ OthersRest

Spec == Init /\ [][Next]_vars

\* Thresholds below, at and above which readings fall, with and without an upper end.
SomeConfigs ==
  [type : {"ALARM_THRESHOLD"}, metric : {CHOOSE x \in Metric : TRUE},
   operator : {"GT", "GTE", "LT", "LTE", "EQ", "NEQ", "BETWEEN", "OUTSIDE"}, value : {1}, high : {{}, {2}}]
    \cup [type : {"SLA"}, metric : {CHOOSE x \in Metric : TRUE}, method : {"AVAILABILITY", "ERROR_RATE"},
          target : {2}, warning : {0, 50}]
    \cup [type : {"MAINTENANCE_WINDOW"}, start : {1}, end : {{}, {1}}]
    \cup [type : {"ESCALATION"}]

Symmetry == Permutations(Request)

-----------------------------------------------------------------------------
\* What each component keeps to.  The parts are stated and explained in its module.

\* The rows of every table are of their types.
RegistryTypeOK ==
  /\ active = "market" => Market!MarketTypeOK
  /\ active = "groups" => Grouping!GroupsTypeOK
  /\ active = "assets" => Tree!AssetsTypeOK
  /\ active = "devices" => Fleet!DevicesTypeOK
  /\ active = "centrals" => Gateways!CentralsTypeOK
  /\ active = "teams" => Teams!TeamsTypeOK
  /\ active = "themes" => Looks!ThemesTypeOK
  /\ active = "rules" => Rules!RulesTypeOK
  /\ active = "keys" => Keys!KeysTypeOK
  /\ active = "sessions" => Signing!SessionsTypeOK
  /\ active = "monitor" => Watching!MonitorTypeOK
  /\ active = "audit" => Trail!TrailTypeOK
  /\ active = "listings" => Paging!ListingsTypeOK
  /\ active = "users" => Directory!UsersTypeOK
  /\ active = "permissions" => Naming!PermissionsTypeOK
  /\ active = "evaluation" => Judging!EvaluationTypeOK

\* IntegrationService: the current version of a package is the last one listed,
\* what is published was submitted for review, and no subscription is counted
\* that was not made. IntegrationRepository.publish: overlapping publishers lose
\* no version.
PackagesConsistent ==
  /\ [](active = "market" =>
        /\ Market!CurrentIsLast
        /\ Market!PublishedWasSubmitted
        /\ Market!CountWithinSubscriptions)
  /\ [][active = "market" => Market!OnlyAppends]_vars

\* GroupRepository.move: parent, path and depth of a row agree whatever overlaps
\* and, one after the other, requests leave each child listed by its parent
\* alone. addMembers: the count is that of the members.
GroupsConsistent == active = "groups" =>
    /\ Grouping!HierarchyAgrees
    /\ Grouping!LinksAgree
    /\ Grouping!CountIsMembers

\* AssetRepository.move: the path of an asset ends in the asset whatever
\* overlaps, and starts from its customer between requests. AssetService.delete:
\* none is left without its parent.
AssetsConsistent == active = "assets" =>
    Tree!PathNamesCustomer /\ Tree!ParentsExist /\ Tree!PathEndsInSelf

\* DeviceService.move and AssetService.delete: a device has its asset, and a
\* customer its asset has had, whatever overlaps. DeviceRepository.update:
\* metadata merged by one update survives the others. DeviceService.update: one
\* after the other, requests give no external id twice.
DevicesConsistent == active = "devices" =>
    /\ Fleet!CustomerWasOwner
    /\ Fleet!DeviceHasAsset
    /\ Fleet!MergesKept
    /\ Fleet!ExternalIdsDiffer

\* CentralRepository.update: configuration merged by one update survives the
\* others. AssetService.delete: a central has its asset, by whichever route it
\* was made.
CentralsConsistent == active = "centrals" =>
    Gateways!CentralHasAsset /\ Gateways!ConfigKept

\* MaintenanceGroupRepository: serially, only expiry and the deletion of users
\* make the stored count of members too large, and no membership outlives its
\* group.
TeamsConsistent == active = "teams" =>
    Teams!CountBetween /\ Teams!MembersHaveGroup

\* ThemeService.setDefault: the default of a customer is the theme it asked for
\* last, and a request that is alone restores that after others have overlapped.
ThemesConsistent == active = "themes" =>
    Looks!DefaultIsLastAsked

\* AlarmBundleService: every rule a device is mapped to is in the catalog of the
\* bundle. rules.controller: a poll that nothing has overlapped brings the
\* gateway up to date. RuleService.evaluate: opposite operators exclude each
\* other, better readings get no worse grades, and the simulator agrees where its
\* bundle tells the rule.
BundlesConsistent ==
  /\ [](active = "rules" => Rules!HeldIsClosed)
  /\ [][active = "rules" => Rules!Refreshes]_vars
  /\ [](active = "evaluation" =>
        /\ Judging!EvaluatorsAgree
        /\ Judging!OppositesExclude
        /\ Judging!GradesOrdered)

\* CustomerApiKeyService: updates do not disturb the count of uses and, one after
\* the other, leave the key as asked; a key that was revoked is not stored again.
KeysConsistent ==
  /\ [](active = "keys" => Keys!UsageAccounted /\ Keys!StoredAsWanted)
  /\ [][active = "keys" => Keys!Withdraws]_vars

\* AuthService: one after the other, exchanges leave a session one good token,
\* and a token that was taken out of the map is not good again.
\* UserRepository.recordLogin: a login leaves the second factor as it was asked.
SessionsConsistent ==
  /\ [](active = "sessions" => Signing!OneTokenPerSession /\ Signing!MfaAsAsked)
  /\ [][active = "sessions" => Signing!Ends]_vars

\* SimulatorMonitorService: a client gets all events of its session and no
\* others. SimulatorMetricsService: the counters agree with what was emitted.
MonitorConsistent == active = "monitor" =>
    Watching!WatchersSeeAll /\ Watching!CountersAgree

\* logEvent: an entry of the trail claims nothing that did not happen, whatever
\* overlaps, and one after the other the entries link the values that were
\* replaced; no change goes without an entry unnoticed. sanitizePII: no secret is
\* stored.
AuditConsistent == active = "audit" =>
    /\ Trail!EntriesTrue
    /\ Trail!EntriesLink
    /\ Trail!ChangesAccounted
    /\ Trail!NothingExposed

\* The list methods of the repositories: a reader of pages counted by offsets
\* misses and repeats no more rows than have gone and come in front of its place.
\* AuditLogRepository.findMany: newest first no entry comes twice, oldest first
\* none is missed.
ListingsConsistent == active = "listings" =>
    Paging!MissesBounded /\ Paging!NewestOnce /\ Paging!OldestAll

\* UserService: one after the other, requests leave each user the password it
\* asked for last, a link that was followed is not good again, and no username is
\* given twice. UserRepository.update: a field that was given survives the
\* others, whatever overlaps, as long as no write takes the version back.
UsersConsistent == active = "users" =>
    /\ Directory!TokensSpent
    /\ Directory!PasswordAsChosen
    /\ Directory!UsernamesDiffer
    /\ Directory!FieldsKept

\* DomainPermissionRepository.bulkCreate: a bulk that has succeeded missed no
\* permission that it named, whatever overlaps, and no tenant has one permission
\* twice.
PermissionsConsistent == active = "permissions" =>
    Naming!PermissionsDiffer /\ Naming!BulkComplete

-----------------------------------------------------------------------------
\* What the code does not keep, to be named in place of the invariants of Registry.cfg,
\* with Component = {the component}.  The comments are those of the modules.

\* A group is listed by the parent it names.
ParentsList == active = "groups" => Grouping!ParentsList

\* No group is below itself.
NoCycle == active = "groups" => Grouping!NoCycle

\* No group lists a member twice.
MembersDistinct == active = "groups" => Grouping!MembersDistinct

\* The path of an asset continues that of its parent.
PathsFollow == active = "assets" => Tree!PathsFollow

\* The depth of an asset counts its path.
DepthCountsPath == active = "assets" => Tree!DepthCountsPath

\* No asset is below itself.
NoAssetCycle == active = "assets" => Tree!NoAssetCycle

\* No two devices hold one external id, whatever overlaps.
ExternalIdsUnique == active = "devices" => Fleet!ExternalIdsUnique

\* A device belongs to the customer that its asset has now.
CustomerFollows == active = "devices" => Fleet!CustomerFollows

\* A central belongs to the customer of its asset.
CustomerMatches == active = "centrals" => Gateways!CustomerMatches

\* The statistics of one heartbeat survive the others.
StatsKept == active = "centrals" => Gateways!StatsKept

\* Between requests the stored count of a group is that of its members.
CountIsMembership == active = "teams" => Teams!CountIsMembership

\* Between requests a customer has one default theme at most.
OneDefault == active = "themes" => Looks!OneDefault

\* The parent that a theme names is there.
ParentStays == active = "themes" => Looks!ParentStays

\* A bundle of the version that is held has the content that is held.
VersionIsOfContent == active = "rules" => Rules!VersionIsOfContent

\* A key that was deactivated is not active.
DeactivatedStays == active = "keys" => Keys!DeactivatedStays

\* A session has one refresh token, whatever overlaps.
OneHeir == active = "sessions" => Signing!OneHeir

\* No session from before the last logout of everything is left.
AllDevicesLeft == active = "sessions" => Signing!AllDevicesLeft

\* Each version published is greater than the one before.
VersionsGrow == active = "market" => Market!VersionsGrow

\* The stored count of subscribers covers the active subscriptions.
ActiveAreCounted == active = "market" => Market!ActiveAreCounted

\* The previous value of an entry is the one the update has replaced.
OldIsReplaced == active = "audit" => Trail!OldIsReplaced

\* The entries of a customer stand in the order of its changes.
InOrder == active = "audit" => Trail!InOrder

\* No address is stored unmasked.
AddressesMasked == active = "audit" => Trail!AddressesMasked

\* Nothing changes, and a reader of a list that is filtered after the cut finds all there is.
FilteredFindsAll == active = "listings" => Paging!FilteredFindsAll

\* Nothing changes, and a reader who counts misses nothing.
NoneMissedAtRest == active = "listings" => Paging!NoneMissedAtRest

\* Nothing changes, and a reader of the trail misses nothing.
EntriesAllHad == active = "listings" => Paging!EntriesAllHad

\* Nothing changes, and a reader of the trail has nothing twice.
EntriesHadOnce == active = "listings" => Paging!EntriesHadOnce

\* A link that was followed is not good again, whatever overlaps.
LinksWorkOnce == active = "users" => Directory!LinksWorkOnce

\* No two users have one username, whatever overlaps.
UsernamesUnique == active = "users" => Directory!UsernamesUnique

\* A good token is accepted.
GoodTokensAccepted == active = "users" => Directory!GoodTokensAccepted

\* Between requests an unverified user has a token to verify.
UnverifiedCanVerify == active = "users" => Directory!UnverifiedCanVerify

\* A field that was given survives the others, whatever overlaps (Request = {r1, r2, r3}, MaxRequests = 8).
FieldsStay == active = "users" => Directory!FieldsStay

\* A bulk that has failed leaves nothing of what it was to create.
BulkAllOrNone == active = "permissions" => Naming!BulkAllOrNone

\* A permission is changed and deleted by its own tenant alone.
OwnTenantOnly == active = "permissions" => Naming!OwnTenantOnly

\* The simulator raises an alarm for the metric of a rule only where evaluate triggers.
SimulatorFollowsRule == active = "evaluation" => Judging!SimulatorFollowsRule

\* An alarm is raised for the metric of its rule.
RaisedForItsMetric == active = "evaluation" => Judging!RaisedForItsMetric
=============================================================================
