# Verification of GCDR

GCDR is a multi-tenant backend: one Node.js process serves HTTP (`src/app.ts`) over PostgreSQL
(Drizzle), and a second set of entry points (`src/handlers/**`) runs the same services as
serverless functions. Paths below are relative to the repository; `src/services/X.ts` is the
service X.

Two facts shape everything that follows:

- Node runs a call without interruption **until its next `await`**; nearly every `await` is a
  database round trip. Between two of them any other call, timer or process may run.
- The code uses **no transactions**. What must hold across two statements holds only if a
  version in a `WHERE` clause, a unique index or luck makes it hold.

So a model here is a set of tables (and, where there is one, the memory of the process) and a
program counter for each call in flight. **An action is one database round trip together with
the synchronous code that follows it up to the next `await`.** The arrival of a request is merged
with its first round trip when nothing happens in between. Calls interleave at every action, and
a call may die between two of its actions, which is what a crash of the process or a failing
statement does to code without transactions.

## 1. Inventory

### Modelled

| Component | Code | State | Operations | What is hard |
|---|---|---|---|---|
| Simulator engine | `SimulatorEngine`, `SimulatorQuotaService`, `SimulatorRepository`, `SimulatorBundleFetcher`, `SimulatorStartup`, `simulator.controller` | `simulator_sessions`, `simulator_events`; in memory: `activeSessions` with two interval timers per entry, `scansThisHour`, the bundle cache | start, stop, scan timer, refresh timer, expiry, delete, start-up recovery, shutdown | timers that overlap themselves, ends that race each other and the start, a recovery that runs while the server already accepts requests, crashes |
| Simulator queue | `SimulatorQueueService` | an array of jobs in memory, one loop that drains it | add, process, clear | an await in the loop while others append to the array or replace it |
| Simulator monitoring | `SimulatorMonitor`, `SimulatorMetrics` | the clients of the event stream, counters | connect, disconnect, broadcast, heartbeat | clients that are removed in the middle of a broadcast; listening begins with the first client |
| Partners | `PartnerService`, `PartnerRepository` | one row per partner whose API keys, OAuth clients and webhooks are JSON columns | register, update, approve, reject, suspend, activate, issue, revoke and rotate credentials, webhooks | whole columns are written back from an earlier reading; a check is two round trips older than its write |
| Customer tree | `CustomerService`, `CustomerRepository` | `customers`: parent, path, depth, settings, version | create, update, delete, move | parent and path are redundant and written by separate statements; descendants are found by path |
| Authorization | `AuthorizationService` and the repositories of policies, roles and assignments | three tables tied together by keys that no foreign key guards | create, update, delete, assign, revoke, evaluate | an evaluation reads the three tables one after the other; a reference is looked at before the write that relies on it |
| Access bundle (partly) | `BundleGeneratorService`, `BundleCacheRepository`, `getEffectivePermissions`, `access-bundle.controller` | `user_bundle_cache` | generate (whole or in parts), refresh, invalidate, expire, check a domain permission or a feature | a cached answer over tables that change; a build that overlaps an invalidation |
| Domain permissions | `DomainPermissionRepository`, `access-bundle.controller` | `domain_permissions` | create one or many, change, delete | a bulk looks and inserts one by one |
| Accounts | `RegistrationService`, `AuthService`, `UserService`, `UserRepository`, `VerificationTokenRepository` | `users` (status, a JSON security column), `verification_tokens` | register, verify, resend, forgot, reset, login and its fallback, approve, reject, unlock, change password, set status, delete | the security column is read, merged and written back whole; limits are counted before they are used up |
| Sessions (partly) | `AuthService`, `UserService` | a map of refresh tokens in memory, second factors in the security column | login, second factor, refresh, logout, logout of all devices, enable, disable, unlock | an exchange awaits between looking a token up and revoking it; the map dies with the process |
| Users | `UserService`, `UserRepository`, `handlers/users` | `users` | create, invite, update, status, delete, change and reset passwords, follow links; approve, reject, lock, unlock | every method but the update shares the security column without comparing the version, and five of them write a version taken from an earlier reading |
| Integration marketplace | `IntegrationService`, `IntegrationRepository` | packages with a status and versions, subscriptions, a counter | create, update, submit, review, publish, delete, subscribe, cancel | a decision two round trips old; a subscription, its count and its list are separate statements |
| Groups | `GroupService`, `GroupRepository` | a JSON column of parent, children, path, depth; a list of members | create, move, delete, members | a link stored at both ends, without a version |
| Asset tree | `AssetService`, `AssetRepository` | `assets`: customer, parent, path, depth | create, move within and between customers, delete | a move writes some of the columns, and finds descendants by the path it has just changed |
| Devices (partly), Centrals | `DeviceService`, `CentralService`, their repositories and controllers | an asset, and the customer that asset had; merged JSON columns | create, update, move, delete; connection reports, heartbeats | the asset moves or goes between the reading and the write |
| Maintenance groups (partly) | `MaintenanceGroupService`, `MaintenanceGroupRepository` | memberships, a stored count | create, delete, add and remove members, expire, delete a user | counting and storing the count are two statements; the memberships of a deleted user go by a cascade that counts nothing |
| Themes (partly) | `ThemeService`, `LookAndFeelRepository`, `themes.controller` | a default per customer, a parent per theme | create, update, delete, set default | the default moves row by row; two routes, one without the checks |
| Rules and alarm bundles (partly) | `RuleService`, `AlarmBundleService`, `rules.controller`, the threshold check of `SimulatorEngine` | `rules`; the bundle a gateway holds | create, update, toggle, delete, poll, evaluate, scan | devices and rules are read in two round trips; a version made of the clock; two evaluators of one rule |
| Customer API keys | `CustomerApiKeyService`, its repository and middleware | `customer_api_keys` | create, update, revoke, admit | a count that nothing waits for beside updates that write the whole row |
| Audit trail (partly) | `middleware/audit`, `audit.config`, `pii-sanitizer`, the customers routes | `audit_logs` | log a change with its old and new value | the entry is stored after the answer by a statement that nothing waits for; the old value is read in a round trip of its own |
| Listings | the list methods of the repositories | none of its own | read page by page | the table changes between two pages; ties; filters after the cut |

How they interact: the authorization tables feed the access bundle (composed: `AccessBundle`
extends `Authorization`); devices and centrals stand in assets (composed: `Devices` and `Centrals`
extend `Assets`); accounts, sessions and users are three views of one table, each of which has the
other views' writers as requests that write back what they have read of its columns; a maintenance
group loses the memberships of a user whom `UserService` deletes; the engine
hands alarm candidates to the queue, emits the events that the monitor relays, and holds a rule's
simplified bundle (`RuleEvaluation`). Otherwise a component's tables are its own. The event trail is
written and never read back.

What makes each of them correct:

- *Engine*: a session ends for the reason it is said to; no crash, failure or race loses a
  running session or leaves it scanning without a bundle; quotas hold; an overdue session ends.
  *Queue*: each job once, in order, none forgotten. *Monitor*: every watcher sees every event.
- *Partners*: an acknowledged change is never undone by an overlapping one; credentials belong
  to approved partners and carry granted scopes only.
- *Trees* (customers, assets, groups): parent, path and links agree, there is no cycle, no parent
  goes before its children, no merged setting is lost.
- *Authorization*: an explicit deny wins; what is granted and nowhere denied is allowed;
  references lead somewhere. *Access bundle*: what the evaluation says, the bundle says, until
  it is invalidated and not after. *Domain permissions*: one of a kind; a bulk is complete.
- *Accounts, sessions, users*: nobody skips a step; failed logins lock; codes are limited in number
  and attempts; a password that was set stays set; a token or a link works once.
- *Marketplace, maintenance groups*: versions grow, counters count. *Themes*: one default.
  *Devices, centrals*: each in an asset that exists and with a customer of that asset; merges kept.
- *Rules*: a poll brings the gateway what holds; the evaluators agree. *API keys*: uses are counted,
  a revoked key stays out. *Audit*: entries tell the truth, none is missing unnoticed, no secret is
  stored. *Listings*: a reader misses and repeats no more rows than moved past it.

### Not modelled

| Component | Why |
|---|---|
| Events (`EventService`, handlers) | write-only: published after the change, failures swallowed, no listener in the repository |
| HTTP layer | routing, validation and formatting; the order of calls in a controller of a modelled component is in its actions |
| Schema, seeds, scripts, the admin controllers for the database and the simulator | data definition and inspection by ready-made queries; the unique indexes and cascades that decide an outcome are in the actions |

What the *partly* modelled components leave out decides nothing in the code: the user's profile,
conditions and checksums of an access bundle; the connectivity and activity columns of devices (single
statements); names and states of maintenance groups; the colours of themes; statistics, domains, device
types and signatures of alarm bundles; access tokens, which are checked alone and stored nowhere; the
snapshot of metrics; the routes other than those of customers, which do not log. `compileTheme` reads the
parents of a theme, ten at most, and stores nothing: it is left out together with `inheritFromParent`, which
only it reads. No route leads to `deprecatePackage`. A user who has role assignments cannot be deleted (`schema.ts:509`):
that refusal is a request that fails. Everywhere left out:
columns that are only stored, codes and keys whose check for duplicates only refuses, single reads.
`PROJECT.json` says it component by component.

## 2. Modules and how they correspond to the code

| Module | What it is |
|---|---|
| `SimulatorEngine` | the engine; `MCSimulatorEngine` gives TLC tenants and symmetry; `SimulatorEngineProofs` |
| `SimulatorQueue`, `AlarmDelivery` | the queue, and the promise it is shown to keep (`DeliversInOrder`); `SimulatorQueueProofs` |
| `Partner`, `PartnerLifecycle` | the service over the table, and the abstract life cycle it implements (`Atomic`); `MCPartner`; `PartnerProofs` |
| `CustomerTree` | the hierarchy; `MCCustomerTree`; `CustomerTreeProofs` |
| `Authorization` | roles, policies, assignments, evaluation; `MCAuthorization`; `AuthorizationProofs` |
| `AccessBundle` | EXTENDS `Authorization`: its steps and those of the bundle calls interleave; `MCAccessBundle` |
| `Account`, `AccountLifecycle` | accounts of one email address, and the workflow they implement where requests do not overlap (`FollowsWorkflow`); `MCAccount`; `AccountProofs` |
| `Requests` | calls in flight, as the next modules share them: `Begin`, `Goes`, `Done`, `Fails`; `Settled` holds between requests that come one after the other |
| `Lists` | the operators on sequences of the next modules, under the names of `SequencesExt`: `Registry` has an instance of each module, and each would define that whole library again, which the prover then carries into every step |
| `Marketplace`, `Groups`, `Assets`, `MaintenanceGroups`, `Themes`, `AlarmRules`, `CustomerApiKeys`, `Sessions`, `Users`, `AuditTrail`, `DomainPermissions` | one component each, over `Requests` |
| `Devices`, `Centrals` | EXTEND `Assets`, whose requests interleave with theirs |
| `RuleEvaluation` | one rule in the hands of `RuleService.evaluate` and of the simulator |
| `SimulatorMonitor`, `Listings` | event-driven: a client or a reader, and what changes around it |
| `Estate` | instances of the six modules of what a customer has (groups, assets with devices and centrals, maintenance groups, API keys); `EstateProofs`, the lemmas about them |
| `Registry` | EXTENDS `Estate` with instances of the other ten, for one run; `RegistryProofs`, theorems about the whole |

`PROJECT.json` maps every definition to the lines it models. Definitions keep the names of
statuses, operations and methods. Those marked *Mutation of X* in a comment are variants of X
with a plausible bug; no specification uses them, they serve to see that each property can fail.
Variables marked *history* remember something for a property and no guard reads them.

**SimulatorEngine.** `row`, `overdue` and `logged` are the database; `active`, `armed`,
`scansThisHour` and `cached` the memory of the process. An entry of `activeSessions` is an object
(`"start"` or `"recover"`) because a session that is registered twice has two pairs of timers
and `clearSessionTimers` reaches only the registered one. `start[s]` is the call of `POST /start`
that makes session s, `task[s][l]` every other call that works on s: a stop request, a firing of
the scan timer (one lane for each that may overlap), the firing of the refresh timer, the
graceful shutdown. `boot` is `initializeSimulator`; it is started after the server listens, so
`RequestStart`, `RequestStop` and `DeleteSession` are enabled while it runs. A failing database call takes the path of
the nearest `catch` (`StartThrows`, `TaskFails`, `RecoverThrows`, `BootFails`, `ExitOnFailure`);
`Crash` loses the memory and every call. `DeleteSession` removes the rows of *all* sessions, as
the code does (`simulator.controller.ts:228` deletes everything older than now), and the
foreign key then refuses every later event of those sessions (`EndLogRefused`, `StartThrows`). The look at the
status and the `DELETE` are two round trips there and one action here: what is deleted does not depend on the look.
Telemetry and thresholds are in `RuleEvaluation`, alarm candidates in `SimulatorQueue`.

**Partner.** `Begin` is the reading of the service with the checks it makes, `Read` the reading
of the repository with its own, `Write` the `UPDATE ... WHERE version = ?`, `Conflict` its failure.
`op` carries what the caller asked for; `rotate` turns into `replace` when the old key has been
revoked, and `Dies` may come between the two. API keys and OAuth clients are both `Credential`s;
only keys rotate. `EmailOf` is the email a registration is made with.

**CustomerTree.** A path is the sequence of customers on it (the tenant at its head is left out).
`Create`, `Delete`, `Update` and `Move` begin, each further action is one round trip of the
repository: a move is searched, screened, read, targeted, placed (path), linked (parent), then the
row is read back, its descendants are gathered and rebased one by one. Settings stand for the
two columns that an update merges.

**Authorization.** Ids are generated once, keys may be used again. Every operation has its
reading, counting and writing trips; `FindAssignments`, `FindRoles` and `Decide` are
`checkPermission`. Scopes and patterns are tokens and `ScopeMatches`, `Matches` are the matching
functions of the code. `link` (history) is what has denied or allowed an evaluation in every state
since it began: a correct answer may reflect any moment of the evaluation, so only what *stood*
throughout binds it.

**AccessBundle.** `GenerateBundle`, `RefreshBundle` and `InvalidateBundle` begin a call;
`ReadAssignments`, `ReadRoles`, `ReadPolicies` are `getEffectivePermissions`, `FindRow` and
`WriteRow` the upsert. `ReadPolicies` merges the policies in any order, as the query has no
`ORDER BY`. `invalidatedAt` and `expiresAt` are one state (`"dead"`), since no reader tells them
apart. A caller names the parts it wants (`wants`), a bundle has those it was built with (`parts`);
`CheckDomainPermission` and `CheckFeatureAccess` read a bundle that was returned.

**Account.** One token table in the order of creation, every user method as `Read` and then the
method's `UPDATE`, the security column carried from the first to the second. `failed` is
`failedLoginAttempts`, `wrong` (history) how many failed logins were really counted. `FallBack` and
what follows is the `catch` of a failed count: the user is looked up again, counted again, and
locked by the lower limit of `UserService`. It counts for whoever has the email by then, who need not be
the one that failed to log in: `mistaken` (history) are the accounts it was mistaken about. `Age` lets a code expire and leave the hour of the
resend limit.

**Requests and Registry.** `call[r].pc` names the statement that comes next, and the record carries
what the request has read. `Registry` and the `Estate` that it extends instance every module with the same requests and one variable
`active` that the initial state chooses: a behaviour makes requests to one component only. This
loses nothing, because no module writes a table of another. Two foreign keys with a cascade lead across,
that of the memberships and that of the cached bundles, which nobody asks for once their user has gone; all others
only refuse a deletion (of a customer with assets, of a partner with packages), and a refused statement
is a request that fails. So a step of one neither enables, disables nor
changes a step of another, and each property is about one component. What they do share is inside
one module: the assets of devices and centrals, the users table (`Sessions` and `Users` each have
logins, status changes and deletions), the memberships that the database deletes with a user
(`DeleteUser` of `MaintenanceGroups`; `schema.ts:1096`). A property such as `GroupsConsistent` is the conjunction of
the named and commented properties of its module.

**Marketplace, Groups, Assets, Devices, Centrals, MaintenanceGroups, Themes.** Ids are numbers in the
order of creation. An operation begins with the reading and the checks of the service; every later read
and write of the repository is an action of its own. Where the code loops over rows, as a move over
descendants or `setDefault` over the other themes, each row is an action. Where the Express
controller calls the repository directly (centrals, themes), that route has its own actions
(`CreateCentralDirectly`, `DeleteThemeDirectly`), beside those of the service. `CreateTheme` is both routes
in one: a theme that is not to inherit may name any parent by either of them. `PublishVersion` refuses
drafts only, as the service does. `left` (history) are the members of a group that were deleted as users since its
members were last counted: that count may have had them, and nothing takes them out of it. `alone` (history) tells
whether a request for a default was overlapped, and `asked` what each customer asked for last, as long as that can be
told: overlaps and failures make it `Unknown`, a request that is alone settles it.

**Sessions, Users.** A token or a link is a number in the order of generation; `Stored` are the tokens in
the map, `Restart` empties it. An operation of `Users` is a list of repository methods, each of which
reads the row and writes the security column back whole. The steps `confirm`, `approve`, `reject`, `lock` and `unlock`
(`UserRepository.ts:118-295`) also write the version they have read plus one, whatever the row has by then: `rewound`
(history) are the users whose version went back that way. The other methods leave the version alone. `ListLimit` stands for the hundred users among whom
a token is looked for.

**AlarmRules, RuleEvaluation.** `held` is the bundle of the gateway, with its catalog, the index by
device and the version, which is the second of its making. `Simplified` is what
`AlarmBundleService` keeps of a rule for the simulator; `ScanDevice` compares *every* metric of the
telemetry with it, as the engine does, and `Evaluate` is the service's answer.

**AuditTrail, Listings.** `change` (history) is the list of real writes with stamps, to which the
values of entries are compared; `Insert` of an entry is a step of its own that may be lost or passed.
A document is a small tree, and `Sanitize` does to it what `sanitizePII` does. `Listings` has one
reader and the table it reads: the initial state chooses one of the sorts of lists that the repositories
have (by name, by time, by a unique key; filtered in the query or after the cut; next page by offset
or from the time of the last row).

## 3. Runs

All runs check an instance exhaustively. `CHECK_DEADLOCK FALSE` stands in each because the bounds
on requests, faults, crashes and versions stop every instance at last; none of the components
waits for another, so there is no deadlock of its own to look for. Symmetry is declared over sets
that the specification treats alike, and in no run with a liveness property.

| Run | Instance | What it shows |
|---|---|---|
| `engine_session` | 1 session, 1 stop, 2 overlapping scans, refresh, 1 failing call, 1 crash or shutdown; quotas of 1 (2.8 million states) | `HourlyOverrunBounded`: n overlapping firings overrun the hourly quota by at most n - 1. `ExpiredOnlyWhenOverdue`. `ArmedEntryHasBundle`: no race leaves a registered, armed session without a bundle |
| `engine_recovery` | 2 sessions of 2 tenants, no stops or scans, 1 failing call, 1 crash (1.4 million) | `OrphanRunningWasEnded`: a RUNNING row the engine does not know is one whose end was logged; the failure of one session in the loop of `recoverSessions` does not lose another |
| `engine_liveness` | 1 session, 1 stop, 1 scan, 1 crash, `FairSpec` (140 thousand) | `OverdueUnregistered`, `RecoveryResumes` |
| `queue_delivery` | 5 jobs, `FairSpec` (6 thousand) | `DeliversInOrder`: the queue implements `AlarmDelivery` even while its array is replaced under the loop. `StatsAccount`: the numbers of `getQueueStats` account for every job once, unless one was dropped by `clearQueue` or the array is being replaced. `EachJobEnds` |
| `partner_atomic` | 1 partner, 2 overlapping requests, 2 credentials, 2 scopes, 1 webhook, versions up to 6 (134 thousand) | `Atomic`: the rows implement `PartnerLifecycle`. `OnlyApprovedHaveCredentials`, `ScopesWithinGrant` |
| `tree_overlap` | 3 customers, 2 overlapping requests of which one may be a move, 6 requests, 1 dying, 2 settings (484 thousand) | `PathNamesParent` between moves, `SettingsNeverLost` |
| `account_overlap` | 2 users of one address, 2 overlapping requests of every kind, 5 requests, 1 dying or falling back (835 thousand) | `NoStepSkipped`, with the exception of accounts that a fallback was mistaken about; `AttemptsWithinLimit` |
| `account_serial` | 2 users of one address, 9 requests one after the other, 1 dying or falling back, deletion at any moment (1.7 million) | `OneCode`, `ResendsWithinLimit`, `LocksInTime`, and `FollowsWorkflow`: `Account` implements `AccountLifecycle` |
| `authorization_overlap` | 2 policies and keys, 1 role, 1 user, 2 scopes, 4 policy contents, 2 overlapping requests, 6 requests, 1 dying (795 thousand) | `StandingDenyWins`, `StandingAllowGranted` |
| `access_bundle` | 2 policies, 1 administrator with 4 requests, 2 overlapping bundle calls (792 thousand) | `ReferencesHold` for one administrator at a time; `StandingAllowBundled` |
| `access_doc_deny` | the same | a violation, see section 5 |
| `registry_overlap` | 16 components, 2 overlapping requests to one of them, any of which may die; 3 to 7 requests (1.3 million) | the next table |

| In `registry_overlap` | Whatever overlaps | One request after the other |
|---|---|---|
| `RegistryTypeOK` | the types of every table | |
| `PackagesConsistent` | `CurrentIsLast`, `OnlyAppends`: no published version is lost or reordered; `PublishedWasSubmitted`; `CountWithinSubscriptions`: the counter is never too high | |
| `GroupsConsistent` | `HierarchyAgrees` within a row, `CountIsMembers` | `LinksAgree`: a listed child names its parent |
| `AssetsConsistent` | `PathEndsInSelf` | `PathNamesCustomer`, `ParentsExist` |
| `DevicesConsistent` | `CustomerWasOwner`, `DeviceHasAsset`, `MergesKept` | `ExternalIdsDiffer` |
| `CentralsConsistent` | `CentralHasAsset`, `ConfigKept` | |
| `TeamsConsistent` | `MembersHaveGroup` | `CountBetween`: the count is not below the members shown, and not above the rows (expired ones included) but by members deleted as users |
| `ThemesConsistent` | | `DefaultIsLastAsked`, which a request that is alone restores after others have overlapped or failed |
| `BundlesConsistent` | `HeldIsClosed`; `Refreshes`: a poll brings what holds if nothing stirred; `EvaluatorsAgree`, `OppositesExclude`, `GradesOrdered` | |
| `KeysConsistent` | `UsageAccounted`; `Withdraws`: a revoked key stays so | `StoredAsWanted` |
| `SessionsConsistent` | `Ends`: a token taken out of the map never comes back | `OneTokenPerSession`, `MfaAsAsked` |
| `MonitorConsistent` | `WatchersSeeAll`, `CountersAgree` | |
| `AuditConsistent` | `EntriesTrue`, `ChangesAccounted`, `NothingExposed` | `EntriesLink` |
| `ListingsConsistent` | `MissesBounded`, `NewestOnce`, `OldestAll`, while the table changes | |
| `UsersConsistent` | `FieldsKept`: no update takes back the field of another, but for users whose version was written back | `TokensSpent`, `PasswordAsChosen`, `UsernamesDiffer` |
| `PermissionsConsistent` | `PermissionsDiffer`, `BulkComplete` | |

The type invariants of the modules with runs of their own (`TypeOK`, `AccessTypeOK`, `QueueTypeOK`) hold on the same
instances; they are stated in the modules, and proved where section 4 lists `TypeCorrect`.

Why the bounds are enough for the questions asked:

- Two calls in flight (two scans, two requests, two bundle calls) are what the races in this code
  take, but the one of `FieldsKept` below: each is a reading of one call, a write of another, and the first one's write. A third
  actor is there where the code has one: the timers and the recovery of the engine, the
  administrator beside two bundle calls, and `Delete`, `Expire`, `Lapse`, `Age`, `Tick`, `MoveSensor`,
  `StoreEntry`, which come at any moment.
- The limits that the code sets (3 sessions, 1000 scans, 6 and 5 logins, 5 attempts, 3 resends, 100
  listed users) are constants of 1 to 3, so that reaching, meeting and passing them all happen.
- `MaxRequests` is what the longest story needs: two policies, a role, an assignment, and two more
  requests (an evaluation and the change it overlaps; a revocation); registration, verification, approval, three
  failed logins, a reset with its code, and a login. In `Registry` each component subtracts what it does
  not need: a package takes creation, submission, review, two publications, a subscription and its end (7); a
  rule its creation and two changes or polls (3). The assets, the devices and the centrals start with a
  first asset of a customer, the devices with a first device on it too, so that 4 and 3 more requests
  reach a tree of three assets that moves, and a device that moves beside its asset. `MaxSeconds` is 2: bundles are made
  in the same second and in different ones. What `FieldsKept` excepts takes two updates within one approval and a third
  update that reads in between, three requests in flight: the run does not reach it (section 5 says where TLC does),
  and the theorem does not depend on it.
- One fault and one crash in the engine and the accounts: two of them in a row would need a repair between
  them, and the code has none but the recovery, which a crash can hit in any of its states. In
  `Registry` every request may die.
- `StopLane` and `ScanLane` bound what is in flight for one session, `MaxStarts` the start requests
  in flight, `MaxVersion` the writes to a partner, `MaxCalls` the bundle calls, `Mover` which
  requests may be moves, `Operation`, `Content`, `PartSet` and `Config` what requests ask for.
- `Listings`: three rows at the start and one that may come, pages of one row, four pages, one change:
  a row passes the reader's place in either direction, ties exist, and the end is reached.
- One firing of the refresh timer is in flight per session: it comes once a minute at most and makes
  two round trips. Scan firings overlap because a scan awaits every rule of every device of the
  bundle, which may take longer than the ten seconds an interval may be.

**Fairness** (`FairSpec` of `SimulatorEngine`, used by `engine_liveness` only). Weak fairness of every continuation of a
call in flight: the event loop runs each callback whose answer has come, and the database answers
or fails. Weak fairness of `RefreshTick` and `ScanTick` for each session and lane: an interval that
is not cleared keeps firing. Weak fairness of the recovery, of `Exit` and of `Restart`: the process
is restarted by its supervisor. Nothing is assumed of requests, crashes, faults, deletions or of
the deadline's passing. `MaxFaults` is 0 in that run: a failing call may leave the entry registered
with its timers off, and then nothing ends an overdue session (`SimulatorEngine.ts:145`).
`OverdueUnregistered` needs the refresh timer: at the hourly quota a scan returns before it looks at
the deadline (`:319`).

`FairSpec` of `SimulatorQueue`: weak fairness of `RegisterProcessor`, which `SimulatorStartup` calls
when the process starts, and of `Settle`: the processor's promise is settled, one way or the other.
Nothing is assumed of additions and clearings. `EachJobEnds` excepts the jobs pushed while the loop works on
an array that was replaced: nothing processes them until another is added.

## 4. Theorems

TLAPS proves these for every value of the constants that meets the assumptions, however many
sessions, requests, faults and crashes. The assumptions on constants (`EngineAssumption`, `QueueAssumption`,
`PartnerAssumption`, `TreeAssumption`, `AccountAssumption`, `AuthorizationAssumption`, `EstateAssumption`,
`RegistryAssumption`)
say no more than that ids differ from the null value, that lanes have different names, that sets of which
something is chosen are not empty, that users are finite in number, that scope sets are sets of scopes, that bounds are
natural numbers and that a user may be sent at least one link; TLC evaluates them in the runs.

Three hypotheses say more, and stand in the theorems that need them, because the code does not keep the
property without them (section 5): `OneAtATime` (a single request slot: calls come one after the other, and any of
them may die half way), `OneMover` (at most one request at a time is a move, any others overlap it) and, for
two theorems on accounts, that no administrator sets a status by hand. The runs that check the
same properties have these hypotheses in their configurations.

| Module | Theorem | Argument |
|---|---|---|
| `SimulatorEngineProofs` | `TypeCorrect`: `TypeOK` | inductive as it stands |
| | `ExpiryCorrect`: `ExpiredOnlyWhenOverdue` | not inductive: EXPIRED is written a round trip after the deadline was seen. `ExpiryInv` adds that every call on its way to that write (a task, the recovery) has seen the deadline pass, and that a session whose start has not inserted its row is untouched |
| | `BundleCorrect`: `ArmedEntryHasBundle` | `BundleInv` adds that an entry registered by a start or a recovery that still waits for its bundle has no timers, so that a cleanup that overlaps them cannot take a bundle from under armed timers. It uses `ExpiryInv` for the rows that do not exist yet |
| | `NoSessionLost`: `OrphanRunningWasEnded` | `OrphanInv` adds who answers for a RUNNING row at every moment: the start that has just written it has its entry, and the recovery keeps the row on its list from the reading of the rows until the entry is made, so that no failure of one session and no crash in between leaves a row that nobody will take up |
| | `OverrunIsBounded`: `HourlyOverrunBounded` | `OverrunInv` counts the firings that have passed the look at the counter and have not raised it yet: the counter and their number together stay below the quota plus the number of lanes. The counting is by `FiniteSetTheorems`, one firing at a time |
| `SimulatorQueueProofs` | `TypeCorrect`, `StatsAccountCorrect`: `StatsAccount` | `QueueInv`: jobs are numbered as they are added, both arrays are in that order, one job at most is processing and it heads the loop's array, what was set aside comes later. Then each term of the sum of `getQueueStats` is the size of a set of jobs, and the sets split `Added` |
| | `DeliversInOrderCorrect`: `Spec => DeliversInOrder` | refinement of `AlarmDelivery`: only `ProcessQueue`, `Settle` and additions change a stage, and the job that is taken is the first that waits, by the order in `QueueInv`, even on an array that was replaced |
| `PartnerProofs` | `TypeCorrect` | with lemmas on what each operation may carry (`OpFields`) and what a row becomes (`AfterType`) |
| | `CredentialsCorrect`: `OnlyApprovedHaveCredentials`, `ScopesWithinGrant` | `PartnerInv` relates each request to the *present* row although its checks were made on an older one: a request that issues a credential or sets a webhook is about a partner that has been approved by now and for ever, its scopes are within the granted ones, which are granted once, and a reading of the present version is the present row |
| | `AtomicityCorrect`: `Spec => Atomic` | refinement: a write that finds the version it has read (`WriteIsCurrent`) is one step of `PartnerLifecycle` on one partner; a registration is one; every other step stutters |
| | `ApprovedOnlyCorrect`: `OnlyApprovedHaveCredentials` | the first half of it, as the run states it |
| `CustomerTreeProofs` | `TypeCorrect` | one lemma for each group of round trips |
| | `SettingsCorrect`: `SettingsNeverLost` | `SettingsInv` adds that a customer that is being created is unborn and no other request's, and that an update that saves has read settings that are still the row's if the version still is (`SeenSettings`): moves change neither version nor settings |
| | `PathsCorrect`: `OneMover` implies `PathNamesParent` | while no request has died half way. `PathsInv` says what each step of the move in flight has already written and what its row still holds: between `MovePath` and `MoveLink` path and parent of the moved customer disagree, and of it alone; a creation that overlaps takes parent and path from one reading, and a rebase keeps the last two names of a path |
| `AccountProofs` | `TypeCorrect`: `TypeOK` | strengthened by what each program counter implies of the request, and by the order of users and tokens in creation |
| | `NobodySkipsAStep`: `NoStepSkipped` | whatever overlaps. `StepsInv` relates every row that a request has read, and will write back, to the history: what it will write was once right, and being verified or admitted is never lost. A failed login that the fallback counts for another account is the one way around it, and makes that account `mistaken` |
| | `AttemptsStayWithinLimit`: `AttemptsWithinLimit` | whatever overlaps. An attempt that will be written is within the limit, since it was read below it (`AttemptsInv`) |
| | `OneCodeAtATime`, `ResendsAreLimited`, `LocksOnTime`: `OneCode`, `ResendsWithinLimit`, `LocksInTime` | for `OneAtATime`. `CodeInv`: the request that inserts a code has invalidated the others; `ResendInv`: it has counted fewer than the limit and nothing was added since; `LockInv`: the count that is stored is the number of failed logins, and an ACTIVE account that no request is about to lock is below the limit, raised by one for each request that died. `LocksOnTime` also assumes that no status is set by hand: that unlocks without the count |
| | `WorkflowIsFollowed`: `Spec => FollowsWorkflow` | refinement of `AccountLifecycle`, for `OneAtATime` and without the two overrides of an administrator (`status`, `unlockAny`): every `UPDATE users` is one step of the workflow, everything else a stutter |
| `AuthorizationProofs` | `TypeCorrect` | strengthened by what each program counter implies of the request (`Good`) |
| | `DenyCorrect`: `StandingDenyWins` | `DenyInv`: what has denied throughout still denies now; its role is among those found, its policy among those found; so the last reading meets it and the evaluation does not allow |
| | `AllowCorrect`: `StandingAllowGranted` | `AllowInv`, the dual: what allows throughout is among what is found; so an evaluation that refuses has found none, or a policy that denies, and then the history has it as contested |
| | `ReferencesCorrect`: `OneAtATime` implies `ReferencesHold` | `RefInv`: what the request in flight has looked at still stands when it writes; a deletion has counted no reference, a creation has found what it names |
| `RegistryProofs` | `PermissionsCorrect`: `PermissionsConsistent` | `PermissionsInv`, for any number of overlapping creations and bulks: each key that a bulk in flight was given has stood since it began or is still before it (`KeysStand`); the unique index keeps keys apart |
| | `MonitorCorrect`: `MonitorConsistent` | `MonitorInv`: the monitor listens while a client is connected, and each client came no later than the last event (`HeardByMonitor`), so that a broadcast appends the newest event to what a client has got, and to nobody else's |
| | `KeysCorrect`: `KeysConsistent` | `KeysInv`, for any number of overlapping requests: the uses counted, the increments in flight (a finite set, counted by `FiniteSetTheorems`) and the failed ones add up to the requests admitted, since an increment adds to the row as it is and an update leaves the count alone. While requests come one after the other, what an update is about to write is what it was asked for in the present key (`WritesMerged`), although it was put together from an older reading |
| | `GroupsCorrect`: `GroupsConsistent` | `GroupsInv`. Whatever overlaps, every place that a row holds, or that a request has read or will write, agrees with the group it is for (`Agree`, `CallAgrees`). While requests come one after the other, `Knows` says for each statement of a creation, move or deletion what it has read, what it has already written, and who still lists the group; a moved group is listed by its new parent before it names it (`Saving`), and by nobody if the move is refused half way |
| | `TeamsCorrect`: `TeamsConsistent` | `TeamsInv`. Whatever overlaps, a membership has its group, since what would add one to a group that is gone is refused. While requests come one after the other, the stored count fits the members but before the statements that bring it up to date (`Uncounted`), and a count that a request has read is that of the present rows and of the members deleted as users since (`KnowsTeam`, `Counted`). The deletion of a user may come at any moment: it moves the user from the rows to `left`, so that what was counted stays counted |
| | `AssetsCorrect`: `AssetsConsistent` | `TreeInv`. Whatever overlaps, every path that a row holds or a request is about to write ends in the asset it is for (`PathsFit`), and replacing the head of a path keeps its end (`PathReplaced`). While requests come one after the other, `KnowsTree` says what a creation, move or deletion has read of the present rows; the asset of the move, between the write of its customer and that of its path, is the only one whose path names another customer, and the descendants that were found below its new place stand there under its new customer already |
| | `DevicesCorrect`: `DevicesConsistent` | `FleetInv`, which needs little of the assets: a statement writes one asset or none, and drops none that is used (`AssetWrite`). A pair of asset and customer that a request is about to write was once a pair of the assets; what an update has read is the device's metadata if the version still is (`SeenDevice`). While requests come one after the other, the external id that a request is about to write is nobody else's (`FreeFor`) |
| | `CentralsCorrect`: `CentralsConsistent` | `GatewaysInv`, likewise: an update writes the configuration it has read under the version it has read, and a report, which looks at no version, writes neither (`SeenCentral`). |
| | `SessionsCorrect`: `SessionsConsistent` | `SessionsInv`. Whatever overlaps, a token in the hands of an exchange has been generated, and so has the first token of its session, so that the one that is about to be generated is another. While requests come one after the other, the token of an exchange is still in the map (`KnowsSession`), alone of its session (`SessionsApart`), and the security column that a login is about to write back is the present one |
| | `UsersCorrect`: `UsersConsistent` | `UsersInv`. Whatever overlaps, the version that an update has read is not beyond that of the row, and where they are equal the fields are too, unless the version of that user was written back (`Behind`, `rewound`), so that an update that passes the optimistic lock adds to what is there. A method that writes a version leaves the fields alone, and either does not lower the version or takes the user into `rewound`. While requests come one after the other, a followed link that is still in the row, or a password other than the one asked for, is what the repository methods still to come in the request in flight put right (`UsersSound`), and tokens and usernames are apart (`UsersApart`) |
| | `BundlesCorrect`: `BundlesConsistent` | the poll of a gateway and the two evaluators. `RulesInv`: a poll that nothing has stirred has read where the devices are now (`PollsKnow`), so that its bundle maps each device to the rules that apply to it (`BundleIs`), and whatever overlaps, to rules of its own catalog. `AnswersStand`: the answers that are kept are those of the present rule, sample and bundle; then `ThresholdIsRule` says that the simplified comparison is the operator where the bundle tells it, and `OppositesExcludeEachOther` and `BetterIsGradedBetter` compare two readings, any integers. Assumes that the configurations are well formed |

`RegistryProofs` proves about the `Spec` of `Registry`: `active` never changes, so that an invariant is proved
for the behaviours of its component, and holds for want of it in the others. The lemmas on the tables of a
customer are in `EstateProofs`, about one step of one of the instances of `Estate`; those on the domain
permissions, the monitor, the rules, the sessions and the users stand in `RegistryProofs`.

Two arguments recur. That a set of numbers has a least element, which the queue and the numbering of new rows need, comes
from the well-foundedness of `<` (`WFMin` of `WellFoundedInduction`, no induction over an operator). And the requests
that hold what they have read are dealt with by one predicate on a request, which a step of another
request keeps and a step of its own establishes.

Only model-checked: liveness (`OverdueUnregistered`, `RecoveryResumes`, `EachJobEnds`); `StandingAllowBundled`, which
speaks of a fold over a sequence of policies of any length and would need induction over data; `RegistryTypeOK`
and the properties of the `Registry` components of `Marketplace`, `Themes`, `AuditTrail` and `Listings`.

## 5. What the code does not do

Each of these was met while a property was stated from a document, a message or a comment of the
repository. `access_doc_deny` is a run of `PROJECT.json`: `StandingDenyBundled`, from "deny always wins"
(`AuthorizationService.ts:437`), fails because an allow of a later policy writes over the deny of an earlier
one (`:429`) in the list of effective permissions; the evaluation itself does deny. The others are
definitions of the modules, and TLC finds each violated when it replaces the properties of the configuration
named here, changed as the table says.

| Property | Configuration | The text | The code |
|---|---|---|---|
| `SessionQuotaHolds` | `EngineSession`, `MaxFaults = 0`, `MaxCrashes = 0`, 2 sessions, no scans, `MaxStarts = 2` | "Max concurrent sessions per tenant 3" (RFC-0010:151) | overlapping starts all count RUNNING rows before any of them has one |
| `HourlyQuotaHolds` | the same faults | "Max scans per hour 1,000" (RFC-0010:155) | overlapping firings; exceeded by at most their number less one |
| `DeletesNoActiveSession` (PROPERTY) | the same faults, 2 sessions, no scans | "Delete a stopped/expired simulation session" (`simulator.controller.ts:209`) | every row older than now is deleted (`:228`) |
| `RefusedDeleteCanBeStopped` | the same faults, `ScanLane = {a1}` | "Cannot delete an active session. Stop it first." (`:224`) | a stop that overlaps the start writes STOPPED before the start writes RUNNING: the row is active, the engine does not know it, and a stop answers 204 and leaves it as it is (`SimulatorEngine.ts:159`) |
| `IssuedOnlyToUsable` (PROPERTY) | `PartnerAtomic`, `Hook = {}`, `Scope = {x1}`, `MaxVersion = 4`, `Credential = {c1}` | "Cannot create API key for partner with status ..." (`PartnerService.ts:200`) | the partner may be suspended between that look and the write |
| `KeyReplacedOnce` | the same with 3 credentials | "Cannot rotate a revoked API key" (`:291`) | two rotations that overlap both replace it |
| `EmailIsUnique` | the same with 1 credential, 2 partners | "Partner with email ... already exists" (`:33`) | looked up before the insert, no unique index |
| `DescendantsFollow` | `TreeOverlap`, `Setting = {}`, `MaxFaults = 0`, 1 request, `MaxRequests = 5` | "Update all descendants' paths" (`CustomerRepository.ts:348`) | the path is changed first, then descendants are looked for below the new path: none is found |
| `NoCycle` | `TreeOverlap`, `Setting = {}`, `MaxFaults = 0` | "Cannot move customer under its own descendant" (`CustomerService.ts:158`) | descendants are found by paths that earlier moves left stale |
| `DepthIsLevel` | the same | depth is the level in the hierarchy | as above |
| `NeverDeletesParent` (PROPERTY) | the same, 2 customers, `Mover = {}`, `MaxRequests = 3` | "Cannot delete customer with children" (`CustomerService.ts:92`) | children are counted in an earlier round trip |
| `OneCode` | `AccountOverlap`, `MaxFaults = 0`, no `delete`, `unlockAny`, `status` | "only one active token per user per type" (RFC-0011:155) | two resends that overlap both insert |
| `LockedAfterLimit` | the same, `MaxRequests = 7` | "After 6 failures, account status changes to LOCKED" (RFC-0011:83) | overlapping failures are counted once |
| `PasswordStays` (PROPERTY) | the same, `MaxRequests = 8` | "Password is updated, failed attempts reset to 0" (RFC-0011:94) | an overlapping login or verification writes back the security column it has read, with the old password |
| `LockedWasAdmitted` | `AccountOverlap` | LOCKED is what becomes of an ACTIVE account after 6 failed logins (RFC-0011:64) | the fallback of a failed login looks the user up by email again and counts for whoever has it by then, an account that nobody has verified included (`UserService.ts:406`) |
| `FollowsTable` (PROPERTY) | the same, `MaxRequests = 6`; or one request with `unlockAny` | the table of states (RFC-0011:60-66) | a stale status is written; the older unlock of `UserService` activates any account |
| `ReferencesHold` | `AuthorizationOverlap` | "Cannot delete role with ... active assignments" (`AuthorizationService.ts:148`) | counted in an earlier round trip: two administrators |
| `InvalidationHolds` | `AccessBundle` | "Invalidate cached bundle" (RFC-0013:557) | a build that overlaps it stores what it read before and clears `invalidatedAt` |
| `RevokedNotServed` | `AccessBundle` | "Bundles should be invalidated when: role assignment changed" (RFC-0013:692) | nothing calls the invalidation |
| `ServedAsAsked` | `AccessBundle`, `PartSet = {{"domains","features","flat"}, {"flat"}}` | the options of the request | a cached bundle is returned whatever it was built with |
| `StandingAllowGrantsFeature` | `AccessBundle`, `Content <- WildcardContent` | what is allowed is granted | features look for permissions by name; a wildcard grants none |
| `NoneWaitsAlone` | `QueueDelivery` | "Trigger processing if not already running" (`SimulatorQueueService.ts:107`) | it may be running on a replaced array |

These are in `Registry`: `Registry.cfg` with `Component` set to the one named, and the property as its only invariant.

| Component | Property | The text | The code |
|---|---|---|---|
| `market` | `VersionsGrow` | "Check version is greater than current" (`IntegrationService.ts:156`) | compared with a reading two round trips old: the same version, or a smaller one, is published after it |
| | `ActiveAreCounted` | "Can't delete packages with active subscribers" (`:116`) | decided by a count that a request may die before raising, and that cancelling twice lowers twice |
| `groups` | `ParentsList` | "Remove from old parent" (`GroupRepository.ts:412`) | done before the move is refused |
| | `NoCycle` | "Prevent circular reference" (`:428`) | the path is searched for the id between two slashes, which it is not in the path of the group itself; and descendants keep stale paths |
| | `MembersDistinct` | "Skip duplicates" (`:283`) | members that one request names twice are not compared with each other |
| `assets` | `PathsFollow` | "Update all descendants' paths" (`AssetRepository.ts:389`) | looked for below the new path |
| | `DepthCountsPath` | "Update path and depth" (`:386`) | what is found below the new path has its depth shifted and keeps its path |
| | `NoAssetCycle` | "Check for circular reference" (`:359`) | by stale paths |
| `devices` | `ExternalIdsUnique` | "Device with external ID ... already exists" (`DeviceService.ts:43`) | no unique index |
| | `CustomerFollows` | the customer of a device is that of its asset (`:48`, `:177`) | devices stay behind when their asset moves |
| `centrals` | `CustomerMatches` | "Customer ID must match" the asset's customer (`CentralService.ts:35`) | the controller does not ask; an asset moves |
| | `StatsKept` | statistics are merged (`CentralRepository.ts:270`) | without a version |
| `teams` | `CountIsMembership` | "Members (denormalized for performance)" (`schema.ts:1072`) | counted and stored in two statements; the memberships of deleted users are not counted out (`schema.ts:1096`) |
| `themes` | `OneDefault` | "If this is set as default, unset other defaults" (`LookAndFeelRepository.ts:132`) | row by row, two requests each set their own |
| | `ParentStays` | "Check if there are child themes inheriting from this one" (`ThemeService.ts:116`) | the controller bypasses the service; and a theme that is not to inherit may name a parent that has gone (`:20`) |
| `rules` | `VersionIsOfContent` | "Calculate version hash from content" (`AlarmBundleService.ts:375`) | it is the second of the making: two contents of one second share a version, and a gateway keeps the old one |
| `keys` | `DeactivatedStays` | "Deactivate an API key (soft delete)" (`CustomerApiKeyService.ts:232`) | an update that has read the key before writes it active again |
| `sessions` | `OneHeir` | "Revoke old refresh token" (`AuthService.ts:388`) | awaits between looking up and revoking: two exchanges of one token both succeed |
| | `AllDevicesLeft` | "Remove all refresh tokens for this user" (`:414`) | an exchange in flight stores its token afterwards |
| `audit` | `OldIsReplaced` | "Get previous value (for UPDATE operations)" (`audit.ts:91`) | read in a round trip of its own |
| | `InOrder` | entries tell the order of changes | nothing waits for an insertion |
| | `AddressesMasked` | "Recursively sanitize an object, removing PII" (`pii-sanitizer.ts:84`) | strings in lists are kept as they are |
| `listings` | `FilteredFindsAll` | "For simplicity, we'll filter in memory for now" (`GroupRepository.ts:219`) | a page that loses rows to the filter is taken for the last one |
| | `NoneMissedAtRest` | a list has all its rows | names and times are ordered by, and no key breaks a tie |
| | `EntriesAllHad`, `EntriesHadOnce` | "Cursor-based pagination" (`AuditLogRepository.ts:123`) | the cursor is cut to the millisecond: of one millisecond entries are missed newest first, and repeated oldest first |
| `users` | `FieldsStay`, with `Request = {r1, r2, r3}`, `MaxRequests = 8`, `MaxUsers = 1`, `MaxLinks = 1` | "Optimistic locking" (`UserRepository.ts:360`) | an approval, a rejection, a lock or a reset that two updates overtake writes the version of the first again (`:130`, `:164`, `:199`, `:249`, `:289`), and a third update that has read that version passes the lock and takes back the field of the second |
| | `LinksWorkOnce` | a used token is cleared (`UserRepository.ts:529`) | a write of what was read before brings it back |
| | `UsernamesUnique` | "Username ... is already taken" (`UserService.ts:58`) | no unique index |
| | `GoodTokensAccepted` | a valid token is accepted | looked for among the first hundred users (`:291`) |
| | `UnverifiedCanVerify` | "Check for existing user with same email" (`:91`) | a creation that dies before its token leaves an email that cannot be invited again |
| `permissions` | `BulkAllOrNone` | a bulk succeeds or fails | an insert that fails half way leaves the ones before |
| | `OwnTenantOnly` | permissions are a tenant's | changes and deletions go by the id alone |
| `evaluation` | `SimulatorFollowsRule`, `RaisedForItsMetric` | the simulator raises the alarms of the rules | the bundle loses metric and operator: every metric is compared, and with "above" or "outside" |

Seen beside the models, where the code differs from what its names and comments suggest:

- *Authorization.* A revoked assignment cannot be granted again in its scope: the look for a
  duplicate asks for active rows and the unique index covers all (`RoleAssignmentRepository.ts:18`). A wildcard
  deny does not take a concrete allow from the effective permissions. Nothing sets `explicitlyDenied`
  (`BundleGeneratorService.ts:356`): the flat list of denied permissions is always empty and no feature is
  ever "denied". `sourceRoles` and `sourcePolicies` are always empty. Policies accept permissions of three parts
  only, a domain permission has four: `domainPolicies` is always empty and `checkDomainPermission` always
  false.
- *Marketplace.* The list of subscribed packages of a partner is never stored, `PartnerRepository.update` leaves
  it out; a cancelled subscription cannot be made again (unique index); a package under review can be
  published without the review.
- *Maintenance groups.* A member whose membership has expired cannot be added again
  (`ALREADY_MEMBER`).
- *API keys.* No route calls `deactivateApiKey` or `reactivateApiKey`; the routes that admit a key ask for
  `bundles:read` only.
- *Sessions.* Expired refresh tokens stay in the map until they are used; `verifyMfa` does not look at the
  status of the account.
- *Engine.* `scansLimit` is stored with a session and never compared; `cleanupOldSimulatorData`,
  `clearProcessedJobs` and the shutdown of the monitor have no caller. "Only trigger one alarm per device per
  scan" (`SimulatorEngine.ts:492`) holds for each rule. A candidate raised before `initializeSimulator` has set
  the handler is not queued.
- *Rules.* Neither evaluator looks at duration, hysteresis or schedule. The warning of an AVAILABILITY
  target is a margin above the target: a target in percent always warns.
- *Audit.* `GET /audit-logs/stats` is declared after `/:id`, which catches it; `calculateDiff` and
  `deleteExpired` have no callers; the path changes of a moved customer's descendants are not logged.
- *Users.* `verifyEmail` makes a user ACTIVE whatever its status was. The fallback of a failed login counts it
  again when the first count was stored, and locks at 5 where registration locks at 6 (`UserService.ts:40`).
- *Domain permissions, requests.* `z.coerce.boolean()` reads the query `"false"` as true.

## 6. Plan

1. *Done:* every component of section 1; the safety properties of every module with a run of its own, but
   for the fold of `AccessBundle`, as theorems; the three refinements.
2. The properties of the `Registry` components that need no `Settled`, which are inductive with little
   added: `OnlyAppends`, `CurrentIsLast` and `CountWithinSubscriptions`
   (`Marketplace`).
3. Those that do (`DefaultIsLastAsked`), where the invariant has to say what a request has done so
   far, as that of `Groups` does.
4. `RegistryTypeOK`, one lemma for each component.

The list of runs is one for each question about a component with state of its own or with fairness, and one
for the components that only need two requests at a time.
