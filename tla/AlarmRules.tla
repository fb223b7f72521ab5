----------------------------- MODULE AlarmRules -----------------------------
(***************************************************************************)
(* The rules of a customer, and the bundle of its alarm rules that         *)
(* gateways poll: RuleService over the rules table, and AlarmBundleService *)
(* which reads the devices and then the rules.                             *)
(*                                                                         *)
(* A poll carries the version of the bundle that the gateway holds, and is *)
(* answered "not modified" when it is the version of the bundle just made. *)
(* The version is the second in which the bundle was made.  Devices move   *)
(* between assets, here in one step; filters by domain and device type,    *)
(* and the signature, are left out.                                        *)
(***************************************************************************)
EXTENDS Requests, Integers, FiniteSets, FiniteSetsExt

CONSTANTS
  MaxRules,     \* bound: rules created
  Sensor,       \* devices of the customer
  Place,        \* assets
  Customer,     \* the owner of devices and rules
  Other,        \* another customer
  MaxSeconds    \* bound: the clock

VARIABLES
  rule,
  place,        \* the asset of each device
  second,
  held,         \* the bundle the gateway holds
  stirred       \* history: requests since whose start a rule or a device has changed

tables == <<rule, place, second, held, stirred>>

Rule == 1 .. MaxRules

Scope ==
  [type : {"GLOBAL"}, entity : {"none"}, inherited : {FALSE}]
    \cup [type : {"CUSTOMER"}, entity : {Customer, Other}, inherited : BOOLEAN]
    \cup [type : {"ASSET"}, entity : Place, inherited : BOOLEAN]
    \cup [type : {"DEVICE"}, entity : Sensor, inherited : {FALSE}]

Everywhere == [type |-> "GLOBAL", entity |-> "none", inherited |-> FALSE]

RuleRow == [state : {"unborn", "there", "gone"}, alarm : BOOLEAN, scope : Scope, enabled : BOOLEAN, version : Nat]

UnbornRule == [state |-> "unborn", alarm |-> FALSE, scope |-> Everywhere, enabled |-> FALSE, version |-> 0]

Exists(u) == rule[u].state = "there"
NewRules == {u \in Rule : rule[u].state = "unborn"}
Existing == [u \in {x \in Rule : Exists(x)} |-> rule[u]]

Bundle == [version : 0 .. MaxSeconds, index : [Sensor -> SUBSET Rule], catalog : SUBSET Rule]

RulesTypeOK ==
  /\ RequestsTypeOK
  /\ rule \in [Rule -> RuleRow]
  /\ place \in [Sensor -> Place]
  /\ second \in 1 .. MaxSeconds
  /\ held \in Bundle
  /\ stirred \subseteq Request

RulesInit ==
  /\ RequestsInit
  /\ rule = [u \in Rule |-> UnbornRule]
  /\ place \in [Sensor -> Place]
  /\ second = 1
  /\ held = [version |-> 0, index |-> [d \in Sensor |-> {}], catalog |-> {}]
  /\ stirred = {}

Reading == UNCHANGED tables

Stir == stirred' = stirred \cup {r \in Request : ~At(r, "idle")}

-----------------------------------------------------------------------------
\* The bundle, from the assets of the devices and from the rows of the rules

\* getApplicableRules
Applies(scope, d, where) ==
  CASE scope.type = "GLOBAL"   -> TRUE
    [] scope.type = "CUSTOMER" -> scope.entity = Customer \/ scope.inherited
    [] scope.type = "ASSET"    -> scope.entity = where[d] \/ scope.inherited
    [] scope.type = "DEVICE"   -> scope.entity = d

Alarms(rows) == {u \in DOMAIN rows : rows[u].alarm /\ rows[u].enabled}

BuildBundle(where, rows) ==
  [version |-> second,
   index |-> [d \in Sensor |-> {u \in Alarms(rows) : Applies(rows[u].scope, d, where)}],
   catalog |-> Alarms(rows)]

\* The bundle for Node-RED names less of each device and rule, and maps them alike.
BuildSimplifiedBundle(where, rows) == BuildBundle(where, rows)

-----------------------------------------------------------------------------
\* Requests

CreateRule(r, alarm, scope) ==
  /\ NewRules # {}
  /\ Begin(r, [pc |-> "insertRule", alarm |-> alarm, scope |-> scope])
  /\ stirred' = stirred \ {r}
  /\ UNCHANGED <<rule, place, second, held>>

UpdateRule(r, u, scope) ==
  /\ Exists(u)
  /\ Begin(r, [pc |-> "readRule", rule |-> u, scope |-> {scope}, enabled |-> {}])
  /\ stirred' = stirred \ {r}
  /\ UNCHANGED <<rule, place, second, held>>

\* A rule that is as it should be is left alone.
ToggleRule(r, u) ==
  /\ Exists(u)
  /\ Begin(r, [pc |-> "readRule", rule |-> u, scope |-> {}, enabled |-> {~rule[u].enabled}])
  /\ stirred' = stirred \ {r}
  /\ UNCHANGED <<rule, place, second, held>>

DeleteRule(r, u) ==
  /\ Exists(u)
  /\ Begin(r, [pc |-> "dropRule", rule |-> u])
  /\ stirred' = stirred \ {r}
  /\ UNCHANGED <<rule, place, second, held>>

\* The gateway has one poll under way.
Poll(r) ==
  /\ \A q \in Request : ~At(q, "devices") /\ ~At(q, "rules")
  /\ Begin(r, [pc |-> "devices"])
  /\ stirred' = stirred \ {r}
  /\ UNCHANGED <<rule, place, second, held>>

-----------------------------------------------------------------------------
\* Statements

InsertRule(r) ==
  /\ At(r, "insertRule")
  /\ NewRules # {}
  /\ rule' = [rule EXCEPT ![Min(NewRules)] =
       [state |-> "there", alarm |-> call[r].alarm, scope |-> call[r].scope, enabled |-> TRUE, version |-> 1]]
  /\ Stir
  /\ Done(r)
  /\ UNCHANGED <<place, second, held>>

ReadRule(r) ==
  LET c == call[r] IN
  /\ At(r, "readRule")
  /\ IF Exists(c.rule)
       THEN Goes(r, [pc |-> "writeRule", rule |-> c.rule, scope |-> c.scope, enabled |-> c.enabled,
                     version |-> rule[c.rule].version])
       ELSE Done(r)
  /\ Reading

\* A column is written if the request gives a value for it.
Given(value, now) == IF value = {} THEN now ELSE CHOOSE x \in value : TRUE

Written(c) ==
  [rule[c.rule] EXCEPT !.scope = Given(c.scope, @), !.enabled = Given(c.enabled, @), !.version = c.version + 1]

WriteRule(r) ==
  LET c == call[r] IN
  /\ At(r, "writeRule")
  /\ rule' = IF Exists(c.rule) /\ rule[c.rule].version = c.version
               THEN [rule EXCEPT ![c.rule] = Written(c)] ELSE rule
  /\ Stir
  /\ Done(r)
  /\ UNCHANGED <<place, second, held>>

DropRule(r) ==
  /\ At(r, "dropRule")
  /\ rule' = [rule EXCEPT ![call[r].rule] = [UnbornRule EXCEPT !.state = "gone"]]
  /\ Stir
  /\ Done(r)
  /\ UNCHANGED <<place, second, held>>

ReadDevices(r) ==
  /\ At(r, "devices")
  /\ Goes(r, [pc |-> "rules", where |-> place])
  /\ Reading

\* Mutation of NotModified: a bundle that is older than the one held counts as known.
NotModifiedOlder(version) == version - 1 <= held.version

\* If-None-Match
NotModified(version) == version = held.version

\* The rules are read, the bundle is made, and the poll is answered.
ReadRules(r) ==
  /\ At(r, "rules")
  /\ \E bundle \in {BuildBundle(call[r].where, Existing), BuildSimplifiedBundle(call[r].where, Existing)} :
       held' = IF NotModified(bundle.version) THEN held ELSE bundle
  /\ Done(r)
  /\ UNCHANGED <<rule, place, second, stirred>>

-----------------------------------------------------------------------------
\* Around the service

MoveSensor(d, p) ==
  /\ place[d] # p
  /\ place' = [place EXCEPT ![d] = p]
  /\ Stir
  /\ UNCHANGED <<rule, second, held, requests>>

Tick ==
  /\ second < MaxSeconds
  /\ second' = second + 1
  /\ UNCHANGED <<rule, place, held, stirred, requests>>

RulesNext ==
  \/ \E r \in Request :
       \/ \E scope \in Scope :
            \/ \E alarm \in BOOLEAN : CreateRule(r, alarm, scope)
            \/ \E u \in Rule : UpdateRule(r, u, scope)
       \/ \E u \in Rule : ToggleRule(r, u) \/ DeleteRule(r, u)
       \/ Poll(r) \/ InsertRule(r) \/ ReadRule(r) \/ WriteRule(r) \/ DropRule(r)
       \/ ReadDevices(r) \/ ReadRules(r)
       \/ Fails(r) /\ Reading
  \/ \E d \in Sensor, p \in Place : MoveSensor(d, p)
  \/ Tick

RulesSpec == RulesInit /\ [][RulesNext]_<<tables, requests>>

-----------------------------------------------------------------------------
\* Correctness

\* Every rule that a device of the held bundle is mapped to is in the catalog that
\* came with it, whatever changed while the bundle was read.
HeldIsClosed == \A d \in Sensor : held.index[d] \subseteq held.catalog

\* A poll during which no rule and no device has changed leaves the gateway with what
\* holds now, unless its bundle was made in this very second.
Refreshes ==
  \A r \in Request :
    At(r, "rules") /\ ~At(r, "rules")' /\ calm' /\ r \notin stirred /\ held.version # second =>
      \A d \in Sensor :
        held'.index[d] = {u \in Rule : Exists(u) /\ rule[u].alarm /\ rule[u].enabled
                                         /\ Applies(rule[u].scope, d, place)}

PollRefreshes == [][Refreshes]_<<tables, requests>>

-----------------------------------------------------------------------------
\* What comments of the code say and the code does not do

\* "Calculate version hash from content" (AlarmBundleService.ts:375): a bundle of the
\* version that is held has the content that is held.
VersionIsOfContent ==
  \A r \in Request : At(r, "rules") =>
    LET bundle == BuildBundle(call[r].where, Existing)
    IN bundle.version = held.version => bundle = held
=============================================================================
