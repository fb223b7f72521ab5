---------------------------- MODULE Authorization ----------------------------
(***************************************************************************)
(* Roles, policies and role assignments of a tenant, and the decision      *)
(* whether a user may do something: AuthorizationService over the tables   *)
(* policies, roles and role_assignments.  A role names its policies and an *)
(* assignment its role by key; nothing in the database ties them together, *)
(* each operation looks at the other tables first.                         *)
(*                                                                         *)
(* An action is one round trip to the database; requests interleave        *)
(* between any two.  Left out: descriptive columns (an update of one of a  *)
(* policy's lists is an update that keeps the other), the conditions of a  *)
(* policy, which no decision looks at, system roles and policies, which    *)
(* nothing changes, and events, which nothing reads.                       *)
(***************************************************************************)
EXTENDS Naturals, Sequences, SequencesExt

CONSTANTS
  PolicyId, PolicyKey,  \* ids are generated once, a key may be used again
  RoleId, RoleKey,
  User,
  Scope,                \* scopes of assignments and of resources, as tokens
  Resource,
  Pattern,              \* <<domain, function, action>>, "*" for any
  Permission,           \* patterns without "*"
  Content,              \* bound: the lists that policies are given
  None,                 \* no id, no key, no user
  Request,              \* requests in flight
  Operation,            \* bound: what requests ask for
  MaxRequests,          \* bound: requests made
  MaxFaults             \* bound: requests that die half way

ASSUME AuthorizationAssumption ==
  /\ None \notin PolicyId \cup PolicyKey \cup RoleId \cup RoleKey \cup User
  /\ Content \subseteq [allow : SUBSET Pattern, deny : SUBSET Pattern]
  /\ MaxRequests \in Nat /\ MaxFaults \in Nat

VARIABLES
  policy, role, assignment,  \* the three tables
  call,                      \* what each request has got so far
  made,
  faults,
  link                       \* history: what has stood since an evaluation began

tables == <<policy, role, assignment>>
vars   == <<policy, role, assignment, call, made, faults, link>>

State == {"unborn", "present", "deleted"}

\* One for a user, a role key and a scope: unique, and never deleted.
Assignment == User \X RoleKey \X Scope

\* PolicyRepository.getByKey, RoleRepository.getByKey; getByKeys
PolicyOf(k) == {i \in PolicyId : policy[i].state = "present" /\ policy[i].key = k}
RoleOf(k)   == {i \in RoleId : role[i].state = "present" /\ role[i].key = k}
AllFound(ks) == \A k \in ks : PolicyOf(k) # {}

\* getActiveByUserId
InForce(a) == assignment[a].status = "active" /\ ~assignment[a].expired

PolicyRow == [state : State, key : PolicyKey \cup {None}, allow : SUBSET Pattern,
              deny : SUBSET Pattern, version : Nat]
RoleRow   == [state : State, key : RoleKey \cup {None}, policies : SUBSET PolicyKey, version : Nat]
AssignmentRow == [status : {"absent", "active", "inactive"}, expired : BOOLEAN, version : Nat]

Lists == [allow |-> {}, deny |-> {}]

Pc == {"idle", "insertingPolicy", "readingPolicy", "writingPolicy", "listingRoles",
       "rereadingPolicy", "deletingPolicy", "findingRole", "insertingRole", "checkingPolicies",
       "readingRole", "writingRole", "countingAssignments", "rereadingRole", "deletingRole",
       "checkingAssignment", "insertingAssignment", "readingAssignment", "writingAssignment",
       "findingAssignments", "findingRoles", "findingPolicies"}

\* id, key: the row a request is about; content, policies: what it is given, or
\* the policies an evaluation has found; grant: the assignment; seen: the version
\* read; user, permission, resource, roles: of an evaluation.
Idle == [pc |-> "idle", id |-> None, key |-> None, content |-> Lists, policies |-> {},
         grant |-> <<>>, seen |-> 0, user |-> None, permission |-> <<>>, resource |-> <<>>,
         roles |-> {}, answer |-> "none"]

Call == [pc : Pc, id : PolicyId \cup RoleId \cup {None}, key : PolicyKey \cup RoleKey \cup {None},
         content : [allow : SUBSET Pattern, deny : SUBSET Pattern], policies : SUBSET PolicyKey,
         grant : Assignment \cup {<<>>}, seen : Nat, user : User \cup {None},
         permission : Permission \cup {<<>>}, resource : Resource \cup {<<>>},
         roles : SUBSET RoleKey, answer : {"none", "allow", "deny"}]

Busy(r) == call[r].pc # "idle"
At(pc)  == [Idle EXCEPT !.pc = pc]

Link   == [deny : SUBSET (Assignment \X PolicyKey), allow : SUBSET (Assignment \X PolicyKey),
           contested : BOOLEAN]
NoLink == [deny |-> {}, allow |-> {}, contested |-> FALSE]

TypeOK ==
  /\ policy \in [PolicyId -> PolicyRow]
  /\ role \in [RoleId -> RoleRow]
  /\ assignment \in [Assignment -> AssignmentRow]
  /\ call \in [Request -> Call]
  /\ made \in 0 .. MaxRequests
  /\ faults \in 0 .. MaxFaults
  /\ link \in [Request -> Link]

Init ==
  /\ policy = [i \in PolicyId |-> [state |-> "unborn", key |-> None, allow |-> {}, deny |-> {},
                                   version |-> 0]]
  /\ role = [i \in RoleId |-> [state |-> "unborn", key |-> None, policies |-> {}, version |-> 0]]
  /\ assignment = [a \in Assignment |-> [status |-> "absent", expired |-> FALSE, version |-> 0]]
  /\ call = [r \in Request |-> Idle]
  /\ made = 0
  /\ faults = 0
  /\ link = [r \in Request |-> NoLink]

-----------------------------------------------------------------------------
\* Steps of a request

Begin(r, op, next) ==
  /\ op \in Operation
  /\ ~Busy(r)
  /\ made < MaxRequests
  /\ made' = made + 1
  /\ call' = [call EXCEPT ![r] = next]
  /\ UNCHANGED <<tables, faults>>

Goes(r, next) == call' = [call EXCEPT ![r] = next] /\ UNCHANGED <<made, faults>>

Ends(r) == Goes(r, Idle)

\* Reads only: goes on if the answer is as hoped for.
Reads(r, from, hoped, next) ==
  /\ call[r].pc = from
  /\ Goes(r, IF hoped THEN next ELSE Idle)
  /\ UNCHANGED tables

\* A generated id, which no other request has been given.
Fresh(id) == \A r \in Request : call[r].id # id

-----------------------------------------------------------------------------
\* Policies

\* The repository looks the key up, then inserts; the key is unique.
CreatePolicy(r, id, k, c) ==
  /\ policy[id].state = "unborn" /\ Fresh(id)
  /\ PolicyOf(k) = {}
  /\ Begin(r, "createPolicy", [At("insertingPolicy") EXCEPT !.id = id, !.key = k, !.content = c])

InsertPolicy(r) ==
  LET c == call[r]
  IN /\ c.pc = "insertingPolicy"
     /\ policy' = IF PolicyOf(c.key) # {} THEN policy
                  ELSE [policy EXCEPT ![c.id] = [state |-> "present", key |-> c.key,
                          allow |-> c.content.allow, deny |-> c.content.deny, version |-> 1]]
     /\ Ends(r)
     /\ UNCHANGED <<role, assignment>>

\* The service reads the policy, the repository reads it again, and the UPDATE
\* demands the version of the second reading.
UpdatePolicy(r, id, c) ==
  /\ policy[id].state = "present"
  /\ Begin(r, "updatePolicy", [At("readingPolicy") EXCEPT !.id = id, !.content = c])

ReadPolicy(r) ==
  Reads(r, "readingPolicy", policy[call[r].id].state = "present",
        [call[r] EXCEPT !.pc = "writingPolicy", !.seen = policy[call[r].id].version])

WritePolicy(r) ==
  LET c == call[r]
      p == policy[c.id]
  IN /\ c.pc = "writingPolicy"
     /\ policy' = IF p.state # "present" \/ p.version # c.seen THEN policy
                  ELSE [policy EXCEPT ![c.id] = [p EXCEPT !.allow = c.content.allow,
                          !.deny = c.content.deny, !.version = @ + 1]]
     /\ Ends(r)
     /\ UNCHANGED <<role, assignment>>

\* Refused if a role names the policy (the first 1000 roles are looked at: there
\* are no more here).
DeletePolicy(r, id) ==
  /\ policy[id].state = "present"
  /\ Begin(r, "deletePolicy", [At("listingRoles") EXCEPT !.id = id, !.key = policy[id].key])

ListRoles(r) ==
  Reads(r, "listingRoles",
        \A i \in RoleId : role[i].state = "present" => call[r].key \notin role[i].policies,
        [call[r] EXCEPT !.pc = "rereadingPolicy"])

RereadPolicy(r) ==
  Reads(r, "rereadingPolicy", policy[call[r].id].state = "present",
        [call[r] EXCEPT !.pc = "deletingPolicy"])

DeletePolicyRow(r) ==
  /\ call[r].pc = "deletingPolicy"
  /\ policy' = [policy EXCEPT ![call[r].id].state = "deleted"]
  /\ Ends(r)
  /\ UNCHANGED <<role, assignment>>

-----------------------------------------------------------------------------
\* Roles

\* The policies have to exist, then the key must be free, then the insert.
CreateRole(r, id, k, ps) ==
  /\ role[id].state = "unborn" /\ Fresh(id)
  /\ AllFound(ps)
  /\ Begin(r, "createRole", [At("findingRole") EXCEPT !.id = id, !.key = k, !.policies = ps])

FindRole(r) ==
  Reads(r, "findingRole", RoleOf(call[r].key) = {}, [call[r] EXCEPT !.pc = "insertingRole"])

InsertRole(r) ==
  LET c == call[r]
  IN /\ c.pc = "insertingRole"
     /\ role' = IF RoleOf(c.key) # {} THEN role
                ELSE [role EXCEPT ![c.id] = [state |-> "present", key |-> c.key,
                        policies |-> c.policies, version |-> 1]]
     /\ Ends(r)
     /\ UNCHANGED <<policy, assignment>>

UpdateRole(r, id, ps) ==
  /\ role[id].state = "present"
  /\ Begin(r, "updateRole", [At("checkingPolicies") EXCEPT !.id = id, !.policies = ps])

CheckPolicies(r) ==
  Reads(r, "checkingPolicies", AllFound(call[r].policies), [call[r] EXCEPT !.pc = "readingRole"])

ReadRole(r) ==
  Reads(r, "readingRole", role[call[r].id].state = "present",
        [call[r] EXCEPT !.pc = "writingRole", !.seen = role[call[r].id].version])

WriteRole(r) ==
  LET c == call[r]
      p == role[c.id]
  IN /\ c.pc = "writingRole"
     /\ role' = IF p.state # "present" \/ p.version # c.seen THEN role
                ELSE [role EXCEPT ![c.id] = [p EXCEPT !.policies = c.policies, !.version = @ + 1]]
     /\ Ends(r)
     /\ UNCHANGED <<policy, assignment>>

DeleteRole(r, id) ==
  /\ role[id].state = "present"
  /\ Begin(r, "deleteRole", [At("countingAssignments") EXCEPT !.id = id, !.key = role[id].key])

\* Mutation of CountAssignments: assignments past their date are not counted.
CountAssignmentsInForce(r) ==
  Reads(r, "countingAssignments", \A a \in Assignment : a[2] = call[r].key => ~InForce(a),
        [call[r] EXCEPT !.pc = "rereadingRole"])

\* "active" is the status: an assignment past its date still counts.
CountAssignments(r) ==
  Reads(r, "countingAssignments",
        \A a \in Assignment : a[2] = call[r].key => assignment[a].status # "active",
        [call[r] EXCEPT !.pc = "rereadingRole"])

RereadRole(r) ==
  Reads(r, "rereadingRole", role[call[r].id].state = "present",
        [call[r] EXCEPT !.pc = "deletingRole"])

DeleteRoleRow(r) ==
  /\ call[r].pc = "deletingRole"
  /\ role' = [role EXCEPT ![call[r].id].state = "deleted"]
  /\ Ends(r)
  /\ UNCHANGED <<policy, assignment>>

-----------------------------------------------------------------------------
\* Assignments

AssignRole(r, a) ==
  /\ RoleOf(a[2]) # {}
  /\ Begin(r, "assignRole", [At("checkingAssignment") EXCEPT !.grant = a])

CheckAssignment(r) ==
  Reads(r, "checkingAssignment", assignment[call[r].grant].status # "active",
        [call[r] EXCEPT !.pc = "insertingAssignment"])

\* The unique index refuses a second row, whatever the status of the first.
InsertAssignment(r) ==
  LET a == call[r].grant
  IN /\ call[r].pc = "insertingAssignment"
     /\ assignment' = IF assignment[a].status # "absent" THEN assignment
                      ELSE [assignment EXCEPT ![a] = [status |-> "active", expired |-> FALSE,
                                                      version |-> 1]]
     /\ Ends(r)
     /\ UNCHANGED <<policy, role>>

RevokeAssignment(r, a) ==
  /\ assignment[a].status # "absent"
  /\ Begin(r, "revokeAssignment", [At("readingAssignment") EXCEPT !.grant = a])

ReadAssignment(r) ==
  Reads(r, "readingAssignment", TRUE,
        [call[r] EXCEPT !.pc = "writingAssignment", !.seen = assignment[call[r].grant].version])

WriteAssignment(r) ==
  LET c == call[r]
  IN /\ c.pc = "writingAssignment"
     /\ assignment' = IF assignment[c.grant].version # c.seen THEN assignment
                      ELSE [assignment EXCEPT ![c.grant].status = "inactive",
                                              ![c.grant].version = @ + 1]
     /\ Ends(r)
     /\ UNCHANGED <<policy, role>>

\* expiresAt passes.
Expire(a) ==
  /\ assignment[a].status = "active" /\ ~assignment[a].expired
  /\ assignment' = [assignment EXCEPT ![a].expired = TRUE]
  /\ UNCHANGED <<policy, role, call, made, faults>>

-----------------------------------------------------------------------------
\* The decision

\* scopeMatches: the same, below a "*" at the end, or below it in the hierarchy.
ScopeMatches(scope, resource) ==
  \/ scope = resource
  \/ scope # <<>> /\ Last(scope) = "*" /\ IsPrefix(Front(scope), resource)
  \/ IsPrefix(Append(scope, "/"), resource)

\* permissionMatches
Matches(patterns, permission) ==
  \E x \in patterns : \A i \in 1 .. 3 : x[i] \in {"*", permission[i]}

Evaluate(r, u, p, res) ==
  Begin(r, "evaluate", [At("findingAssignments") EXCEPT !.user = u, !.permission = p,
                                                        !.resource = res])

Answers(r, answer) == Goes(r, [Idle EXCEPT !.answer = answer])

\* Mutation of RolesOf: the scope of the assignment has to be that of the resource.
RolesOfExact(u, res) == {a[2] : a \in {b \in Assignment : b[1] = u /\ InForce(b) /\ b[3] = res}}

\* The assignments of the user in force, filtered by scope: the keys of their roles.
RolesOf(u, res) == {a[2] : a \in {b \in Assignment : b[1] = u /\ InForce(b) /\ ScopeMatches(b[3], res)}}

FindAssignments(r) ==
  LET ks == RolesOf(call[r].user, call[r].resource)
  IN /\ call[r].pc = "findingAssignments"
     /\ IF ks = {} THEN Answers(r, "deny")
        ELSE Goes(r, [call[r] EXCEPT !.pc = "findingRoles", !.roles = ks])
     /\ UNCHANGED tables

FindRoles(r) ==
  LET found == UNION {RoleOf(k) : k \in call[r].roles}
  IN /\ call[r].pc = "findingRoles"
     /\ IF found = {} THEN Answers(r, "deny")
        ELSE Goes(r, [call[r] EXCEPT !.pc = "findingPolicies",
                                     !.policies = UNION {role[i].policies : i \in found}])
     /\ UNCHANGED tables

\* Mutation of Decide: an allow wins.
DecideAllowFirst(r) ==
  /\ call[r].pc = "findingPolicies"
  /\ Answers(r, IF \E k \in call[r].policies : \E i \in PolicyOf(k) :
                     Matches(policy[i].allow, call[r].permission)
                THEN "allow" ELSE "deny")
  /\ UNCHANGED tables

\* Deny wins, whatever the order of the policies.
Decide(r) ==
  LET found == UNION {PolicyOf(k) : k \in call[r].policies}
      p     == call[r].permission
  IN /\ call[r].pc = "findingPolicies"
     /\ Answers(r, IF /\ \E i \in found : Matches(policy[i].allow, p)
                      /\ \A i \in found : ~Matches(policy[i].deny, p)
                   THEN "allow" ELSE "deny")
     /\ UNCHANGED tables

-----------------------------------------------------------------------------
\* The process dies or the database fails: what is written stays written.
Dies(r) ==
  /\ Busy(r)
  /\ faults < MaxFaults
  /\ faults' = faults + 1
  /\ call' = [call EXCEPT ![r] = Idle]
  /\ UNCHANGED <<tables, made>>

Ask(r) ==
  \/ \E id \in PolicyId : \/ \E c \in Content : UpdatePolicy(r, id, c)
                          \/ \E k \in PolicyKey, c \in Content : CreatePolicy(r, id, k, c)
                          \/ DeletePolicy(r, id)
  \/ \E id \in RoleId : \/ \E ps \in SUBSET PolicyKey \ {{}} :
                             \/ UpdateRole(r, id, ps)
                             \/ \E k \in RoleKey : CreateRole(r, id, k, ps)
                        \/ DeleteRole(r, id)
  \/ \E a \in Assignment : AssignRole(r, a) \/ RevokeAssignment(r, a)
  \/ \E u \in User, p \in Permission, res \in Resource : Evaluate(r, u, p, res)

Continue(r) ==
  \/ InsertPolicy(r) \/ ReadPolicy(r) \/ WritePolicy(r)
  \/ ListRoles(r) \/ RereadPolicy(r) \/ DeletePolicyRow(r)
  \/ FindRole(r) \/ InsertRole(r) \/ CheckPolicies(r) \/ ReadRole(r) \/ WriteRole(r)
  \/ CountAssignments(r) \/ RereadRole(r) \/ DeleteRoleRow(r)
  \/ CheckAssignment(r) \/ InsertAssignment(r) \/ ReadAssignment(r) \/ WriteAssignment(r)
  \/ FindAssignments(r) \/ FindRoles(r) \/ Decide(r)

Step ==
  \/ \E r \in Request : Ask(r) \/ Continue(r) \/ Dies(r)
  \/ \E a \in Assignment : Expire(a)

\* History: an assignment and a policy key by which a policy reaches user u at
\* resource res.
Reaches(u, res, a, k) ==
  /\ a[1] = u /\ InForce(a) /\ ScopeMatches(a[3], res)
  /\ \E i \in RoleOf(a[2]) : k \in role[i].policies

\* What denies u the permission p, what allows it, and whether any policy of the
\* tenant denies it.
Standing(u, p, res) ==
  [deny  |-> {l \in Assignment \X PolicyKey : Reaches(u, res, l[1], l[2]) /\
                \E i \in PolicyOf(l[2]) : Matches(policy[i].deny, p)},
   allow |-> {l \in Assignment \X PolicyKey : Reaches(u, res, l[1], l[2]) /\
                \E i \in PolicyOf(l[2]) : Matches(policy[i].allow, p)},
   contested |-> \E i \in PolicyId : policy[i].state = "present" /\ Matches(policy[i].deny, p)]

StandingOf(r) == Standing(call[r].user, call[r].permission, call[r].resource)

Still(l, now) ==
  [deny |-> l.deny \cap now.deny, allow |-> l.allow \cap now.allow,
   contested |-> l.contested \/ now.contested]

\* While an evaluation is in flight, what has stood in every state of it.
Observe ==
  link' = [r \in Request |->
             IF call'[r].user # None
             THEN IF Busy(r) THEN Still(link[r], StandingOf(r)') ELSE StandingOf(r)'
             ELSE IF call'[r].answer # "none" THEN link[r] ELSE NoLink]

Next == Step /\ Observe

Spec == Init /\ [][Next]_vars

-----------------------------------------------------------------------------
\* Correctness

\* Explicit deny wins: a permission is not allowed when one assignment and one
\* policy deny it during the whole evaluation, although assignments, roles and
\* policies are read one after the other and all of them may change meanwhile.
StandingDenyWins ==
  \A r \in Request : call[r].answer = "allow" => link[r].deny = {}

\* And it is allowed when an assignment and a policy allow it during the whole
\* evaluation and no policy of the tenant denies it at any moment of it.
StandingAllowGranted ==
  \A r \in Request : call[r].answer = "deny" => link[r].allow = {} \/ link[r].contested

\* Where no two administrators work at the same time: a role names policies that
\* exist, and an assignment that counts as active a role that exists, so that no
\* key made again brings back what was granted under the old one.
ReferencesHold ==
  /\ \A i \in RoleId : role[i].state = "present" => AllFound(role[i].policies)
  /\ \A a \in Assignment : assignment[a].status = "active" => RoleOf(a[2]) # {}
=============================================================================
