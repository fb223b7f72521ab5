---------------------------- MODULE AccessBundle ----------------------------
(***************************************************************************)
(* The access bundle: BundleGeneratorService asks AuthorizationService for *)
(* the effective permissions of a user in a scope and keeps the answer in  *)
(* user_bundle_cache until it expires or is invalidated.  The module is    *)
(* composed with Authorization: administrators change policies, roles and  *)
(* assignments while bundles are built from them, and none of those        *)
(* changes touches the cache.                                              *)
(*                                                                         *)
(* A caller asks for the parts of a bundle that it wants.  Checks of a     *)
(* domain permission or of a feature ask for all of them and look at one.  *)
(*                                                                         *)
(* Left out: the profile (user, customer, maintenance group), conditions   *)
(* and checksums.  A call that dies changes nothing: it is one that takes  *)
(* no further step.                                                        *)
(***************************************************************************)
EXTENDS Authorization

CONSTANTS
  Client,       \* bundle calls in flight
  BundleScope,  \* scopes that bundles are asked for
  Every,        \* the scope "*", the default and the one that is refreshed
  PartSet,      \* bound: the sets of parts that callers ask for
  MaxCalls      \* bound: bundle calls made

Part == {"domains", "features", "flat"}

ASSUME AccessAssumption == Every \in BundleScope /\ MaxCalls \in Nat /\ PartSet \subseteq SUBSET Part

VARIABLES
  cache,   \* user_bundle_cache: a row for a user and a scope, unique
  bundle,  \* what each bundle call has got so far
  calls,
  steady   \* history: what has stood since a build began

accessVars == <<cache, bundle, calls, steady>>

\* "dead": invalidatedAt is set or expiresAt has passed, which no reader tells apart.
\* late (history): the row was built from reads older than its last invalidation.
CacheRow == [state : {"absent", "valid", "dead"}, allowed : SUBSET Pattern, parts : SUBSET Part,
             late : BOOLEAN]

NoRow == [state |-> "absent", allowed |-> {}, parts |-> {}, late |-> FALSE]

\* wants: the parts asked for; allowed, parts, answer, late: of the bundle returned;
\* exists: the row that upsert saw.
NoCall == [pc |-> "idle", user |-> None, scope |-> <<>>, useCache |-> FALSE, wants |-> {}, roles |-> {},
           policies |-> {}, allowed |-> {}, parts |-> {}, exists |-> FALSE, late |-> FALSE, answer |-> "none"]

AccessTypeOK ==
  /\ TypeOK
  /\ cache \in [User \X BundleScope -> CacheRow]
  /\ \A c \in Client :
       /\ bundle[c].pc \in {"idle", "lookingUp", "readingAssignments", "readingRoles",
                            "readingPolicies", "findingRow", "writingRow"}
       /\ bundle[c].roles \subseteq RoleKey /\ bundle[c].policies \subseteq PolicyKey
       /\ bundle[c].allowed \subseteq Pattern
       /\ bundle[c].wants \subseteq Part /\ bundle[c].parts \subseteq Part
       /\ bundle[c].answer \in {"none", "cached", "built"}
  /\ calls \in 0 .. MaxCalls

NothingStood == [p \in Permission |-> NoLink]

AccessInit ==
  /\ Init
  /\ cache = [k \in User \X BundleScope |-> NoRow]
  /\ bundle = [c \in Client |-> NoCall]
  /\ calls = 0
  /\ steady = [c \in Client |-> NothingStood]

-----------------------------------------------------------------------------
Of(c) == <<bundle[c].user, bundle[c].scope>>

Calls(c) ==
  /\ bundle[c].pc = "idle"
  /\ calls < MaxCalls
  /\ calls' = calls + 1

Proceeds(c, from, next) ==
  /\ bundle[c].pc = from
  /\ bundle' = [bundle EXCEPT ![c] = next]
  /\ UNCHANGED <<cache, calls>>

\* What the caller gets.
Returned(b, answer) ==
  [NoCall EXCEPT !.user = b.user, !.scope = b.scope, !.wants = b.wants, !.allowed = b.allowed,
                 !.parts = b.parts, !.late = b.late, !.answer = answer]

\* A live row is returned as it is, whatever its parts, otherwise the bundle is built.
LookedUp(b) ==
  LET row == cache[b.user, b.scope]
  IN IF row.state = "valid"
     THEN Returned([b EXCEPT !.allowed = row.allowed, !.parts = row.parts, !.late = row.late], "cached")
     ELSE [b EXCEPT !.pc = "readingAssignments"]

GenerateBundle(c, u, s, useCache, parts) ==
  LET b == [NoCall EXCEPT !.user = u, !.scope = s, !.useCache = useCache, !.wants = parts]
  IN /\ Calls(c)
     /\ bundle' = [bundle EXCEPT ![c] = IF useCache THEN LookedUp(b)
                                        ELSE [b EXCEPT !.pc = "readingAssignments"]]
     /\ UNCHANGED cache

\* The rows invalidated; a build of one of them that is in flight becomes late.
Invalidated(ks) ==
  [k \in User \X BundleScope |->
     IF k \in ks /\ cache[k].state = "valid" THEN [cache[k] EXCEPT !.state = "dead"] ELSE cache[k]]

Outdated(ks) ==
  [c \in Client |-> IF bundle[c].pc # "idle" /\ Of(c) \in ks THEN [bundle[c] EXCEPT !.late = TRUE]
                    ELSE bundle[c]]

RefreshBundle(c, u) ==
  /\ Calls(c)
  /\ cache' = Invalidated({<<u, Every>>})
  /\ bundle' = [Outdated({<<u, Every>>}) EXCEPT
                  ![c] = [NoCall EXCEPT !.pc = "lookingUp", !.user = u, !.scope = Every,
                                        !.useCache = TRUE, !.wants = Part]]

LookUp(c) == Proceeds(c, "lookingUp", LookedUp(bundle[c]))

\* invalidateByScope with a scope, invalidate without.
InvalidateBundle(c, u, scopes) ==
  /\ Calls(c)
  /\ cache' = Invalidated({u} \X scopes)
  /\ bundle' = [Outdated({u} \X scopes) EXCEPT ![c] = NoCall]

\* getEffectivePermissions
ReadAssignments(c) ==
  Proceeds(c, "readingAssignments",
           [bundle[c] EXCEPT !.pc = "readingRoles", !.roles = RolesOf(bundle[c].user, bundle[c].scope)])

ReadRoles(c) ==
  Proceeds(c, "readingRoles",
           [bundle[c] EXCEPT !.pc = "readingPolicies",
              !.policies = UNION {role[i].policies : i \in UNION {RoleOf(k) : k \in bundle[c].roles}}])

\* Mutation of Merge: a policy's lists replace what was merged before.
MergeForgets(allowed, i) == policy[i].allow \ policy[i].deny

\* Each policy adds what it allows, then takes away what it denies, pattern by
\* pattern; nobody orders the policies.
Merge(allowed, i) == (allowed \cup policy[i].allow) \ policy[i].deny

Effective(order) == FoldLeft(Merge, {}, order)

ReadPolicies(c) ==
  \E order \in SetToSeqs(UNION {PolicyOf(k) : k \in bundle[c].policies}) :
    LET b == [bundle[c] EXCEPT !.allowed = Effective(order), !.parts = bundle[c].wants]
    IN Proceeds(c, "readingPolicies",
                IF b.useCache THEN [b EXCEPT !.pc = "findingRow"] ELSE Returned(b, "built"))

\* upsert
FindRow(c) ==
  Proceeds(c, "findingRow",
           [bundle[c] EXCEPT !.pc = "writingRow", !.exists = cache[Of(c)].state # "absent"])

\* An insert is refused when the row exists by now, and the call fails.
WriteRow(c) ==
  LET b       == bundle[c]
      refused == ~b.exists /\ cache[Of(c)].state # "absent"
  IN /\ b.pc = "writingRow"
     /\ cache' = IF refused THEN cache
                 ELSE [cache EXCEPT ![Of(c)] = [state |-> "valid", allowed |-> b.allowed,
                                                parts |-> b.parts, late |-> b.late]]
     /\ bundle' = [bundle EXCEPT ![c] = IF refused THEN NoCall ELSE Returned(b, "built")]
     /\ UNCHANGED calls

\* expiresAt passes.
Lapse(k) ==
  /\ cache[k].state = "valid"
  /\ cache' = [cache EXCEPT ![k].state = "dead"]
  /\ UNCHANGED <<bundle, calls>>

-----------------------------------------------------------------------------
BundleStep ==
  \/ \E c \in Client :
       \/ \E u \in User, s \in BundleScope, useCache \in BOOLEAN, parts \in PartSet :
            GenerateBundle(c, u, s, useCache, parts)
       \/ \E u \in User : RefreshBundle(c, u)
       \/ \E u \in User : InvalidateBundle(c, u, BundleScope) \/
                          \E s \in BundleScope : InvalidateBundle(c, u, {s})
       \/ LookUp(c) \/ ReadAssignments(c) \/ ReadRoles(c) \/ ReadPolicies(c)
       \/ FindRow(c) \/ WriteRow(c)
  \/ \E k \in User \X BundleScope : Lapse(k)

\* History: while a bundle is built, what has stood in every state of it.
Building(b) == b.pc \notin {"idle", "lookingUp"}

Stands(c) == [p \in Permission |-> Standing(bundle[c].user, p, bundle[c].scope)]

ObserveBuilds ==
  steady' = [c \in Client |->
    LET was == bundle[c]
        is  == bundle'[c]
    IN IF ~Building(is) /\ is.answer # "built" THEN NothingStood
       ELSE IF Building(was) THEN [p \in Permission |-> Still(steady[c][p], (Stands(c)')[p])]
       ELSE IF Building(is) THEN Stands(c)'
       ELSE steady[c]]

AccessNext ==
  /\ \/ BundleStep /\ UNCHANGED vars
     \/ Next /\ UNCHANGED <<cache, bundle, calls>>
  /\ ObserveBuilds

AccessSpec == AccessInit /\ [][AccessNext]_<<vars, accessVars>>

-----------------------------------------------------------------------------
\* What is read of a bundle that is returned

\* buildDomainPolicies takes permissions of four parts.  A policy names three.
DomainPolicies(b) == IF "domains" \in b.parts THEN {p \in b.allowed : Len(p) = 4} ELSE {}

CheckDomainPermission(b, p) == p \in DomainPolicies(b)

\* A feature is granted by its permissions, by name.  "denied" is never given: the
\* effective permissions do not say which of them are denied.
FeaturePolicies(b, required) ==
  IF "features" \in b.parts /\ required \subseteq b.allowed THEN "granted" ELSE "not_granted"

CheckFeatureAccess(b, required) == FeaturePolicies(b, required) = "granted"

-----------------------------------------------------------------------------
\* Correctness

\* Explicit deny wins: a bundle just built does not allow what one assignment and
\* one policy have denied while it was built.
StandingDenyBundled ==
  \A c \in Client, p \in Permission :
    bundle[c].answer = "built" /\ p \in bundle[c].allowed => steady[c][p].deny = {}

\* A bundle just built allows what an assignment and a policy have allowed while it
\* was built and no policy has denied at any moment: what the evaluation grants,
\* the bundle does not hide, in whatever order the policies are found.
StandingAllowBundled ==
  \A c \in Client, p \in Permission :
    bundle[c].answer = "built" /\ "flat" \in bundle[c].parts =>
      Matches(bundle[c].allowed, p) \/ steady[c][p].allow = {} \/ steady[c][p].contested

\* What is invalidated stays so: a row in force was read after its last
\* invalidation.
InvalidationHolds ==
  \A k \in User \X BundleScope : cache[k].state = "valid" => ~cache[k].late

\* A revocation invalidates: a bundle in force that allows something is of a user
\* who still has an assignment that is not revoked.
RevokedNotServed ==
  \A k \in User \X BundleScope :
    cache[k].state = "valid" /\ cache[k].allowed # {} =>
      \E a \in Assignment : a[1] = k[1] /\ assignment[a].status = "active"

\* Refuted: a caller gets the parts of the bundle that it asks for.  A cached row
\* has the parts that were asked for when it was built.
ServedAsAsked == \A c \in Client : bundle[c].answer # "none" => bundle[c].wants \subseteq bundle[c].parts

\* Refuted: a feature is granted by a bundle just built when its permission has
\* stood allowed and undisputed.  A wildcard grants the permission and no feature.
StandingAllowGrantsFeature ==
  \A c \in Client, p \in Permission :
    bundle[c].answer = "built" /\ "features" \in bundle[c].parts =>
      CheckFeatureAccess(bundle[c], {p}) \/ steady[c][p].allow = {} \/ steady[c][p].contested
=============================================================================
