------------------------- MODULE DomainPermissions -------------------------
(***************************************************************************)
(* The registry of domain permissions, which administrators of a tenant    *)
(* fill one by one or in bulk: DomainPermissionRepository behind the       *)
(* routes of access-bundle.controller.  A unique index holds the tenant    *)
(* and the components of a permission, here one key.  Changes and          *)
(* deletions go by the id alone.                                           *)
(*                                                                         *)
(* Left out: names, descriptions and risk levels.  Lists only read; how    *)
(* they are paged is in Listings.                                          *)
(***************************************************************************)
EXTENDS Requests, Sequences, FiniteSetsExt, Lists

CONSTANTS
  MaxPermissions,  \* bound: permissions created
  Tenant,
  Key,             \* domain, equipment, location and action
  MaxBulk          \* bound: permissions created at once

VARIABLES
  permission,
  bulk,       \* history: for each request, the keys it was given and how it ended
  standing,   \* history: for each request, the keys of its tenant that have stood since it began
  foreign     \* history: permissions that another tenant has changed or deleted

permissions == <<permission, bulk, standing, foreign>>

Permission == 1 .. MaxPermissions

PermissionRow == [state : {"unborn", "there", "gone"}, tenant : Tenant, key : Key, active : BOOLEAN]

There(u) == permission[u].state = "there"
NewPermissions == {u \in Permission : permission[u].state = "unborn"}

NoBulk == [tenant |-> CHOOSE t \in Tenant : TRUE, keys |-> <<>>, made |-> {}, end |-> "none"]

PermissionsTypeOK ==
  /\ RequestsTypeOK
  /\ permission \in [Permission -> PermissionRow]
  /\ \A r \in Request : bulk[r].end \in {"none", "created", "exists", "failed"} /\ standing[r] \subseteq Key
  /\ foreign \subseteq Permission

PermissionsInit ==
  /\ RequestsInit
  /\ permission = [u \in Permission |->
       [state |-> "unborn", tenant |-> NoBulk.tenant, key |-> CHOOSE k \in Key : TRUE, active |-> TRUE]]
  /\ bulk = [r \in Request |-> NoBulk]
  /\ standing = [r \in Request |-> {}]
  /\ foreign = {}

KeysOf(t) == {permission[u].key : u \in {x \in Permission : There(x) /\ permission[x].tenant = t}}

\* Mutation of Found: of any tenant.
FoundAnywhere(t, k) == \E u \in Permission : There(u) /\ permission[u].key = k

\* getByComponents
Found(t, k) == \E u \in Permission : There(u) /\ permission[u].tenant = t /\ permission[u].key = k

-----------------------------------------------------------------------------
\* create of a single permission, and bulkCreate
Create(r, t, ks, single) ==
  /\ Begin(r, [pc |-> "find", todo |-> ks, single |-> single])
  /\ bulk' = [bulk EXCEPT ![r] = [NoBulk EXCEPT !.tenant = t, !.keys = ks]]
  /\ UNCHANGED <<permission, foreign>>

Ends(r, how) ==
  /\ bulk' = [bulk EXCEPT ![r].end = how]
  /\ Done(r)

\* One permission is settled, by the new rows us; the next one is looked for.
Proceeds(r, us) ==
  LET rest == Tail(call[r].todo)
  IN /\ bulk' = [bulk EXCEPT ![r].made = @ \cup us, ![r].end = IF rest = <<>> THEN "created" ELSE @]
     /\ IF rest = <<>> THEN Done(r) ELSE Goes(r, [call[r] EXCEPT !.pc = "find", !.todo = rest])

\* A bulk skips a permission that is there, a single creation is refused.
Find(r) ==
  /\ At(r, "find")
  /\ IF ~Found(bulk[r].tenant, Head(call[r].todo))
       THEN Goes(r, [call[r] EXCEPT !.pc = "insert"]) /\ UNCHANGED bulk
       ELSE IF call[r].single THEN Ends(r, "exists") ELSE Proceeds(r, {})
  /\ UNCHANGED <<permission, foreign>>

\* domain_permissions_unique
Taken(t, k) == k \in KeysOf(t)

\* A row that has come in between makes the insert fail, and with it the request.
Insert(r) ==
  LET k == Head(call[r].todo)
      t == bulk[r].tenant
      u == Min(NewPermissions)
  IN /\ At(r, "insert")
     /\ NewPermissions # {}
     /\ IF Taken(t, k)
        THEN Ends(r, "failed") /\ UNCHANGED permission
        ELSE /\ permission' = [permission EXCEPT ![u] =
                  [state |-> "there", tenant |-> t, key |-> k, active |-> TRUE]]
             /\ Proceeds(r, {u})
     /\ UNCHANGED foreign

-----------------------------------------------------------------------------
\* update and delete look the permission up by its id, and write by its id.
Change(r, t, u, active) ==
  /\ There(u)
  /\ Begin(r, [pc |-> "write", id |-> u, by |-> t, active |-> active])
  /\ bulk' = [bulk EXCEPT ![r] = NoBulk]
  /\ UNCHANGED <<permission, foreign>>

Delete(r, t, u) ==
  /\ There(u)
  /\ Begin(r, [pc |-> "drop", id |-> u, by |-> t])
  /\ bulk' = [bulk EXCEPT ![r] = NoBulk]
  /\ UNCHANGED <<permission, foreign>>

Touches(r) ==
  foreign' = IF There(call[r].id) /\ permission[call[r].id].tenant # call[r].by
             THEN foreign \cup {call[r].id} ELSE foreign

Write(r) ==
  /\ At(r, "write")
  /\ permission' = [permission EXCEPT ![call[r].id].active = IF There(call[r].id) THEN call[r].active ELSE @]
  /\ Touches(r)
  /\ Done(r)
  /\ UNCHANGED bulk

Drop(r) ==
  /\ At(r, "drop")
  /\ permission' = [permission EXCEPT ![call[r].id].state = "gone"]
  /\ Touches(r)
  /\ Done(r)
  /\ UNCHANGED bulk

Break(r) ==
  /\ Fails(r)
  /\ bulk' = [bulk EXCEPT ![r].end = IF bulk[r].keys = <<>> THEN @ ELSE "failed"]
  /\ UNCHANGED <<permission, foreign>>

\* History: the keys of the request's tenant that stand, from its first state on.
Standing ==
  standing' = [r \in Request |->
    IF At(r, "idle") /\ ~(At(r, "idle"))' THEN KeysOf(bulk'[r].tenant)
    ELSE IF At(r, "idle") THEN standing[r]
    ELSE standing[r] \cup KeysOf(bulk[r].tenant)']

PermissionsNext ==
  /\ \E r \in Request :
       \/ \E t \in Tenant : \/ \E k \in Key : Create(r, t, <<k>>, TRUE)
                            \/ \E ks \in BoundedSeq(Key, MaxBulk) \ {<<>>} : Create(r, t, ks, FALSE)
                            \/ \E u \in Permission : Delete(r, t, u) \/ \E on \in BOOLEAN : Change(r, t, u, on)
       \/ Find(r) \/ Insert(r) \/ Write(r) \/ Drop(r) \/ Break(r)
  /\ Standing

-----------------------------------------------------------------------------
\* Correctness

\* A permission is listed once for a tenant, whatever overlaps.
PermissionsDiffer ==
  \A u, v \in Permission :
    There(u) /\ There(v) /\ permission[u].tenant = permission[v].tenant /\ permission[u].key = permission[v].key
      => u = v

\* A bulk that has succeeded missed no permission: each that it named, created or
\* skipped, has stood at some moment since it began.
BulkComplete ==
  \A r \in Request : bulk[r].end = "created" => ToSet(bulk[r].keys) \subseteq standing[r]

\* Refuted: a bulk that has failed leaves nothing of what it was to create.
BulkAllOrNone == \A r \in Request : bulk[r].end = "failed" => \A u \in bulk[r].made : ~There(u)

\* Refuted: a permission is changed and deleted by its own tenant alone.
OwnTenantOnly == foreign = {}
=============================================================================
