------------------------- MODULE MaintenanceGroups -------------------------
(***************************************************************************)
(* Maintenance groups and their members: MaintenanceGroupService over the  *)
(* maintenance_groups and user_maintenance_groups tables.                  *)
(*                                                                         *)
(* A group stores how many members it has, and counts them again after     *)
(* each change.  Two things change its members and count nothing: a        *)
(* membership expires, and a user is deleted, with whom the database       *)
(* deletes the memberships.  Left out are keys, whose check only refuses,  *)
(* and updates of a group's name and state, which touch neither members    *)
(* nor the count.                                                          *)
(***************************************************************************)
EXTENDS Requests, Integers, FiniteSets, FiniteSetsExt

CONSTANTS
  MaxTeams,     \* bound: groups created
  User

VARIABLES
  team,         \* the rows of maintenance_groups
  membership,   \* by group and user, which a unique index allows one row
  enrolled,     \* the users there are
  left          \* history: the users deleted as members of a group since it was last counted

staff == <<enrolled, left>>

Team == 1 .. MaxTeams

TeamRow == [state : {"unborn", "there", "gone"}, memberCount : Nat]

MembershipState == {"none", "current", "expired"}

Stands(g) == team[g].state = "there"
NewTeams == {g \in Team : team[g].state = "unborn"}
Rows(g) == {u \in User : membership[g, u] # "none"}
Current(g) == {u \in User : membership[g, u] = "current"}
Counted(g) == Rows(g) \cup left[g]     \* those that the last count may have counted

TeamsTypeOK ==
  /\ RequestsTypeOK
  /\ team \in [Team -> TeamRow]
  /\ membership \in [Team \X User -> MembershipState]
  /\ enrolled \subseteq User /\ left \in [Team -> SUBSET (User \ enrolled)]

TeamsInit ==
  /\ RequestsInit
  /\ team = [g \in Team |-> [state |-> "unborn", memberCount |-> 0]]
  /\ membership = [k \in Team \X User |-> "none"]
  /\ enrolled = User /\ left = [g \in Team |-> {}]

TeamReads == UNCHANGED <<team, membership, staff>>

-----------------------------------------------------------------------------
\* Requests

CreateGroup(r) ==
  /\ NewTeams # {}
  /\ Begin(r, [pc |-> "insertTeam"])
  /\ TeamReads

DeleteGroup(r, g) ==
  /\ Stands(g)
  /\ Begin(r, [pc |-> "members", team |-> g])
  /\ TeamReads

\* users: those asked for, who exist; single: whether one who is a member already
\* ends the request.
Add(r, g, users, single) ==
  /\ users \subseteq enrolled
  /\ Begin(r, [pc |-> "team", team |-> g, users |-> users, single |-> single])
  /\ TeamReads

AddMember(r, g, u) == Add(r, g, {u}, TRUE)

AddMembers(r, g, users) == Add(r, g, users, FALSE)

\* The first statement of a removal is the DELETE.
RemoveMember(r, g, u) == Begin(r, [pc |-> "remove", team |-> g, users |-> {u}]) /\ TeamReads

RemoveMembers(r, g, users) == Begin(r, [pc |-> "remove", team |-> g, users |-> users]) /\ TeamReads

-----------------------------------------------------------------------------
\* Statements

InsertGroup(r) ==
  /\ At(r, "insertTeam")
  /\ team' = IF NewTeams = {} THEN team ELSE [team EXCEPT ![Min(NewTeams)].state = "there"]
  /\ Done(r)
  /\ UNCHANGED <<membership, staff>>

DropMembers(r) ==
  LET c == call[r] IN
  /\ At(r, "members")
  /\ membership' = [k \in Team \X User |-> IF k[1] = c.team THEN "none" ELSE membership[k]]
  /\ Goes(r, [c EXCEPT !.pc = "drop"])
  /\ UNCHANGED <<team, staff>>

\* Mutation of Cascade: the foreign key does not cascade.
CascadeNot(g) == membership

\* ON DELETE CASCADE.
Cascade(g) == [k \in Team \X User |-> IF k[1] = g THEN "none" ELSE membership[k]]

DropGroup(r) ==
  LET c == call[r] IN
  /\ At(r, "drop")
  /\ team' = [team EXCEPT ![c.team] = [state |-> "gone", memberCount |-> 0]]
  /\ membership' = Cascade(c.team)
  /\ Done(r)
  /\ UNCHANGED staff

ReadGroup(r) ==
  LET c == call[r] IN
  /\ At(r, "team")
  /\ IF Stands(c.team) THEN Goes(r, [c EXCEPT !.pc = "membership"]) ELSE Done(r)
  /\ TeamReads

Counting(r, c) == Goes(r, [pc |-> "count", team |-> c.team])

\* Users are taken in the order of the list, which is any.
GetMembership(r, u) ==
  LET c == call[r] IN
  /\ At(r, "membership")
  /\ u \in c.users
  /\ IF u \notin Rows(c.team)
       THEN Goes(r, [pc |-> "insertMember", team |-> c.team, users |-> c.users \ {u}, single |-> c.single, user |-> u])
     ELSE IF c.single THEN Done(r)
     ELSE IF c.users = {u} THEN Counting(r, c)
     ELSE Goes(r, [c EXCEPT !.users = @ \ {u}])
  /\ TeamReads

\* The unique index and the foreign keys may refuse: the request ends without a count.
InsertMember(r) ==
  LET c == call[r] IN
  /\ At(r, "insertMember")
  /\ IF c.user \in Rows(c.team) \/ c.user \notin enrolled \/ ~Stands(c.team)
       THEN UNCHANGED membership /\ Done(r)
       ELSE /\ membership' = [membership EXCEPT ![<<c.team, c.user>>] = "current"]
            /\ IF c.users = {} THEN Counting(r, c)
               ELSE Goes(r, [pc |-> "membership", team |-> c.team, users |-> c.users, single |-> c.single])
  /\ UNCHANGED <<team, staff>>

DeleteMembership(r, u) ==
  LET c == call[r] IN
  /\ At(r, "remove")
  /\ u \in c.users
  /\ membership' = [membership EXCEPT ![<<c.team, u>>] = "none"]
  /\ IF c.users = {u} THEN Counting(r, c) ELSE Goes(r, [c EXCEPT !.users = @ \ {u}])
  /\ UNCHANGED <<team, staff>>

\* updateMemberCount, in its two statements: members that have expired do not count.
CountMembers(r) ==
  LET c == call[r] IN
  /\ At(r, "count")
  /\ Goes(r, [pc |-> "store", team |-> c.team, count |-> Cardinality(Current(c.team))])
  /\ left' = [left EXCEPT ![c.team] = {}]
  /\ UNCHANGED <<team, membership, enrolled>>

StoreCount(r) ==
  LET c == call[r] IN
  /\ At(r, "store")
  /\ team' = IF Stands(c.team) THEN [team EXCEPT ![c.team].memberCount = c.count] ELSE team
  /\ Done(r)
  /\ UNCHANGED <<membership, staff>>

\* A membership reaches its expiresAt.
Expire(g, u) ==
  /\ u \in Current(g)
  /\ membership' = [membership EXCEPT ![<<g, u>>] = "expired"]
  /\ UNCHANGED <<team, staff, requests>>

\* The statement that deletes a user, of a request to UserService, deletes the
\* memberships too and counts none of the groups again.
DeleteUser(u) ==
  /\ u \in enrolled
  /\ enrolled' = enrolled \ {u}
  /\ membership' = [k \in Team \X User |-> IF k[2] = u THEN "none" ELSE membership[k]]
  /\ left' = [g \in Team |-> IF u \in Rows(g) THEN left[g] \cup {u} ELSE left[g]]
  /\ calm' = (calm /\ \A r \in Request : At(r, "idle"))
  /\ UNCHANGED <<team, call, made>>

TeamsNext ==
  \/ \E r \in Request :
       \/ CreateGroup(r)
       \/ \E g \in Team :
            \/ DeleteGroup(r, g)
            \/ \E u \in User : AddMember(r, g, u) \/ RemoveMember(r, g, u)
            \/ \E users \in SUBSET User \ {{}} : AddMembers(r, g, users) \/ RemoveMembers(r, g, users)
       \/ InsertGroup(r) \/ DropMembers(r) \/ DropGroup(r) \/ ReadGroup(r)
       \/ \E u \in User : GetMembership(r, u) \/ DeleteMembership(r, u)
       \/ InsertMember(r) \/ CountMembers(r) \/ StoreCount(r)
       \/ Fails(r) /\ TeamReads
  \/ \E g \in Team, u \in User : Expire(g, u)
  \/ \E u \in User : DeleteUser(u)

TeamsSpec == TeamsInit /\ [][TeamsNext]_<<team, membership, staff, requests>>

-----------------------------------------------------------------------------
\* Correctness

\* Between requests that come one after the other the stored count of a group is not less
\* than its current members, and not more than its rows and the members that were deleted
\* as users since the last count: only expiry and such deletions make it too large.
CountBetween ==
  Settled => \A g \in Team : Stands(g) =>
    /\ Cardinality(Current(g)) <= team[g].memberCount
    /\ team[g].memberCount <= Cardinality(Counted(g))

\* No membership outlives its group, however an addition overlaps the deletion.
MembersHaveGroup == \A g \in Team : Rows(g) # {} => Stands(g)

-----------------------------------------------------------------------------
\* What comments of the code say and the code does not do

\* "Members (denormalized for performance)" (schema.ts:1072): whatever overlaps, fails or
\* deletes users, once no request is under way and nothing has expired, the count is that
\* of the members.
CountIsMembership ==
  (\A r \in Request : At(r, "idle")) =>
    \A g \in Team : Stands(g) /\ Rows(g) = Current(g) => team[g].memberCount = Cardinality(Rows(g))
=============================================================================
