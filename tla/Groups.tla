------------------------------- MODULE Groups -------------------------------
(***************************************************************************)
(* Groups of users, devices and assets: GroupService over the groups table.*)
(*                                                                         *)
(* The hierarchy of a group is one JSON column: its parent, the list of    *)
(* its children, its path and its depth.  The link between a parent and a  *)
(* child is stored at both ends, each end is read and then written back    *)
(* whole, and nothing compares versions, except an update of the fields    *)
(* that are not modelled.  The groups are those of one customer and have   *)
(* no codes: the checks that are left out only refuse a request.           *)
(***************************************************************************)
EXTENDS Requests, Integers, Sequences, FiniteSets, FiniteSetsExt, Functions, Lists

CONSTANTS
  MaxGroups,    \* bound: groups created
  Member

VARIABLE group

Group == 1 .. MaxGroups     \* ids, in the order of creation
NoGroup == 0

Hierarchy == [parent : Group \cup {NoGroup}, children : SUBSET Group, path : Seq(Group), depth : Nat]

Root(g) == [parent |-> NoGroup, children |-> {}, path |-> <<g>>, depth |-> 0]

GroupRow == [status : {"unborn", "ACTIVE", "DELETED", "gone"}, hierarchy : Hierarchy,
             members : Seq(Member), memberCount : Nat, version : Nat]

UnbornGroup == [status |-> "unborn", members |-> <<>>, memberCount |-> 0, version |-> 0,
                hierarchy |-> [parent |-> NoGroup, children |-> {}, path |-> <<>>, depth |-> 0]]

Unborns == {g \in Group : group[g].status = "unborn"}

\* Reads do not look at the status, so a group that is softly deleted is found.
Found(g) == g \in Group /\ group[g].status \in {"ACTIVE", "DELETED"}

GroupsTypeOK ==
  /\ RequestsTypeOK
  /\ group \in [Group -> GroupRow]

GroupsInit ==
  /\ RequestsInit
  /\ group = [g \in Group |-> UnbornGroup]

-----------------------------------------------------------------------------
\* Requests: op is what is done to the group, at the end whose list of children
\* is written next, hierarchy what will be stored for the group itself.

Links(op, g, at, to, hierarchy) ==
  [op |-> op, group |-> g, at |-> at, to |-> to, hierarchy |-> hierarchy, near |-> hierarchy]

Step(c, pc) == [pc |-> pc, c |-> c]

CreateGroup(r, to) ==
  /\ Unborns # {}
  /\ Begin(r, Step(Links("create", NoGroup, to, to, Root(NoGroup)), IF to = NoGroup THEN "insert" ELSE "parent"))
  /\ UNCHANGED group

\* The children of the moved group are those it has now.
MoveGroup(r, g, to) ==
  LET h == group[g].hierarchy
      c == Links("move", g, h.parent, to, [Root(g) EXCEPT !.children = h.children])
  IN
  /\ Found(g)
  /\ Begin(r, Step(c, IF h.parent # NoGroup THEN "unlink" ELSE IF to = NoGroup THEN "save" ELSE "parent"))
  /\ UNCHANGED group

DeleteGroup(r, g) ==
  LET h == group[g].hierarchy IN
  /\ Found(g)
  /\ h.children = {}
  /\ Begin(r, Step(Links("delete", g, h.parent, NoGroup, h), IF h.parent = NoGroup THEN "drop" ELSE "unlink"))
  /\ UNCHANGED group

SoftDeleteGroup(r, g) ==
  /\ Found(g)
  /\ Begin(r, Step(Links("hide", g, NoGroup, NoGroup, Root(g)), "hide"))
  /\ UNCHANGED group

Members(r, g, members) ==
  /\ Found(g)
  /\ Begin(r, [pc |-> "members", group |-> g, members |-> members, version |-> group[g].version])
  /\ UNCHANGED group

\* A member that is given twice is added twice.
AddMembers(r, g, m) ==
  /\ ~Contains(group[g].members, m)
  /\ \E new \in {<<m>>, <<m, m>>} : Members(r, g, group[g].members \o new)

RemoveMembers(r, g, m) == Members(r, g, SelectSeq(group[g].members, LAMBDA x : x # m))

-----------------------------------------------------------------------------
\* Statements

\* The lookup of the new parent.  A path that has the group as a step on the way,
\* not as its last one, refuses the move: a group can be moved below itself.
Below(g, path) == g \in ToSet(Front(path))

\* The place below a parent with hierarchy h.
Placed(c, h) ==
  [c.hierarchy EXCEPT !.parent = c.to, !.path = Append(h.path, c.group), !.depth = h.depth + 1]

ReadParent(r) ==
  LET c == call[r].c
      h == group[c.to].hierarchy
  IN
  /\ At(r, "parent")
  /\ IF Found(c.to) /\ ~(c.op = "move" /\ Below(c.group, h.path))
       THEN Goes(r, Step([c EXCEPT !.hierarchy = Placed(c, h), !.at = c.to],
                         IF c.op = "move" THEN "link" ELSE "insert"))
       ELSE Done(r)
  /\ UNCHANGED group

InsertGroup(r) ==
  LET c == call[r].c
      g == Min(Unborns)
      h == [c.hierarchy EXCEPT !.path = Append(Front(@), g)]
  IN
  /\ At(r, "insert")
  /\ Unborns # {}
  /\ group' = [group EXCEPT ![g] = [UnbornGroup EXCEPT !.status = "ACTIVE", !.hierarchy = h, !.version = 1]]
  /\ IF c.to = NoGroup THEN Done(r) ELSE Goes(r, Step([c EXCEPT !.group = g], "link"))

\* Where a request goes on once the child is added to, or removed from, a parent.
AfterLink(r, c) == IF c.op = "move" THEN Goes(r, Step(c, "save")) ELSE Done(r)

AfterUnlink(r, c) ==
  Goes(r, Step(c, IF c.op = "delete" THEN "drop" ELSE IF c.to = NoGroup THEN "save" ELSE "parent"))

\* A parent that has gone is passed over.
ReadLink(r) ==
  LET c == call[r].c IN
  /\ At(r, "link")
  /\ IF Found(c.at) THEN Goes(r, Step([c EXCEPT !.near = group[c.at].hierarchy], "linked"))
                    ELSE AfterLink(r, c)
  /\ UNCHANGED group

ReadUnlink(r) ==
  LET c == call[r].c IN
  /\ At(r, "unlink")
  /\ IF Found(c.at) THEN Goes(r, Step([c EXCEPT !.near = group[c.at].hierarchy], "unlinked"))
                    ELSE AfterUnlink(r, c)
  /\ UNCHANGED group

\* The hierarchy of a group is written if its row is there.
Stored(g, h) == IF Found(g) THEN [group EXCEPT ![g].hierarchy = h] ELSE group

AddChildToParent(r) ==
  LET c == call[r].c IN
  /\ At(r, "linked")
  /\ group' = Stored(c.at, [c.near EXCEPT !.children = @ \cup {c.group}])
  /\ AfterLink(r, c)

\* Mutation of RemoveChildFromParent: the old parent keeps the child.
RemoveChildFromParentNot(r) ==
  /\ At(r, "unlinked")
  /\ UNCHANGED group
  /\ AfterUnlink(r, call[r].c)

RemoveChildFromParent(r) ==
  LET c == call[r].c IN
  /\ At(r, "unlinked")
  /\ group' = Stored(c.at, [c.near EXCEPT !.children = @ \ {c.group}])
  /\ AfterUnlink(r, c)

SaveMove(r) ==
  LET c == call[r].c IN
  /\ At(r, "save")
  /\ group' = Stored(c.group, c.hierarchy)
  /\ Done(r)

DropGroup(r) ==
  /\ At(r, "drop")
  /\ group' = [group EXCEPT ![call[r].c.group] = [UnbornGroup EXCEPT !.status = "gone"]]
  /\ Done(r)

HideGroup(r) ==
  LET g == call[r].c.group IN
  /\ At(r, "hide")
  /\ group' = IF Found(g) THEN [group EXCEPT ![g].status = "DELETED"] ELSE group
  /\ Done(r)

SaveMembers(r) ==
  LET c == call[r] IN
  /\ At(r, "members")
  /\ group' = IF Found(c.group)
       THEN [group EXCEPT ![c.group].members = c.members, ![c.group].version = c.version + 1,
               ![c.group].memberCount = Len(c.members)]
       ELSE group
  /\ Done(r)

GroupsNext ==
  \E r \in Request :
    \/ \E to \in Group \cup {NoGroup} : CreateGroup(r, to)
    \/ \E g \in Group :
         \/ \E to \in Group \cup {NoGroup} : MoveGroup(r, g, to)
         \/ DeleteGroup(r, g) \/ SoftDeleteGroup(r, g)
         \/ \E m \in Member : AddMembers(r, g, m) \/ RemoveMembers(r, g, m)
    \/ ReadParent(r) \/ InsertGroup(r) \/ ReadLink(r) \/ ReadUnlink(r)
    \/ AddChildToParent(r) \/ RemoveChildFromParent(r)
    \/ SaveMove(r) \/ DropGroup(r) \/ HideGroup(r) \/ SaveMembers(r)
    \/ Fails(r) /\ UNCHANGED group

GroupsSpec == GroupsInit /\ [][GroupsNext]_<<group, requests>>

-----------------------------------------------------------------------------
\* Correctness

\* Whatever the order in which requests write the rows of parents and children
\* back, the parent, the path and the depth that a row holds agree: getDescendants
\* searches by the path, getChildren by the parent's list.
HierarchyAgrees ==
  \A g \in Group :
    LET h == group[g].hierarchy IN
    Found(g) =>
      /\ Last(h.path) = g
      /\ h.depth = Len(h.path) - 1
      /\ h.parent = IF Len(h.path) = 1 THEN NoGroup ELSE h.path[Len(h.path) - 1]

\* Between requests that come one after the other, a group is listed as a child
\* by the group that it names as its parent, and by no other, in spite of moves
\* that are refused half way.  A group moved below itself does not list itself.
LinksAgree ==
  Settled => \A p, g \in Group : p # g /\ Found(p) /\ Found(g) /\ g \in group[p].hierarchy.children
                                   => group[g].hierarchy.parent = p

\* The list of members and its length are written together, also by requests that
\* overwrite each other's members.
CountIsMembers == \A g \in Group : group[g].memberCount = Len(group[g].members)

-----------------------------------------------------------------------------
\* What comments of the code say and the code does not do

\* "Remove from old parent" (GroupRepository.ts:412) precedes a move
\* that may be refused: a group is listed by the parent it names.
ParentsList ==
  Settled => \A g \in Group : LET p == group[g].hierarchy.parent IN
    p \in Group \ {g} /\ Found(g) /\ Found(p) => g \in group[p].hierarchy.children

\* "Prevent circular reference" (GroupRepository.ts:428).
NoCycle ==
  Settled => \A S \in SUBSET Group \ {{}} :
    \E g \in S : Found(g) => group[g].hierarchy.parent \notin S

\* "Skip duplicates" (GroupRepository.ts:283).
MembersDistinct == Settled => \A g \in Group : IsInjective(group[g].members)
=============================================================================
