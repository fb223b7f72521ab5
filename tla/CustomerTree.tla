---------------------------- MODULE CustomerTree ----------------------------
(***************************************************************************)
(* The customer hierarchy: CustomerService and CustomerRepository over the *)
(* customers table.  A row names its parent and also stores the path from  *)
(* the root and the depth; ancestors and descendants are found by path,    *)
(* children by parent.  There is no foreign key and no transaction.        *)
(*                                                                         *)
(* Creating, updating, deleting and moving a customer take several round   *)
(* trips each, an action is one of them, and requests interleave between   *)
(* any two.  A path is the sequence of the customers on it: the tenant     *)
(* that heads every path is left out, and with it the code and the other   *)
(* descriptive columns.  The settings stand for the two columns that an    *)
(* update merges with their present value.                                 *)
(***************************************************************************)
EXTENDS Integers, Sequences, SequencesExt

CONSTANTS
  Customer,     \* ids, each generated once
  NoParent,     \* null
  Request,      \* requests in flight
  Mover,        \* bound: the requests that may be moves
  Setting,
  MaxRequests,  \* bound: requests made
  MaxFaults     \* bound: requests that die half way

ASSUME TreeAssumption ==
  /\ NoParent \notin Customer
  /\ Mover \subseteq Request
  /\ MaxRequests \in Nat /\ MaxFaults \in Nat

VARIABLES
  row,          \* the customers table
  call,         \* what each request has got so far
  made,
  faults

vars == <<row, call, made, faults>>

Parent == Customer \cup {NoParent}

Unborn  == [state |-> "unborn", parent |-> NoParent, path |-> <<>>, depth |-> 0,
            settings |-> {}, version |-> 0]
Deleted == [Unborn EXCEPT !.state = "deleted"]

Present(c) == c \in Customer /\ row[c].state = "present"
Children(c) == {d \in Customer : Present(d) /\ row[d].parent = c}

\* path LIKE base/%
Below(base) == {d \in Customer : Present(d) /\ IsStrictPrefix(base, row[d].path)}

Pc == {"inserting", "adopting", "checking", "rechecking", "deleting", "updating",
       "saving", "searching", "screening", "reading", "targeting", "placing", "linking",
       "rooting", "gathering", "following"}

\* id: the customer a request is about; parent, path, depth: where it is put;
\* settings: what an update sets; seen: its row as it was read; base: the path
\* its descendants are looked for by; todo: those that have to follow.
Idle == [pc |-> "idle", id |-> NoParent, parent |-> NoParent, path |-> <<>>, depth |-> 0,
         settings |-> {}, seen |-> Unborn, base |-> <<>>, todo |-> {}]

RowType ==
  [state : {"unborn", "present", "deleted"}, parent : Parent, path : Seq(Customer),
   depth : Int, settings : SUBSET Setting, version : Nat]

Busy ==
  [pc : Pc, id : Customer, parent : Parent, path : Seq(Customer), depth : Int,
   settings : SUBSET Setting, seen : RowType, base : Seq(Customer),
   todo : SUBSET [id : Customer, path : Seq(Customer), depth : Int]]

TypeOK ==
  /\ row \in [Customer -> RowType]
  /\ call \in [Request -> Busy \cup {Idle}]
  /\ made \in 0 .. MaxRequests
  /\ faults \in 0 .. MaxFaults

Init ==
  /\ row = [c \in Customer |-> Unborn]
  /\ call = [r \in Request |-> Idle]
  /\ made = 0
  /\ faults = 0

-----------------------------------------------------------------------------
\* Steps of a request

Begin(r, c) ==
  /\ call[r].pc = "idle"
  /\ made < MaxRequests
  /\ made' = made + 1
  /\ call' = [call EXCEPT ![r] = c]
  /\ UNCHANGED <<row, faults>>

\* The request goes on as c; c = Idle: it is answered, or refused.
Goes(r, c) == call' = [call EXCEPT ![r] = c] /\ UNCHANGED <<made, faults>>

Reads(r, c)  == Goes(r, c) /\ UNCHANGED row

\* An UPDATE of a customer that has been deleted changes no row.
Writes(c, new) == row' = IF Present(c) THEN [row EXCEPT ![c] = new] ELSE row

-----------------------------------------------------------------------------
\* create

Create(r, c, p) ==
  /\ row[c] = Unborn
  /\ \A s \in Request : call[s].id # c
  /\ Begin(r, IF p = NoParent
              THEN [Idle EXCEPT !.pc = "inserting", !.id = c, !.path = <<c>>]
              ELSE [Idle EXCEPT !.pc = "adopting", !.id = c, !.parent = p])

CreateReadParent(r) ==
  LET c == call[r]
      p == row[c.parent]
  IN /\ c.pc = "adopting"
     /\ Reads(r, IF Present(c.parent)
                 THEN [c EXCEPT !.pc = "inserting", !.path = Append(p.path, c.id),
                                !.depth = p.depth + 1]
                 ELSE Idle)

CreateInsert(r) ==
  LET c == call[r]
  IN /\ c.pc = "inserting"
     /\ row' = [row EXCEPT ![c.id] =
          [state |-> "present", parent |-> c.parent, path |-> c.path, depth |-> c.depth,
           settings |-> {}, version |-> 1]]
     /\ Goes(r, Idle)

-----------------------------------------------------------------------------
\* delete: the service and the repository each look for children.

Delete(r, c) ==
  /\ Present(c)
  /\ Begin(r, [Idle EXCEPT !.pc = "checking", !.id = c])

DeleteCheck(r) ==
  LET c == call[r]
  IN /\ c.pc \in {"checking", "rechecking"}
     /\ Reads(r, IF Children(c.id) # {} THEN Idle
                 ELSE [c EXCEPT !.pc = IF c.pc = "checking" THEN "rechecking" ELSE "deleting"])

DeleteRow(r) ==
  /\ call[r].pc = "deleting"
  /\ Writes(call[r].id, Deleted)
  /\ Goes(r, Idle)

-----------------------------------------------------------------------------
\* update: the settings are merged with those that were read, and saved if the
\* version is still the same.

Update(r, c, ks) ==
  /\ Present(c)
  /\ Begin(r, [Idle EXCEPT !.pc = "updating", !.id = c, !.settings = ks])

UpdateRead(r) ==
  LET c == call[r]
  IN /\ c.pc = "updating"
     /\ Reads(r, IF Present(c.id) THEN [c EXCEPT !.pc = "saving", !.seen = row[c.id]] ELSE Idle)

\* Mutation of UpdateSave: the version is not compared.
UpdateSaveUnchecked(r) ==
  LET c == call[r]
  IN /\ c.pc = "saving"
     /\ Writes(c.id, [row[c.id] EXCEPT !.settings = c.seen.settings \cup c.settings,
                                       !.version = c.seen.version + 1])
     /\ Goes(r, Idle)

UpdateSave(r) ==
  LET c == call[r]
  IN /\ c.pc = "saving"
     /\ IF row[c.id].version = c.seen.version
        THEN Writes(c.id, [row[c.id] EXCEPT !.settings = c.seen.settings \cup c.settings,
                                            !.version = c.seen.version + 1])
        ELSE UNCHANGED row
     /\ Goes(r, Idle)

-----------------------------------------------------------------------------
\* move

\* The service finds the customer and the new parent, which are not the same.
Move(r, c, p) ==
  /\ r \in Mover
  /\ Present(c)
  /\ p = NoParent \/ (Present(p) /\ p # c)
  /\ Begin(r, [Idle EXCEPT !.pc = IF p = NoParent THEN "reading" ELSE "searching",
                           !.id = c, !.parent = p])

\* The two queries of getDescendants, for the service.
MoveSearch(r) ==
  LET c == call[r]
  IN /\ c.pc = "searching"
     /\ Reads(r, IF Present(c.id) THEN [c EXCEPT !.pc = "screening", !.base = row[c.id].path]
                 ELSE Idle)

MoveScreen(r) ==
  LET c == call[r]
  IN /\ c.pc = "screening"
     /\ Reads(r, IF c.parent \in Below(c.base) THEN Idle ELSE [c EXCEPT !.pc = "reading"])

\* The repository reads the customer and the new parent again.
MoveRead(r) ==
  LET c == call[r]
  IN /\ c.pc = "reading"
     /\ Reads(r, IF ~Present(c.id) THEN Idle
                 ELSE IF c.parent = NoParent
                 THEN [c EXCEPT !.pc = "placing", !.seen = row[c.id], !.path = <<c.id>>]
                 ELSE [c EXCEPT !.pc = "targeting", !.seen = row[c.id]])

MoveTarget(r) ==
  LET c == call[r]
      p == row[c.parent]
  IN /\ c.pc = "targeting"
     /\ Reads(r, IF Present(c.parent) /\ ~IsPrefix(c.seen.path, p.path)
                 THEN [c EXCEPT !.pc = "placing", !.path = Append(p.path, c.id),
                                !.depth = p.depth + 1]
                 ELSE Idle)

MovePlace(r) ==
  LET c == call[r]
  IN /\ c.pc = "placing"
     /\ Writes(c.id, [row[c.id] EXCEPT !.path = c.path, !.depth = c.depth])
     /\ Goes(r, [c EXCEPT !.pc = "linking"])

\* Mutation of MoveLink: null does not clear the parent.
MoveLinkNonNull(r) ==
  LET c == call[r]
  IN /\ c.pc = "linking"
     /\ Writes(c.id, [row[c.id] EXCEPT !.parent = IF c.parent = NoParent THEN @ ELSE c.parent])
     /\ Goes(r, [c EXCEPT !.pc = "rooting"])

MoveLink(r) ==
  LET c == call[r]
  IN /\ c.pc = "linking"
     /\ Writes(c.id, [row[c.id] EXCEPT !.parent = c.parent])
     /\ Goes(r, [c EXCEPT !.pc = "rooting"])

\* The two queries of getDescendants again: by the path that the customer has now.
MoveRoot(r) ==
  LET c == call[r]
  IN /\ c.pc = "rooting"
     /\ Reads(r, IF Present(c.id) THEN [c EXCEPT !.pc = "gathering", !.base = row[c.id].path]
                 ELSE Idle)

MoveGather(r) ==
  LET c == call[r]
      found == {[id |-> d, path |-> row[d].path, depth |-> row[d].depth] : d \in Below(c.base)}
  IN /\ c.pc = "gathering"
     /\ Reads(r, IF found = {} THEN Idle ELSE [c EXCEPT !.pc = "following", !.todo = found])

\* descendant.path.replace(oldPath, newPath)
Rebase(path, old, new) ==
  IF IsPrefix(old, path) THEN new \o SubSeq(path, Len(old) + 1, Len(path)) ELSE path

\* The descendants found are written one by one, shallow ones first.
MoveFollow(r) ==
  LET c == call[r]
  IN /\ c.pc = "following"
     /\ \E d \in c.todo :
          /\ \A e \in c.todo : d.depth <= e.depth
          /\ Writes(d.id, [row[d.id] EXCEPT !.path = Rebase(d.path, c.seen.path, c.path),
                                            !.depth = d.depth + (c.depth - c.seen.depth)])
          /\ Goes(r, IF c.todo = {d} THEN Idle ELSE [c EXCEPT !.todo = @ \ {d}])

-----------------------------------------------------------------------------
\* The process dies or the database fails: what is written stays written.
Dies(r) ==
  /\ call[r].pc # "idle"
  /\ faults < MaxFaults
  /\ faults' = faults + 1
  /\ call' = [call EXCEPT ![r] = Idle]
  /\ UNCHANGED <<row, made>>

Continue(r) ==
  \/ CreateReadParent(r) \/ CreateInsert(r)
  \/ DeleteCheck(r) \/ DeleteRow(r)
  \/ UpdateRead(r) \/ UpdateSave(r)
  \/ MoveSearch(r) \/ MoveScreen(r) \/ MoveRead(r) \/ MoveTarget(r)
  \/ MovePlace(r) \/ MoveLink(r) \/ MoveRoot(r) \/ MoveGather(r) \/ MoveFollow(r)

Next ==
  \E r \in Request :
    \/ \E c \in Customer :
         \/ \E p \in Parent : Create(r, c, p) \/ Move(r, c, p)
         \/ Delete(r, c)
         \/ \E ks \in SUBSET Setting : Update(r, c, ks)
    \/ Continue(r) \/ Dies(r)

Spec == Init /\ [][Next]_vars

-----------------------------------------------------------------------------
\* Correctness

\* What an update has set stays set: two updates that overlap, or an update that
\* overlaps a move, do not undo each other.
SettingsNeverLost ==
  [][\A c \in Customer : row[c].settings \subseteq row'[c].settings \/ ~Present(c)']_vars

\* Between moves, the path of a customer ends with its parent and itself: what
\* the ancestors are read from and what the children are found by agree, whatever
\* creations, deletions and updates overlap the moves, and whatever paths the
\* earlier moves have left behind; until a request dies half way.
PathNamesParent ==
  faults = 0 => \A c \in Customer :
    Present(c) /\ (\A r \in Request : call[r].pc = "linking" => call[r].id # c) =>
      LET n == Len(row[c].path)
      IN /\ n > 0 /\ row[c].path[n] = c
         /\ IF n = 1 THEN row[c].parent = NoParent ELSE row[c].parent = row[c].path[n - 1]

-----------------------------------------------------------------------------
\* What documents, messages and comments say and the code does not do

Quiet == \A r \in Request : call[r].pc = "idle"

\* "Update all descendants' paths"; "API supports fetching all descendants".
DescendantsFollow ==
  Quiet => \A c \in Customer : Present(c) =>
    \A d \in Children(c) : row[d].path = Append(row[c].path, d)

\* "Cannot move customer under its own descendant".
NoCycle ==
  ~\E cycle \in SUBSET Customer :
     cycle # {} /\ \A c \in cycle : Present(c) /\ row[c].parent \in cycle

\* "depth: number; // Nivel na hierarquia"
DepthIsLevel ==
  Quiet => \A c \in Customer : Present(c) => row[c].depth = Len(row[c].path) - 1

\* "Cannot delete customer with children. Move or delete children first."
NeverDeletesParent ==
  [][\A c \in Customer : Present(c) /\ ~Present(c)' => Children(c) = {}]_vars
=============================================================================
