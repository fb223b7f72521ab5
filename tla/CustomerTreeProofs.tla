------------------------- MODULE CustomerTreeProofs -------------------------
(***************************************************************************)
(* For any number of customers and requests: the types of CustomerTree,    *)
(* that no write to the customers table loses settings, and that between   *)
(* moves a path names the parent of its customer.  The last one assumes    *)
(* that moves do not overlap one another; what else overlaps, and in what  *)
(* state earlier moves have left the paths, does not matter.               *)
(***************************************************************************)
EXTENDS CustomerTree, SequenceTheorems, TLAPS

-----------------------------------------------------------------------------
\* Types

\* A path moved from one place to another is a path.
LEMMA RebaseType ==
  ASSUME NEW path \in Seq(Customer), NEW old \in Seq(Customer), NEW new \in Seq(Customer)
  PROVE  Rebase(path, old, new) \in Seq(Customer)
<1>1. Len(old) + 1 \in 1 .. Len(path) + 1 \/ Len(old) + 1 > Len(path)
  OBVIOUS
<1>2. SubSeq(path, Len(old) + 1, Len(path)) \in Seq(Customer)
  OBVIOUS
<1>. QED BY <1>2 DEF Rebase

\* The step of a request keeps the types if its new state, and the row it writes,
\* have theirs.
LEMMA GoesType ==
  ASSUME TypeOK, NEW r \in Request, NEW STATE c, c \in Busy \/ c = Idle, Goes(r, c)
  PROVE  /\ call' \in [Request -> Busy \cup {Idle}]
         /\ made' \in 0 .. MaxRequests /\ faults' \in 0 .. MaxFaults
<1>. HIDE DEF Busy, Idle
<1>. QED BY DEF TypeOK, Goes

LEMMA ReadsType ==
  ASSUME TypeOK, NEW r \in Request, NEW STATE c, c \in Busy \/ c = Idle, Reads(r, c)
  PROVE  TypeOK'
BY GoesType DEF TypeOK, Reads

LEMMA WritesType ==
  ASSUME TypeOK, NEW r \in Request, NEW STATE c, c \in Busy \/ c = Idle, Goes(r, c),
         NEW STATE d, NEW STATE new, Present(d) => new \in RowType, Writes(d, new)
  PROVE  TypeOK'
<1>1. row' \in [Customer -> RowType]
  <2>. HIDE DEF RowType
  <2>. QED BY DEF TypeOK, Writes, Present
<1>. QED BY <1>1, GoesType DEF TypeOK

LEMMA BeginType ==
  ASSUME TypeOK, NEW r \in Request, NEW STATE c, c \in Busy, Begin(r, c)
  PROVE  TypeOK'
<1>1. call' \in [Request -> Busy \cup {Idle}]
  <2>. HIDE DEF Busy, Idle
  <2>. QED BY DEF TypeOK, Begin
<1>. QED BY <1>1, TreeAssumption DEF TypeOK, Begin

LEMMA ConstantTypes ==
  Unborn \in RowType /\ Deleted \in RowType
<1>1. Unborn \in RowType
  BY DEF RowType, Unborn, Parent
<1>2. Deleted \in RowType
  BY <1>1 DEF Deleted, RowType
<1>. QED BY <1>1, <1>2

\* A request that is not idle, and every row, have their types.
LEMMA ElementTypes ==
  ASSUME TypeOK
  PROVE  /\ \A r \in Request : call[r].pc # "idle" => call[r] \in Busy
         /\ \A c \in Customer : row[c] \in RowType
         /\ \A c : Present(c) => row[c] \in RowType
<1>. HIDE DEF Busy, RowType
<1>. QED BY DEF TypeOK, Idle, Present

\* A new request has its type, and is about its customer.
Fresh(n, pc, c) == n \in Busy /\ n.pc = pc /\ n.id = c

LEMMA FreshType ==
  ASSUME NEW c \in Customer, NEW p \in Parent, NEW ks \in SUBSET Setting, NEW pc \in Pc
  PROVE  /\ Fresh([Idle EXCEPT !.pc = pc, !.id = c, !.path = <<c>>], pc, c)
         /\ Fresh([Idle EXCEPT !.pc = pc, !.id = c, !.parent = p], pc, c)
         /\ Fresh([Idle EXCEPT !.pc = pc, !.id = c], pc, c)
         /\ Fresh([Idle EXCEPT !.pc = pc, !.id = c, !.settings = ks], pc, c)
<1>. DEFINE AnyCall == [pc : Pc \cup {"idle"}, id : Parent, parent : Parent, path : Seq(Customer),
                    depth : Int, settings : SUBSET Setting, seen : RowType, base : Seq(Customer),
                    todo : SUBSET [id : Customer, path : Seq(Customer), depth : Int]]
<1>1. Idle \in AnyCall
  BY ConstantTypes DEF Idle, Parent
<1>. HIDE DEF RowType, Idle
<1>2. Fresh([Idle EXCEPT !.pc = pc, !.id = c, !.path = <<c>>], pc, c)
  <2>1. <<c>> \in Seq(Customer)
    OBVIOUS
  <2>. QED BY <1>1, <2>1 DEF Busy, Fresh
<1>3. Fresh([Idle EXCEPT !.pc = pc, !.id = c, !.parent = p], pc, c)
  BY <1>1 DEF Busy, Fresh
<1>4. Fresh([Idle EXCEPT !.pc = pc, !.id = c], pc, c)
  BY <1>1 DEF Busy, Fresh
<1>5. Fresh([Idle EXCEPT !.pc = pc, !.id = c, !.settings = ks], pc, c)
  BY <1>1 DEF Busy, Fresh
<1>. QED BY <1>2, <1>3, <1>4, <1>5

Creating == {"adopting", "inserting"}

\* Beginning a request: a creation takes an id that no request knows, the others
\* begin with a customer that is present.
Begins(r, n, c) ==
  /\ Begin(r, n) /\ n \in Busy /\ n.id = c /\ n.pc # "saving"
  /\ \/ row[c] = Unborn /\ \A s \in Request : call[s].id # c
     \/ Present(c) /\ n.pc \notin Creating

LEMMA BeginsFresh ==
  ASSUME NEW r \in Request, NEW c \in Customer, NEW p \in Parent, NEW ks \in SUBSET Setting,
         Create(r, c, p) \/ Move(r, c, p) \/ Delete(r, c) \/ Update(r, c, ks)
  PROVE  \E n : Begins(r, n, c)
<1>1. CASE Create(r, c, p)
  <2>. DEFINE root  == [Idle EXCEPT !.pc = "inserting", !.id = c, !.path = <<c>>]
              child == [Idle EXCEPT !.pc = "adopting", !.id = c, !.parent = p]
  <2>1. Fresh(root, "inserting", c) /\ Fresh(child, "adopting", c)
    BY FreshType DEF Pc
  <2>2. Begin(r, root) \/ Begin(r, child)
    BY <1>1 DEF Create
  <2>. HIDE DEF root, child
  <2>. QED BY <1>1, <2>1, <2>2 DEF Create, Begins, Fresh
<1>2. CASE Move(r, c, p)
  <2>. DEFINE n == [Idle EXCEPT !.pc = IF p = NoParent THEN "reading" ELSE "searching",
                                !.id = c, !.parent = p]
  <2>1. Fresh(n, IF p = NoParent THEN "reading" ELSE "searching", c)
    BY FreshType DEF Pc
  <2>2. Begin(r, n)
    BY <1>2 DEF Move
  <2>. HIDE DEF n
  <2>. QED BY <1>2, <2>1, <2>2 DEF Move, Begins, Fresh, Creating
<1>3. CASE Delete(r, c)
  <2>. DEFINE n == [Idle EXCEPT !.pc = "checking", !.id = c]
  <2>1. Fresh(n, "checking", c)
    BY FreshType DEF Pc
  <2>2. Begin(r, n)
    BY <1>3 DEF Delete
  <2>. HIDE DEF n
  <2>. QED BY <1>3, <2>1, <2>2 DEF Delete, Begins, Fresh, Creating
<1>4. CASE Update(r, c, ks)
  <2>. DEFINE n == [Idle EXCEPT !.pc = "updating", !.id = c, !.settings = ks]
  <2>1. Fresh(n, "updating", c)
    BY FreshType DEF Pc
  <2>2. Begin(r, n)
    BY <1>4 DEF Update
  <2>. HIDE DEF n
  <2>. QED BY <1>4, <2>1, <2>2 DEF Update, Begins, Fresh, Creating
<1>. QED BY <1>1, <1>2, <1>3, <1>4

LEMMA BeginTypes ==
  ASSUME TypeOK, NEW r \in Request, NEW c \in Customer, NEW n, Begins(r, n, c)
  PROVE  TypeOK'
BY BeginType DEF Begins

\* The steps of a creation, a deletion and an update.
LEMMA RowStepTypes ==
  ASSUME TypeOK, NEW r \in Request,
         \/ CreateReadParent(r) \/ CreateInsert(r) \/ DeleteCheck(r) \/ DeleteRow(r)
         \/ UpdateRead(r) \/ UpdateSave(r)
  PROVE  TypeOK'
<1>. DEFINE c == call[r]
<1>. c \in Busy
  BY ElementTypes DEF CreateReadParent, CreateInsert, DeleteCheck, DeleteRow, UpdateRead, UpdateSave
<1>1. CASE CreateReadParent(r)
  <2>. DEFINE p == row[c.parent]
              next == [c EXCEPT !.pc = "inserting", !.path = Append(p.path, c.id),
                                !.depth = p.depth + 1]
  <2>1. Present(c.parent) => next \in Busy
    <3>1. SUFFICES ASSUME Present(c.parent)
                   PROVE  next \in Busy
      OBVIOUS
    <3>2. p \in RowType
      BY <3>1, ElementTypes
    <3>3. p.path \in Seq(Customer) /\ p.depth + 1 \in Int
      BY <3>2 DEF RowType
    <3>4. Append(p.path, c.id) \in Seq(Customer)
      BY <3>3 DEF Busy
    <3>. QED BY <3>3, <3>4 DEF Busy, Pc
  <2>2. Reads(r, IF Present(c.parent) THEN next ELSE Idle)
    BY <1>1 DEF CreateReadParent
  <2>. HIDE DEF next
  <2>. QED BY <2>1, <2>2, ReadsType
<1>2. CASE CreateInsert(r)
  <2>. DEFINE new == [state |-> "present", parent |-> c.parent, path |-> c.path,
                      depth |-> c.depth, settings |-> {}, version |-> 1]
  <2>1. new \in RowType
    BY DEF RowType, Busy
  <2>2. row' = [row EXCEPT ![c.id] = new] /\ Goes(r, Idle)
    BY <1>2 DEF CreateInsert
  <2>. HIDE DEF new, RowType
  <2>3. row' \in [Customer -> RowType]
    BY <2>1, <2>2 DEF TypeOK
  <2>. QED BY <2>2, <2>3, GoesType DEF TypeOK
<1>3. CASE DeleteCheck(r)
  <2>. DEFINE next == [c EXCEPT !.pc = IF c.pc = "checking" THEN "rechecking" ELSE "deleting"]
  <2>1. next \in Busy
    BY DEF Busy, Pc
  <2>2. Reads(r, IF Children(c.id) # {} THEN Idle ELSE next)
    BY <1>3 DEF DeleteCheck
  <2>. HIDE DEF next
  <2>. QED BY <2>1, <2>2, ReadsType
<1>4. CASE DeleteRow(r)
  BY <1>4, WritesType, ConstantTypes DEF DeleteRow
<1>5. CASE UpdateRead(r)
  <2>. DEFINE next == [c EXCEPT !.pc = "saving", !.seen = row[c.id]]
  <2>1. next \in Busy
    <3>1. row[c.id] \in RowType
      BY ElementTypes DEF Busy
    <3>. QED BY <3>1 DEF Busy, Pc
  <2>2. Reads(r, IF Present(c.id) THEN next ELSE Idle)
    BY <1>5 DEF UpdateRead
  <2>. HIDE DEF next
  <2>. QED BY <2>1, <2>2, ReadsType
<1>6. CASE UpdateSave(r)
  <2>. DEFINE new == [row[c.id] EXCEPT !.settings = c.seen.settings \cup c.settings,
                                       !.version = c.seen.version + 1]
  <2>1. new \in RowType
    <3>1. row[c.id] \in RowType
      BY ElementTypes DEF Busy
    <3>2. c.seen.settings \cup c.settings \in SUBSET Setting /\ c.seen.version + 1 \in Nat
      BY DEF Busy, RowType
    <3>. QED BY <3>1, <3>2 DEF RowType
  <2>2. (Writes(c.id, new) /\ Goes(r, Idle)) \/ Reads(r, Idle)
    BY <1>6 DEF UpdateSave, Reads
  <2>. HIDE DEF new
  <2>. QED BY <2>1, <2>2, WritesType, ReadsType
<1>. QED BY <1>1, <1>2, <1>3, <1>4, <1>5, <1>6

\* The steps of a move.
LEMMA MoveStepTypes ==
  ASSUME TypeOK, NEW r \in Request,
         \/ MoveSearch(r) \/ MoveScreen(r) \/ MoveRead(r) \/ MoveTarget(r) \/ MovePlace(r)
         \/ MoveLink(r) \/ MoveRoot(r) \/ MoveGather(r) \/ MoveFollow(r)
  PROVE  TypeOK'
<1>. DEFINE c == call[r]
<1>. c \in Busy
  BY ElementTypes DEF MoveSearch, MoveScreen, MoveRead, MoveTarget, MovePlace, MoveLink,
       MoveRoot, MoveGather, MoveFollow
<1>1. row[c.id] \in RowType /\ c.id \in Customer /\ c.parent \in Parent /\ c.path \in Seq(Customer)
      /\ c.depth \in Int /\ c.seen \in RowType
  BY ElementTypes DEF Busy
<1>2. CASE MoveSearch(r)
  <2>. DEFINE next == [c EXCEPT !.pc = "screening", !.base = row[c.id].path]
  <2>1. next \in Busy
    BY <1>1 DEF Busy, RowType, Pc
  <2>2. Reads(r, IF Present(c.id) THEN next ELSE Idle)
    BY <1>2 DEF MoveSearch
  <2>. HIDE DEF next
  <2>. QED BY <2>1, <2>2, ReadsType
<1>3. CASE MoveScreen(r)
  <2>. DEFINE next == [c EXCEPT !.pc = "reading"]
  <2>1. next \in Busy
    BY DEF Busy, Pc
  <2>2. Reads(r, IF c.parent \in Below(c.base) THEN Idle ELSE next)
    BY <1>3 DEF MoveScreen
  <2>. HIDE DEF next
  <2>. QED BY <2>1, <2>2, ReadsType
<1>4. CASE MoveRead(r)
  <2>. DEFINE root   == [c EXCEPT !.pc = "placing", !.seen = row[c.id], !.path = <<c.id>>]
              target == [c EXCEPT !.pc = "targeting", !.seen = row[c.id]]
  <2>1. root \in Busy /\ target \in Busy
    <3>1. <<c.id>> \in Seq(Customer)
      BY <1>1
    <3>2. root \in Busy
      BY <1>1, <3>1 DEF Busy, Pc
    <3>3. target \in Busy
      BY <1>1 DEF Busy, Pc
    <3>. QED BY <3>2, <3>3
  <2>2. Reads(r, IF ~Present(c.id) THEN Idle ELSE IF c.parent = NoParent THEN root ELSE target)
    BY <1>4 DEF MoveRead
  <2>. HIDE DEF root, target
  <2>. QED BY <2>1, <2>2, ReadsType
<1>5. CASE MoveTarget(r)
  <2>. DEFINE p == row[c.parent]
              next == [c EXCEPT !.pc = "placing", !.path = Append(p.path, c.id),
                                !.depth = p.depth + 1]
  <2>1. Present(c.parent) => next \in Busy
    <3>1. SUFFICES ASSUME Present(c.parent)
                   PROVE  next \in Busy
      OBVIOUS
    <3>2. p \in RowType
      BY <3>1, ElementTypes
    <3>3. Append(p.path, c.id) \in Seq(Customer) /\ p.depth + 1 \in Int
      BY <3>2, <1>1 DEF RowType
    <3>. QED BY <3>3 DEF Busy, Pc
  <2>2. Reads(r, IF Present(c.parent) /\ ~IsPrefix(c.seen.path, p.path) THEN next ELSE Idle)
    BY <1>5 DEF MoveTarget
  <2>. HIDE DEF next
  <2>. QED BY <2>1, <2>2, ReadsType
<1>6. CASE MovePlace(r)
  <2>. DEFINE new == [row[c.id] EXCEPT !.path = c.path, !.depth = c.depth]
              next == [c EXCEPT !.pc = "linking"]
  <2>1. new \in RowType
    BY <1>1 DEF RowType
  <2>2. next \in Busy
    BY DEF Busy, Pc
  <2>3. Writes(c.id, new) /\ Goes(r, next)
    BY <1>6 DEF MovePlace
  <2>. HIDE DEF new, next
  <2>. QED BY <2>1, <2>2, <2>3, WritesType
<1>7. CASE MoveLink(r)
  <2>. DEFINE new == [row[c.id] EXCEPT !.parent = c.parent]
              next == [c EXCEPT !.pc = "rooting"]
  <2>1. new \in RowType
    BY <1>1 DEF RowType
  <2>2. next \in Busy
    BY DEF Busy, Pc
  <2>3. Writes(c.id, new) /\ Goes(r, next)
    BY <1>7 DEF MoveLink
  <2>. HIDE DEF new, next
  <2>. QED BY <2>1, <2>2, <2>3, WritesType
<1>8. CASE MoveRoot(r)
  <2>. DEFINE next == [c EXCEPT !.pc = "gathering", !.base = row[c.id].path]
  <2>1. next \in Busy
    BY <1>1 DEF Busy, RowType, Pc
  <2>2. Reads(r, IF Present(c.id) THEN next ELSE Idle)
    BY <1>8 DEF MoveRoot
  <2>. HIDE DEF next
  <2>. QED BY <2>1, <2>2, ReadsType
<1>9. CASE MoveGather(r)
  <2>. DEFINE found == {[id |-> d, path |-> row[d].path, depth |-> row[d].depth] : d \in Below(c.base)}
              next  == [c EXCEPT !.pc = "following", !.todo = found]
  <2>1. found \in SUBSET [id : Customer, path : Seq(Customer), depth : Int]
    <3>1. \A d \in Below(c.base) :
            [id |-> d, path |-> row[d].path, depth |-> row[d].depth]
              \in [id : Customer, path : Seq(Customer), depth : Int]
      BY ElementTypes DEF Below, RowType
    <3>. QED BY <3>1
  <2>2. next \in Busy
    <3>. HIDE DEF found
    <3>. QED BY <2>1 DEF Busy, Pc
  <2>3. Reads(r, IF found = {} THEN Idle ELSE next)
    BY <1>9 DEF MoveGather
  <2>. HIDE DEF found, next
  <2>. QED BY <2>2, <2>3, ReadsType
<1>10. CASE MoveFollow(r)
  <2>1. PICK d \in c.todo :
          /\ Writes(d.id, [row[d.id] EXCEPT !.path = Rebase(d.path, c.seen.path, c.path),
                                            !.depth = d.depth + (c.depth - c.seen.depth)])
          /\ Goes(r, IF c.todo = {d} THEN Idle ELSE [c EXCEPT !.todo = @ \ {d}])
    BY <1>10 DEF MoveFollow
  <2>. DEFINE new  == [row[d.id] EXCEPT !.path = Rebase(d.path, c.seen.path, c.path),
                                        !.depth = d.depth + (c.depth - c.seen.depth)]
              next == [c EXCEPT !.todo = @ \ {d}]
  <2>2. d.id \in Customer /\ d.path \in Seq(Customer) /\ d.depth \in Int
    BY DEF Busy
  <2>3. new \in RowType
    <3>1. Rebase(d.path, c.seen.path, c.path) \in Seq(Customer)
      BY <1>1, <2>2, RebaseType DEF RowType
    <3>2. d.depth + (c.depth - c.seen.depth) \in Int
      <4>1. c.depth \in Int /\ c.seen.depth \in Int
        BY <1>1 DEF RowType
      <4>2. \A x, y, z \in Int : x + (y - z) \in Int
        OBVIOUS
      <4>. HIDE DEF c
      <4>. QED BY <2>2, <4>1, <4>2
    <3>3. row[d.id] \in RowType
      BY <2>2, ElementTypes
    <3>. QED BY <3>1, <3>2, <3>3 DEF RowType
  <2>4. next \in Busy
    BY DEF Busy
  <2>. HIDE DEF new, next
  <2>5. Writes(d.id, new) /\ Goes(r, IF c.todo = {d} THEN Idle ELSE next)
    BY <2>1 DEF new, next
  <2>. QED BY <2>3, <2>4, <2>5, WritesType
<1>. QED BY <1>2, <1>3, <1>4, <1>5, <1>6, <1>7, <1>8, <1>9, <1>10

\* Every row and every request in flight keep their types: paths are sequences of
\* customers whatever the order in which moves rewrite them, and a request that is
\* under way is about a customer.
THEOREM TypeCorrect == Spec => []TypeOK
<1>1. Init => TypeOK
  <2>. HIDE DEF RowType, Busy, Unborn, Idle
  <2>. QED BY ConstantTypes, TreeAssumption DEF Init, TypeOK
<1>2. TypeOK /\ [Next]_vars => TypeOK'
  <2>. SUFFICES ASSUME TypeOK, [Next]_vars
                PROVE  TypeOK'
    OBVIOUS
  <2>1. CASE UNCHANGED vars
    BY <2>1 DEF vars, TypeOK
  <2>2. ASSUME NEW r \in Request, NEW c \in Customer,
               \/ \E p \in Parent : Create(r, c, p) \/ Move(r, c, p)
               \/ Delete(r, c)
               \/ \E ks \in SUBSET Setting : Update(r, c, ks)
        PROVE  TypeOK'
    <3>1. NoParent \in Parent /\ {} \in SUBSET Setting
      BY DEF Parent
    <3>2. PICK n : Begins(r, n, c)
      BY <2>2, <3>1, BeginsFresh
    <3>. QED BY <3>2, BeginTypes
  <2>3. ASSUME NEW r \in Request, Continue(r)
        PROVE  TypeOK'
    BY <2>3, RowStepTypes, MoveStepTypes DEF Continue
  <2>4. ASSUME NEW r \in Request, Dies(r)
        PROVE  TypeOK'
    <3>. HIDE DEF Busy, Idle, RowType
    <3>. QED BY <2>4, TreeAssumption DEF Dies, TypeOK
  <2>. QED BY <2>1, <2>2, <2>3, <2>4 DEF Next
<1>. QED BY <1>1, <1>2, PTL DEF Spec

-----------------------------------------------------------------------------
\* Settings

\* A row that is being created has never been there, and nobody else knows of it.
NewRow ==
  \A r \in Request : call[r].pc \in Creating =>
    /\ row[call[r].id] = Unborn
    /\ \A s \in Request : s # r => call[s].id # call[r].id

\* Whoever still finds the version it has read finds the settings it has read.
SeenSettings ==
  \A r \in Request : call[r].pc = "saving" /\ Present(call[r].id) =>
    LET now  == row[call[r].id]
        seen == call[r].seen
    IN /\ seen.version <= now.version
       /\ seen.version = now.version => seen.settings = now.settings

SettingsInv == TypeOK /\ NewRow /\ SeenSettings

\* What a step does to a row if it neither creates it nor changes its settings.
Keeps(c) ==
  /\ row[c] = Unborn => row'[c] = Unborn
  /\ row'[c].state = "present" =>
       Present(c) /\ row'[c].settings = row[c].settings /\ row'[c].version = row[c].version

\* What it does to a request: it goes on with the same customer or is answered.
Proceeds(r, c) ==
  \/ c = Idle
  \/ /\ c.id = call[r].id
     /\ c.pc \in Creating => call[r].pc \in Creating
     /\ c.pc # "saving"

\* Such a step keeps the invariant and loses nothing.
LEMMA KeepsSettings ==
  ASSUME SettingsInv, TypeOK', NEW r \in Request, NEW STATE c, Proceeds(r, c),
         call' = [call EXCEPT ![r] = c], \A d \in Customer : Keeps(d)
  PROVE  NewRow' /\ SeenSettings'
<1>. Idle.pc = "idle" /\ Idle.id = NoParent /\ "idle" \notin Creating
  BY DEF Idle, Creating
<1>0. \A s \in Request : call'[s] = IF s = r THEN c ELSE call[s]
  BY DEF SettingsInv, TypeOK
<1>1. \A s \in Request : call[s].pc # "idle" => call[s].id \in Customer
  BY ElementTypes DEF SettingsInv, Busy
<1>2. NewRow'
  <2>. SUFFICES ASSUME NEW s \in Request, call'[s].pc \in Creating
                PROVE  /\ row'[call'[s].id] = Unborn
                       /\ \A t \in Request : t # s => call'[t].id # call'[s].id
    BY DEF NewRow
  <2>1. call[s].pc \in Creating /\ call'[s].id = call[s].id
    BY <1>0 DEF Proceeds
  <2>2. row[call[s].id] = Unborn /\ \A t \in Request : t # s => call[t].id # call[s].id
    BY <2>1 DEF SettingsInv, NewRow
  <2>3. call[s].id \in Customer
    BY <2>1, <1>1 DEF Creating
  <2>4. row'[call'[s].id] = Unborn
    BY <2>1, <2>2, <2>3 DEF Keeps
  <2>5. \A t \in Request : t # s => call'[t].id # call'[s].id
    BY <1>0, <2>1, <2>2, <2>3, TreeAssumption DEF Proceeds
  <2>. QED BY <2>4, <2>5
<1>3. SeenSettings'
  <2>. SUFFICES ASSUME NEW s \in Request, call'[s].pc = "saving", call'[s].id \in Customer,
                       row'[call'[s].id].state = "present"
                PROVE  /\ call'[s].seen.version <= row'[call'[s].id].version
                       /\ call'[s].seen.version = row'[call'[s].id].version =>
                            call'[s].seen.settings = row'[call'[s].id].settings
    BY DEF SeenSettings, Present
  <2>1. call'[s] = call[s]
    BY <1>0 DEF Proceeds
  <2>2. /\ Present(call[s].id)
        /\ row'[call[s].id].settings = row[call[s].id].settings
        /\ row'[call[s].id].version = row[call[s].id].version
    BY <2>1 DEF Keeps
  <2>. QED BY <2>1, <2>2 DEF SettingsInv, SeenSettings
<1>. QED BY <1>2, <1>3

\* What a new request or a step that writes nothing does to the rows.
LEMMA StillRows ==
  ASSUME TypeOK, NEW c \in Customer, row'[c] = row[c]
  PROVE  Keeps(c)
BY DEF Keeps, Present

\* An ordinary write keeps every row but its own, and that one too if the new row
\* keeps the settings and the version, or is deleted.
LEMMA WriteKeeps ==
  ASSUME TypeOK, NEW STATE d, NEW STATE new, Writes(d, new),
         Present(d) => \/ new.state = "deleted"
                       \/ new.settings = row[d].settings /\ new.version = row[d].version
  PROVE  \A c \in Customer : Keeps(c)
<1>. SUFFICES ASSUME NEW c \in Customer
              PROVE  Keeps(c)
  OBVIOUS
<1>1. CASE Present(d) /\ c = d
  <2>1. row'[c] = new
    BY <1>1 DEF Writes, TypeOK
  <2>2. row[c] # Unborn /\ Present(c)
    BY <1>1 DEF Unborn, Present
  <2>. QED BY <1>1, <2>1, <2>2 DEF Keeps
<1>2. CASE ~(Present(d) /\ c = d)
  <2>1. row'[c] = row[c]
    BY <1>2 DEF Writes, TypeOK
  <2>. QED BY <2>1, StillRows
<1>. QED BY <1>1, <1>2

\* What no step may do.
LosesNothing ==
  \A c \in Customer : row[c].settings \subseteq row'[c].settings \/ ~Present(c)'

LEMMA KeepsLosesNothing ==
  ASSUME \A c \in Customer : Keeps(c)
  PROVE  LosesNothing
BY DEF Keeps, LosesNothing, Present

\* The requests after a step of r.
LEMMA CallAfter ==
  ASSUME TypeOK, NEW r \in Request, NEW STATE c, call' = [call EXCEPT ![r] = c]
  PROVE  \A s \in Request : call'[s] = IF s = r THEN c ELSE call[s]
BY DEF TypeOK

\* Beginning a request.
LEMMA BeginSettings ==
  ASSUME SettingsInv, TypeOK', NEW r \in Request, NEW c \in Customer, NEW n, Begins(r, n, c)
  PROVE  SettingsInv' /\ LosesNothing
<1>1. Begin(r, n) /\ n.id = c /\ n.pc # "saving"
      /\ \/ row[c] = Unborn /\ \A s \in Request : call[s].id # c
         \/ Present(c) /\ n.pc \notin Creating
  BY DEF Begins
<1>2. row' = row /\ \A s \in Request : call'[s] = IF s = r THEN n ELSE call[s]
  BY <1>1, CallAfter DEF Begin, SettingsInv
<1>3. NewRow'
  <2>. SUFFICES ASSUME NEW s \in Request, call'[s].pc \in Creating
                PROVE  /\ row[call'[s].id] = Unborn
                       /\ \A t \in Request : t # s => call'[t].id # call'[s].id
    BY <1>2 DEF NewRow
  <2>1. CASE s = r
    BY <1>1, <1>2, <2>1 DEF Unborn, Present
  <2>2. CASE s # r
    <3>1. row[call[s].id] = Unborn /\ \A t \in Request : t # s => call[t].id # call[s].id
      BY <1>2, <2>2 DEF SettingsInv, NewRow
    <3>2. call[s].id # c
      BY <1>1, <3>1 DEF Unborn, Present
    <3>. QED BY <1>1, <1>2, <2>2, <3>1, <3>2
  <2>. QED BY <2>1, <2>2
<1>4. SeenSettings'
  BY <1>1, <1>2 DEF SettingsInv, SeenSettings, Present
<1>5. LosesNothing
  BY <1>2 DEF LosesNothing
<1>. QED BY <1>3, <1>4, <1>5 DEF SettingsInv

\* The steps that neither create a row nor touch settings.
LEMMA QuietSettings ==
  ASSUME SettingsInv, TypeOK', NEW r \in Request,
         \/ CreateReadParent(r) \/ DeleteCheck(r) \/ DeleteRow(r) \/ MoveSearch(r)
         \/ MoveScreen(r) \/ MoveRead(r) \/ MoveTarget(r) \/ MovePlace(r) \/ MoveLink(r)
         \/ MoveRoot(r) \/ MoveGather(r) \/ MoveFollow(r) \/ Dies(r)
  PROVE  SettingsInv' /\ LosesNothing
<1>. DEFINE Quiets == (\A c \in Customer : Keeps(c))
                      /\ \E n : Proceeds(r, n) /\ call' = [call EXCEPT ![r] = n]
<1>. TypeOK /\ (\A c \in Customer : row[c] \in RowType)
     /\ (call[r].pc # "idle" => call[r] \in Busy)
  BY ElementTypes DEF SettingsInv
<1>1. ASSUME Quiets
      PROVE  SettingsInv' /\ LosesNothing
  BY <1>1, KeepsSettings, KeepsLosesNothing DEF SettingsInv
<1>2. ASSUME UNCHANGED row, NEW n, Proceeds(r, n), call' = [call EXCEPT ![r] = n]
      PROVE  Quiets
  BY <1>2, StillRows
<1>3. ASSUME NEW d, NEW new, Writes(d, new), NEW n, Proceeds(r, n), Goes(r, n),
             Present(d) => \/ new.state = "deleted"
                           \/ new.settings = row[d].settings /\ new.version = row[d].version
      PROVE  Quiets
  BY <1>3, WriteKeeps DEF Goes
<1>4. CASE CreateReadParent(r)
  BY <1>1, <1>2, <1>4
     DEF CreateReadParent, Reads, Goes, Proceeds, Creating, Busy
<1>5. CASE DeleteCheck(r)
  BY <1>1, <1>2, <1>5
     DEF DeleteCheck, Reads, Goes, Proceeds, Creating, Busy
<1>6. CASE DeleteRow(r)
  <2>1. Deleted.state = "deleted"
    BY DEF Deleted, Unborn
  <2>. QED BY <1>1, <1>3, <1>6, <2>1 DEF DeleteRow, Proceeds
<1>7. CASE MoveSearch(r) \/ MoveScreen(r) \/ MoveRead(r) \/ MoveTarget(r)
  BY <1>1, <1>2, <1>7
     DEF MoveSearch, MoveScreen, MoveRead, MoveTarget, Reads, Goes, Proceeds, Creating, Busy
<1>8. CASE MoveRoot(r) \/ MoveGather(r)
  BY <1>1, <1>2, <1>8
     DEF MoveRoot, MoveGather, Reads, Goes, Proceeds, Creating, Busy
<1>9. CASE MovePlace(r)
  <2>. DEFINE c    == call[r]
              new  == [row[c.id] EXCEPT !.path = c.path, !.depth = c.depth]
              next == [c EXCEPT !.pc = "linking"]
  <2>1. Present(c.id) => new.settings = row[c.id].settings /\ new.version = row[c.id].version
    BY DEF RowType, Present
  <2>2. Proceeds(r, next)
    BY <1>9 DEF MovePlace, Proceeds, Creating, Busy
  <2>3. Writes(c.id, new) /\ Goes(r, next)
    BY <1>9 DEF MovePlace
  <2>. HIDE DEF new, next
  <2>. QED BY <1>1, <1>3, <2>1, <2>2, <2>3
<1>10. CASE MoveLink(r)
  <2>. DEFINE c    == call[r]
              new  == [row[c.id] EXCEPT !.parent = c.parent]
              next == [c EXCEPT !.pc = "rooting"]
  <2>1. Present(c.id) => new.settings = row[c.id].settings /\ new.version = row[c.id].version
    BY DEF RowType, Present
  <2>2. Proceeds(r, next)
    BY <1>10 DEF MoveLink, Proceeds, Creating, Busy
  <2>3. Writes(c.id, new) /\ Goes(r, next)
    BY <1>10 DEF MoveLink
  <2>. HIDE DEF new, next
  <2>. QED BY <1>1, <1>3, <2>1, <2>2, <2>3
<1>11. CASE MoveFollow(r)
  <2>. DEFINE c       == call[r]
              new(d)  == [row[d.id] EXCEPT !.path = Rebase(d.path, c.seen.path, c.path),
                                           !.depth = d.depth + (c.depth - c.seen.depth)]
              next(d) == IF c.todo = {d} THEN Idle ELSE [c EXCEPT !.todo = @ \ {d}]
  <2>1. PICK d \in c.todo : Writes(d.id, new(d)) /\ Goes(r, next(d))
    BY <1>11 DEF MoveFollow
  <2>2. Present(d.id) =>
          new(d).settings = row[d.id].settings /\ new(d).version = row[d.id].version
    BY DEF RowType, Present
  <2>3. Proceeds(r, next(d))
    BY <1>11 DEF MoveFollow, Proceeds, Creating, Busy
  <2>. HIDE DEF new, next
  <2>. QED BY <1>1, <1>3, <2>1, <2>2, <2>3
<1>12. CASE Dies(r)
  BY <1>1, <1>2, <1>12 DEF Dies, Proceeds
<1>. QED BY <1>4, <1>5, <1>6, <1>7, <1>8, <1>9, <1>10, <1>11, <1>12

\* The three steps in which settings come into a row or into a request.
LEMMA CreateInsertSettings ==
  ASSUME SettingsInv, TypeOK', NEW r \in Request, CreateInsert(r)
  PROVE  SettingsInv' /\ LosesNothing
<1>. DEFINE c   == call[r]
            new == [state |-> "present", parent |-> c.parent, path |-> c.path,
                    depth |-> c.depth, settings |-> {}, version |-> 1]
<1>1. row' = [row EXCEPT ![c.id] = new] /\ call' = [call EXCEPT ![r] = Idle]
  BY DEF CreateInsert, Goes
<1>2. \A s \in Request : call'[s] = IF s = r THEN Idle ELSE call[s]
  BY <1>1, CallAfter DEF SettingsInv
<1>3. row[c.id] = Unborn /\ \A s \in Request : s # r => call[s].id # c.id
  BY DEF CreateInsert, SettingsInv, NewRow, Creating
<1>. HIDE DEF new
<1>4. \A d \in Customer : d # c.id => row'[d] = row[d]
  BY <1>1 DEF SettingsInv, TypeOK
<1>5. \A s \in Request : s # r => row'[call[s].id] = row[call[s].id]
  BY <1>1, <1>3 DEF SettingsInv, TypeOK
<1>. Idle.pc = "idle"
  BY DEF Idle
<1>6. NewRow'
  <2>. SUFFICES ASSUME NEW s \in Request, call'[s].pc \in Creating
                PROVE  /\ row'[call'[s].id] = Unborn
                       /\ \A t \in Request : t # s => call'[t].id # call'[s].id
    BY DEF NewRow
  <2>1. s # r /\ call'[s] = call[s] /\ call[s].id # NoParent
    BY <1>2, ElementTypes, TreeAssumption DEF SettingsInv, Creating, Busy
  <2>2. row[call[s].id] = Unborn /\ \A t \in Request : t # s => call[t].id # call[s].id
    BY <2>1 DEF SettingsInv, NewRow
  <2>3. Idle.id = NoParent
    BY DEF Idle
  <2>. QED BY <1>2, <1>5, <2>1, <2>2, <2>3
<1>7. SeenSettings'
  BY <1>2, <1>5 DEF SettingsInv, SeenSettings, Present
<1>8. LosesNothing
  <2>1. Unborn.settings = {}
    BY DEF Unborn
  <2>. QED BY <1>3, <1>4, <2>1 DEF LosesNothing
<1>. QED BY <1>6, <1>7, <1>8 DEF SettingsInv

LEMMA UpdateReadSettings ==
  ASSUME SettingsInv, TypeOK', NEW r \in Request, UpdateRead(r)
  PROVE  SettingsInv' /\ LosesNothing
<1>. DEFINE c    == call[r]
            next == [c EXCEPT !.pc = "saving", !.seen = row[c.id]]
<1>1. c \in Busy /\ row' = row
  BY ElementTypes DEF UpdateRead, Reads, SettingsInv
<1>2. LosesNothing
  BY <1>1 DEF LosesNothing
<1>3. CASE Present(c.id)
  <2>1. call' = [call EXCEPT ![r] = next]
    BY <1>3 DEF UpdateRead, Reads, Goes
  <2>2. next.pc = "saving" /\ next.id = c.id /\ next.seen = row[c.id]
    BY <1>1 DEF Busy
  <2>. HIDE DEF next
  <2>3. \A s \in Request : call'[s] = IF s = r THEN next ELSE call[s]
    BY <2>1, CallAfter DEF SettingsInv
  <2>4. NewRow'
    BY <1>1, <2>2, <2>3 DEF SettingsInv, NewRow, Creating
  <2>5. row[c.id] \in RowType
    BY <1>3, ElementTypes DEF SettingsInv
  <2>6. row[c.id].version <= row[c.id].version
    BY <2>5 DEF RowType
  <2>7. SeenSettings'
    BY <1>1, <2>2, <2>3, <2>6 DEF SettingsInv, SeenSettings, Present
  <2>. QED BY <1>2, <2>4, <2>7 DEF SettingsInv
<1>4. CASE ~Present(c.id)
  <2>1. call' = [call EXCEPT ![r] = Idle] /\ Proceeds(r, Idle)
    BY <1>4 DEF UpdateRead, Reads, Goes, Proceeds
  <2>2. \A d \in Customer : Keeps(d)
    BY <1>1, StillRows DEF SettingsInv
  <2>. QED BY <1>2, <2>1, <2>2, KeepsSettings DEF SettingsInv
<1>. QED BY <1>3, <1>4

LEMMA UpdateSaveSettings ==
  ASSUME SettingsInv, TypeOK', NEW r \in Request, UpdateSave(r)
  PROVE  SettingsInv' /\ LosesNothing
<1>. DEFINE c   == call[r]
            new == [row[c.id] EXCEPT !.settings = c.seen.settings \cup c.settings,
                                     !.version = c.seen.version + 1]
<1>1. c \in Busy /\ c.pc = "saving" /\ call' = [call EXCEPT ![r] = Idle]
  BY ElementTypes DEF UpdateSave, Goes, SettingsInv
<1>2. CASE row' = row
  <2>1. \A d \in Customer : Keeps(d)
    BY <1>2, StillRows DEF SettingsInv
  <2>. QED BY <1>1, <2>1, KeepsSettings, KeepsLosesNothing DEF SettingsInv, Proceeds
<1>3. CASE row' # row
  <2>1. Present(c.id) /\ row[c.id].version = c.seen.version /\ row' = [row EXCEPT ![c.id] = new]
    BY <1>3 DEF UpdateSave, Writes
  <2>2. row[c.id].settings = c.seen.settings
    BY <1>1, <2>1 DEF SettingsInv, SeenSettings
  <2>3. row[c.id] \in RowType
    BY <2>1, ElementTypes DEF SettingsInv
  <2>4. new.version = row[c.id].version + 1 /\ row[c.id].settings \subseteq new.settings
    BY <2>1, <2>2, <2>3 DEF RowType
  <2>. HIDE DEF new
  <2>5. \A d \in Customer : row'[d] = IF d = c.id THEN new ELSE row[d]
    BY <2>1 DEF SettingsInv, TypeOK
  <2>6. \A s \in Request : call'[s] = IF s = r THEN Idle ELSE call[s]
    BY <1>1, CallAfter DEF SettingsInv
  <2>7. \A s \in Request : call[s].pc # "idle" => call[s].id \in Customer /\ call[s] \in Busy
    BY ElementTypes DEF SettingsInv, Busy
  <2>8. NewRow'
    <3>. SUFFICES ASSUME NEW s \in Request, call'[s].pc \in Creating
                  PROVE  /\ row'[call'[s].id] = Unborn
                         /\ \A t \in Request : t # s => call'[t].id # call'[s].id
      BY DEF NewRow
    <3>1. Idle.pc = "idle" /\ Idle.id = NoParent
      BY DEF Idle
    <3>2. s # r /\ call'[s] = call[s] /\ call[s].id \in Customer
      BY <2>6, <2>7, <3>1 DEF Creating
    <3>3. row[call[s].id] = Unborn /\ \A t \in Request : t # s => call[t].id # call[s].id
      BY <3>2 DEF SettingsInv, NewRow
    <3>. QED BY <2>5, <2>6, <3>1, <3>2, <3>3, TreeAssumption
  <2>9. SeenSettings'
    <3>. SUFFICES ASSUME NEW s \in Request, call'[s].pc = "saving", call'[s].id \in Customer,
                         row'[call'[s].id].state = "present"
                  PROVE  /\ call'[s].seen.version <= row'[call'[s].id].version
                         /\ call'[s].seen.version = row'[call'[s].id].version =>
                              call'[s].seen.settings = row'[call'[s].id].settings
      BY DEF SeenSettings, Present
    <3>1. s # r /\ call'[s] = call[s]
      BY <2>6 DEF Idle
    <3>2. CASE call[s].id = c.id
      <4>1. call[s].seen.version <= row[c.id].version
        BY <2>1, <3>1, <3>2 DEF SettingsInv, SeenSettings
      <4>2. call[s].seen.version \in Int /\ row[c.id].version \in Int
        BY <2>3, <2>7, <3>1 DEF Busy, RowType
      <4>. QED BY <2>4, <2>5, <3>1, <3>2, <4>1, <4>2
    <3>3. CASE call[s].id # c.id
      BY <2>5, <3>1, <3>3 DEF SettingsInv, SeenSettings, Present
    <3>. QED BY <3>2, <3>3
  <2>10. LosesNothing
    BY <2>4, <2>5 DEF LosesNothing
  <2>. QED BY <2>8, <2>9, <2>10 DEF SettingsInv
<1>. QED BY <1>2, <1>3

LEMMA InitSettings == Init => SettingsInv
<1>. HIDE DEF RowType, Busy, Unborn
<1>. QED BY ConstantTypes, TreeAssumption
     DEF Init, SettingsInv, TypeOK, NewRow, SeenSettings, Idle, Creating

LEMMA NextSettings ==
  ASSUME SettingsInv, TypeOK', [Next]_vars
  PROVE  SettingsInv' /\ (LosesNothing \/ UNCHANGED vars)
<1>1. CASE UNCHANGED vars
  BY <1>1 DEF vars, SettingsInv, NewRow, SeenSettings, Present
<1>2. ASSUME NEW r \in Request, NEW c \in Customer,
             \/ \E p \in Parent : Create(r, c, p) \/ Move(r, c, p)
             \/ Delete(r, c)
             \/ \E ks \in SUBSET Setting : Update(r, c, ks)
      PROVE  SettingsInv' /\ LosesNothing
  <2>1. NoParent \in Parent /\ {} \in SUBSET Setting
    BY DEF Parent
  <2>2. PICK n : Begins(r, n, c)
    BY <1>2, <2>1, BeginsFresh
  <2>. QED BY <2>2, BeginSettings
<1>3. ASSUME NEW r \in Request, Continue(r) \/ Dies(r)
      PROVE  SettingsInv' /\ LosesNothing
  BY <1>3, QuietSettings, CreateInsertSettings, UpdateReadSettings, UpdateSaveSettings
     DEF Continue
<1>. QED BY <1>1, <1>2, <1>3 DEF Next

THEOREM SettingsInvCorrect == Spec => []SettingsInv
BY InitSettings, NextSettings, TypeCorrect, PTL DEF Spec

\* What an update has merged into a customer's settings stays there as long as the
\* customer does, whatever overlaps: the version that a save compares is changed
\* by every save and by nothing else, so a save that succeeds has merged with the
\* settings the row still has.
THEOREM SettingsCorrect == Spec => SettingsNeverLost
<1>1. LosesNothing \/ UNCHANGED vars
      => [\A c \in Customer : row[c].settings \subseteq row'[c].settings \/ ~Present(c)']_vars
  BY DEF LosesNothing
<1>. QED BY <1>1, NextSettings, SettingsInvCorrect, TypeCorrect, PTL DEF Spec, SettingsNeverLost

-----------------------------------------------------------------------------
\* Paths

Moving == {"searching", "screening", "reading", "targeting", "placing", "linking", "rooting", "gathering", "following"}
Placing == {"placing", "linking", "rooting", "gathering", "following"}

\* The bound of TreeOverlap.cfg: moves do not overlap one another.
OneMover == \A r, s \in Mover : r = s

MoversMove == \A r \in Request : call[r].pc \in Moving => r \in Mover

\* A path ends with the customer, and with its parent before it.
Ends(path, c) == Len(path) > 0 /\ path[Len(path)] = c

Names(path, c, p) ==
  Ends(path, c) /\ IF Len(path) = 1 THEN p = NoParent ELSE p = path[Len(path) - 1]

Linked(c) == \E r \in Request : call[r].pc = "linking" /\ call[r].id = c

RowPaths ==
  \A c \in Customer : Present(c) =>
    /\ Ends(row[c].path, c)
    /\ ~Linked(c) => Names(row[c].path, c, row[c].parent)

\* What a request has got so far, of paths that it read, agrees with the rows.
CallPaths(c) ==
  /\ c.pc \in {"inserting", "placing", "linking"} => Names(c.path, c.id, c.parent)
  /\ c.pc \in Moving => row[c.id] # Unborn
  /\ c.pc \in Placing \cup {"targeting"} => Ends(c.seen.path, c.id)
  /\ c.pc \in Placing => Ends(c.path, c.id)
  /\ c.pc = "linking" /\ Present(c.id) => row[c.id].path = c.path
  /\ c.pc = "gathering" /\ Present(c.id) => row[c.id].path = c.base
  /\ c.pc = "following" => \A d \in c.todo :
       /\ d.id # c.id /\ Ends(d.path, d.id) /\ row[d.id] # Unborn
       /\ Present(d.id) => row[d.id].path = d.path
       /\ \A e \in c.todo : e.id = d.id => e = d

PathsAgree == faults = 0 => RowPaths /\ \A r \in Request : CallPaths(call[r])

PathsInv == SettingsInv /\ MoversMove /\ PathsAgree

\* Replacing the head of a path that ends in c by another that does leaves a customer
\* below c under the parent it had.
LEMMA RebaseNames ==
  ASSUME NEW path \in Seq(Customer), NEW old \in Seq(Customer), NEW new \in Seq(Customer),
         NEW c \in Customer, NEW d \in Customer, c # d, NEW p,
         Ends(old, c), Ends(new, c), Names(path, d, p)
  PROVE  Names(Rebase(path, old, new), d, p)
<1>1. CASE ~IsPrefix(old, path)
  BY <1>1 DEF Rebase
<1>2. CASE IsPrefix(old, path)
  <2>. DEFINE rest == SubSeq(path, Len(old) + 1, Len(path))
              m    == Len(path) - Len(old)
              res  == new \o rest
  <2>1. Len(old) \in Nat /\ Len(path) \in Nat /\ Len(new) \in Nat /\ Len(old) > 0 /\ Len(new) > 0 /\ Len(path) > 0
    BY DEF Ends, Names
  <2>2. Len(old) <= Len(path) /\ \A i \in 1 .. Len(old) : old[i] = path[i]
    <3>1. Len(old) <= Len(path) /\ SubSeq(old, 1, Len(old)) = SubSeq(path, 1, Len(old))
      BY <1>2 DEF IsPrefix
    <3>2. \A i \in 1 .. Len(old) : SubSeq(old, 1, Len(old))[i] = old[i]
      BY <2>1
    <3>3. \A i \in 1 .. Len(old) : SubSeq(path, 1, Len(old))[i] = path[i]
      BY <2>1, <3>1
    <3>. QED BY <3>1, <3>2, <3>3
  <2>3. path[Len(old)] = c /\ path[Len(path)] = d
    BY <2>1, <2>2 DEF Ends, Names
  <2>4. m \in Nat /\ m >= 1 /\ Len(path) = Len(old) + m
    BY <2>1, <2>2, <2>3
  <2>5. rest \in Seq(Customer) /\ Len(rest) = m /\ \A i \in 1 .. m : rest[i] = path[Len(old) + i]
    <3>1. rest \in Seq(Customer) /\ Len(rest) = Len(path) - (Len(old) + 1) + 1
      BY <2>1, <2>4
    <3>2. \A i \in 1 .. m : rest[i] = path[i + (Len(old) + 1) - 1]
      BY <2>1, <2>4
    <3>. QED BY <2>1, <2>4, <3>1, <3>2
  <2>6. p = path[Len(path) - 1]
    BY <2>1, <2>4 DEF Names
  <2>. HIDE DEF rest, m
  <2>7. res \in Seq(Customer) /\ Len(res) = Len(new) + m
        /\ (\A i \in 1 .. Len(new) : res[i] = new[i]) /\ \A i \in 1 .. m : res[Len(new) + i] = rest[i]
    <3>1. res \in Seq(Customer) /\ Len(res) = Len(new) + Len(rest)
      BY <2>5, ConcatProperties
    <3>2. \A i \in 1 .. Len(new) : res[i] = new[i]
      BY <2>5, <2>1, <2>4
    <3>3. \A i \in 1 .. m : res[Len(new) + i] = rest[i]
      <4>. TAKE i \in 1 .. m
      <4>1. Len(new) + i \in 1 .. Len(new) + Len(rest) /\ ~(Len(new) + i <= Len(new)) /\ (Len(new) + i) - Len(new) = i
        BY <2>5, <2>1, <2>4
      <4>2. res[Len(new) + i] = rest[(Len(new) + i) - Len(new)]
        BY <4>1, <2>5
      <4>. QED BY <4>1, <4>2
    <3>. QED BY <3>1, <3>2, <3>3, <2>5
  <2>. HIDE DEF res
  <2>8. res[Len(res)] = d
    <3>1. m \in 1 .. m
      BY <2>4
    <3>. QED BY <3>1, <2>3, <2>4, <2>5, <2>7
  <2>9. res[Len(res) - 1] = p
    <3>1. CASE m = 1
      <4>1. Len(res) - 1 = Len(new) /\ Len(new) \in 1 .. Len(new) /\ Len(path) - 1 = Len(old)
        BY <3>1, <2>1, <2>4, <2>7
      <4>2. res[Len(res) - 1] = new[Len(new)]
        BY <4>1, <2>7
      <4>. QED BY <4>1, <4>2, <2>3, <2>6 DEF Ends
    <3>2. CASE m # 1
      <4>1. m - 1 \in 1 .. m /\ Len(res) - 1 = Len(new) + (m - 1) /\ Len(path) - 1 = Len(old) + (m - 1)
        BY <3>2, <2>1, <2>4, <2>7
      <4>2. res[Len(res) - 1] = rest[m - 1]
        BY <4>1, <2>7
      <4>3. rest[m - 1] = path[Len(path) - 1]
        BY <4>1, <2>5
      <4>. QED BY <4>2, <4>3, <2>6
    <3>. QED BY <3>1, <3>2
  <2>10. Len(res) > 1
    BY <2>1, <2>4, <2>7
  <2>11. Rebase(path, old, new) = res
    BY <1>2 DEF Rebase, res, rest
  <2>. QED BY <2>8, <2>9, <2>10, <2>11 DEF Names, Ends
<1>. QED BY <1>1, <1>2

\* The requests that are linking, but for the one whose step it is.
LEMMA LinkedStays ==
  ASSUME TypeOK, NEW r \in Request, NEW n, call' = [call EXCEPT ![r] = n],
         NEW c, call[r].pc = "linking" => call[r].id # c, Linked(c)
  PROVE  Linked(c)'
<1>1. PICK s \in Request : call[s].pc = "linking" /\ call[s].id = c
  BY DEF Linked
<1>2. s # r /\ call'[s] = call[s]
  BY <1>1, CallAfter
<1>. QED BY <1>1, <1>2 DEF Linked

LEMMA MoversStay ==
  ASSUME TypeOK, MoversMove, NEW r \in Request, NEW n, call' = [call EXCEPT ![r] = n],
         n.pc \in Moving => r \in Mover
  PROVE  MoversMove'
BY CallAfter DEF MoversMove

\* What a request has got still agrees with the rows if those it knows keep their paths.
SamePath(d) ==
  row[d] # Unborn => row'[d] # Unborn /\ (row'[d].state = "present" => Present(d) /\ row'[d].path = row[d].path)

LEMMA PathsHeld ==
  ASSUME NEW c \in Busy \cup {Idle}, CallPaths(c), \A d \in Customer : SamePath(d)
  PROVE  CallPaths(c)'
<1>1. c.pc # "idle" => c.id \in Customer /\ \A d \in c.todo : d.id \in Customer
  BY DEF Busy, Idle
<1>2. c.pc \in Moving => row'[c.id] # Unborn
  BY <1>1 DEF CallPaths, SamePath, Moving
<1>3. c.pc \in {"linking", "gathering"} /\ Present(c.id)' => Present(c.id) /\ row'[c.id].path = row[c.id].path
  BY <1>1 DEF CallPaths, SamePath, Moving, Present
<1>4. c.pc = "following" => \A d \in c.todo :
        row'[d.id] # Unborn /\ (Present(d.id)' => Present(d.id) /\ row'[d.id].path = row[d.id].path)
  BY <1>1 DEF CallPaths, SamePath, Present
<1>. QED BY <1>2, <1>3, <1>4 DEF CallPaths

\* A request that is no move does not know paths of rows.
LEMMA PathsOfOthers ==
  ASSUME NEW c, c.pc \notin Moving, CallPaths(c)
  PROVE  CallPaths(c)'
<1>1. c.pc \notin Placing \cup {"targeting"} /\ c.pc # "gathering" /\ c.pc # "following" /\ c.pc # "linking"
  BY DEF Moving, Placing
<1>. QED BY <1>1 DEF CallPaths

LEMMA PathsOfIdle == CallPaths(Idle)'
<1>1. Idle.pc = "idle"
  BY DEF Idle
<1>. HIDE DEF Idle
<1>. QED BY <1>1 DEF CallPaths, Moving, Placing

\* A step that reads, or begins a request.
LEMMA ReadPaths ==
  ASSUME PathsInv, SettingsInv', NEW r \in Request, NEW n, call' = [call EXCEPT ![r] = n],
         row' = row, faults' = faults, call[r].pc # "linking", n.pc \in Moving => r \in Mover,
         faults = 0 => CallPaths(n)
  PROVE  PathsInv'
<1>. TypeOK /\ MoversMove
  BY DEF PathsInv, SettingsInv
<1>1. MoversMove'
  BY MoversStay
<1>2. ASSUME faults = 0
      PROVE  RowPaths' /\ \A s \in Request : CallPaths(call[s])'
  <2>1. \A c : CallPaths(c) => CallPaths(c)'
    BY DEF CallPaths, Present
  <2>2. \A s \in Request : CallPaths(call[s])'
    <3>. TAKE s \in Request
    <3>1. PICK m : m = IF s = r THEN n ELSE call[s]
      OBVIOUS
    <3>2. CallPaths(m)
      BY <1>2, <3>1 DEF PathsInv, PathsAgree
    <3>3. CallPaths(m)'
      BY <2>1, <3>2
    <3>4. call'[s] = m
      BY <3>1, CallAfter
    <3>. QED BY <3>3, <3>4
  <2>3. RowPaths'
    <3>1. \A c \in Customer : Linked(c) => Linked(c)'
      BY LinkedStays
    <3>2. \A c \in Customer : Present(c)' <=> Present(c)
      BY DEF Present
    <3>. QED BY <1>2, <3>1, <3>2 DEF PathsInv, PathsAgree, RowPaths
  <2>. QED BY <2>2, <2>3
<1>. QED BY <1>1, <1>2 DEF PathsInv, PathsAgree

\* A step that writes at most the row of customer d, and leaves it a path that ends in it.
LEMMA WritePaths ==
  ASSUME PathsInv, SettingsInv', NEW r \in Request, NEW n, call' = [call EXCEPT ![r] = n],
         faults' = faults, NEW d \in Customer, n.pc \in Moving => r \in Mover,
         call[r].pc = "linking" => call[r].id = d,
         \A c \in Customer \ {d} : row'[c] = row[c],
         faults = 0 => CallPaths(n)',
         faults = 0 => \A s \in Request \ {r} : CallPaths(call[s])',
         faults = 0 /\ Present(d)' => Ends(row'[d].path, d) /\ (~Linked(d)' => Names(row'[d].path, d, row'[d].parent))
  PROVE  PathsInv'
<1>. TypeOK /\ MoversMove
  BY DEF PathsInv, SettingsInv
<1>1. MoversMove'
  BY MoversStay
<1>2. ASSUME faults = 0
      PROVE  RowPaths' /\ \A s \in Request : CallPaths(call[s])'
  <2>1. \A s \in Request : CallPaths(call[s])'
    <3>. TAKE s \in Request
    <3>1. CASE s = r
      <4>1. call'[r] = n
        BY DEF TypeOK
      <4>2. CallPaths(n)'
        BY <1>2
      <4>. QED BY <3>1, <4>1, <4>2
    <3>2. CASE s # r
      BY <1>2, <3>2
    <3>. QED BY <3>1, <3>2
  <2>2. \A c \in Customer \ {d} : Linked(c) => Linked(c)'
    BY LinkedStays
  <2>3. \A c \in Customer \ {d} : Present(c)' => Present(c)
    BY DEF Present
  <2>4. RowPaths
    BY <1>2 DEF PathsInv, PathsAgree
  <2>5. RowPaths'
    <3>. SUFFICES ASSUME NEW c \in Customer, Present(c)'
                  PROVE  Ends(row'[c].path, c) /\ (~Linked(c)' => Names(row'[c].path, c, row'[c].parent))
      BY DEF RowPaths
    <3>1. CASE c = d
      BY <1>2, <3>1
    <3>2. CASE c # d
      <4>1. Present(c) /\ row'[c] = row[c] /\ (Linked(c) => Linked(c)')
        BY <3>2, <2>2, <2>3
      <4>. QED BY <4>1, <2>4 DEF RowPaths
    <3>. QED BY <3>1, <3>2
  <2>. QED BY <2>1, <2>5
<1>. QED BY <1>1, <1>2 DEF PathsInv, PathsAgree

\* What the other requests know stays, if the paths that they may know do, or if the step
\* is that of the one move.
LEMMA OthersKeepPaths ==
  ASSUME PathsInv, faults = 0, NEW r \in Request, NEW n, call' = [call EXCEPT ![r] = n],
         \/ \A d \in Customer : SamePath(d)
         \/ OneMover /\ r \in Mover
  PROVE  \A s \in Request \ {r} : CallPaths(call[s])'
<1>. TAKE s \in Request \ {r}
<1>. TypeOK
  BY DEF PathsInv, SettingsInv
<1>1. PICK m : m = call[s]
  OBVIOUS
<1>2. CallPaths(m) /\ call'[s] = m
  BY <1>1, CallAfter DEF PathsInv, PathsAgree
<1>3. CASE \A d \in Customer : SamePath(d)
  <2>1. m \in Busy \cup {Idle}
    <3>. HIDE DEF Busy, Idle
    <3>. QED BY <1>1 DEF TypeOK
  <2>2. CallPaths(m)'
    <3>. HIDE DEF Busy, Idle
    <3>. QED BY <1>2, <1>3, <2>1, PathsHeld
  <2>. QED BY <1>2, <2>2
<1>4. CASE OneMover /\ r \in Mover
  <2>1. m.pc \notin Moving
    BY <1>1, <1>4 DEF PathsInv, MoversMove, OneMover
  <2>2. CallPaths(m)'
    BY <1>2, <2>1, PathsOfOthers
  <2>. QED BY <1>2, <2>2
<1>. QED BY <1>3, <1>4

\* Beginning a request.
LEMMA BeginPaths ==
  ASSUME PathsInv, SettingsInv', NEW r \in Request, NEW c \in Customer, NEW p \in Parent, NEW ks \in SUBSET Setting,
         Create(r, c, p) \/ Move(r, c, p) \/ Delete(r, c) \/ Update(r, c, ks)
  PROVE  PathsInv'
<1>1. ASSUME NEW n, Begin(r, n), n.pc \in Moving => r \in Mover, CallPaths(n)
      PROVE  PathsInv'
  BY <1>1, ReadPaths DEF Begin
<1>. DEFINE AnyCall == [pc : Pc \cup {"idle"}, id : Parent, parent : Parent, path : Seq(Customer),
                    depth : Int, settings : SUBSET Setting, seen : RowType, base : Seq(Customer),
                    todo : SUBSET [id : Customer, path : Seq(Customer), depth : Int]]
<1>2. Idle \in AnyCall
  BY ConstantTypes DEF Idle, Parent
<1>. HIDE DEF Idle, RowType
<1>3. CASE Create(r, c, p)
  <2>1. CASE p = NoParent
    <3>1. PICK n : n = [Idle EXCEPT !.pc = "inserting", !.id = c, !.path = <<c>>]
      OBVIOUS
    <3>2. n.pc = "inserting" /\ n.id = c /\ n.path = <<c>> /\ n.parent = NoParent
      BY <3>1, <1>2 DEF Idle
    <3>3. CallPaths(n)
      BY <3>2 DEF CallPaths, Moving, Placing, Names, Ends
    <3>. QED BY <1>1, <1>3, <2>1, <3>1, <3>2, <3>3 DEF Create, Moving
  <2>2. CASE p # NoParent
    <3>1. PICK n : n = [Idle EXCEPT !.pc = "adopting", !.id = c, !.parent = p]
      OBVIOUS
    <3>2. n.pc = "adopting"
      BY <3>1, <1>2
    <3>3. CallPaths(n)
      BY <3>2 DEF CallPaths, Moving, Placing
    <3>. QED BY <1>1, <1>3, <2>2, <3>1, <3>2, <3>3 DEF Create, Moving
  <2>. QED BY <2>1, <2>2
<1>4. CASE Move(r, c, p)
  <2>1. PICK n : n = [Idle EXCEPT !.pc = IF p = NoParent THEN "reading" ELSE "searching", !.id = c, !.parent = p]
    OBVIOUS
  <2>2. n.pc \in {"reading", "searching"} /\ n.id = c
    BY <2>1, <1>2
  <2>3. row[c] # Unborn
    BY <1>4 DEF Move, Present, Unborn
  <2>4. CallPaths(n)
    BY <2>2, <2>3 DEF CallPaths, Placing
  <2>. QED BY <1>1, <1>4, <2>1, <2>4 DEF Move
<1>5. CASE Delete(r, c)
  <2>1. PICK n : n = [Idle EXCEPT !.pc = "checking", !.id = c]
    OBVIOUS
  <2>2. n.pc = "checking"
    BY <2>1, <1>2
  <2>3. CallPaths(n)
    BY <2>2 DEF CallPaths, Moving, Placing
  <2>. QED BY <1>1, <1>5, <2>1, <2>2, <2>3 DEF Delete, Moving
<1>6. CASE Update(r, c, ks)
  <2>1. PICK n : n = [Idle EXCEPT !.pc = "updating", !.id = c, !.settings = ks]
    OBVIOUS
  <2>2. n.pc = "updating"
    BY <2>1, <1>2
  <2>3. CallPaths(n)
    BY <2>2 DEF CallPaths, Moving, Placing
  <2>. QED BY <1>1, <1>6, <2>1, <2>2, <2>3 DEF Update, Moving
<1>. QED BY <1>3, <1>4, <1>5, <1>6

\* A path one longer than that of a customer names the customer as the parent.
LEMMA AppendNames ==
  ASSUME NEW path \in Seq(Customer), NEW c \in Customer, NEW p \in Customer, Ends(path, p)
  PROVE  Names(Append(path, c), c, p)
<1>1. Len(Append(path, c)) = Len(path) + 1 /\ Len(path) \in Nat /\ Len(path) > 0
  BY DEF Ends
<1>2. Append(path, c)[Len(path) + 1] = c /\ Append(path, c)[Len(path)] = path[Len(path)]
  BY <1>1
<1>. QED BY <1>1, <1>2 DEF Names, Ends

\* The steps that only read.
LEMMA ReadStepPaths ==
  ASSUME PathsInv, SettingsInv', NEW r \in Request,
         \/ CreateReadParent(r) \/ DeleteCheck(r) \/ UpdateRead(r) \/ MoveSearch(r) \/ MoveScreen(r)
         \/ MoveRead(r) \/ MoveTarget(r) \/ MoveRoot(r) \/ MoveGather(r)
  PROVE  PathsInv'
<1>. DEFINE c == call[r]
<1>0. c \in Busy
  BY ElementTypes DEF PathsInv, SettingsInv, CreateReadParent, DeleteCheck, UpdateRead, MoveSearch, MoveScreen,
     MoveRead, MoveTarget, MoveRoot, MoveGather
<1>. HIDE DEF Busy, RowType, Idle
<1>1. ASSUME NEW n, Reads(r, n), c.pc # "linking", n.pc \in Moving => c.pc \in Moving,
             faults = 0 => CallPaths(n)
      PROVE  PathsInv'
  <2>1. n.pc \in Moving => r \in Mover
    BY <1>1 DEF PathsInv, MoversMove
  <2>. QED BY <1>1, <2>1, ReadPaths DEF Reads, Goes
<1>2. Idle.pc = "idle" /\ CallPaths(Idle)
  <2>1. Idle.pc = "idle"
    BY DEF Idle
  <2>. QED BY <2>1 DEF CallPaths, Moving, Placing
<1>3. ASSUME Reads(r, Idle), c.pc # "linking"
      PROVE  PathsInv'
  BY <1>1, <1>2, <1>3 DEF Moving
<1>4. c.id \in Customer /\ (faults = 0 => CallPaths(c) /\ RowPaths) /\ (Present(c.id) => row[c.id] \in RowType)
  BY <1>0, ElementTypes DEF Busy, PathsInv, PathsAgree, SettingsInv
<1>5. \A d : Present(d) => d \in Customer /\ row[d] \in RowType /\ row[d].path \in Seq(Customer)
             /\ row[d].depth \in Int /\ row[d] # Unborn
  BY ElementTypes DEF PathsInv, SettingsInv, RowType, Present, Unborn
<1>6. CASE CreateReadParent(r)
  <2>1. CASE ~Present(c.parent)
    BY <1>3, <1>6, <2>1 DEF CreateReadParent
  <2>2. CASE Present(c.parent)
    <3>1. PICK n : n = [c EXCEPT !.pc = "inserting", !.path = Append(row[c.parent].path, c.id),
                                !.depth = row[c.parent].depth + 1]
      OBVIOUS
    <3>2. n.pc = "inserting" /\ n.id = c.id /\ n.parent = c.parent /\ n.path = Append(row[c.parent].path, c.id)
      BY <3>1, <1>0 DEF Busy
    <3>3. faults = 0 => Names(n.path, n.id, n.parent)
      BY <2>2, <3>2, <1>4, <1>5, AppendNames DEF RowPaths
    <3>4. faults = 0 => CallPaths(n)
      BY <3>2, <3>3 DEF CallPaths, Moving, Placing
    <3>5. Reads(r, n) /\ c.pc = "adopting"
      BY <1>6, <2>2, <3>1 DEF CreateReadParent
    <3>. QED BY <1>1, <3>2, <3>4, <3>5 DEF Moving
  <2>. QED BY <2>1, <2>2
<1>7. CASE DeleteCheck(r)
  <2>1. PICK n : n = [c EXCEPT !.pc = IF c.pc = "checking" THEN "rechecking" ELSE "deleting"]
    OBVIOUS
  <2>2. n.pc \in {"rechecking", "deleting"}
    BY <2>1, <1>0 DEF Busy
  <2>3. CallPaths(n)
    BY <2>2 DEF CallPaths, Moving, Placing
  <2>4. (Reads(r, n) \/ Reads(r, Idle)) /\ c.pc \in {"checking", "rechecking"}
    BY <1>7, <2>1 DEF DeleteCheck
  <2>. QED BY <1>1, <1>3, <2>2, <2>3, <2>4 DEF Moving
<1>8. CASE UpdateRead(r)
  <2>1. PICK n : n = [c EXCEPT !.pc = "saving", !.seen = row[c.id]]
    OBVIOUS
  <2>2. n.pc = "saving"
    BY <2>1, <1>0 DEF Busy
  <2>3. CallPaths(n)
    BY <2>2 DEF CallPaths, Moving, Placing
  <2>4. (Reads(r, n) \/ Reads(r, Idle)) /\ c.pc = "updating"
    BY <1>8, <2>1 DEF UpdateRead
  <2>. QED BY <1>1, <1>3, <2>2, <2>3, <2>4 DEF Moving
<1>9. CASE MoveSearch(r)
  <2>1. CASE ~Present(c.id)
    BY <1>3, <1>9, <2>1 DEF MoveSearch
  <2>2. CASE Present(c.id)
    <3>1. PICK n : n = [c EXCEPT !.pc = "screening", !.base = row[c.id].path]
      OBVIOUS
    <3>2. n.pc = "screening" /\ n.id = c.id
      BY <3>1, <1>0 DEF Busy
    <3>3. CallPaths(n)
      BY <2>2, <3>2, <1>5 DEF CallPaths, Placing
    <3>4. Reads(r, n) /\ c.pc = "searching"
      BY <1>9, <2>2, <3>1 DEF MoveSearch
    <3>. QED BY <1>1, <3>2, <3>3, <3>4 DEF Moving
  <2>. QED BY <2>1, <2>2
<1>10. CASE MoveScreen(r)
  <2>1. PICK n : n = [c EXCEPT !.pc = "reading"]
    OBVIOUS
  <2>2. n.pc = "reading" /\ n.id = c.id
    BY <2>1, <1>0 DEF Busy
  <2>3. (Reads(r, n) \/ Reads(r, Idle)) /\ c.pc = "screening"
    BY <1>10, <2>1 DEF MoveScreen
  <2>4. faults = 0 => CallPaths(n)
    BY <2>2, <2>3, <1>4 DEF CallPaths, Moving, Placing
  <2>. QED BY <1>1, <1>3, <2>2, <2>3, <2>4 DEF Moving
<1>11. CASE MoveRead(r)
  <2>1. CASE ~Present(c.id)
    BY <1>3, <1>11, <2>1 DEF MoveRead
  <2>2. CASE Present(c.id) /\ c.parent = NoParent
    <3>1. PICK n : n = [c EXCEPT !.pc = "placing", !.seen = row[c.id], !.path = <<c.id>>]
      OBVIOUS
    <3>2. n.pc = "placing" /\ n.id = c.id /\ n.parent = NoParent /\ n.seen = row[c.id] /\ n.path = <<c.id>>
      BY <2>2, <3>1, <1>0 DEF Busy
    <3>3. Names(n.path, n.id, n.parent) /\ Ends(n.path, n.id)
      BY <3>2 DEF Names, Ends
    <3>4. faults = 0 => Ends(n.seen.path, n.id)
      BY <3>2, <2>2, <1>4 DEF RowPaths
    <3>5. faults = 0 => CallPaths(n)
      BY <2>2, <3>2, <3>3, <3>4, <1>5 DEF CallPaths
    <3>6. Reads(r, n) /\ c.pc = "reading"
      BY <1>11, <2>2, <3>1 DEF MoveRead
    <3>. QED BY <1>1, <3>2, <3>5, <3>6 DEF Moving
  <2>3. CASE Present(c.id) /\ c.parent # NoParent
    <3>1. PICK n : n = [c EXCEPT !.pc = "targeting", !.seen = row[c.id]]
      OBVIOUS
    <3>2. n.pc = "targeting" /\ n.id = c.id /\ n.seen = row[c.id]
      BY <2>3, <3>1, <1>0 DEF Busy
    <3>3. faults = 0 => Ends(n.seen.path, n.id)
      BY <3>2, <2>3, <1>4 DEF RowPaths
    <3>4. faults = 0 => CallPaths(n)
      BY <2>3, <3>2, <3>3, <1>5 DEF CallPaths, Placing
    <3>5. Reads(r, n) /\ c.pc = "reading"
      BY <1>11, <2>3, <3>1 DEF MoveRead
    <3>. QED BY <1>1, <3>2, <3>4, <3>5 DEF Moving
  <2>. QED BY <2>1, <2>2, <2>3
<1>12. CASE MoveTarget(r)
  <2>1. PICK n : n = [c EXCEPT !.pc = "placing", !.path = Append(row[c.parent].path, c.id),
                              !.depth = row[c.parent].depth + 1]
    OBVIOUS
  <2>2. /\ n.pc = "placing" /\ n.id = c.id /\ n.parent = c.parent /\ n.seen = c.seen
        /\ n.path = Append(row[c.parent].path, c.id)
    BY <2>1, <1>0 DEF Busy
  <2>3. Reads(r, Idle) \/ (Reads(r, n) /\ Present(c.parent))
    BY <1>12, <2>1 DEF MoveTarget
  <2>4. c.pc = "targeting"
    BY <1>12 DEF MoveTarget
  <2>5. Present(c.parent) /\ faults = 0 => Names(n.path, n.id, n.parent)
    BY <2>2, <1>4, <1>5, AppendNames DEF RowPaths
  <2>6. faults = 0 => Ends(n.seen.path, n.id) /\ row[n.id] # Unborn
    BY <2>2, <2>4, <1>4 DEF CallPaths, Moving
  <2>7. Present(c.parent) /\ faults = 0 => CallPaths(n)
    BY <2>2, <2>5, <2>6 DEF CallPaths, Names
  <2>. QED BY <1>1, <1>3, <2>2, <2>3, <2>4, <2>7 DEF Moving
<1>13. CASE MoveRoot(r)
  <2>1. CASE ~Present(c.id)
    BY <1>3, <1>13, <2>1 DEF MoveRoot
  <2>2. CASE Present(c.id)
    <3>1. PICK n : n = [c EXCEPT !.pc = "gathering", !.base = row[c.id].path]
      OBVIOUS
    <3>2. /\ n.pc = "gathering" /\ n.id = c.id /\ n.parent = c.parent /\ n.seen = c.seen /\ n.path = c.path
          /\ n.base = row[c.id].path
      BY <3>1, <1>0 DEF Busy
    <3>3. Reads(r, n) /\ c.pc = "rooting"
      BY <1>13, <2>2, <3>1 DEF MoveRoot
    <3>4. faults = 0 => CallPaths(n)
      BY <2>2, <3>2, <3>3, <1>4, <1>5 DEF CallPaths, Placing
    <3>. QED BY <1>1, <3>2, <3>3, <3>4 DEF Moving
  <2>. QED BY <2>1, <2>2
<1>14. CASE MoveGather(r)
  <2>. DEFINE found == {[id |-> d, path |-> row[d].path, depth |-> row[d].depth] : d \in Below(c.base)}
  <2>1. PICK n : n = [c EXCEPT !.pc = "following", !.todo = found]
    OBVIOUS
  <2>2. /\ n.pc = "following" /\ n.id = c.id /\ n.seen = c.seen /\ n.path = c.path
        /\ n.todo = found
    <3>. HIDE DEF found
    <3>. QED BY <2>1, <1>0 DEF Busy
  <2>3. c.pc = "gathering" /\ (Reads(r, n) \/ Reads(r, Idle))
    BY <1>14, <2>1 DEF MoveGather
  <2>4. ASSUME faults = 0
        PROVE  CallPaths(n)
    <3>1. row[c.id] # Unborn /\ Ends(n.seen.path, n.id) /\ Ends(n.path, n.id) /\ (Present(c.id) => row[c.id].path = c.base)
      BY <2>2, <2>3, <2>4, <1>4 DEF CallPaths, Moving, Placing
    <3>2. ASSUME NEW d \in n.todo
          PROVE  /\ d.id # c.id /\ Ends(d.path, d.id) /\ row[d.id] # Unborn
                 /\ Present(d.id) => row[d.id].path = d.path
                 /\ \A e \in n.todo : e.id = d.id => e = d
      <4>1. PICK x \in Below(c.base) : d = [id |-> x, path |-> row[x].path, depth |-> row[x].depth]
        BY <2>2, <3>2
      <4>2. Present(x) /\ row[x].path # c.base /\ d.id = x /\ d.path = row[x].path /\ d.depth = row[x].depth
        BY <4>1 DEF Below, IsStrictPrefix
      <4>3. x # c.id
        BY <4>2, <3>1
      <4>4. Ends(row[x].path, x)
        BY <4>2, <1>4, <1>5, <2>4 DEF RowPaths
      <4>5. ASSUME NEW e \in n.todo, e.id = d.id
            PROVE  e = d
        <5>1. PICK y \in Below(c.base) : e = [id |-> y, path |-> row[y].path, depth |-> row[y].depth]
          BY <2>2, <4>5
        <5>2. y = x
          BY <5>1, <4>2, <4>5
        <5>. QED BY <4>1, <5>1, <5>2
      <4>. QED BY <4>2, <4>3, <4>4, <4>5, <1>5
    <3>. QED BY <2>2, <3>1, <3>2 DEF CallPaths
  <2>. QED BY <1>1, <1>3, <2>2, <2>3, <2>4 DEF Moving
<1>. QED BY <1>6, <1>7, <1>8, <1>9, <1>10, <1>11, <1>12, <1>13, <1>14

\* A write, by request r to the row of customer d; what the others know stays.
LEMMA WriteStepPaths ==
  ASSUME PathsInv, SettingsInv', NEW r \in Request, NEW n, Goes(r, n), NEW d \in Customer,
         n.pc \in Moving => call[r].pc \in Moving,
         call[r].pc = "linking" => call[r].id = d,
         \A c \in Customer \ {d} : row'[c] = row[c],
         SamePath(d) \/ (OneMover /\ call[r].pc \in Moving),
         faults = 0 => CallPaths(n)',
         faults = 0 /\ Present(d)' => Ends(row'[d].path, d) /\ (~Linked(d)' => Names(row'[d].path, d, row'[d].parent))
  PROVE  PathsInv'
<1>1. call' = [call EXCEPT ![r] = n] /\ faults' = faults
  BY DEF Goes
<1>2. call[r].pc \in Moving => r \in Mover
  BY DEF PathsInv, MoversMove
<1>3. (\A c \in Customer : SamePath(c)) \/ (OneMover /\ r \in Mover)
  BY <1>2 DEF SamePath, Present
<1>4. faults = 0 => \A s \in Request \ {r} : CallPaths(call[s])'
  BY <1>1, <1>3, OthersKeepPaths
<1>. QED BY <1>1, <1>2, <1>4, WritePaths

LEMMA CreateInsertPaths ==
  ASSUME PathsInv, SettingsInv', NEW r \in Request, CreateInsert(r)
  PROVE  PathsInv'
<1>. DEFINE c   == call[r]
            new == [state |-> "present", parent |-> c.parent, path |-> c.path,
                    depth |-> c.depth, settings |-> {}, version |-> 1]
<1>1. c.pc = "inserting" /\ row' = [row EXCEPT ![c.id] = new] /\ Goes(r, Idle)
  BY DEF CreateInsert
<1>2. TypeOK /\ row[c.id] = Unborn /\ c.id \in Customer
  <2>1. TypeOK /\ NewRow
    BY DEF PathsInv, SettingsInv
  <2>2. c.id \in Customer
    BY <1>1, <2>1, ElementTypes DEF Busy
  <2>. QED BY <1>1, <2>1, <2>2 DEF NewRow, Creating
<1>3. new.path = c.path /\ new.parent = c.parent
  OBVIOUS
<1>4. faults = 0 => Names(c.path, c.id, c.parent)
  BY <1>1 DEF PathsInv, PathsAgree, CallPaths
<1>. HIDE DEF new
<1>5. row'[c.id] = new /\ \A d \in Customer \ {c.id} : row'[d] = row[d]
  BY <1>1, <1>2 DEF TypeOK
<1>6. Idle.pc = "idle"
  BY DEF Idle
<1>7. SamePath(c.id)
  BY <1>2 DEF SamePath
<1>8. faults = 0 => Ends(row'[c.id].path, c.id) /\ Names(row'[c.id].path, c.id, row'[c.id].parent)
  BY <1>3, <1>4, <1>5 DEF Names
<1>. HIDE DEF Idle
<1>. QED BY <1>1, <1>2, <1>5, <1>6, <1>7, <1>8, WriteStepPaths, PathsOfIdle DEF Moving

\* What an ordinary write leaves of the table.
LEMMA WriteRows ==
  ASSUME TypeOK, NEW d \in Customer, NEW STATE new, Writes(d, new)
  PROVE  /\ \A c \in Customer \ {d} : row'[c] = row[c]
         /\ row'[d] = IF Present(d) THEN new ELSE row[d]
BY DEF TypeOK, Writes

LEMMA DeleteRowPaths ==
  ASSUME PathsInv, SettingsInv', NEW r \in Request, DeleteRow(r)
  PROVE  PathsInv'
<1>. PICK d : d = call[r].id
  OBVIOUS
<1>1. call[r].pc = "deleting" /\ Writes(d, Deleted) /\ Goes(r, Idle)
  BY DEF DeleteRow
<1>2. TypeOK /\ d \in Customer
  BY <1>1, ElementTypes DEF PathsInv, SettingsInv, Busy
<1>3. (\A c \in Customer \ {d} : row'[c] = row[c]) /\ row'[d] = IF Present(d) THEN Deleted ELSE row[d]
  BY <1>1, <1>2, WriteRows
<1>4. Deleted.state = "deleted" /\ Unborn.state = "unborn" /\ Deleted # Unborn /\ Idle.pc = "idle"
  BY DEF Deleted, Unborn, Idle
<1>. HIDE DEF Deleted, Unborn, Idle
<1>5. ~Present(d)' /\ SamePath(d)
  BY <1>2, <1>3, <1>4 DEF Present, SamePath
<1>. QED BY <1>1, <1>2, <1>3, <1>4, <1>5, WriteStepPaths, PathsOfIdle DEF Moving

LEMMA UpdateSavePaths ==
  ASSUME PathsInv, SettingsInv', NEW r \in Request, UpdateSave(r)
  PROVE  PathsInv'
<1>. PICK c : c = call[r]
  OBVIOUS
<1>. DEFINE d   == c.id
            new == [row[d] EXCEPT !.settings = c.seen.settings \cup c.settings,
                                  !.version = c.seen.version + 1]
<1>1. c.pc = "saving" /\ Goes(r, Idle) /\ (row' = row \/ Writes(d, new))
  BY DEF UpdateSave
<1>2. TypeOK /\ d \in Customer /\ row[d] \in RowType
  BY <1>1, ElementTypes DEF PathsInv, SettingsInv, Busy
<1>3. new.path = row[d].path /\ new.parent = row[d].parent /\ new.state = row[d].state
  BY <1>2 DEF RowType
<1>. HIDE DEF new
<1>4. (\A e \in Customer \ {d} : row'[e] = row[e]) /\ (row'[d] = row[d] \/ (Present(d) /\ row'[d] = new))
  BY <1>1, <1>2, WriteRows
<1>5. /\ Present(d)' => Present(d) /\ row'[d].path = row[d].path /\ row'[d].parent = row[d].parent
      /\ SamePath(d)
  <2>1. Unborn.state = "unborn"
    BY DEF Unborn
  <2>. HIDE DEF Unborn
  <2>. QED BY <1>2, <1>3, <1>4, <2>1 DEF Present, SamePath
<1>6. Linked(d) => Linked(d)'
  <2>. HIDE DEF Idle
  <2>. QED BY <1>1, <1>2, LinkedStays DEF Goes
<1>7. faults = 0 /\ Present(d)' => Ends(row'[d].path, d) /\ (~Linked(d)' => Names(row'[d].path, d, row'[d].parent))
  BY <1>2, <1>5, <1>6 DEF PathsInv, PathsAgree, RowPaths
<1>8. Idle.pc = "idle"
  BY DEF Idle
<1>. HIDE DEF Idle
<1>. QED BY <1>1, <1>2, <1>4, <1>5, <1>7, <1>8, WriteStepPaths, PathsOfIdle DEF Moving

\* The customer that a move is about, and what the move knows.
LEMMA MovePaths ==
  ASSUME PathsInv, NEW r \in Request, NEW c, c = call[r], c.pc \in Placing
  PROVE  /\ c \in Busy /\ TypeOK /\ c.id \in Customer /\ row[c.id] \in RowType
         /\ Present(c.id) => row[c.id] # Unborn
         /\ faults = 0 => RowPaths /\ CallPaths(c)
<1>1. TypeOK /\ c \in Busy
  <2>1. TypeOK
    BY DEF PathsInv, SettingsInv
  <2>. HIDE DEF Busy
  <2>. QED BY <2>1, ElementTypes DEF Placing
<1>2. c.id \in Customer
  BY <1>1 DEF Busy
<1>3. Present(c.id) => row[c.id] # Unborn
  BY DEF Present, Unborn
<1>4. row[c.id] \in RowType
  BY <1>1, <1>2, ElementTypes
<1>. QED BY <1>1, <1>2, <1>3, <1>4 DEF PathsInv, PathsAgree

\* The path is written before the parent: until the parent is, the customer is being linked.
LEMMA MovePlacePaths ==
  ASSUME OneMover, PathsInv, SettingsInv', NEW r \in Request, MovePlace(r)
  PROVE  PathsInv'
<1>. PICK c : c = call[r]
  OBVIOUS
<1>. DEFINE d   == c.id
            new == [row[d] EXCEPT !.path = c.path, !.depth = c.depth]
<1>. PICK n : n = [c EXCEPT !.pc = "linking"]
  OBVIOUS
<1>1. c.pc = "placing" /\ Writes(d, new) /\ Goes(r, n)
  BY DEF MovePlace
<1>. HIDE DEF Busy, RowType
<1>2. c \in Busy /\ TypeOK /\ d \in Customer /\ row[d] \in RowType /\ (faults = 0 => RowPaths /\ CallPaths(c))
  BY <1>1, MovePaths DEF Placing
<1>3. (new.path = c.path /\ new # Unborn) \/ ~Present(d)
  BY <1>2 DEF RowType, Present, Unborn
<1>4. /\ n.pc = "linking" /\ n.id = d /\ n.path = c.path /\ n.parent = c.parent /\ n.seen = c.seen
  BY <1>2 DEF Busy
<1>. HIDE DEF new
<1>5. (\A e \in Customer \ {d} : row'[e] = row[e]) /\ row'[d] = IF Present(d) THEN new ELSE row[d]
  BY <1>1, <1>2, WriteRows
<1>6. /\ Present(d)' => Present(d) /\ row'[d].path = c.path
      /\ row[d] # Unborn => row'[d] # Unborn
  BY <1>2, <1>3, <1>5 DEF Present
<1>7. Linked(d)'
  BY <1>1, <1>2, <1>4 DEF Linked, Goes, TypeOK
<1>8. faults = 0 => CallPaths(n)' /\ Ends(c.path, d)
  BY <1>1, <1>2, <1>4, <1>6 DEF CallPaths, Moving, Placing
<1>9. c.pc \in Moving
  BY <1>1 DEF Moving
<1>. QED BY <1>1, <1>2, <1>4, <1>5, <1>6, <1>7, <1>8, <1>9, WriteStepPaths

LEMMA MoveLinkPaths ==
  ASSUME PathsInv, SettingsInv', NEW r \in Request, MoveLink(r)
  PROVE  PathsInv'
<1>. PICK c : c = call[r]
  OBVIOUS
<1>. DEFINE d   == c.id
            new == [row[d] EXCEPT !.parent = c.parent]
<1>. PICK n : n = [c EXCEPT !.pc = "rooting"]
  OBVIOUS
<1>1. c.pc = "linking" /\ Writes(d, new) /\ Goes(r, n)
  BY DEF MoveLink
<1>. HIDE DEF Busy, RowType
<1>2. c \in Busy /\ TypeOK /\ d \in Customer /\ row[d] \in RowType /\ (faults = 0 => RowPaths /\ CallPaths(c))
  BY <1>1, MovePaths DEF Placing
<1>3. (new.path = row[d].path /\ new.parent = c.parent /\ new # Unborn) \/ ~Present(d)
  BY <1>2 DEF RowType, Present, Unborn
<1>4. n.pc = "rooting" /\ n.id = d /\ n.path = c.path /\ n.parent = c.parent /\ n.seen = c.seen
  BY <1>2 DEF Busy
<1>. HIDE DEF new
<1>5. (\A e \in Customer \ {d} : row'[e] = row[e]) /\ row'[d] = IF Present(d) THEN new ELSE row[d]
  BY <1>1, <1>2, WriteRows
<1>6. /\ Present(d)' => Present(d) /\ row'[d].path = row[d].path /\ row'[d].parent = c.parent
      /\ row[d] # Unborn => row'[d] # Unborn
  BY <1>2, <1>3, <1>5 DEF Present
<1>7. SamePath(d)
  BY <1>2, <1>6 DEF SamePath, Present
<1>8. faults = 0 => /\ Ends(c.path, d) /\ Names(c.path, d, c.parent) /\ Ends(c.seen.path, d) /\ row[d] # Unborn
                    /\ Present(d) => row[d].path = c.path
  BY <1>1, <1>2 DEF CallPaths, Moving, Placing
<1>9. faults = 0 => CallPaths(n)'
  BY <1>4, <1>6, <1>8 DEF CallPaths, Moving, Placing
<1>10. c.pc \in Moving
  BY <1>1 DEF Moving
<1>. QED BY <1>1, <1>2, <1>4, <1>5, <1>6, <1>7, <1>8, <1>9, <1>10, WriteStepPaths

\* A descendant keeps the parent that its path names: only what comes before changes.
LEMMA MoveFollowPaths ==
  ASSUME OneMover, PathsInv, SettingsInv', NEW r \in Request, MoveFollow(r)
  PROVE  PathsInv'
<1>. PICK c : c = call[r]
  OBVIOUS
<1>. DEFINE new(d)  == [row[d.id] EXCEPT !.path = Rebase(d.path, c.seen.path, c.path),
                                         !.depth = d.depth + (c.depth - c.seen.depth)]
            next(d) == IF c.todo = {d} THEN Idle ELSE [c EXCEPT !.todo = @ \ {d}]
<1>1. PICK d \in c.todo : c.pc = "following" /\ Writes(d.id, new(d)) /\ Goes(r, next(d))
  BY DEF MoveFollow
<1>. PICK n : n = next(d)
  OBVIOUS
<1>. HIDE DEF Busy, RowType, Idle
<1>2. c \in Busy /\ TypeOK /\ (faults = 0 => RowPaths /\ CallPaths(c))
  BY <1>1, MovePaths DEF Placing
<1>3. d.id \in Customer /\ d.path \in Seq(Customer) /\ c.path \in Seq(Customer) /\ c.seen.path \in Seq(Customer)
      /\ c.id \in Customer
  BY <1>2 DEF Busy, RowType
<1>4. row[d.id] \in RowType
  BY <1>2, <1>3, ElementTypes
<1>5. (new(d).path = Rebase(d.path, c.seen.path, c.path) /\ new(d).parent = row[d.id].parent /\ new(d) # Unborn)
      \/ ~Present(d.id)
  BY <1>4 DEF RowType, Present, Unborn
<1>6. n = Idle \/ (n.pc = "following" /\ n.id = c.id /\ n.path = c.path /\ n.seen = c.seen /\ n.todo = c.todo \ {d})
  BY <1>1, <1>2 DEF Busy
<1>7. Goes(r, n) /\ Writes(d.id, new(d))
  BY <1>1
<1>. HIDE DEF new, next
<1>8. (\A e \in Customer \ {d.id} : row'[e] = row[e]) /\ row'[d.id] = IF Present(d.id) THEN new(d) ELSE row[d.id]
  BY <1>2, <1>3, <1>7, WriteRows
<1>9. /\ Present(d.id)' => /\ Present(d.id) /\ row'[d.id].parent = row[d.id].parent
                           /\ row'[d.id].path = Rebase(d.path, c.seen.path, c.path)
      /\ row[d.id] # Unborn => row'[d.id] # Unborn
  BY <1>3, <1>5, <1>8 DEF Present
<1>10. c.pc \in Moving /\ c.pc # "linking" /\ Idle.pc = "idle"
  BY <1>1 DEF Moving, Idle
<1>11. ~Linked(d.id)
  <2>1. \A s \in Request : call[s].pc = "linking" => s = r
    BY <1>10 DEF Moving, OneMover, PathsInv, MoversMove
  <2>. QED BY <1>10, <2>1 DEF Linked
<1>12. faults = 0 =>
         /\ row[c.id] # Unborn /\ Ends(c.seen.path, c.id) /\ Ends(c.path, c.id)
         /\ \A e \in c.todo :
              /\ e.id # c.id /\ Ends(e.path, e.id) /\ row[e.id] # Unborn
              /\ Present(e.id) => row[e.id].path = e.path
              /\ \A f \in c.todo : f.id = e.id => f = e
  BY <1>1, <1>2 DEF CallPaths, Moving, Placing
<1>13. faults = 0 /\ Present(d.id)' => Names(row'[d.id].path, d.id, row'[d.id].parent)
  <2>. SUFFICES ASSUME faults = 0, Present(d.id)'
                PROVE  Names(row'[d.id].path, d.id, row'[d.id].parent)
    OBVIOUS
  <2>1. Names(d.path, d.id, row[d.id].parent)
    BY <1>2, <1>3, <1>9, <1>11, <1>12 DEF RowPaths
  <2>2. Names(Rebase(d.path, c.seen.path, c.path), d.id, row[d.id].parent)
    BY <1>3, <1>12, <2>1, RebaseNames
  <2>. QED BY <1>9, <2>2
<1>14. faults = 0 /\ n # Idle => CallPaths(n)'
  <2>. SUFFICES ASSUME faults = 0, n # Idle
                PROVE  CallPaths(n)'
    OBVIOUS
  <2>1. row'[c.id] # Unborn
    BY <1>3, <1>8, <1>12
  <2>2. ASSUME NEW e \in c.todo \ {d}
        PROVE  row'[e.id] = row[e.id] /\ (Present(e.id)' <=> Present(e.id))
    <3>1. e.id # d.id /\ e.id \in Customer
      BY <1>2, <1>12, <2>2 DEF Busy
    <3>. QED BY <1>8, <3>1 DEF Present
  <2>. QED BY <1>6, <1>12, <2>1, <2>2 DEF CallPaths
<1>15. faults = 0 => CallPaths(n)'
  BY <1>14, PathsOfIdle
<1>. QED BY <1>3, <1>6, <1>7, <1>8, <1>10, <1>13, <1>15, WriteStepPaths DEF Names, Moving

\* A request that dies leaves whatever it was about as it is: nothing is said of the paths then.
LEMMA DiesPaths ==
  ASSUME PathsInv, SettingsInv', NEW r \in Request, Dies(r)
  PROVE  PathsInv'
<1>1. call' = [call EXCEPT ![r] = Idle] /\ faults' = faults + 1 /\ TypeOK /\ MoversMove /\ Idle.pc = "idle"
  BY DEF Dies, PathsInv, SettingsInv, Idle
<1>2. faults \in Nat
  BY <1>1, TreeAssumption DEF TypeOK
<1>. HIDE DEF Idle
<1>3. MoversMove'
  BY <1>1, MoversStay DEF Moving
<1>4. faults' # 0
  BY <1>1, <1>2
<1>. QED BY <1>3, <1>4 DEF PathsInv, PathsAgree

\* Between moves a path ends with the parent and the customer, whatever overlaps a move: if
\* moves do not overlap one another.
THEOREM PathsCorrect == ASSUME OneMover PROVE Spec => []PathNamesParent
<1>1. Init => PathsInv
  <2>. SUFFICES ASSUME Init
                PROVE  PathsInv
    OBVIOUS
  <2>1. SettingsInv
    BY InitSettings
  <2>2. \A r \in Request : call[r] = Idle
    BY DEF Init
  <2>3. Idle.pc = "idle" /\ Unborn.state = "unborn"
    BY DEF Idle, Unborn
  <2>. HIDE DEF Idle, Unborn
  <2>4. \A r \in Request : CallPaths(call[r])
    BY <2>2, <2>3 DEF CallPaths, Moving, Placing
  <2>5. RowPaths
    BY <2>3 DEF Init, RowPaths, Present
  <2>6. MoversMove
    BY <2>2, <2>3 DEF MoversMove, Moving
  <2>. QED BY <2>1, <2>4, <2>5, <2>6 DEF PathsInv, PathsAgree
<1>2. PathsInv /\ SettingsInv' /\ [Next]_vars => PathsInv'
  <2>. SUFFICES ASSUME PathsInv, SettingsInv', [Next]_vars
                PROVE  PathsInv'
    OBVIOUS
  <2>1. CASE UNCHANGED vars
    BY <2>1 DEF vars, PathsInv, MoversMove, PathsAgree, RowPaths, CallPaths, Linked, Present
  <2>2. ASSUME NEW r \in Request, NEW c \in Customer,
               \/ \E p \in Parent : Create(r, c, p) \/ Move(r, c, p)
               \/ Delete(r, c)
               \/ \E ks \in SUBSET Setting : Update(r, c, ks)
        PROVE  PathsInv'
    <3>1. NoParent \in Parent /\ {} \in SUBSET Setting
      BY DEF Parent
    <3>. QED BY <2>2, <3>1, BeginPaths
  <2>3. ASSUME NEW r \in Request, Continue(r) \/ Dies(r)
        PROVE  PathsInv'
    BY <2>3, ReadStepPaths, CreateInsertPaths, DeleteRowPaths, UpdateSavePaths, MovePlacePaths,
       MoveLinkPaths, MoveFollowPaths, DiesPaths
       DEF Continue
  <2>. QED BY <2>1, <2>2, <2>3 DEF Next
<1>3. PathsInv => PathNamesParent
  BY DEF PathsInv, PathsAgree, RowPaths, Names, Ends, Linked, PathNamesParent
<1>. QED BY <1>1, <1>2, <1>3, SettingsInvCorrect, PTL DEF Spec

=============================================================================
