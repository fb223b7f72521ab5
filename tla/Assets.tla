------------------------------- MODULE Assets -------------------------------
(***************************************************************************)
(* The tree of assets of each customer: AssetService over the assets table.*)
(*                                                                         *)
(* An asset stores the path from its customer down to itself and its       *)
(* depth, and apart from them its parent.  Every check of a move that the  *)
(* service makes the repository makes again on rows it reads later, so a   *)
(* move begins here with the service's checks in one step.  Left out are   *)
(* updates, which touch none of this, and codes, whose checks only refuse. *)
(***************************************************************************)
EXTENDS Requests, Integers, Sequences, FiniteSets, FiniteSetsExt, Lists

CONSTANTS
  MaxAssets,    \* bound: assets, one of which is there from the start
  Customer

VARIABLE asset

Asset == 1 .. MaxAssets     \* ids, in the order of creation
NoAsset == 0

AssetRow == [state : {"unborn", "there", "gone"}, customer : Customer, parent : Asset \cup {NoAsset},
             path : Seq(Customer \cup Asset), depth : Int]

UnbornAsset == [state |-> "unborn", customer |-> CHOOSE c \in Customer : TRUE, parent |-> NoAsset,
                path |-> <<>>, depth |-> 0]

There(a) == a \in Asset /\ asset[a].state = "there"
NewAssets == {a \in Asset : asset[a].state = "unborn"}
Children(a) == {b \in Asset : There(b) /\ asset[b].parent = a}
Descendants(path) == {b \in Asset : There(b) /\ IsStrictPrefix(path, asset[b].path)}

AssetsTypeOK ==
  /\ RequestsTypeOK
  /\ asset \in [Asset -> AssetRow]

\* The customer has a first asset.
FirstAsset == [UnbornAsset EXCEPT !.state = "there", !.path = <<UnbornAsset.customer, 1>>]

AssetsInit ==
  /\ RequestsInit
  /\ asset = [a \in Asset |-> IF a = 1 THEN FirstAsset ELSE UnbornAsset]

-----------------------------------------------------------------------------
\* Requests

FitsBelow(p, c) == There(p) /\ asset[p].customer = c

CreateAsset(r, c, p) ==
  /\ NewAssets # {}
  /\ p = NoAsset \/ FitsBelow(p, c)
  /\ Begin(r, [pc |-> IF p = NoAsset THEN "insertAsset" ELSE "assetParent", customer |-> c, parent |-> p,
               above |-> <<c>>, depth |-> 0])
  /\ UNCHANGED asset

\* Whether the path of p starts with that of a: p is a, or was below it.
Circular(a, p) == IsPrefix(asset[a].path, asset[p].path)

MoveAsset(r, a, p, c) ==
  /\ There(a)
  /\ p # NoAsset => FitsBelow(p, c) /\ ~Circular(a, p)
  /\ Begin(r, [pc |-> "moved", asset |-> a, parent |-> p, customer |-> c])
  /\ UNCHANGED asset

\* Service and repository both look for children.
DeleteAsset(r, a) ==
  /\ There(a)
  /\ Begin(r, [pc |-> "children", asset |-> a, looks |-> 2])
  /\ UNCHANGED asset

-----------------------------------------------------------------------------
\* Statements of a creation

ReadAssetParent(r) ==
  LET c == call[r] IN
  /\ At(r, "assetParent")
  /\ IF FitsBelow(c.parent, c.customer)
       THEN Goes(r, [c EXCEPT !.pc = "insertAsset", !.above = asset[c.parent].path,
                       !.depth = asset[c.parent].depth + 1])
       ELSE Done(r)
  /\ UNCHANGED asset

InsertAsset(r) ==
  LET c == call[r]
      a == Min(NewAssets)
  IN
  /\ At(r, "insertAsset")
  /\ NewAssets # {}
  /\ asset' = [asset EXCEPT ![a] = [state |-> "there", customer |-> c.customer, parent |-> c.parent,
                 path |-> Append(c.above, a), depth |-> c.depth]]
  /\ Done(r)

-----------------------------------------------------------------------------
\* Statements of a deletion

LookForChildren(r) ==
  LET c == call[r] IN
  /\ At(r, "children")
  /\ IF Children(c.asset) # {} THEN Done(r)
     ELSE IF c.looks = 1 THEN Goes(r, [pc |-> "dropAsset", asset |-> c.asset])
     ELSE Goes(r, [c EXCEPT !.looks = 1])
  /\ UNCHANGED asset

\* used: the assets that foreign keys keep.
DropAsset(r, used) ==
  LET a == call[r].asset IN
  /\ At(r, "dropAsset")
  /\ asset' = IF a \in used THEN asset ELSE [asset EXCEPT ![a] = [UnbornAsset EXCEPT !.state = "gone"]]
  /\ Done(r)

-----------------------------------------------------------------------------
\* Statements of a move.  from: the asset as it was read; to, depth: its new path
\* and depth.

Placing(r, c, from, above, depth) ==
  Goes(r, [pc |-> IF c.customer = from.customer THEN "path" ELSE "customer", asset |-> c.asset,
           parent |-> c.parent, customer |-> c.customer, from |-> from, to |-> Append(above, c.asset),
           depth |-> depth])

ReadMoved(r) ==
  LET c == call[r] IN
  /\ At(r, "moved")
  /\ IF ~There(c.asset) THEN Done(r)
     ELSE IF c.parent = NoAsset THEN Placing(r, c, asset[c.asset], <<c.customer>>, 0)
     ELSE Goes(r, [pc |-> "newParent", asset |-> c.asset, parent |-> c.parent, customer |-> c.customer,
                   from |-> asset[c.asset]])
  /\ UNCHANGED asset

ReadNewParent(r) ==
  LET c == call[r]
      p == asset[c.parent]
  IN
  /\ At(r, "newParent")
  /\ IF FitsBelow(c.parent, c.customer) /\ ~IsPrefix(c.from.path, p.path)
       THEN Placing(r, c, c.from, p.path, p.depth + 1)
       ELSE Done(r)
  /\ UNCHANGED asset

\* A statement that finds no row changes nothing.
Set(a, row) == IF There(a) THEN [asset EXCEPT ![a] = row] ELSE asset

\* Only a move to another customer writes the parent.
SaveCustomer(r) ==
  LET c == call[r] IN
  /\ At(r, "customer")
  /\ asset' = Set(c.asset, [asset[c.asset] EXCEPT !.customer = c.customer, !.parent = c.parent])
  /\ Goes(r, [c EXCEPT !.pc = "path"])

\* Mutation of SavePath: the path keeps the customer it started from.
SavePathHome(r) ==
  LET c == call[r] IN
  /\ At(r, "path")
  /\ asset' = Set(c.asset, [asset[c.asset] EXCEPT !.path = <<Head(c.from.path)>> \o Tail(c.to), !.depth = c.depth])
  /\ Goes(r, [c EXCEPT !.pc = "below"])

SavePath(r) ==
  LET c == call[r] IN
  /\ At(r, "path")
  /\ asset' = Set(c.asset, [asset[c.asset] EXCEPT !.path = c.to, !.depth = c.depth])
  /\ Goes(r, [c EXCEPT !.pc = "below"])

\* getDescendants looks for what is below the path that the asset has by now.
ReadBelow(r) ==
  LET c == call[r] IN
  /\ At(r, "below")
  /\ IF There(c.asset)
       THEN Goes(r, [pc |-> "select", asset |-> c.asset, customer |-> c.customer, from |-> c.from,
                     to |-> c.to, depth |-> c.depth, path |-> asset[c.asset].path])
       ELSE Done(r)
  /\ UNCHANGED asset

SelectBelow(r) ==
  LET c == call[r]
      found == {[id |-> b, path |-> asset[b].path, depth |-> asset[b].depth] : b \in Descendants(c.path)}
  IN
  /\ At(r, "select")
  /\ IF found = {} THEN Done(r)
     ELSE Goes(r, [pc |-> "descend", customer |-> c.customer, from |-> c.from, to |-> c.to,
                   depth |-> c.depth, found |-> found])
  /\ UNCHANGED asset

\* path.replace(oldPath, newPath): both begin at the root.
Replace(path, old, new) ==
  IF IsPrefix(old, path) THEN new \o SubSeq(path, Len(old) + 1, Len(path)) ELSE path

\* The next descendant, as it was found: its path and depth, then its customer.
SaveDescendant(r) ==
  LET c == call[r]
      d == CHOOSE x \in c.found : \A y \in c.found : x.depth < y.depth \/ (x.depth = y.depth /\ x.id <= y.id)
      rest == c.found \ {d}
  IN
  /\ At(r, "descend")
  /\ asset' = Set(d.id, [asset[d.id] EXCEPT !.path = Replace(d.path, c.from.path, c.to),
                            !.depth = d.depth + c.depth - c.from.depth])
  /\ IF c.customer # c.from.customer THEN Goes(r, [c EXCEPT !.pc = "descendCustomer", !.found = {d} \cup rest])
     ELSE IF rest = {} THEN Done(r)
     ELSE Goes(r, [c EXCEPT !.found = rest])

SaveDescendantCustomer(r) ==
  LET c == call[r]
      d == CHOOSE x \in c.found : \A y \in c.found : x.depth < y.depth \/ (x.depth = y.depth /\ x.id <= y.id)
      rest == c.found \ {d}
  IN
  /\ At(r, "descendCustomer")
  /\ asset' = Set(d.id, [asset[d.id] EXCEPT !.customer = c.customer])
  /\ IF rest = {} THEN Done(r) ELSE Goes(r, [c EXCEPT !.pc = "descend", !.found = rest])

AssetSteps(r, used) ==
  \/ \E c \in Customer, p \in Asset \cup {NoAsset} :
       \/ CreateAsset(r, c, p)
       \/ \E a \in Asset : MoveAsset(r, a, p, c)
  \/ \E a \in Asset : DeleteAsset(r, a)
  \/ ReadAssetParent(r) \/ InsertAsset(r) \/ LookForChildren(r) \/ DropAsset(r, used)
  \/ ReadMoved(r) \/ ReadNewParent(r) \/ SaveCustomer(r) \/ SavePath(r)
  \/ ReadBelow(r) \/ SelectBelow(r) \/ SaveDescendant(r) \/ SaveDescendantCustomer(r)

AssetsNext ==
  \E r \in Request :
    \/ AssetSteps(r, {})
    \/ Fails(r) /\ UNCHANGED asset

AssetsSpec == AssetsInit /\ [][AssetsNext]_<<asset, requests>>

-----------------------------------------------------------------------------
\* Correctness

\* Between requests that come one after the other, the customer of an asset is the
\* one its path starts from, although a move leaves the assets below where they
\* were and finds, below its new place, assets that an earlier move left there.
PathNamesCustomer == Settled => \A a \in Asset : There(a) => Head(asset[a].path) = asset[a].customer

\* Between such requests the parent of an asset exists, although moves within a
\* customer do not write it and the check for children goes by it.
ParentsExist == Settled => \A a \in Asset : There(a) => asset[a].parent \in {NoAsset} \cup {b \in Asset : There(b)}

\* However requests overlap, the path of an asset ends in the asset itself, which
\* is what getAncestors cuts off.
PathEndsInSelf == \A a \in Asset : There(a) => Len(asset[a].path) > 1 /\ Last(asset[a].path) = a

-----------------------------------------------------------------------------
\* What comments of the code say and the code does not do

\* "Update all descendants' paths" (AssetRepository.ts:389).
PathsFollow ==
  Settled => \A a \in Asset : There(a) /\ asset[a].parent # NoAsset =>
    IsPrefix(asset[asset[a].parent].path, asset[a].path)

\* "Update path and depth" (AssetRepository.ts:386): the depth counts the path.
DepthCountsPath == Settled => \A a \in Asset : There(a) => asset[a].depth = Len(asset[a].path) - 2

\* "Check for circular reference" (AssetRepository.ts:359).
NoAssetCycle ==
  Settled => \A S \in SUBSET Asset \ {{}} : \E a \in S : There(a) => asset[a].parent \notin S
=============================================================================
