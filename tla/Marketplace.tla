---------------------------- MODULE Marketplace ----------------------------
(***************************************************************************)
(* The integration marketplace: IntegrationService over the                *)
(* integration_packages and package_subscriptions tables.                  *)
(*                                                                         *)
(* The service reads a package and decides; the repository reads it again  *)
(* and writes it under the version it has read, so that the decision may   *)
(* be older than what the write is compared with.  The packages here all   *)
(* ask for one slug, which a unique index gives to one of them at a time,  *)
(* and their publisher, an active partner, makes the requests about them.  *)
(* A version is a number; 0 stands for 0.0.0.  Left out is deprecation,    *)
(* which no route leads to.                                                *)
(***************************************************************************)
EXTENDS Requests, Sequences, FiniteSets, FiniteSetsExt, Lists

CONSTANTS
  MaxPackages,  \* bound: packages created
  Subscriber,
  Version       \* bound: the versions publishers ask for

VARIABLES
  package,
  subscription, \* by package and subscriber, which a unique index allows one row
  submitted     \* history: packages that were submitted for review

tables == <<package, subscription, submitted>>
vars == <<tables, requests>>

Package == 1 .. MaxPackages     \* ids, in the order of creation

PackageStatus == {"DRAFT", "PENDING_REVIEW", "PUBLISHED"}

PackageRow == [status : PackageStatus \cup {"unborn", "deleted"}, current : {0} \cup Version,
               versions : Seq(Version), subscribers : Nat, version : Nat]

Unborn == [status |-> "unborn", current |-> 0, versions |-> <<>>, subscribers |-> 0, version |-> 0]
Draft == [Unborn EXCEPT !.status = "DRAFT", !.version = 1]

SubscriptionStatus == {"none", "ACTIVE", "CANCELLED"}

Present(p) == package[p].status \in PackageStatus
SlugTaken == \E p \in Package : Present(p)
Unborns == {p \in Package : package[p] = Unborn}
Subscribed(p) == {s \in Subscriber : subscription[p, s] # "none"}

MarketTypeOK ==
  /\ RequestsTypeOK
  /\ package \in [Package -> PackageRow]
  /\ subscription \in [Package \X Subscriber -> SubscriptionStatus]
  /\ submitted \subseteq Package

MarketInit ==
  /\ RequestsInit
  /\ package = [p \in Package |-> Unborn]
  /\ subscription = [k \in Package \X Subscriber |-> "none"]
  /\ submitted = {}

-----------------------------------------------------------------------------
\* Requests: what the service reads and decides first

CreatePackage(r) ==
  /\ ~SlugTaken
  /\ Unborns # {}
  /\ Begin(r, [pc |-> "create"])
  /\ UNCHANGED tables

\* edit: what the write will make of the row the repository reads.
Edit(r, p, edit, arg) ==
  /\ Begin(r, [pc |-> "read", package |-> p, edit |-> edit, arg |-> arg])
  /\ UNCHANGED tables

UpdatePackage(r, p) == Present(p) /\ Edit(r, p, "update", 0)

SubmitForReview(r, p) == package[p].status = "DRAFT" /\ Edit(r, p, "submit", 0)

ReviewPackage(r, p) ==
  /\ package[p].status = "PENDING_REVIEW"
  /\ \E edit \in {"approve", "reject"} : Edit(r, p, edit, 0)

PublishVersion(r, p, v) ==
  /\ Present(p) /\ package[p].status # "DRAFT"
  /\ v > package[p].current
  /\ Edit(r, p, "publish", v)

DeletePackage(r, p) ==
  /\ Present(p)
  /\ package[p].subscribers = 0
  /\ Begin(r, [pc |-> "delete", package |-> p])
  /\ UNCHANGED tables

Subscribe(r, p, s) ==
  /\ package[p].status = "PUBLISHED"
  /\ Begin(r, [pc |-> "check", package |-> p, by |-> s])
  /\ UNCHANGED tables

\* A cancelled subscription is cancelled again.
Unsubscribe(r, p, s) ==
  /\ s \in Subscribed(p)
  /\ Begin(r, [pc |-> "cancel", package |-> p, by |-> s])
  /\ UNCHANGED tables

-----------------------------------------------------------------------------
\* Statements

InsertPackage(r) ==
  /\ At(r, "create")
  /\ package' = IF SlugTaken \/ Unborns = {} THEN package ELSE [package EXCEPT ![Min(Unborns)] = Draft]
  /\ Done(r)
  /\ UNCHANGED <<subscription, submitted>>

\* The repository reads the package; a package that has gone is not found.
ReadPackage(r) ==
  LET p == call[r].package IN
  /\ At(r, "read")
  /\ IF Present(p)
       THEN Goes(r, [pc |-> "write", package |-> p, edit |-> call[r].edit, arg |-> call[r].arg,
                     seen |-> package[p]])
       ELSE Done(r)
  /\ UNCHANGED tables

Status(edit, seen) ==
  CASE edit = "submit" -> "PENDING_REVIEW"
    [] edit \in {"approve", "publish"} -> "PUBLISHED"
    [] edit = "reject" -> "DRAFT"
    [] edit = "update" -> seen.status

\* What a publication stores: the list of versions it has read and one more.
Published(seen, v) == [seen EXCEPT !.current = v, !.versions = Append(@, v)]

\* Mutation of Written: the version of the row is not compared.
WrittenAnyway(c) == Present(c.package)

Written(c) == c.seen.version = package[c.package].version /\ Present(c.package)

\* The row after the edit.  The number of subscribers is not part of the statement.
Edited(c) ==
  [(IF c.edit = "publish" THEN Published(c.seen, c.arg) ELSE c.seen) EXCEPT
     !.status = Status(c.edit, c.seen), !.version = @ + 1, !.subscribers = package[c.package].subscribers]

WritePackage(r) ==
  LET c == call[r]
      p == c.package
  IN
  /\ At(r, "write")
  /\ package' = IF Written(c) THEN [package EXCEPT ![p] = Edited(c)] ELSE package
  /\ submitted' = IF Written(c) /\ c.edit = "submit" THEN submitted \cup {p} ELSE submitted
  /\ Done(r)
  /\ UNCHANGED subscription

\* The foreign key of package_subscriptions keeps a package that has rows there,
\* cancelled ones too.
DropPackage(r) ==
  LET p == call[r].package IN
  /\ At(r, "delete")
  /\ package' = IF Present(p) /\ Subscribed(p) = {}
                  THEN [package EXCEPT ![p] = [Unborn EXCEPT !.status = "deleted"]] ELSE package
  /\ Done(r)
  /\ UNCHANGED <<subscription, submitted>>

CheckSubscription(r) ==
  LET c == call[r] IN
  /\ At(r, "check")
  /\ IF subscription[c.package, c.by] = "ACTIVE" THEN Done(r) ELSE Goes(r, [c EXCEPT !.pc = "insert"])
  /\ UNCHANGED tables

\* The unique index refuses a second row, also where the first is cancelled.
InsertSubscription(r) ==
  LET c == call[r] IN
  /\ At(r, "insert")
  /\ IF c.by \notin Subscribed(c.package) /\ Present(c.package)
       THEN /\ subscription' = [subscription EXCEPT ![<<c.package, c.by>>] = "ACTIVE"]
            /\ Goes(r, [c EXCEPT !.pc = "count"])
       ELSE UNCHANGED subscription /\ Done(r)
  /\ UNCHANGED <<package, submitted>>

IncrementSubscriberCount(r) ==
  /\ At(r, "count")
  /\ package' = [package EXCEPT ![call[r].package].subscribers = @ + 1]
  /\ Done(r)
  /\ UNCHANGED <<subscription, submitted>>

CancelSubscription(r) ==
  LET c == call[r] IN
  /\ At(r, "cancel")
  /\ subscription' = [subscription EXCEPT ![<<c.package, c.by>>] = "CANCELLED"]
  /\ Goes(r, [c EXCEPT !.pc = "uncount"])
  /\ UNCHANGED <<package, submitted>>

DecrementSubscriberCount(r) ==
  /\ At(r, "uncount")
  /\ package' = [package EXCEPT ![call[r].package].subscribers = IF @ > 0 THEN @ - 1 ELSE 0]
  /\ Done(r)
  /\ UNCHANGED <<subscription, submitted>>

MarketNext ==
  \E r \in Request :
    \/ CreatePackage(r)
    \/ \E p \in Package :
         \/ UpdatePackage(r, p) \/ SubmitForReview(r, p)
         \/ ReviewPackage(r, p) \/ DeletePackage(r, p)
         \/ \E v \in Version : PublishVersion(r, p, v)
         \/ \E s \in Subscriber : Subscribe(r, p, s) \/ Unsubscribe(r, p, s)
    \/ InsertPackage(r) \/ ReadPackage(r) \/ WritePackage(r) \/ DropPackage(r)
    \/ CheckSubscription(r) \/ InsertSubscription(r) \/ IncrementSubscriberCount(r)
    \/ CancelSubscription(r) \/ DecrementSubscriberCount(r)
    \/ Fails(r) /\ UNCHANGED tables

MarketSpec == MarketInit /\ [][MarketNext]_vars

-----------------------------------------------------------------------------
\* Correctness

\* However publishers overlap, no version that was published is lost or reordered
\* in the list of versions, and the current one is the last of the list: two
\* publishers may both have passed the comparison with the current version
\* (IntegrationService.ts:161), but each writes under the row it has read.
OnlyAppends ==
  \A p \in Package : Present(p) /\ Present(p)' =>
    /\ IsPrefix(package[p].versions, package'[p].versions)
    /\ Len(package'[p].versions) <= Len(package[p].versions) + 1

VersionsOnlyAppended == [][OnlyAppends]_package

CurrentIsLast ==
  \A p \in Package :
    package[p].current = IF package[p].versions = <<>> THEN 0 ELSE Last(package[p].versions)

\* A package is published only if it was submitted for review before, although
\* the status that is written was decided from a row that may be out of date.
PublishedWasSubmitted ==
  \A p \in Package : package[p].status = "PUBLISHED" => p \in submitted

\* The count of subscribers never exceeds the subscriptions that were made, the
\* ones a request has yet to count included: losing a count to a request that
\* dies, or cancelling twice, can only make it too small.
CountWithinSubscriptions ==
  \A p \in Package :
    package[p].subscribers + Cardinality({r \in Request : At(r, "count") /\ call[r].package = p})
      <= Cardinality(Subscribed(p))

-----------------------------------------------------------------------------
\* What comments of the code say and the code does not do

\* "Check version is greater than current" (IntegrationService.ts:156).
VersionsGrow ==
  \A p \in Package : \A i \in 2 .. Len(package[p].versions) :
    package[p].versions[i] > package[p].versions[i - 1]

\* "Can't delete packages with active subscribers" (IntegrationService.ts:116) is
\* decided by the stored count: it covers the subscriptions that are active.
ActiveAreCounted ==
  \A p \in Package :
    package[p].subscribers = 0 /\ (\A r \in Request : At(r, "idle")) =>
      \A s \in Subscriber : subscription[p, s] # "ACTIVE"
=============================================================================
