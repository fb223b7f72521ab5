------------------------------ MODULE Listings ------------------------------
(***************************************************************************)
(* Lists read page by page.  Each list of a repository selects the rows    *)
(* that fit, orders them by one column, and cuts out a page: after as many *)
(* rows as the caller has had, or from the time of the last one.  Nothing  *)
(* is held between two pages: rows come, go and change, and rows of one    *)
(* key stand in any order, another in every page.                          *)
(*                                                                         *)
(* The lists differ in what they are ordered by, in whether what decides   *)
(* that a row fits can change, in what is left to filter when the page has *)
(* been cut, and in how the next page is asked for.  One reader goes       *)
(* through one of them, and the others change its rows.  Keys stand for    *)
(* names and times; where times are keys, two of them make a millisecond.  *)
(***************************************************************************)
EXTENDS Integers, Sequences, FiniteSets, FiniteSetsExt, Lists

CONSTANTS
  MaxRows,      \* bound: rows, all but one of which are there from the start
  MaxKey,       \* bound: names, or times
  PageSize,
  MaxPages,     \* bound: pages read
  MaxChanges    \* bound: changes while the reader is under way

VARIABLES
  list,         \* the list that is read
  item,         \* its table
  reader,
  seen,         \* the rows the reader has had, in order
  changes,
  stood,        \* history: the rows that have fitted, under one key, since the reader began
  went, came,   \* history: the rows that went, or came, in front of the reader's place
  tied          \* history: two rows have shared a key

listings == <<list, item, reader, seen, changes, stood, went, came, tied>>

-----------------------------------------------------------------------------
\* The lists: what they are ordered by, which filters the query has, which are applied
\* to the page, and how a page follows the one before

Paged(by, where) == [by |-> by, where |-> where, after |-> {}, next |-> "offset"]

ListAssets == Paged("createdAt", {"type", "status"})
ListAssetsOfCustomer == Paged("name", {"customerId", "type", "status"})
ListCentrals == Paged("createdAt", {"customerId", "assetId", "type", "status", "connectionStatus"})
ListKeys == Paged("createdAt", {"customerId", "isActive"})
ListCustomers == Paged("createdAt", {})
ListCustomersWithFilters == Paged("name", {"type", "status", "parentCustomerId"})
ListDevices == Paged("createdAt", {"type", "status", "connectivityStatus"})
ListDevicesOfAsset == Paged("name", {"assetId", "type", "status", "connectivityStatus"})
ListDevicesOfCustomer == Paged("name", {"customerId", "type", "status", "connectivityStatus"})
FindDevicesByCentral == Paged("name", {"centralId", "status"})
FindDevicesByProfile == Paged("name", {"deviceProfile", "status"})
FindDevicesByType == Paged("name", {"deviceType", "status"})
ListDomainPermissions == Paged("key", {"domain", "equipment", "location", "action", "isActive"})
ListGroups == [Paged("name", {"customerId", "type", "status", "search"}) EXCEPT !.after = {"purpose", "tag"}]
SearchPackages ==
  [Paged("name", {"category", "type", "status", "verified", "query"}) EXCEPT !.after = {"pricing"}]
ListThemes == Paged("name", {"customerId"})
ListMaintenanceGroups == Paged("name", {"customerId", "isActive", "search"})
ListPartners == Paged("createdAt", {})
ListPartnersWithFilters == Paged("name", {"status"})
ListPolicies == Paged("createdAt", {})
ListPoliciesWithFilters == Paged("name", {"riskLevel", "isSystem"})
ListRoles == Paged("createdAt", {})
ListRolesWithFilters == Paged("name", {"riskLevel", "isSystem"})
ListAssignments == Paged("createdAt", {})
ListRules == Paged("createdAt", {})
ListRulesWithFilters == Paged("name", {"type", "priority", "customerId", "enabled", "status"})
ListUsers == Paged("createdAt", {"customerId", "partnerId", "type", "status", "search"})

\* The caller counts: there is no more when a page is not full.
ListSessions == [by |-> "newest", where |-> {"status"}, after |-> {}, next |-> "count"]
ListEvents == [by |-> "newest", where |-> {"eventType"}, after |-> {}, next |-> "count"]

\* The cursor is the time of the last row of the page, down to the millisecond.
ListAuditLogs ==
  [by |-> "newest", after |-> {}, next |-> "time",
   where |-> {"customerId", "userId", "eventType", "eventCategory", "entityType", "entityId", "action", "from", "to"}]
ListAuditLogsOldestFirst == [ListAuditLogs EXCEPT !.by = "createdAt"]

Lists == {ListAssets, ListAssetsOfCustomer, ListCentrals, ListKeys, ListCustomers, ListCustomersWithFilters,
  ListDevices, ListDevicesOfAsset, ListDevicesOfCustomer, FindDevicesByCentral, FindDevicesByProfile,
  FindDevicesByType, ListDomainPermissions, ListGroups, SearchPackages, ListThemes, ListMaintenanceGroups,
  ListPartners, ListPartnersWithFilters, ListPolicies, ListPoliciesWithFilters, ListRoles,
  ListRolesWithFilters, ListAssignments, ListRules, ListRulesWithFilters, ListUsers, ListSessions,
  ListEvents, ListAuditLogs, ListAuditLogsOldestFirst}

\* What tells the lists apart.  Entries of the trail and events of a session do not change.
Filtered(l) == l.where # {} /\ l.next # "time" /\ l # ListEvents
Shape(l) == [by |-> l.by, filtered |-> Filtered(l), late |-> l.after # {}, next |-> l.next]

ByTime(l) == l.by \in {"createdAt", "newest"}

-----------------------------------------------------------------------------

Item == 1 .. MaxRows
Key == 1 .. MaxKey

\* fits: passes the query; tagged: passes the filters of the page.
ItemRow == [state : {"unborn", "there", "gone"}, key : Key, fits : BOOLEAN, tagged : BOOLEAN]

Stands(i, table) == table[i].state = "there" /\ table[i].fits
Fitting == {i \in Item : Stands(i, item)}

Precedes(i, j) == IF list.by = "newest" THEN item[i].key > item[j].key ELSE item[i].key < item[j].key

Ties(rows, table) == \E i, j \in rows : i # j /\ table[i].key = table[j].key

ListingsTypeOK ==
  /\ list \in {Shape(l) : l \in Lists}
  /\ item \in [Item -> ItemRow]
  /\ reader.state \in {"reading", "done"} /\ reader.offset \in Nat /\ reader.since \in Key \cup {0}
  /\ reader.pages \in 0 .. MaxPages
  /\ seen \in Seq(Item)
  /\ changes \in 0 .. MaxChanges
  /\ stood \subseteq Fitting

\* Rows are numbered in the order of their keys.
ListingsInit ==
  /\ list \in {Shape(l) : l \in Lists}
  /\ item \in {f \in [Item -> [state : {"unborn", "there"}, key : Key, fits : {TRUE}, tagged : BOOLEAN]] :
       /\ \A i \in Item : f[i].state = IF i < MaxRows THEN "there" ELSE "unborn"
       /\ \A i \in 1 .. MaxRows - 2 : f[i].key <= f[i + 1].key /\ (list.by = "key" => f[i].key # f[i + 1].key)
       /\ f[MaxRows].key = 1 /\ f[MaxRows].tagged
       /\ list.late \/ \A i \in Item : f[i].tagged}
  /\ reader = [state |-> "reading", offset |-> 0, since |-> 0, pages |-> 0]
  /\ seen = <<>>
  /\ changes = 0
  /\ stood = Fitting
  /\ went = 0 /\ came = 0
  /\ tied = Ties(Fitting, item)

-----------------------------------------------------------------------------
\* A page

\* The rows that fit, in an order that the database may return them in.
Ordered(s) == \A m, n \in DOMAIN s : m < n => ~Precedes(s[n], s[m])

Millisecond(key) == (key - 1) \div 2

\* A key that begins its millisecond is no later than the cursor made of it.
AfterCursor(i) ==
  \/ list.next # "time" \/ reader.since = 0
  \/ LET start == 2 * Millisecond(reader.since) + 1 IN
     IF list.by = "newest" THEN item[i].key < start ELSE item[i].key > start

\* The query asks for one row more than the page, to see whether there is more.
Limit == IF list.next = "count" THEN PageSize ELSE PageSize + 1

Slice(s, m, n) == SubSeq(s, m, Min({n, Len(s)}))

Cut(s) == Slice(s, reader.offset + 1, reader.offset + Limit)

Tagged(i) == item[i].tagged

Page(rows) == Slice(rows, 1, PageSize)
HasMore(rows) == IF list.next = "count" THEN Len(rows) = PageSize ELSE Len(rows) > PageSize

\* Mutation of NextPlace: one row too far.
NextPlaceFurther(page) ==
  IF list.next = "time" THEN [reader EXCEPT !.since = item[Last(page)].key]
  ELSE [reader EXCEPT !.offset = @ + PageSize + 1]

NextPlace(page) ==
  IF list.next = "time" THEN [reader EXCEPT !.since = item[Last(page)].key]
  ELSE [reader EXCEPT !.offset = @ + PageSize]

ReadPage ==
  /\ reader.state = "reading"
  /\ reader.pages < MaxPages
  /\ \E s \in SetToSeqs({i \in Fitting : AfterCursor(i)}) :
       /\ Ordered(s)
       /\ LET rows == SelectSeq(Cut(s), Tagged) IN
          /\ seen' = seen \o Page(rows)
          /\ reader' = [(IF HasMore(rows) THEN NextPlace(Page(rows)) ELSE [reader EXCEPT !.state = "done"])
                        EXCEPT !.pages = @ + 1]
  /\ UNCHANGED <<list, item, changes, stood, went, came, tied>>

-----------------------------------------------------------------------------
\* Changes

\* The rows in front of the reader's place are those with fewer than offset before them.
InFront(i, table) ==
  LET before(j) == IF list.by = "newest" THEN table[j].key > table[i].key ELSE table[j].key < table[i].key
  IN Cardinality({j \in Item : Stands(j, table) /\ before(j)}) < reader.offset

Changed(i, row) ==
  LET table == [item EXCEPT ![i] = row] IN
  /\ reader.state = "reading"
  /\ changes < MaxChanges
  /\ changes' = changes + 1
  /\ item' = table
  /\ stood' = stood \ {i}
  /\ went' = went + (IF Stands(i, item) /\ InFront(i, item) THEN 1 ELSE 0)
  /\ came' = came + (IF Stands(i, table) /\ InFront(i, table) THEN 1 ELSE 0)
  /\ tied' = (tied \/ Ties({j \in Item : Stands(j, table)}, table))
  /\ UNCHANGED <<list, reader, seen>>

\* What is created last has the greatest time.  A permission has a key of its own.
Add(i, key, tagged) ==
  /\ item[i].state = "unborn"
  /\ ByTime(list) => \A j \in Item : item[j].state = "there" => item[j].key <= key
  /\ list.by = "key" => \A j \in Item : item[j].state = "there" => item[j].key # key
  /\ tagged \/ list.late
  /\ Changed(i, [state |-> "there", key |-> key, fits |-> TRUE, tagged |-> tagged])

Delete(i) ==
  /\ item[i].state = "there"
  /\ Changed(i, [item[i] EXCEPT !.state = "gone"])

\* A status changes, a device moves, a permission is switched off.
Alter(i) ==
  /\ list.filtered
  /\ item[i].state = "there"
  /\ Changed(i, [item[i] EXCEPT !.fits = ~@])

Rename(i, key) ==
  /\ list.by = "name"
  /\ item[i].state = "there" /\ item[i].key # key
  /\ Changed(i, [item[i] EXCEPT !.key = key])

ListingsNext ==
  \/ ReadPage
  \/ \E i \in Item :
       \/ \E key \in Key : Rename(i, key) \/ \E tagged \in BOOLEAN : Add(i, key, tagged)
       \/ Delete(i) \/ Alter(i)

ListingsSpec == ListingsInit /\ [][ListingsNext]_listings

-----------------------------------------------------------------------------
\* Correctness

Had == {seen[n] : n \in DOMAIN seen}
Missed == stood \ Had
Repeats(rows) == Cardinality({n \in DOMAIN seen : seen[n] \in rows}) - Cardinality(Had \cap rows)

Counts == list.next # "time" /\ ~list.late

\* A reader that has come to the end of a list counted by offsets, in which no two rows
\* have shared a key, has missed no more of the rows that stood all the while than went
\* in front of its place, and had no more of them again than came there.
MissesBounded ==
  Counts /\ ~tied => /\ reader.state = "done" => Cardinality(Missed) <= went
                     /\ Repeats(stood) <= came

\* The newest entries of the trail first: none twice, whatever is added, and none missed
\* but of a millisecond of which another was had.
NewestOnce ==
  list.next = "time" /\ list.by = "newest" =>
    /\ Repeats(Item) = 0
    /\ reader.state = "done" => \A i \in Missed : \E j \in Had : Millisecond(item[i].key) = Millisecond(item[j].key)

\* The oldest first: whoever comes to the end has missed none but of a time of which
\* another was had.
OldestAll ==
  list.next = "time" /\ list.by = "createdAt" /\ reader.state = "done" =>
    \A i \in Missed : \E j \in Had : item[i].key = item[j].key

-----------------------------------------------------------------------------
\* What the pagination promises and the code does not do

AtRest == changes = 0

\* "For simplicity, we'll filter in memory for now" (GroupRepository.ts:219): a page from
\* which rows are dropped is taken for the last one.
FilteredFindsAll ==
  AtRest /\ list.late /\ ~tied /\ reader.state = "done" => \A i \in Missed : ~item[i].tagged

\* Nothing changes and rows are missed: names and times are no unique keys.
NoneMissedAtRest == AtRest /\ Counts /\ reader.state = "done" => Missed = {}

\* "Cursor-based pagination" (AuditLogRepository.ts:123): the entries of a millisecond
\* are not all had, newest first; oldest first, they are had again and again.
EntriesAllHad == AtRest /\ list.next = "time" /\ reader.state = "done" => Missed = {}
EntriesHadOnce == AtRest /\ list.next = "time" => Repeats(Item) = 0
=============================================================================
