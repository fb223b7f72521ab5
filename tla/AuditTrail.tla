----------------------------- MODULE AuditTrail -----------------------------
(***************************************************************************)
(* The audit trail of customers: the middleware logEvent around the routes *)
(* of customers.controller, over the audit_logs table.                     *)
(*                                                                         *)
(* A route reads the customer for the log, and the service reads it again  *)
(* before it writes it.  When the answer has been sent, the middleware     *)
(* prepares an entry and does not wait for its insertion, which may be     *)
(* lost, or be passed by a later one.  What a value holds is sanitized     *)
(* first.  Documents are small trees of JSON; the place of a customer in   *)
(* the hierarchy, the merging of its settings and the refusals that depend *)
(* on other customers are those of CustomerTree, and the checks of codes   *)
(* only refuse.                                                            *)
(***************************************************************************)
EXTENDS Requests, Integers, Sequences, FiniteSets, FiniteSetsExt

CONSTANT
  MaxCustomers  \* bound: customers created

VARIABLES
  customer,
  change,       \* history: every write of a customer, with the stamps before and after
  entry,        \* the audit_logs table, in the order of createdAt
  pending,      \* insertions nobody waits for
  level,        \* AUDIT_LEVEL
  unlogged      \* history: the requests whose entry was never made, or was lost

trail == <<customer, change, entry, pending, level, unlogged>>

-----------------------------------------------------------------------------
\* Documents, and what sanitizePII leaves of them

Secret == [text |-> "secret"]
Address == [text |-> "somebody@example"]
Masked == [text |-> "s***y@example"]
Redacted == [text |-> "***REDACTED***"]
Date == [date |-> "created"]
Object(fields) == [fields |-> fields]
List(items) == [items |-> items]
Empty == Object(<<>>)

IsList(v) == "items" \in DOMAIN v
IsObject(v) == DOMAIN v \cap {"fields", "date"} # {}

\* Object.entries: a Date has none.
Entries(v) == IF "fields" \in DOMAIN v THEN v.fields ELSE <<>>

SensitiveKey == {"password", "apiKey"}
EmailKey == {"email", "emails"}

Contact == Object([password |-> Secret, email |-> Address])

\* What a request puts in the columns that are replaced whole.
Payload ==
  Object([email |-> Address, emails |-> List(<<Address>>), apiKey |-> Secret,
          contacts |-> List(<<Contact>>)])

\* A row of a customer, as it is logged.
CustomerRow == Object([address |-> Payload, createdAt |-> Date])

\* The documents that are sanitized.
Document == {Empty, Date, Contact, Payload, CustomerRow}

\* Mutation of Item: what is in a list is not looked at.
ItemAsIs(v, sanitized) == v

\* What stays of an item of a list.
Item(v, sanitized) == IF IsObject(v) THEN sanitized ELSE v

Sanitized[t \in Document] ==
  LET Kept(k, v) ==
        CASE k \in SensitiveKey -> Redacted
          [] k \notin SensitiveKey /\ IsList(v) ->
               List([i \in DOMAIN v.items |-> Item(v.items[i], Sanitized[v.items[i]])])
          [] k \notin SensitiveKey /\ IsObject(v) -> Sanitized[v]
          [] OTHER -> IF k \in EmailKey /\ v = Address THEN Masked ELSE v
  IN Object([k \in DOMAIN Entries(t) |-> Kept(k, Entries(t)[k])])

\* The secrets that a document, sanitized or not, still shows.
Exposed[t \in Document \cup {Sanitized[d] : d \in Document}] ==
  \E k \in DOMAIN Entries(t) :
    LET v == Entries(t)[k] IN
    IF k \in SensitiveKey THEN v # Redacted
    ELSE IF IsList(v) THEN \E i \in DOMAIN v.items : IsObject(v.items[i]) /\ Exposed[v.items[i]]
    ELSE IsObject(v) /\ Exposed[v]

-----------------------------------------------------------------------------

Customer == 1 .. MaxCustomers

\* stamp tells the values of the rows apart.
Row == [there : BOOLEAN, version : Nat, stamp : Nat]

Event == {"CUSTOMER_CREATED", "CUSTOMER_UPDATED", "CUSTOMER_DELETED", "CUSTOMER_MOVED"}

There(c) == c \in Customer /\ customer[c].there
Unborn == {c \in Customer : customer[c].stamp = 0}
Stamp == Len(change) + 1    \* the next one

NoValue == [stamp |-> 0, document |-> Empty]
Value(row) == [stamp |-> row.stamp,
               document |-> Sanitized[CustomerRow]]

Logs == {entry[i] : i \in DOMAIN entry} \cup pending

TrailTypeOK ==
  /\ RequestsTypeOK
  /\ customer \in [Customer -> Row]
  /\ \A l \in Logs : l.event \in Event /\ l.customer \in Customer \cup {0} /\ l.ok \in BOOLEAN
  /\ Cardinality({l.no : l \in Logs}) = Len(entry) + Cardinality(pending)
  /\ level \in 1 .. 4
  /\ unlogged \subseteq 1 .. made

TrailInit ==
  /\ RequestsInit
  /\ customer = [c \in Customer |-> [there |-> FALSE, version |-> 0, stamp |-> 0]]
  /\ change = <<>>
  /\ entry = <<>>
  /\ pending = {}
  /\ level \in {1, 2}
  /\ unlogged = {}

\* The level an event is logged at: MINIMAL is 1 and STANDARD is 2.
LevelOf(event) == IF event = "CUSTOMER_DELETED" THEN 1 ELSE 2

ShouldLog(event) == level >= LevelOf(event)

-----------------------------------------------------------------------------
\* Routes

Route(r, pc, event, c) ==
  /\ Begin(r, [pc |-> pc, no |-> made + 1, event |-> event, customer |-> c, version |-> 0, old |-> NoValue])
  /\ UNCHANGED trail

CreateCustomer(r) == Unborn # {} /\ Route(r, "insert", "CUSTOMER_CREATED", 0)
UpdateCustomer(r, c) == c \notin Unborn /\ Route(r, "previous", "CUSTOMER_UPDATED", c)
DeleteCustomer(r, c) == c \notin Unborn /\ Route(r, "previous", "CUSTOMER_DELETED", c)
MoveCustomer(r, c) == c \notin Unborn /\ Route(r, "previous", "CUSTOMER_MOVED", c)

\* All that is left of the route c is to publish an event, whose failure is caught.
Answers(r, c, ok, new) ==
  Goes(r, [pc |-> "answer", no |-> c.no, event |-> c.event, customer |-> c.customer, ok |-> ok, old |-> c.old, new |-> new])

Refuses(r) == Answers(r, call[r], FALSE, NoValue)

\* The read for the log.
ReadPrevious(r) ==
  LET c == call[r] IN
  /\ At(r, "previous")
  /\ IF There(c.customer)
       THEN Goes(r, [c EXCEPT !.pc = "read", !.old = Value(customer[c.customer])])
       ELSE Refuses(r)
  /\ UNCHANGED trail

\* The body may be invalid, and the service may refuse for the sake of other customers.
ReadAgain(r) ==
  LET c == call[r] IN
  /\ At(r, "read")
  /\ \/ /\ There(c.customer)
        /\ Goes(r, [c EXCEPT !.pc = "write", !.version = customer[c.customer].version])
     \/ Refuses(r)
  /\ UNCHANGED trail

Stored(r, c, row) ==
  /\ customer' = [customer EXCEPT ![c] = row]
  /\ change' = Append(change, [no |-> call[r].no, event |-> call[r].event, customer |-> c,
                             from |-> customer[c].stamp, to |-> row.stamp])
  /\ UNCHANGED <<entry, pending, level, unlogged>>

Insert(r) ==
  LET c == Min(Unborn)
      row == [there |-> TRUE, version |-> 1, stamp |-> Stamp]
  IN
  /\ At(r, "insert")
  /\ Unborn # {}
  /\ Stored(r, c, row)
  /\ Answers(r, [call[r] EXCEPT !.customer = c], TRUE, Value(row))

Write(r) ==
  LET c == call[r]
      row == [customer[c.customer] EXCEPT !.version = c.version + 1, !.stamp = Stamp]
  IN
  /\ At(r, "write")
  /\ c.event = "CUSTOMER_UPDATED"
  /\ IF There(c.customer) /\ customer[c.customer].version = c.version
       THEN Stored(r, c.customer, row) /\ Answers(r, c, TRUE, Value(row))
       ELSE Refuses(r) /\ UNCHANGED trail

\* A DELETE that finds no row is as good as one that does.
Delete(r) ==
  LET c == call[r] IN
  /\ At(r, "write")
  /\ c.event = "CUSTOMER_DELETED"
  /\ IF There(c.customer)
       THEN Stored(r, c.customer, [customer[c.customer] EXCEPT !.there = FALSE, !.stamp = Stamp])
       ELSE UNCHANGED trail
  /\ Answers(r, c, TRUE, NoValue)

\* The path is stored first and the parent next, neither under the version.
Move(r) ==
  LET c == call[r] IN
  /\ c.pc \in {"write", "link"}
  /\ c.event = "CUSTOMER_MOVED"
  /\ IF There(c.customer)
       THEN Stored(r, c.customer, [customer[c.customer] EXCEPT !.stamp = Stamp])
       ELSE UNCHANGED trail
  /\ Goes(r, [c EXCEPT !.pc = IF c.pc = "write" THEN "link" ELSE "result"])

\* The descendants are read and stored, and the customer once more: when it has gone
\* meanwhile the move is refused, or answered without a value.
ReadMoved(r) ==
  LET c == call[r] IN
  /\ At(r, "result")
  /\ \/ Answers(r, c, TRUE, IF There(c.customer) THEN Value(customer[c.customer]) ELSE NoValue)
     \/ ~There(c.customer) /\ Refuses(r)
  /\ UNCHANGED trail

\* A statement is rejected, and has done nothing.
Rejected(r) ==
  /\ call[r].pc \in {"insert", "previous", "read", "write", "link", "result"}
  /\ Refuses(r)
  /\ UNCHANGED trail

-----------------------------------------------------------------------------
\* The end of a response

Entry(c) == [no |-> c.no, event |-> c.event, customer |-> c.customer, ok |-> c.ok, old |-> c.old, new |-> c.new]

\* 'finish'
Finish(r) ==
  LET c == call[r] IN
  /\ At(r, "answer")
  /\ pending' = IF ShouldLog(c.event) THEN pending \cup {Entry(c)} ELSE pending
  /\ Done(r)
  /\ UNCHANGED <<customer, change, entry, level, unlogged>>

\* The connection is closed before: there is no 'finish'.
CutOff(r) ==
  /\ At(r, "answer")
  /\ unlogged' = unlogged \cup {call[r].no}
  /\ Done(r)
  /\ UNCHANGED <<customer, change, entry, pending, level>>

StoreEntry(l) ==
  /\ entry' = Append(entry, l)
  /\ pending' = pending \ {l}
  /\ UNCHANGED <<customer, change, level, unlogged, requests>>

\* The insertion fails: for one, when the caller sent a request id that is no uuid.
LoseEntry(l) ==
  /\ unlogged' = unlogged \cup {l.no}
  /\ pending' = pending \ {l}
  /\ UNCHANGED <<customer, change, entry, level, requests>>

TrailNext ==
  \/ \E r \in Request :
       \/ CreateCustomer(r)
       \/ \E c \in Customer : UpdateCustomer(r, c) \/ DeleteCustomer(r, c) \/ MoveCustomer(r, c)
       \/ Insert(r) \/ ReadPrevious(r) \/ ReadAgain(r) \/ Write(r) \/ Delete(r) \/ Move(r) \/ ReadMoved(r)
       \/ Rejected(r) \/ Finish(r) \/ CutOff(r)
       \/ Fails(r) /\ unlogged' = unlogged \cup {call[r].no} /\ UNCHANGED <<customer, change, entry, pending, level>>
  \/ \E l \in pending : StoreEntry(l) \/ LoseEntry(l)

TrailSpec == TrailInit /\ [][TrailNext]_<<trail, requests>>

-----------------------------------------------------------------------------
\* Correctness

Own(l) == {k \in DOMAIN change : change[k].no = l.no}

\* Whatever overlaps, an entry never claims what did not happen: the new value of an
\* update is the one it wrote, that of a move is no older than what the move wrote, the
\* old value is no younger than what was replaced, and the entry of a refused request
\* has no new value, and leaves out no change but that of half a move.
EntriesTrue ==
  \A l \in Logs :
    /\ \A k \in Own(l) : change[k].customer = l.customer /\ l.old.stamp <= change[k].from
    /\ l.new # NoValue => l.ok /\ Own(l) # {} /\ \A k \in Own(l) : l.new.stamp >= change[k].to
    /\ l.event = "CUSTOMER_UPDATED" /\ l.ok => \E k \in Own(l) : l.new.stamp = change[k].to
    /\ l.ok \/ l.event = "CUSTOMER_MOVED" \/ Own(l) = {}

\* As long as requests come one after the other, the old value of an entry is the one
\* that was replaced and the new one the one that replaced it, however late it is stored.
EntriesLink ==
  calm => \A l \in Logs : l.ok =>
    /\ Own(l) # {}
    /\ l.event # "CUSTOMER_CREATED" => l.old.stamp = change[Min(Own(l))].from
    /\ l.event # "CUSTOMER_DELETED" => l.new.stamp = change[Max(Own(l))].to

\* Every change has its entry, or its request is under way, or the entry is known to be
\* lost, or the event is above the level that is set.
ChangesAccounted ==
  \A k \in DOMAIN change :
    \/ \E l \in Logs : l.no = change[k].no
    \/ \E r \in Request : ~At(r, "idle") /\ call[r].no = change[k].no
    \/ change[k].no \in unlogged
    \/ level < LevelOf(change[k].event)

\* Nothing that stands under a sensitive key, however deep, comes into the table.
NothingExposed == \A l \in Logs : ~Exposed[l.old.document] /\ ~Exposed[l.new.document]

-----------------------------------------------------------------------------
\* What is said of the trail and does not hold

\* "Get previous value (for UPDATE operations)" (audit.ts:91): the value that an update
\* replaces is not the one read for the log when another update comes in between.
OldIsReplaced == \A l \in Logs : \A k \in Own(l) : l.event = "CUSTOMER_UPDATED" => l.old.stamp = change[k].from

\* The entries of a customer stand in the order of its changes.
InOrder ==
  \A i, j \in DOMAIN entry : i < j /\ entry[i].customer = entry[j].customer =>
    \A m \in Own(entry[i]), n \in Own(entry[j]) : m < n

\* "Recursively sanitize an object, removing PII" (pii-sanitizer.ts:84): addresses in a
\* list are kept as they are, and dates are not kept at all.
AddressesMasked ==
  \A l \in Logs : LET d == l.new.document IN
    "address" \in DOMAIN d.fields => \A k \in DOMAIN d.fields.address.fields :
      LET v == d.fields.address.fields[k] IN IsList(v) => \A i \in DOMAIN v.items : v.items[i] # Address
=============================================================================
