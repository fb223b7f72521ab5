------------------------------- MODULE Partner -------------------------------
(***************************************************************************)
(* Partner registration, life cycle, credentials and webhooks: PartnerSer- *)
(* vice and PartnerRepository over the partners table.  A partner is one   *)
(* row; its API keys, OAuth clients and webhooks are JSON columns of the   *)
(* row, so that every change reads the row and writes whole columns back.  *)
(*                                                                         *)
(* A request is three round trips that other requests interleave with: the *)
(* service reads the row and checks it, the repository reads it again and  *)
(* checks it, and an UPDATE that demands the version read writes it.       *)
(* Rotating an API key makes the repository's two trips twice.  Requests   *)
(* run in any number of processes; one that dies drops its requests.       *)
(*                                                                         *)
(* API keys and OAuth clients are handled alike (rotation apart) and are   *)
(* both credentials here.  Descriptive columns are left out: an update of  *)
(* them only moves the version.                                            *)
(***************************************************************************)
EXTENDS Naturals

CONSTANTS
  Partner,      \* ids, one for each registration
  EmailOf,      \* the contact email it is made with (an update may change it, unchecked)
  Request,      \* requests in flight
  Credential,
  Hook,
  Scope,
  MaxVersion    \* bound: no request begins on a row of that version

ASSUME PartnerAssumption == Partner # {} /\ MaxVersion \in Nat

VARIABLES
  row,          \* the partners table
  registering,  \* the registration of each partner
  pc,           \* of each request
  on,           \* the partner it is about
  op,           \* what it is to do
  seen          \* the row as the repository read it

vars == <<row, registering, pc, on, op, seen>>

Status     == {"absent", "PENDING", "APPROVED", "ACTIVE", "SUSPENDED", "REJECTED"}
CredState  == {"absent", "ACTIVE", "REVOKED"}
HookState  == {"absent", "enabled", "disabled"}
Usable     == {"ACTIVE", "APPROVED"}
Scopes     == SUBSET Scope \ {{}}   \* a request names at least one

Row == [status : Status, scopes : SUBSET Scope, version : Nat,
        credentials : [Credential -> CredState],
        credScopes : [Credential -> SUBSET Scope],
        hooks : [Hook -> HookState]]

\* The columns of a new row.
NewRow(st, v) ==
  [status |-> st, scopes |-> {}, version |-> v,
   credentials |-> [c \in Credential |-> "absent"],
   credScopes |-> [c \in Credential |-> {}],
   hooks |-> [h \in Hook |-> "absent"]]

\* Operations with what they carry.  "replace" is the second half of "rotate":
\* it issues cred in the place of old.
Op ==
       [kind : {"none", "update", "reject", "suspend", "activate"}]
  \cup [kind : {"approve"}, scopes : SUBSET Scope]
  \cup [kind : {"issue"}, cred : Credential, scopes : SUBSET Scope]
  \cup [kind : {"revoke"}, cred : Credential]
  \cup [kind : {"rotate"}, cred : Credential, new : Credential, scopes : SUBSET Scope]
  \cup [kind : {"replace"}, cred : Credential, old : Credential, scopes : SUBSET Scope]
  \cup [kind : {"addHook", "updateHook"}, hook : Hook, state : HookState \ {"absent"}]
  \cup [kind : {"deleteHook"}, hook : Hook]

TypeOK ==
  /\ row \in [Partner -> Row]
  /\ registering \in [Partner -> {"none", "inserting", "over"}]
  /\ pc \in [Request -> {"idle", "reading", "writing"}]
  /\ on \in [Request -> Partner]
  /\ op \in [Request -> Op]
  /\ seen \in [Request -> Row]

Init ==
  /\ row = [p \in Partner |-> NewRow("absent", 0)]
  /\ registering = [p \in Partner |-> "none"]
  /\ pc = [r \in Request |-> "idle"]
  /\ on \in [Request -> {CHOOSE p \in Partner : TRUE}]
  /\ op = [r \in Request |-> [kind |-> "none"]]
  /\ seen = [r \in Request |-> NewRow("absent", 0)]

-----------------------------------------------------------------------------
\* register: the email is looked up before the row is inserted.

RegisterCheck(p) ==
  /\ registering[p] = "none"
  /\ registering' = [registering EXCEPT ![p] =
       IF \E q \in Partner : row[q].status # "absent" /\ EmailOf[q] = EmailOf[p]
       THEN "over" ELSE "inserting"]
  /\ UNCHANGED <<row, pc, on, op, seen>>

RegisterInsert(p) ==
  /\ registering[p] = "inserting"
  /\ registering' = [registering EXCEPT ![p] = "over"]
  /\ row' = [row EXCEPT ![p] = NewRow("PENDING", 1)]
  /\ UNCHANGED <<pc, on, op, seen>>

-----------------------------------------------------------------------------
\* The service: it reads the row, refuses what the row does not allow, and
\* calls the repository.

Begin(r, p, o) ==
  /\ pc[r] = "idle"
  /\ row[p].status # "absent"
  /\ row[p].version < MaxVersion
  /\ pc' = [pc EXCEPT ![r] = "reading"]
  /\ on' = [on EXCEPT ![r] = p]
  /\ op' = [op EXCEPT ![r] = o]
  /\ UNCHANGED <<row, registering, seen>>

\* The credential that a request is to make.
NewCredential(o) ==
  CASE o.kind \in {"issue", "replace"} -> {o.cred}
    [] o.kind = "rotate"               -> {o.new}
    [] OTHER                           -> {}

\* generateId: the id of a new credential, or webhook, is nobody else's.
FreshCredential(c) ==
  /\ \A p \in Partner : row[p].credentials[c] = "absent"
  /\ \A r \in Request : c \notin NewCredential(op[r])

FreshHook(h) ==
  /\ \A p \in Partner : row[p].hooks[h] = "absent"
  /\ \A r \in Request : op[r].kind \in {"addHook", "updateHook", "deleteHook"} => op[r].hook # h

Update(r, p) == Begin(r, p, [kind |-> "update"])

Approve(r, p, sc) ==
  /\ row[p].status = "PENDING"
  /\ Begin(r, p, [kind |-> "approve", scopes |-> sc])

Reject(r, p) ==
  /\ row[p].status = "PENDING"
  /\ Begin(r, p, [kind |-> "reject"])

Suspend(r, p) ==
  /\ row[p].status \in Usable
  /\ Begin(r, p, [kind |-> "suspend"])

Activate(r, p) ==
  /\ row[p].status \in {"APPROVED", "SUSPENDED"}
  /\ Begin(r, p, [kind |-> "activate"])

\* createApiKey and createOAuthClient
CreateCredential(r, p, c, sc) ==
  /\ row[p].status \in Usable
  /\ sc \subseteq row[p].scopes
  /\ FreshCredential(c)
  /\ Begin(r, p, [kind |-> "issue", cred |-> c, scopes |-> sc])

\* revokeApiKey and revokeOAuthClient
RevokeCredential(r, p, c) ==
  /\ row[p].credentials[c] = "ACTIVE"
  /\ Begin(r, p, [kind |-> "revoke", cred |-> c])

\* The new key has the old one's scopes, as the service read them.
RotateKey(r, p, c, new) ==
  /\ row[p].credentials[c] = "ACTIVE"
  /\ FreshCredential(new)
  /\ Begin(r, p, [kind |-> "rotate", cred |-> c, new |-> new, scopes |-> row[p].credScopes[c]])

\* Mutation of CreateWebhook: the partner's status is not checked.
CreateWebhookAnyStatus(r, p, h, st) ==
  /\ FreshHook(h)
  /\ Begin(r, p, [kind |-> "addHook", hook |-> h, state |-> st])

CreateWebhook(r, p, h, st) ==
  /\ row[p].status \in Usable
  /\ FreshHook(h)
  /\ Begin(r, p, [kind |-> "addHook", hook |-> h, state |-> st])

UpdateWebhook(r, p, h, st) ==
  /\ row[p].hooks[h] # "absent"
  /\ Begin(r, p, [kind |-> "updateHook", hook |-> h, state |-> st])

DeleteWebhook(r, p, h) ==
  /\ row[p].hooks[h] # "absent"
  /\ Begin(r, p, [kind |-> "deleteHook", hook |-> h])

-----------------------------------------------------------------------------
\* The repository

\* Mutation of Accepts: the status is the service's business.
AcceptsAnyStatus(o, d) ==
  /\ o.kind \in {"revoke", "rotate"} => d.credentials[o.cred] # "absent"
  /\ o.kind \in {"updateHook", "deleteHook"} => d.hooks[o.hook] # "absent"

\* What the second read must show.  A revocation asks only that there is such a
\* credential, an addition asks nothing.
Accepts(o, d) ==
  /\ o.kind \in {"approve", "reject"} => d.status = "PENDING"
  /\ o.kind = "suspend" => d.status \in Usable
  /\ o.kind = "activate" => d.status \in {"APPROVED", "SUSPENDED"}
  /\ o.kind \in {"revoke", "rotate"} => d.credentials[o.cred] # "absent"
  /\ o.kind \in {"updateHook", "deleteHook"} => d.hooks[o.hook] # "absent"

StatusAfter(o, d) ==
  CASE o.kind = "approve"  -> "APPROVED"
    [] o.kind = "reject"   -> "REJECTED"
    [] o.kind = "suspend"  -> "SUSPENDED"
    [] o.kind = "activate" -> "ACTIVE"
    [] OTHER               -> d.status

CredentialsAfter(o, d) ==
  CASE o.kind \in {"issue", "replace"} -> [d.credentials EXCEPT ![o.cred] = "ACTIVE"]
    [] o.kind \in {"revoke", "rotate"} -> [d.credentials EXCEPT ![o.cred] = "REVOKED"]
    [] OTHER                           -> d.credentials

HooksAfter(o, d) ==
  CASE o.kind \in {"addHook", "updateHook"} -> [d.hooks EXCEPT ![o.hook] = o.state]
    [] o.kind = "deleteHook"                -> [d.hooks EXCEPT ![o.hook] = "absent"]
    [] OTHER                                -> d.hooks

\* The columns an operation sets, computed from the row that was read.
After(o, d) ==
  [status      |-> StatusAfter(o, d),
   scopes      |-> IF o.kind = "approve" THEN o.scopes ELSE d.scopes,
   version     |-> d.version + 1,
   credentials |-> CredentialsAfter(o, d),
   credScopes  |-> IF o.kind \in {"issue", "replace"}
                   THEN [d.credScopes EXCEPT ![o.cred] = o.scopes] ELSE d.credScopes,
   hooks       |-> HooksAfter(o, d)]

Done(r) ==
  /\ pc' = [pc EXCEPT ![r] = "idle"]
  /\ op' = [op EXCEPT ![r] = [kind |-> "none"]]
  /\ seen' = [seen EXCEPT ![r] = NewRow("absent", 0)]

Read(r) ==
  /\ pc[r] = "reading"
  /\ IF Accepts(op[r], row[on[r]])
     THEN /\ pc' = [pc EXCEPT ![r] = "writing"]
          /\ seen' = [seen EXCEPT ![r] = row[on[r]]]
          /\ UNCHANGED op
     ELSE Done(r)
  /\ UNCHANGED <<row, registering, on>>

\* Mutation of Write: the UPDATE does not compare the version.
WriteUnchecked(r) ==
  /\ pc[r] = "writing"
  /\ row' = [row EXCEPT ![on[r]] = After(op[r], seen[r])]
  /\ IF op[r].kind = "rotate"
     THEN /\ pc' = [pc EXCEPT ![r] = "reading"]
          /\ op' = [op EXCEPT ![r] = [kind |-> "replace", cred |-> op[r].new, old |-> op[r].cred,
                                      scopes |-> op[r].scopes]]
          /\ UNCHANGED seen
     ELSE Done(r)
  /\ UNCHANGED <<registering, on>>

\* The UPDATE finds the version it demands; a rotation goes on to add the key.
Write(r) ==
  /\ pc[r] = "writing"
  /\ row[on[r]].version = seen[r].version
  /\ row' = [row EXCEPT ![on[r]] = After(op[r], seen[r])]
  /\ IF op[r].kind = "rotate"
     THEN /\ pc' = [pc EXCEPT ![r] = "reading"]
          /\ op' = [op EXCEPT ![r] = [kind |-> "replace", cred |-> op[r].new, old |-> op[r].cred,
                                      scopes |-> op[r].scopes]]
          /\ UNCHANGED seen
     ELSE Done(r)
  /\ UNCHANGED <<registering, on>>

\* CONCURRENT_UPDATE: the caller gets a 409, nothing is tried again.
Conflict(r) ==
  /\ pc[r] = "writing"
  /\ row[on[r]].version # seen[r].version
  /\ Done(r)
  /\ UNCHANGED <<row, registering, on>>

\* The process dies or the database fails: what is written stays written.
Dies(r) ==
  /\ pc[r] # "idle"
  /\ Done(r)
  /\ UNCHANGED <<row, registering, on>>

-----------------------------------------------------------------------------
Submit(r, p) ==
  \/ Update(r, p) \/ Reject(r, p) \/ Suspend(r, p) \/ Activate(r, p)
  \/ \E sc \in Scopes : Approve(r, p, sc)
  \/ \E c \in Credential : \/ RevokeCredential(r, p, c)
                           \/ \E sc \in Scopes : CreateCredential(r, p, c, sc)
                           \/ \E new \in Credential : RotateKey(r, p, c, new)
  \/ \E h \in Hook : \/ DeleteWebhook(r, p, h)
                     \/ \E st \in HookState \ {"absent"} :
                          CreateWebhook(r, p, h, st) \/ UpdateWebhook(r, p, h, st)

Next ==
  \/ \E p \in Partner : RegisterCheck(p) \/ RegisterInsert(p)
  \/ \E r \in Request : \/ \E p \in Partner : Submit(r, p)
                        \/ Read(r) \/ Write(r) \/ Conflict(r) \/ Dies(r)

Spec == Init /\ [][Next]_vars

-----------------------------------------------------------------------------
\* Correctness

\* The overlapping requests implement atomic changes of the partner's record:
\* no write undoes another, a revoked credential never comes back, a rejected
\* partner stays rejected, scopes are granted once.
Lifecycle == INSTANCE PartnerLifecycle WITH
  status      <- [p \in Partner |-> row[p].status],
  scopes      <- [p \in Partner |-> row[p].scopes],
  credentials <- [p \in Partner |-> row[p].credentials],
  credScopes  <- [p \in Partner |-> row[p].credScopes],
  hooks       <- [p \in Partner |-> row[p].hooks]

Atomic == Lifecycle!Spec

\* A partner that was never approved has no credential and no webhook, although
\* the status is checked by the service and the columns are written two round
\* trips later by a repository that does not look at it again.
OnlyApprovedHaveCredentials ==
  \A p \in Partner : row[p].status \in {"absent", "PENDING", "REJECTED"} =>
    /\ \A c \in Credential : row[p].credentials[c] = "absent"
    /\ \A h \in Hook : row[p].hooks[h] = "absent"

\* A credential never has a scope that its partner has not, although its scopes
\* were compared with an earlier reading of the row, or copied from the key that
\* it replaces.
ScopesWithinGrant ==
  \A p \in Partner : \A c \in Credential : row[p].credScopes[c] \subseteq row[p].scopes

-----------------------------------------------------------------------------
\* What messages and comments say and the code does not do

\* "Cannot create API key for partner with status SUSPENDED"
IssuedOnlyToUsable ==
  [][\A p \in Partner : \A c \in Credential :
       row[p].credentials[c] = "absent" /\ row'[p].credentials[c] = "ACTIVE"
         => row[p].status \in Usable]_vars

\* "Cannot rotate a revoked API key": a key is replaced by one new key.
KeyReplacedOnce ==
  \A r, s \in Request :
    r # s /\ op[r].kind = "replace" /\ op[s].kind = "replace" => op[r].old # op[s].old

\* "Partner with email ... already exists"
EmailIsUnique ==
  \A p, q \in Partner :
    row[p].status # "absent" /\ row[q].status # "absent" /\ EmailOf[p] = EmailOf[q] => p = q
=============================================================================
