---------------------------- MODULE PartnerProofs ----------------------------
(* Theorems about Partner, for every set of partners, requests, credentials, *)
(* webhooks and scopes and every bound on the versions.                      *)
EXTENDS Partner, TLAPS

-----------------------------------------------------------------------------
\* Operations and the rows they make

\* What an operation carries.
LEMMA OpFields ==
  ASSUME NEW o \in Op
  PROVE  /\ o.kind \in {"issue", "replace", "revoke", "rotate"} => o.cred \in Credential
         /\ o.kind = "rotate" => o.new \in Credential
         /\ o.kind \in {"issue", "replace", "rotate", "approve"} => o.scopes \in SUBSET Scope
         /\ o.kind \in {"addHook", "updateHook", "deleteHook"} => o.hook \in Hook
         /\ o.kind \in {"addHook", "updateHook"} => o.state \in HookState \ {"absent"}
BY DEF Op

LEMMA NewRowType ==
  ASSUME NEW st \in Status, NEW v \in Nat
  PROVE  NewRow(st, v) \in Row
BY DEF NewRow, Row, CredState, HookState

\* An operation makes a row of a row, with the next version.
LEMMA AfterType ==
  ASSUME NEW o \in Op, NEW d \in Row
  PROVE  After(o, d) \in Row
<1>1. StatusAfter(o, d) \in Status
  BY DEF StatusAfter, Row, Status
<1>2. CredentialsAfter(o, d) \in [Credential -> CredState]
  BY OpFields DEF CredentialsAfter, Row, CredState
<1>3. HooksAfter(o, d) \in [Hook -> HookState]
  BY OpFields DEF HooksAfter, Row, HookState
<1>4. After(o, d).scopes \in SUBSET Scope
  BY OpFields DEF After, Row
<1>5. After(o, d).credScopes \in [Credential -> SUBSET Scope]
  BY OpFields DEF After, Row
<1>. QED BY <1>1, <1>2, <1>3, <1>4, <1>5 DEF After, Row

-----------------------------------------------------------------------------
\* Type correctness: every row and every request in flight stays well formed.
LEMMA DoneType ==
  ASSUME TypeOK, NEW r \in Request, Done(r)
  PROVE  /\ pc' \in [Request -> {"idle", "reading", "writing"}]
         /\ op' \in [Request -> Op]
         /\ seen' \in [Request -> Row]
<1>1. NewRow("absent", 0) \in Row
  BY NewRowType DEF Status
<1>2. [kind |-> "none"] \in Op
  BY DEF Op
<1>. QED BY <1>1, <1>2 DEF Done, TypeOK

LEMMA BeginType ==
  ASSUME TypeOK, NEW r \in Request, NEW p \in Partner, NEW o \in Op, Begin(r, p, o)
  PROVE  TypeOK'
BY DEF TypeOK, Begin

LEMMA SubmitBegins ==
  ASSUME TypeOK, NEW r \in Request, NEW p \in Partner, Submit(r, p)
  PROVE  \E o \in Op : Begin(r, p, o)
<1> USE DEF Op
<1>1. CASE Update(r, p) \/ Reject(r, p) \/ Suspend(r, p) \/ Activate(r, p)
  BY <1>1 DEF Update, Reject, Suspend, Activate
<1>2. CASE \E sc \in Scopes : Approve(r, p, sc)
  BY <1>2 DEF Approve, Scopes
<1>3. ASSUME NEW c \in Credential, RevokeCredential(r, p, c)
      PROVE  \E o \in Op : Begin(r, p, o)
  BY <1>3 DEF RevokeCredential
<1>4. ASSUME NEW c \in Credential, NEW sc \in Scopes, CreateCredential(r, p, c, sc)
      PROVE  \E o \in Op : Begin(r, p, o)
  BY <1>4 DEF CreateCredential, Scopes
<1>5. ASSUME NEW c \in Credential, NEW new \in Credential, RotateKey(r, p, c, new)
      PROVE  \E o \in Op : Begin(r, p, o)
  BY <1>5 DEF RotateKey, TypeOK, Row
<1>6. ASSUME NEW h \in Hook, DeleteWebhook(r, p, h)
      PROVE  \E o \in Op : Begin(r, p, o)
  BY <1>6 DEF DeleteWebhook
<1>7. ASSUME NEW h \in Hook, NEW st \in HookState \ {"absent"},
             CreateWebhook(r, p, h, st) \/ UpdateWebhook(r, p, h, st)
      PROVE  \E o \in Op : Begin(r, p, o)
  BY <1>7 DEF CreateWebhook, UpdateWebhook
<1>. QED BY <1>1, <1>2, <1>3, <1>4, <1>5, <1>6, <1>7 DEF Submit

THEOREM TypeCorrect == Spec => []TypeOK
<1>1. Init => TypeOK
  <2> SUFFICES ASSUME Init PROVE TypeOK
    OBVIOUS
  <2>1. NewRow("absent", 0) \in Row
    BY NewRowType DEF Status
  <2>2. [kind |-> "none"] \in Op
    BY DEF Op
  <2>3. on \in [Request -> Partner]
    BY PartnerAssumption DEF Init, PartnerAssumption
  <2>. QED BY <2>1, <2>2, <2>3 DEF Init, TypeOK
<1>2. TypeOK /\ [Next]_vars => TypeOK'
  <2> SUFFICES ASSUME TypeOK, [Next]_vars PROVE TypeOK'
    OBVIOUS
  <2>1. CASE UNCHANGED vars
    BY <2>1 DEF TypeOK, vars
  <2>2. ASSUME NEW p \in Partner, RegisterCheck(p)
        PROVE  TypeOK'
    BY <2>2 DEF TypeOK, RegisterCheck
  <2>3. ASSUME NEW p \in Partner, RegisterInsert(p)
        PROVE  TypeOK'
    <3>1. NewRow("PENDING", 1) \in Row
      BY NewRowType DEF Status
    <3>. QED BY <2>3, <3>1 DEF TypeOK, RegisterInsert
  <2>4. ASSUME NEW r \in Request, NEW p \in Partner, Submit(r, p)
        PROVE  TypeOK'
    BY <2>4, SubmitBegins, BeginType
  <2>5. ASSUME NEW r \in Request, Read(r)
        PROVE  TypeOK'
    <3>1. CASE Accepts(op[r], row[on[r]])
      BY <2>5, <3>1 DEF Read, TypeOK
    <3>2. CASE ~Accepts(op[r], row[on[r]])
      BY <2>5, <3>2, DoneType DEF Read, TypeOK
    <3>. QED BY <3>1, <3>2
  <2>6. ASSUME NEW r \in Request, Write(r)
        PROVE  TypeOK'
    <3>1. row' \in [Partner -> Row]
      BY <2>6, AfterType DEF Write, TypeOK
    <3>2. CASE op[r].kind = "rotate"
      <4>1. [kind |-> "replace", cred |-> op[r].new, old |-> op[r].cred, scopes |-> op[r].scopes] \in Op
        BY <3>2, OpFields DEF TypeOK, Op
      <4>. QED BY <2>6, <3>1, <3>2, <4>1 DEF Write, TypeOK
    <3>3. CASE op[r].kind # "rotate"
      BY <2>6, <3>1, <3>3, DoneType DEF Write, TypeOK
    <3>. QED BY <3>2, <3>3
  <2>7. ASSUME NEW r \in Request, Conflict(r) \/ Dies(r)
        PROVE  TypeOK'
    BY <2>7, DoneType DEF Conflict, Dies, TypeOK
  <2>. QED BY <2>1, <2>2, <2>3, <2>4, <2>5, <2>6, <2>7 DEF Next
<1>. QED BY <1>1, <1>2, PTL DEF Spec

-----------------------------------------------------------------------------
\* The inductive invariant: what a request in flight relies on still holds when
\* it writes.

Granted(p) == row[p].status \in {"APPROVED", "ACTIVE", "SUSPENDED"}

\* The approval of the partner, and the scopes handed on, are there for good;
\* nobody else has the credential that the request is to make.
RequestSound(r) ==
  /\ op[r].kind \in {"issue", "replace", "rotate"} =>
       Granted(on[r]) /\ op[r].scopes \subseteq row[on[r]].scopes
  /\ op[r].kind \in {"addHook", "updateHook", "deleteHook"} => Granted(on[r])
  /\ \A c \in NewCredential(op[r]) : \A p \in Partner : row[p].credentials[c] = "absent"

\* A version names one content of the row.
SeenSound(r) ==
  pc[r] = "writing" =>
    /\ Accepts(op[r], seen[r])
    /\ seen[r].version <= row[on[r]].version
    /\ seen[r].version = row[on[r]].version => seen[r] = row[on[r]]

AbsentRows ==
  \A p \in Partner : row[p].status = "absent" =>
    row[p] = NewRow("absent", 0) /\ \A r \in Request : pc[r] # "idle" => on[r] # p

PendingRows    == \A p \in Partner : row[p].status = "PENDING" => row[p].scopes = {}
UnregisteredRows == \A p \in Partner : registering[p] # "over" => row[p].status = "absent"
IdleRequests   == \A r \in Request : pc[r] = "idle" => op[r].kind = "none"
DistinctIds ==
  \A r, s \in Request : r # s => NewCredential(op[r]) \cap NewCredential(op[s]) = {}

RowsInv     == OnlyApprovedHaveCredentials /\ ScopesWithinGrant /\ AbsentRows /\ PendingRows
               /\ UnregisteredRows
RequestsInv == IdleRequests /\ DistinctIds /\ \A r \in Request : RequestSound(r) /\ SeenSound(r)
PartnerInv  == RowsInv /\ RequestsInv

LEMMA NothingNew == NewCredential([kind |-> "none"]) = {}
BY DEF NewCredential

\* A request that ends, for whatever reason, without writing.
LEMMA DoneKeepsInv ==
  ASSUME TypeOK, PartnerInv, NEW r \in Request, Done(r), UNCHANGED <<row, registering, on>>
  PROVE  PartnerInv'
<1>1. \A s \in Request \ {r} : pc'[s] = pc[s] /\ op'[s] = op[s] /\ seen'[s] = seen[s]
  BY DEF Done, TypeOK
<1>2. pc'[r] = "idle" /\ op'[r] = [kind |-> "none"]
  BY DEF Done, TypeOK
<1>3. RowsInv'
  BY <1>1, <1>2 DEF PartnerInv, RowsInv, OnlyApprovedHaveCredentials, ScopesWithinGrant,
     AbsentRows, PendingRows, UnregisteredRows
<1>4. IdleRequests' /\ DistinctIds'
  BY <1>1, <1>2, NothingNew DEF PartnerInv, RequestsInv, IdleRequests, DistinctIds
<1>5. ASSUME NEW s \in Request
      PROVE  RequestSound(s)' /\ SeenSound(s)'
  <2>1. CASE s = r
    BY <1>2, <2>1, NothingNew DEF RequestSound, SeenSound
  <2>2. CASE s # r
    BY <1>1, <2>2 DEF PartnerInv, RequestsInv, RequestSound, SeenSound, Granted
  <2>. QED BY <2>1, <2>2
<1>. QED BY <1>3, <1>4, <1>5 DEF PartnerInv, RequestsInv

\* What the service's check establishes.
LEMMA SubmitSound ==
  ASSUME TypeOK, PartnerInv, NEW r \in Request, NEW p \in Partner, Submit(r, p)
  PROVE  \E o \in Op :
           /\ Begin(r, p, o)
           /\ o.kind \in {"issue", "replace", "rotate"} =>
                Granted(p) /\ o.scopes \subseteq row[p].scopes
           /\ o.kind \in {"addHook", "updateHook", "deleteHook"} => Granted(p)
           /\ \A c \in NewCredential(o) : FreshCredential(c)
<1> DEFINE Sound(o) ==
      /\ Begin(r, p, o)
      /\ o.kind \in {"issue", "replace", "rotate"} =>
           Granted(p) /\ o.scopes \subseteq row[p].scopes
      /\ o.kind \in {"addHook", "updateHook", "deleteHook"} => Granted(p)
      /\ \A c \in NewCredential(o) : FreshCredential(c)
<1>0. /\ \A c \in Credential : row[p].credentials[c] # "absent" => Granted(p)
      /\ \A h \in Hook : row[p].hooks[h] # "absent" => Granted(p)
      /\ \A c \in Credential : row[p].credScopes[c] \subseteq row[p].scopes
  BY DEF PartnerInv, RowsInv, OnlyApprovedHaveCredentials, ScopesWithinGrant, Granted,
         TypeOK, Row, Status
<1> USE DEF Op, NewCredential, Granted, Usable
<1>1. CASE Update(r, p) \/ Reject(r, p) \/ Suspend(r, p) \/ Activate(r, p)
  <2>1. \E o \in Op : Begin(r, p, o) /\ o.kind \in {"update", "reject", "suspend", "activate"}
    BY <1>1 DEF Update, Reject, Suspend, Activate
  <2>. QED BY <2>1
<1>2. CASE \E sc \in Scopes : Approve(r, p, sc)
  <2>1. \E o \in Op : Begin(r, p, o) /\ o.kind = "approve"
    BY <1>2 DEF Approve, Scopes
  <2>. QED BY <2>1
<1>3. ASSUME NEW c \in Credential, RevokeCredential(r, p, c)
      PROVE  \E o \in Op : Sound(o)
  <2>1. \E o \in Op : Begin(r, p, o) /\ o.kind = "revoke"
    BY <1>3 DEF RevokeCredential
  <2>. QED BY <2>1
<1>4. ASSUME NEW c \in Credential, NEW sc \in Scopes, CreateCredential(r, p, c, sc)
      PROVE  \E o \in Op : Sound(o)
  <2>. DEFINE o == [kind |-> "issue", cred |-> c, scopes |-> sc]
  <2>1. o \in Op /\ NewCredential(o) = {c} /\ o.kind = "issue" /\ o.scopes = sc
    BY DEF Scopes
  <2>2. Begin(r, p, o) /\ Granted(p) /\ sc \subseteq row[p].scopes /\ FreshCredential(c)
    BY <1>4 DEF CreateCredential
  <2>. HIDE DEF o
  <2>. QED BY <2>1, <2>2
<1>5. ASSUME NEW c \in Credential, NEW new \in Credential, RotateKey(r, p, c, new)
      PROVE  \E o \in Op : Sound(o)
  <2>. DEFINE o == [kind |-> "rotate", cred |-> c, new |-> new, scopes |-> row[p].credScopes[c]]
  <2>1. o \in Op /\ NewCredential(o) = {new} /\ o.kind = "rotate" /\ o.scopes = row[p].credScopes[c]
    BY DEF TypeOK, Row
  <2>2. Begin(r, p, o) /\ Granted(p) /\ row[p].credScopes[c] \subseteq row[p].scopes
        /\ FreshCredential(new)
    BY <1>0, <1>5 DEF RotateKey
  <2>. HIDE DEF o
  <2>. QED BY <2>1, <2>2
<1>6. ASSUME NEW h \in Hook, DeleteWebhook(r, p, h)
      PROVE  \E o \in Op : Sound(o)
  <2>1. \E o \in Op : Begin(r, p, o) /\ o.kind = "deleteHook"
    BY <1>6 DEF DeleteWebhook
  <2>. QED BY <1>0, <1>6, <2>1 DEF DeleteWebhook
<1>7. ASSUME NEW h \in Hook, NEW st \in HookState \ {"absent"},
             CreateWebhook(r, p, h, st) \/ UpdateWebhook(r, p, h, st)
      PROVE  \E o \in Op : Sound(o)
  <2>1. \E o \in Op : Begin(r, p, o) /\ o.kind \in {"addHook", "updateHook"}
    BY <1>7 DEF CreateWebhook, UpdateWebhook
  <2>. QED BY <1>0, <1>7, <2>1 DEF CreateWebhook, UpdateWebhook
<1>. QED BY <1>1, <1>2, <1>3, <1>4, <1>5, <1>6, <1>7 DEF Submit

LEMMA SubmitKeepsInv ==
  ASSUME TypeOK, PartnerInv, NEW r \in Request, NEW p \in Partner, Submit(r, p)
  PROVE  PartnerInv'
<1>1. PICK o \in Op :
        /\ Begin(r, p, o)
        /\ o.kind \in {"issue", "replace", "rotate"} =>
             Granted(p) /\ o.scopes \subseteq row[p].scopes
        /\ o.kind \in {"addHook", "updateHook", "deleteHook"} => Granted(p)
        /\ \A c \in NewCredential(o) : FreshCredential(c)
  BY SubmitSound
<1>2. \A s \in Request \ {r} : pc'[s] = pc[s] /\ op'[s] = op[s] /\ on'[s] = on[s]
  BY <1>1 DEF Begin, TypeOK
<1>3. /\ pc'[r] = "reading" /\ op'[r] = o /\ on'[r] = p
      /\ row[p].status # "absent" /\ UNCHANGED <<row, registering, seen>>
  BY <1>1 DEF Begin, TypeOK
<1>4. RowsInv'
  BY <1>2, <1>3 DEF PartnerInv, RowsInv, OnlyApprovedHaveCredentials, ScopesWithinGrant,
     AbsentRows, PendingRows, UnregisteredRows
<1>5. IdleRequests'
  BY <1>2, <1>3 DEF PartnerInv, RequestsInv, IdleRequests
<1>6. DistinctIds'
  BY <1>1, <1>2, <1>3 DEF PartnerInv, RequestsInv, DistinctIds, FreshCredential
<1>7. ASSUME NEW s \in Request
      PROVE  RequestSound(s)' /\ SeenSound(s)'
  <2>1. CASE s = r
    BY <1>1, <1>3, <2>1 DEF RequestSound, SeenSound, FreshCredential, Granted
  <2>2. CASE s # r
    BY <1>2, <1>3, <2>2 DEF PartnerInv, RequestsInv, RequestSound, SeenSound, Granted
  <2>. QED BY <2>1, <2>2
<1>. QED BY <1>4, <1>5, <1>6, <1>7 DEF PartnerInv, RequestsInv

LEMMA RegisterKeepsInv ==
  ASSUME TypeOK, PartnerInv, NEW p \in Partner, RegisterInsert(p)
  PROVE  PartnerInv'
<1>1. row[p].status = "absent"
  BY DEF RegisterInsert, PartnerInv, RowsInv, UnregisteredRows
<1>2. row' = [row EXCEPT ![p] = NewRow("PENDING", 1)] /\ registering'[p] = "over"
      /\ UNCHANGED <<pc, on, op, seen>>
  BY DEF RegisterInsert, TypeOK
<1>3. \A q \in Partner \ {p} : row'[q] = row[q] /\ registering'[q] = registering[q]
  BY DEF RegisterInsert, TypeOK
<1>4. row'[p].status = "PENDING" /\ row'[p].scopes = {}
      /\ (\A c \in Credential : row'[p].credentials[c] = "absent" /\ row'[p].credScopes[c] = {})
      /\ (\A h \in Hook : row'[p].hooks[h] = "absent")
  BY <1>2 DEF NewRow, TypeOK
<1>5. RowsInv'
  BY <1>2, <1>3, <1>4 DEF PartnerInv, RowsInv, OnlyApprovedHaveCredentials, ScopesWithinGrant,
     AbsentRows, PendingRows, UnregisteredRows
<1>6. IdleRequests' /\ DistinctIds'
  BY <1>2 DEF PartnerInv, RequestsInv, IdleRequests, DistinctIds
<1>7. ASSUME NEW s \in Request
      PROVE  RequestSound(s)' /\ SeenSound(s)'
  <2>0. NewCredential(op[s]) \subseteq Credential
    BY OpFields DEF NewCredential, TypeOK
  <2>1. CASE pc[s] = "idle"
    BY <1>2, <2>1 DEF PartnerInv, RequestsInv, IdleRequests, RequestSound, SeenSound, NewCredential
  <2>2. CASE pc[s] # "idle"
    <3>1. on[s] \in Partner \ {p}
      BY <1>1, <2>2 DEF PartnerInv, RowsInv, AbsentRows, TypeOK
    <3>. QED BY <1>2, <1>3, <1>4, <2>0, <3>1 DEF PartnerInv, RequestsInv, RequestSound, SeenSound, Granted
  <2>. QED BY <2>1, <2>2
<1>. QED BY <1>5, <1>6, <1>7 DEF PartnerInv, RequestsInv

LEMMA ReadKeepsInv ==
  ASSUME TypeOK, PartnerInv, NEW r \in Request, Read(r)
  PROVE  PartnerInv'
<1>1. CASE ~Accepts(op[r], row[on[r]])
  BY <1>1, DoneKeepsInv DEF Read
<1>2. CASE Accepts(op[r], row[on[r]])
  <2>1. pc[r] = "reading" /\ pc'[r] = "writing" /\ seen'[r] = row[on[r]]
        /\ UNCHANGED <<row, registering, on, op>>
    BY <1>2 DEF Read, TypeOK
  <2>2. \A s \in Request \ {r} : pc'[s] = pc[s] /\ seen'[s] = seen[s]
    BY <1>2 DEF Read, TypeOK
  <2>3. row[on[r]].version \in Nat
    BY DEF TypeOK, Row
  <2>4. RowsInv'
    BY <2>1, <2>2 DEF PartnerInv, RowsInv, OnlyApprovedHaveCredentials, ScopesWithinGrant,
       AbsentRows, PendingRows, UnregisteredRows
  <2>5. IdleRequests' /\ DistinctIds'
    BY <2>1, <2>2 DEF PartnerInv, RequestsInv, IdleRequests, DistinctIds
  <2>6. \A s \in Request : RequestSound(s)'
    BY <2>1 DEF PartnerInv, RequestsInv, RequestSound, Granted
  <2>7. \A s \in Request : SeenSound(s)'
    BY <1>2, <2>1, <2>2, <2>3 DEF PartnerInv, RequestsInv, SeenSound
  <2>. QED BY <2>4, <2>5, <2>6, <2>7 DEF PartnerInv, RequestsInv
<1>. QED BY <1>1, <1>2

-----------------------------------------------------------------------------
\* The write

\* The version compared makes the row written the row that was checked.
LEMMA WriteIsCurrent ==
  ASSUME TypeOK, PartnerInv, NEW r \in Request, Write(r)
  PROVE  /\ Accepts(op[r], row[on[r]])
         /\ row[on[r]].status # "absent"
         /\ row' = [row EXCEPT ![on[r]] = After(op[r], row[on[r]])]
         /\ RequestSound(r)
<1>1. SeenSound(r) /\ RequestSound(r)
  BY DEF PartnerInv, RequestsInv
<1>2. seen[r] = row[on[r]]
  BY <1>1 DEF Write, SeenSound
<1>3. on[r] \in Partner
  BY DEF TypeOK
<1>4. row[on[r]].status # "absent"
  BY <1>3 DEF Write, PartnerInv, RowsInv, AbsentRows
<1>. QED BY <1>1, <1>2, <1>4 DEF Write, SeenSound

\* Which operations a row that was never approved accepts, and what an approved
\* row keeps.
LEMMA AfterUngranted ==
  ASSUME NEW o \in Op, NEW d \in Row, Accepts(o, d), d.status # "absent",
         d.status \in {"PENDING", "REJECTED"} =>
           (\A c \in Credential : d.credentials[c] = "absent") /\ \A h \in Hook : d.hooks[h] = "absent",
         o.kind \in {"issue", "replace", "rotate", "addHook"} =>
           d.status \in {"APPROVED", "ACTIVE", "SUSPENDED"}
  PROVE  /\ After(o, d).status # "absent"
         /\ After(o, d).status \in {"PENDING", "REJECTED"} =>
              /\ d.status \in {"PENDING", "REJECTED"} /\ After(o, d).scopes = d.scopes
              /\ After(o, d).credentials = d.credentials /\ After(o, d).hooks = d.hooks
         /\ After(o, d).status = "PENDING" => d.status = "PENDING"
         /\ d.status \in {"APPROVED", "ACTIVE", "SUSPENDED"} =>
              /\ After(o, d).status \in {"APPROVED", "ACTIVE", "SUSPENDED"}
              /\ After(o, d).scopes = d.scopes
<1>1. o.kind \in {"revoke", "rotate", "updateHook", "deleteHook"} =>
        d.status \notin {"PENDING", "REJECTED"}
  BY OpFields DEF Accepts
<1>. QED BY <1>1 DEF After, StatusAfter, CredentialsAfter, HooksAfter, Accepts, Usable, Row, Status

LEMMA WriteKeepsRows ==
  ASSUME TypeOK, PartnerInv, NEW r \in Request, Write(r)
  PROVE  RowsInv'
<1> DEFINE p == on[r]
           o == op[r]
           d == row[p]
           e == After(o, d)
<1>1. p \in Partner /\ o \in Op /\ d \in Row /\ e \in Row
  BY AfterType DEF TypeOK
<1>2. Accepts(o, d) /\ d.status # "absent" /\ RequestSound(r)
      /\ row'[p] = e /\ \A q \in Partner \ {p} : row'[q] = row[q]
  BY <1>1, WriteIsCurrent DEF TypeOK
<1>3. /\ d.status \in {"PENDING", "REJECTED"} =>
           (\A c \in Credential : d.credentials[c] = "absent") /\ \A h \in Hook : d.hooks[h] = "absent"
      /\ o.kind \in {"issue", "replace", "rotate", "addHook"} =>
           d.status \in {"APPROVED", "ACTIVE", "SUSPENDED"}
  BY <1>1, <1>2 DEF PartnerInv, RowsInv, OnlyApprovedHaveCredentials, RequestSound, Granted
<1>4. /\ e.status # "absent"
      /\ e.status \in {"PENDING", "REJECTED"} =>
           /\ d.status \in {"PENDING", "REJECTED"} /\ e.scopes = d.scopes
           /\ e.credentials = d.credentials /\ e.hooks = d.hooks
      /\ e.status = "PENDING" => d.status = "PENDING"
      /\ d.status \in {"APPROVED", "ACTIVE", "SUSPENDED"} => e.scopes = d.scopes
  <2>. HIDE DEF p, o, d
  <2>. QED BY <1>1, <1>2, <1>3, AfterUngranted
<1>5. \A c \in Credential : e.credScopes[c] \subseteq e.scopes
  <2>1. \A c \in Credential : d.credScopes[c] \subseteq d.scopes
    BY <1>1 DEF PartnerInv, RowsInv, ScopesWithinGrant
  <2>2. CASE o.kind = "approve"
    <3>1. d.status = "PENDING" /\ e.credScopes = d.credScopes
      BY <1>2, <2>2 DEF Accepts, After
    <3>2. d.scopes = {}
      BY <1>1, <3>1 DEF PartnerInv, RowsInv, PendingRows
    <3>. QED BY <2>1, <3>1, <3>2
  <2>3. CASE o.kind \in {"issue", "replace"}
    <3>1. o.scopes \subseteq d.scopes
      BY <1>2, <2>3 DEF RequestSound
    <3>. HIDE DEF p, o, d
    <3>2. e.scopes = d.scopes /\ e.credScopes = [d.credScopes EXCEPT ![o.cred] = o.scopes]
      BY <2>3 DEF After
    <3>3. d.credScopes \in [Credential -> SUBSET Scope]
      BY <1>1 DEF Row
    <3>. QED BY <2>1, <3>1, <3>2, <3>3
  <2>4. CASE o.kind \notin {"approve", "issue", "replace"}
    BY <2>1, <2>4 DEF After
  <2>. QED BY <2>2, <2>3, <2>4
<1>6. UNCHANGED <<registering, on>> /\ \A s \in Request : pc'[s] # "idle" => pc[s] # "idle"
  BY DEF Write, Done, TypeOK
<1>7. registering[p] = "over"
  BY <1>1, <1>2 DEF PartnerInv, RowsInv, UnregisteredRows
<1>. HIDE DEF p, o, d, e
<1>8. OnlyApprovedHaveCredentials' /\ ScopesWithinGrant'
  BY <1>2, <1>3, <1>4, <1>5 DEF PartnerInv, RowsInv, OnlyApprovedHaveCredentials, ScopesWithinGrant
<1>9. AbsentRows' /\ UnregisteredRows'
  BY <1>2, <1>4, <1>6, <1>7 DEF PartnerInv, RowsInv, AbsentRows, UnregisteredRows
<1>10. PendingRows'
  BY <1>2, <1>4 DEF PartnerInv, RowsInv, PendingRows, d
<1>. QED BY <1>8, <1>9, <1>10 DEF RowsInv

LEMMA WriteKeepsRequests ==
  ASSUME TypeOK, PartnerInv, NEW r \in Request, Write(r)
  PROVE  RequestsInv'
<1> DEFINE p == on[r]
           o == op[r]
           d == row[p]
           e == After(o, d)
<1>1. p \in Partner /\ o \in Op /\ d \in Row /\ e \in Row
  BY AfterType DEF TypeOK
<1>2. Accepts(o, d) /\ d.status # "absent" /\ RequestSound(r)
      /\ row'[p] = e /\ \A q \in Partner \ {p} : row'[q] = row[q]
  BY <1>1, WriteIsCurrent DEF TypeOK
<1>3. \A s \in Request \ {r} : pc'[s] = pc[s] /\ op'[s] = op[s] /\ seen'[s] = seen[s]
  BY DEF Write, Done, TypeOK
<1>4. UNCHANGED on
  BY DEF Write
<1>5. \/ /\ o.kind = "rotate" /\ pc'[r] = "reading"
         /\ op'[r] = [kind |-> "replace", cred |-> o.new, old |-> o.cred, scopes |-> o.scopes]
      \/ o.kind # "rotate" /\ pc'[r] = "idle" /\ op'[r] = [kind |-> "none"]
  BY DEF Write, Done, TypeOK
<1>6. NewCredential(op'[r]) \subseteq NewCredential(o)
      /\ (o.kind \in {"issue", "replace"} => NewCredential(op'[r]) = {})
  BY <1>5 DEF NewCredential
<1>7. d.status \in {"APPROVED", "ACTIVE", "SUSPENDED"} =>
        e.status \in {"APPROVED", "ACTIVE", "SUSPENDED"} /\ e.scopes = d.scopes
  BY <1>2 DEF After, StatusAfter, Accepts
<1>8. \A c \in Credential :
        d.credentials[c] = "absent" /\ (o.kind \in {"issue", "replace"} => c # o.cred)
          => e.credentials[c] = "absent"
  <2>. HIDE DEF p, o, d
  <2>1. d.credentials \in [Credential -> CredState]
    BY <1>1 DEF Row
  <2>2. o.kind \in {"revoke", "rotate"} => d.credentials[o.cred] # "absent"
    BY <1>2 DEF Accepts
  <2>. QED BY <2>1, <2>2 DEF After, CredentialsAfter
<1>9. e.version = d.version + 1 /\ d.version \in Nat
  BY <1>1 DEF After, Row
<1>10. \A s \in Request : NewCredential(op[s]) \subseteq Credential
  BY OpFields DEF NewCredential, TypeOK
<1>11. IdleRequests'
  BY <1>3, <1>5 DEF PartnerInv, RequestsInv, IdleRequests
<1>12. DistinctIds'
  <2>1. \A s \in Request : NewCredential(op'[s]) \subseteq NewCredential(op[s])
    BY <1>3, <1>6
  <2>. QED BY <2>1 DEF PartnerInv, RequestsInv, DistinctIds
<1>13. ASSUME NEW s \in Request
       PROVE  \A c \in NewCredential(op'[s]) : \A q \in Partner : row'[q].credentials[c] = "absent"
  <2>1. \A c \in NewCredential(op[s]) : \A q \in Partner : row[q].credentials[c] = "absent"
    BY DEF PartnerInv, RequestsInv, RequestSound
  <2>2. o.kind \in {"issue", "replace"} => o.cred \notin NewCredential(op'[s])
    <3>1. o.kind \in {"issue", "replace"} => NewCredential(o) = {o.cred}
      BY DEF NewCredential
    <3>. QED BY <1>3, <1>6, <3>1 DEF PartnerInv, RequestsInv, DistinctIds
  <2>3. NewCredential(op'[s]) \subseteq NewCredential(op[s])
    BY <1>3, <1>6
  <2>. HIDE DEF o, e
  <2>. QED BY <1>1, <1>2, <1>8, <1>10, <2>1, <2>2, <2>3
<1>14. ASSUME NEW s \in Request
       PROVE  /\ op'[s].kind \in {"issue", "replace", "rotate"} =>
                   Granted(on[s])' /\ op'[s].scopes \subseteq row'[on[s]].scopes
              /\ op'[s].kind \in {"addHook", "updateHook", "deleteHook"} => Granted(on[s])'
  <2>0. on[s] \in Partner
    BY DEF TypeOK
  <2>1. Granted(on[s]) => Granted(on[s])' /\ row'[on[s]].scopes = row[on[s]].scopes
    BY <1>2, <1>4, <1>7, <2>0 DEF Granted
  <2>2. CASE s # r
    BY <1>3, <2>1, <2>2 DEF PartnerInv, RequestsInv, RequestSound
  <2>3. CASE s = r
    BY <1>2, <1>5, <2>1, <2>3 DEF RequestSound
  <2>. QED BY <2>2, <2>3
<1>15. ASSUME NEW s \in Request
       PROVE  SeenSound(s)'
  <2>1. CASE s = r
    BY <1>5, <2>1 DEF SeenSound
  <2>2. CASE s # r /\ on[s] = p
    <3>. HIDE DEF e
    <3>1. seen[s].version \in Nat
      BY DEF TypeOK, Row
    <3>. QED BY <1>2, <1>3, <1>4, <1>9, <2>2, <3>1 DEF PartnerInv, RequestsInv, SeenSound
  <2>3. CASE s # r /\ on[s] # p
    <3>1. on[s] \in Partner
      BY DEF TypeOK
    <3>. QED BY <1>2, <1>3, <1>4, <2>3, <3>1 DEF PartnerInv, RequestsInv, SeenSound
  <2>. QED BY <2>1, <2>2, <2>3
<1>. QED BY <1>4, <1>11, <1>12, <1>13, <1>14, <1>15 DEF RequestsInv, RequestSound, Granted

LEMMA PartnerInductive == Spec => []PartnerInv
<1>1. Init => PartnerInv
  BY DEF Init, PartnerInv, RowsInv, RequestsInv, OnlyApprovedHaveCredentials, ScopesWithinGrant,
     AbsentRows, PendingRows, UnregisteredRows, IdleRequests, DistinctIds, RequestSound, SeenSound,
     NewRow, NewCredential
<1>2. TypeOK /\ PartnerInv /\ [Next]_vars => PartnerInv'
  <2> SUFFICES ASSUME TypeOK, PartnerInv, [Next]_vars PROVE PartnerInv'
    OBVIOUS
  <2>1. CASE UNCHANGED vars
    BY <2>1 DEF vars, PartnerInv, RowsInv, RequestsInv, OnlyApprovedHaveCredentials,
       ScopesWithinGrant, AbsentRows, PendingRows, UnregisteredRows, IdleRequests, DistinctIds,
       RequestSound, SeenSound, Granted
  <2>2. ASSUME NEW p \in Partner, RegisterCheck(p)
        PROVE  PartnerInv'
    BY <2>2 DEF RegisterCheck, TypeOK, PartnerInv, RowsInv, RequestsInv, OnlyApprovedHaveCredentials,
       ScopesWithinGrant, AbsentRows, PendingRows, UnregisteredRows, IdleRequests, DistinctIds,
       RequestSound, SeenSound, Granted
  <2>3. ASSUME NEW r \in Request, Conflict(r) \/ Dies(r)
        PROVE  PartnerInv'
    BY <2>3, DoneKeepsInv DEF Conflict, Dies
  <2>4. ASSUME NEW r \in Request, Write(r)
        PROVE  PartnerInv'
    BY <2>4, WriteKeepsRows, WriteKeepsRequests DEF PartnerInv
  <2>. QED BY <2>1, <2>2, <2>3, <2>4, RegisterKeepsInv, SubmitKeepsInv, ReadKeepsInv DEF Next
<1>. QED BY TypeCorrect, <1>1, <1>2, PTL DEF Spec

\* However the requests overlap, a partner that was never approved has neither
\* credentials nor webhooks, and no credential has a scope that was not granted.
THEOREM CredentialsCorrect == Spec => [](OnlyApprovedHaveCredentials /\ ScopesWithinGrant)
<1>1. PartnerInv => OnlyApprovedHaveCredentials /\ ScopesWithinGrant
  BY DEF PartnerInv, RowsInv
<1>. QED BY PartnerInductive, <1>1, PTL

\* A partner that was never approved has neither credentials nor webhooks: the first half.
THEOREM ApprovedOnlyCorrect == Spec => []OnlyApprovedHaveCredentials
BY CredentialsCorrect, PTL

-----------------------------------------------------------------------------
\* Atomicity

\* A step of the abstract specification is a step of one partner.
LEMMA PartnerSteps ==
  ASSUME NEW p \in Partner,
         \/ Lifecycle!ChangeStatus(p) \/ Lifecycle!Approve(p) \/ Lifecycle!Issue(p)
         \/ Lifecycle!Revoke(p) \/ Lifecycle!SetHook(p)
  PROVE  Lifecycle!Next
BY DEF Lifecycle!Next

\* A write changes the abstract record of its partner, column by column, as the
\* operation says.
LEMMA WriteColumns ==
  ASSUME TypeOK, NEW p \in Partner, NEW e, row' = [row EXCEPT ![p] = e]
  PROVE  /\ [q \in Partner |-> row'[q].status]
              = [[q \in Partner |-> row[q].status] EXCEPT ![p] = e.status]
         /\ [q \in Partner |-> row'[q].scopes]
              = [[q \in Partner |-> row[q].scopes] EXCEPT ![p] = e.scopes]
         /\ [q \in Partner |-> row'[q].credentials]
              = [[q \in Partner |-> row[q].credentials] EXCEPT ![p] = e.credentials]
         /\ [q \in Partner |-> row'[q].credScopes]
              = [[q \in Partner |-> row[q].credScopes] EXCEPT ![p] = e.credScopes]
         /\ [q \in Partner |-> row'[q].hooks]
              = [[q \in Partner |-> row[q].hooks] EXCEPT ![p] = e.hooks]
BY DEF TypeOK

LEMMA WriteImplements ==
  ASSUME TypeOK, PartnerInv, NEW r \in Request, Write(r)
  PROVE  [Lifecycle!Next]_Lifecycle!vars
<1>0. PICK p \in Partner : p = on[r]
  BY DEF TypeOK
<1> DEFINE o == op[r]
           d == row[p]
           e == After(o, d)
           status == [q \in Partner |-> row[q].status]
           scopes == [q \in Partner |-> row[q].scopes]
           creds  == [q \in Partner |-> row[q].credentials]
           cscopes == [q \in Partner |-> row[q].credScopes]
           hooks  == [q \in Partner |-> row[q].hooks]
<1>1. p \in Partner /\ o \in Op /\ d \in Row /\ e \in Row
  BY AfterType DEF TypeOK
<1>2. Accepts(o, d) /\ d.status # "absent" /\ RequestSound(r) /\ row' = [row EXCEPT ![p] = e]
  BY <1>0, WriteIsCurrent
<1>3. /\ status' = [status EXCEPT ![p] = e.status]
      /\ scopes' = [scopes EXCEPT ![p] = e.scopes]
      /\ creds' = [creds EXCEPT ![p] = e.credentials]
      /\ cscopes' = [cscopes EXCEPT ![p] = e.credScopes]
      /\ hooks' = [hooks EXCEPT ![p] = e.hooks]
  <2>. HIDE DEF e
  <2>. QED BY <1>1, <1>2, WriteColumns
<1>4. /\ status[p] = d.status /\ scopes[p] = d.scopes /\ creds[p] = d.credentials
      /\ cscopes[p] = d.credScopes /\ hooks[p] = d.hooks
  BY <1>1
<1>5. /\ status = [status EXCEPT ![p] = d.status] /\ scopes = [scopes EXCEPT ![p] = d.scopes]
      /\ creds = [creds EXCEPT ![p] = d.credentials]
      /\ cscopes = [cscopes EXCEPT ![p] = d.credScopes] /\ hooks = [hooks EXCEPT ![p] = d.hooks]
  BY <1>1
<1>6. CASE o.kind \in {"none", "update"}
  <2>1. /\ e.status = d.status /\ e.scopes = d.scopes /\ e.credentials = d.credentials
        /\ e.credScopes = d.credScopes /\ e.hooks = d.hooks
    BY <1>6 DEF After, StatusAfter, CredentialsAfter, HooksAfter
  <2>. QED BY <1>3, <1>5, <2>1 DEF Lifecycle!vars
<1>7. CASE o.kind \in {"reject", "suspend", "activate"}
  <2>1. /\ e.scopes = d.scopes /\ e.credentials = d.credentials
        /\ e.credScopes = d.credScopes /\ e.hooks = d.hooks
    BY <1>7 DEF After, CredentialsAfter, HooksAfter
  <2>2. \/ d.status = "PENDING" /\ e.status = "REJECTED"
        \/ d.status \in {"APPROVED", "ACTIVE"} /\ e.status = "SUSPENDED"
        \/ d.status \in {"APPROVED", "SUSPENDED"} /\ e.status = "ACTIVE"
    BY <1>2, <1>7 DEF After, StatusAfter, Accepts, Usable
  <2>3. <<d.status, e.status>> \in Lifecycle!Transition
        /\ e.status \in {"PENDING", "REJECTED", "ACTIVE", "SUSPENDED"}
    BY <2>2 DEF Lifecycle!Transition
  <2>. HIDE DEF d, e
  <2>4. Lifecycle!ChangeStatus(p)
    BY <1>3, <1>4, <1>5, <2>1, <2>3 DEF Lifecycle!ChangeStatus
  <2>. QED BY <1>0, <2>4, PartnerSteps
<1>8. CASE o.kind = "approve"
  <2>1. /\ d.status = "PENDING" /\ e.status = "APPROVED" /\ e.scopes = o.scopes
        /\ e.credentials = d.credentials /\ e.credScopes = d.credScopes /\ e.hooks = d.hooks
    BY <1>2, <1>8 DEF After, StatusAfter, CredentialsAfter, HooksAfter, Accepts
  <2>2. o.scopes \in SUBSET Scope
    BY <1>1, <1>8, OpFields
  <2>. HIDE DEF d, e, o
  <2>3. Lifecycle!Approve(p)
    BY <1>3, <1>4, <1>5, <2>1, <2>2 DEF Lifecycle!Approve
  <2>. QED BY <1>0, <2>3, PartnerSteps
<1>9. CASE o.kind \in {"issue", "replace"}
  <2>1. /\ e.status = d.status /\ e.scopes = d.scopes /\ e.hooks = d.hooks
        /\ e.credentials = [d.credentials EXCEPT ![o.cred] = "ACTIVE"]
        /\ e.credScopes = [d.credScopes EXCEPT ![o.cred] = o.scopes]
    BY <1>9 DEF After, StatusAfter, CredentialsAfter, HooksAfter
  <2>2. o.cred \in Credential /\ NewCredential(o) = {o.cred}
    BY <1>1, <1>9, OpFields DEF NewCredential
  <2>3. d.status \in {"APPROVED", "ACTIVE", "SUSPENDED"} /\ o.scopes \subseteq d.scopes
        /\ d.credentials[o.cred] = "absent"
    BY <1>0, <1>1, <1>2, <1>9, <2>2 DEF RequestSound, Granted
  <2>. HIDE DEF d, e, o
  <2>4. creds' = [creds EXCEPT ![p][o.cred] = "ACTIVE"]
        /\ cscopes' = [cscopes EXCEPT ![p][o.cred] = o.scopes]
    BY <1>3, <1>4, <2>1
  <2>5. UNCHANGED <<status, scopes, hooks>>
    BY <1>3, <1>5, <2>1
  <2>6. Lifecycle!Granted(p) /\ creds[p][o.cred] = "absent" /\ o.scopes \in SUBSET scopes[p]
    BY <1>4, <2>3 DEF Lifecycle!Granted
  <2>. HIDE DEF status, scopes, creds, cscopes, hooks
  <2>7. \E c \in Credential, sc \in SUBSET scopes[p] :
          /\ Lifecycle!Granted(p)
          /\ creds[p][c] = "absent"
          /\ creds' = [creds EXCEPT ![p][c] = "ACTIVE"]
          /\ cscopes' = [cscopes EXCEPT ![p][c] = sc]
          /\ UNCHANGED <<status, scopes, hooks>>
    BY <2>2, <2>4, <2>5, <2>6
  <2>8. Lifecycle!Issue(p)
    BY <2>7 DEF Lifecycle!Issue, status, scopes, creds, cscopes, hooks
  <2>. QED BY <1>0, <2>8, PartnerSteps
<1>10. CASE o.kind \in {"revoke", "rotate"}
  <2>1. /\ e.status = d.status /\ e.scopes = d.scopes /\ e.hooks = d.hooks
        /\ e.credentials = [d.credentials EXCEPT ![o.cred] = "REVOKED"]
        /\ e.credScopes = d.credScopes
    BY <1>10 DEF After, StatusAfter, CredentialsAfter, HooksAfter
  <2>2. o.cred \in Credential /\ d.credentials[o.cred] # "absent"
    BY <1>1, <1>2, <1>10, OpFields DEF Accepts
  <2>. HIDE DEF d, e, o
  <2>3. creds' = [creds EXCEPT ![p][o.cred] = "REVOKED"]
    BY <1>3, <1>4, <2>1
  <2>4. UNCHANGED <<status, scopes, cscopes, hooks>>
    BY <1>3, <1>5, <2>1
  <2>5. creds[p][o.cred] # "absent"
    BY <1>4, <2>2
  <2>. HIDE DEF status, scopes, creds, cscopes, hooks
  <2>6. \E c \in Credential :
          /\ creds[p][c] # "absent"
          /\ creds' = [creds EXCEPT ![p][c] = "REVOKED"]
          /\ UNCHANGED <<status, scopes, cscopes, hooks>>
    BY <2>2, <2>3, <2>4, <2>5
  <2>7. Lifecycle!Revoke(p)
    BY <2>6 DEF Lifecycle!Revoke, status, scopes, creds, cscopes, hooks
  <2>. QED BY <1>0, <2>7, PartnerSteps
<1>11. CASE o.kind \in {"addHook", "updateHook", "deleteHook"}
  <2>1. /\ e.status = d.status /\ e.scopes = d.scopes
        /\ e.credentials = d.credentials /\ e.credScopes = d.credScopes
    BY <1>11 DEF After, StatusAfter, CredentialsAfter
  <2>2. \E h \in Hook, st \in HookState : e.hooks = [d.hooks EXCEPT ![h] = st]
    BY <1>1, <1>11, OpFields DEF After, HooksAfter, HookState
  <2>3. d.status \in {"APPROVED", "ACTIVE", "SUSPENDED"}
    BY <1>0, <1>2, <1>11 DEF RequestSound, Granted
  <2>. HIDE DEF d, e, o
  <2>4. PICK h \in Hook, st \in HookState : e.hooks = [d.hooks EXCEPT ![h] = st]
    BY <2>2
  <2>5. hooks' = [hooks EXCEPT ![p][h] = st]
    BY <1>3, <1>4, <2>4
  <2>6. UNCHANGED <<status, scopes, creds, cscopes>>
    BY <1>3, <1>5, <2>1
  <2>7. Lifecycle!Granted(p)
    BY <1>4, <2>3 DEF Lifecycle!Granted
  <2>. HIDE DEF status, scopes, creds, cscopes, hooks
  <2>8. \E g \in Hook, state \in {"enabled", "disabled", "absent"} :
          /\ Lifecycle!Granted(p)
          /\ hooks' = [hooks EXCEPT ![p][g] = state]
          /\ UNCHANGED <<status, scopes, creds, cscopes>>
    BY <2>5, <2>6, <2>7 DEF HookState
  <2>9. Lifecycle!SetHook(p)
    BY <2>8 DEF Lifecycle!SetHook, status, scopes, creds, cscopes, hooks
  <2>. QED BY <1>0, <2>9, PartnerSteps
<1>12. o.kind \in {"none", "update", "reject", "suspend", "activate", "approve", "issue", "replace",
                   "revoke", "rotate", "addHook", "updateHook", "deleteHook"}
  BY <1>1 DEF Op
<1>. QED BY <1>6, <1>7, <1>8, <1>9, <1>10, <1>11, <1>12

LEMMA RegisterImplements ==
  ASSUME TypeOK, PartnerInv, NEW p \in Partner, RegisterInsert(p)
  PROVE  [Lifecycle!Next]_Lifecycle!vars
<1> DEFINE e == NewRow("PENDING", 1)
           status == [q \in Partner |-> row[q].status]
           scopes == [q \in Partner |-> row[q].scopes]
           creds  == [q \in Partner |-> row[q].credentials]
           cscopes == [q \in Partner |-> row[q].credScopes]
           hooks  == [q \in Partner |-> row[q].hooks]
<1>1. row[p].status = "absent" /\ row[p] = NewRow("absent", 0)
  BY DEF RegisterInsert, PartnerInv, RowsInv, UnregisteredRows, AbsentRows
<1>2. row' = [row EXCEPT ![p] = e]
  BY DEF RegisterInsert
<1>3. /\ status' = [status EXCEPT ![p] = e.status]
      /\ scopes' = [scopes EXCEPT ![p] = e.scopes]
      /\ creds' = [creds EXCEPT ![p] = e.credentials]
      /\ cscopes' = [cscopes EXCEPT ![p] = e.credScopes]
      /\ hooks' = [hooks EXCEPT ![p] = e.hooks]
  <2>. HIDE DEF e
  <2>. QED BY <1>2, WriteColumns
<1>4. /\ e.status = "PENDING" /\ scopes[p] = e.scopes /\ creds[p] = e.credentials
      /\ cscopes[p] = e.credScopes /\ hooks[p] = e.hooks /\ status[p] = "absent"
  BY <1>1 DEF NewRow
<1>5. UNCHANGED <<scopes, creds, cscopes, hooks>>
  <2>1. /\ scopes = [scopes EXCEPT ![p] = scopes[p]] /\ creds = [creds EXCEPT ![p] = creds[p]]
        /\ cscopes = [cscopes EXCEPT ![p] = cscopes[p]] /\ hooks = [hooks EXCEPT ![p] = hooks[p]]
    OBVIOUS
  <2>. HIDE DEF e, scopes, creds, cscopes, hooks
  <2>. QED BY <1>3, <1>4, <2>1
<1>6. <<status[p], "PENDING">> \in Lifecycle!Transition
  BY <1>4 DEF Lifecycle!Transition
<1>7. status' = [status EXCEPT ![p] = "PENDING"]
  BY <1>3, <1>4
<1>8. Lifecycle!ChangeStatus(p)
  BY <1>5, <1>6, <1>7 DEF Lifecycle!ChangeStatus
<1>. QED BY <1>8, PartnerSteps

\* The service and the repository implement atomic changes of a partner's record:
\* no overlap of requests loses a write, undoes a revocation, leaves the life
\* cycle or widens a grant.
THEOREM AtomicityCorrect == Spec => Atomic
<1>1. Init => Lifecycle!Init
  BY DEF Init, Lifecycle!Init, NewRow
<1>2. TypeOK /\ PartnerInv /\ [Next]_vars => [Lifecycle!Next]_Lifecycle!vars
  <2> SUFFICES ASSUME TypeOK, PartnerInv, [Next]_vars PROVE [Lifecycle!Next]_Lifecycle!vars
    OBVIOUS
  <2>1. CASE UNCHANGED row
    BY <2>1 DEF Lifecycle!vars
  <2>2. ASSUME NEW r \in Request, NEW p \in Partner, Submit(r, p)
        PROVE  UNCHANGED row
    BY <2>2, SubmitBegins DEF Begin
  <2>3. ASSUME NEW r \in Request, Read(r) \/ Conflict(r) \/ Dies(r)
        PROVE  UNCHANGED row
    BY <2>3 DEF Read, Conflict, Dies
  <2>4. ASSUME NEW p \in Partner, RegisterCheck(p)
        PROVE  UNCHANGED row
    BY <2>4 DEF RegisterCheck
  <2>. QED BY <2>1, <2>2, <2>3, <2>4, WriteImplements, RegisterImplements DEF Next, vars
<1>. QED BY TypeCorrect, PartnerInductive, <1>1, <1>2, PTL DEF Spec, Atomic, Lifecycle!Spec

=============================================================================
