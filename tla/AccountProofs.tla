--------------------------- MODULE AccountProofs ---------------------------
(***************************************************************************)
(* Type correctness of Account; that no step of the registration is        *)
(* skipped and no code gets more attempts than its limit, for any number   *)
(* of users and of overlapping requests; and, for requests that come one   *)
(* after the other, the bounds on codes, resends and failed logins, and    *)
(* that the accounts implement AccountLifecycle.                           *)
(***************************************************************************)
EXTENDS Account, FiniteSetTheorems, WellFoundedInduction, TLAPS

-----------------------------------------------------------------------------
\* Types

Op == Operation \cup {"none", "lock", "recount", "suspend"}

AnyCall == [pc : Pc, op : Op, user : User \cup {NoUser}, arg : Password \cup {NoPassword} \cup Status,
            code : Nat, token : Nat, tries : Nat, seen : Row]

\* A request that stores a password, or a status, was given one.
CallOK(c) ==
  /\ c \in AnyCall
  /\ c.pc = "inserting" \/ (c.pc # "idle" /\ c.op \in {"reset", "password"}) => c.arg \in Password
  /\ c.pc # "idle" /\ c.op = "status" => c.arg \in Status
  /\ c.pc \notin {"idle", "inserting"} => c.user \in User
  /\ c.pc \in {"marking", "missing"} => c.token # 0

TypeInv ==
  /\ TypeOK
  /\ call \in [Request -> AnyCall]
  /\ \A r \in Request : CallOK(call[r])

\* Tokens are added, and keep whose they are, of what kind, and that they were used.
TokensGrow ==
  /\ tokens' \in Seq(Token)
  /\ Len(tokens) <= Len(tokens')
  /\ \A i \in 1 .. Len(tokens) :
       /\ tokens'[i].user = tokens[i].user
       /\ tokens'[i].kind = tokens[i].kind
       /\ tokens[i].used = "code" => tokens'[i].used = "code"

LEMMA RowTypes ==
  /\ Unborn \in Row /\ Deleted \in Row
  /\ Idle \in AnyCall /\ CallOK(Idle)
  /\ \A pc \in Pc : At(pc) \in AnyCall /\ At(pc).pc = pc /\ At(pc).op = "none"
<1>1. Unborn \in Row
  BY DEF Unborn, Row
<1>2. Deleted \in Row
  BY <1>1 DEF Deleted, Row
<1>3. Idle \in AnyCall
  BY <1>1 DEF Idle, AnyCall, Pc, Op
<1>4. CallOK(Idle)
  BY <1>3 DEF CallOK, Idle
<1>5. ASSUME NEW pc \in Pc
      PROVE  At(pc) \in AnyCall /\ At(pc).pc = pc /\ At(pc).op = "none"
  BY <1>3 DEF At, AnyCall, Idle
<1>. QED BY <1>1, <1>2, <1>3, <1>4, <1>5

\* Every way in which a step may change the requests.
LEMMA CallTypes ==
  ASSUME TypeInv, TokensGrow, NEW r \in Request, NEW STATE n, CallOK(n), n.token \in 0 .. Len(tokens),
         call' = [call EXCEPT ![r] = n]
  PROVE  /\ call' \in [Request -> AnyCall]
         /\ \A q \in Request : CallOK(call'[q])
         /\ \A q \in Request :
              /\ call'[q].pc \in Pc
              /\ call'[q].user \in User \cup {NoUser}
              /\ call'[q].token \in 0 .. Len(tokens')
              /\ call'[q].tries \in Nat
              /\ call'[q].seen \in Row
<1>. HIDE DEF AnyCall, Row
<1>1. call' \in [Request -> AnyCall]
  BY DEF TypeInv, CallOK
<1>2. \A q \in Request : call'[q] = IF q = r THEN n ELSE call[q]
  BY DEF TypeInv
<1>3. \A q \in Request : CallOK(call'[q])
  BY <1>2 DEF TypeInv
<1>4. \A q \in Request : call'[q].token \in 0 .. Len(tokens)
  BY <1>2 DEF TypeInv, TypeOK
<1>5. \A q \in Request : call'[q].token \in 0 .. Len(tokens')
  BY <1>4 DEF TokensGrow, TypeInv, TypeOK
<1>6. \A q \in Request :
        /\ call'[q].pc \in Pc
        /\ call'[q].user \in User \cup {NoUser}
        /\ call'[q].tries \in Nat
        /\ call'[q].seen \in Row
  BY <1>1 DEF AnyCall
<1>. QED BY <1>1, <1>3, <1>5, <1>6

LEMMA StepTypes ==
  ASSUME TypeInv, TokensGrow, NEW r \in Request, NEW STATE n, CallOK(n), n.token \in 0 .. Len(tokens),
         call' = [call EXCEPT ![r] = n], user' \in [User -> Row], made' \in 0 .. MaxRequests,
         faults' \in 0 .. MaxFaults, admitted' \subseteq User, wrong' \in [User -> Nat], mistaken' \subseteq User
  PROVE  TypeInv'
<1>. HIDE DEF AnyCall, Row
<1>1. tokens' \in Seq(Token)
  BY DEF TokensGrow
<1>. QED BY <1>1, CallTypes DEF TypeInv, TypeOK

LEMMA SameTokens ==
  ASSUME TypeInv, UNCHANGED tokens
  PROVE  TokensGrow
BY DEF TypeInv, TypeOK, TokensGrow

\* A new request is as its service makes it.
Asks(r, op, u, n) ==
  /\ Begin(r, op, u, n)
  /\ n \in AnyCall /\ n.token = 0 /\ n.pc \notin {"idle", "marking", "missing"}
  /\ IF n.pc = "inserting" THEN op = "register" /\ n.arg \in Password ELSE u \in User
  /\ op \in {"reset", "password"} => n.arg \in Password
  /\ op = "status" => n.arg \in Status

LEMMA AsksTypes ==
  ASSUME TypeInv, NEW r \in Request, NEW op, NEW u \in User \cup {NoUser}, NEW n, Asks(r, op, u, n)
  PROVE  TypeInv' /\ TokensGrow
<1>. DEFINE m == [n EXCEPT !.op = op, !.user = u]
<1>1. m \in AnyCall /\ CallOK(m) /\ m.token = 0
  BY DEF Asks, Begin, AnyCall, Op, CallOK
<1>2. call' = [call EXCEPT ![r] = m] /\ made' = made + 1 /\ made < MaxRequests
      /\ UNCHANGED <<user, tokens, faults, admitted, wrong, mistaken>>
  BY DEF Asks, Begin, history
<1>3. TokensGrow
  BY <1>2, SameTokens
<1>4. Len(tokens) \in Nat
  BY DEF TypeInv, TypeOK
<1>. HIDE DEF m, AnyCall, Row
<1>5. TypeInv'
  <2>1. m.token \in 0 .. Len(tokens)
    BY <1>1, <1>4
  <2>2. made' \in 0 .. MaxRequests
    BY <1>2, AccountAssumption DEF TypeInv, TypeOK
  <2>3. /\ user' \in [User -> Row] /\ faults' \in 0 .. MaxFaults /\ admitted' \subseteq User
        /\ wrong' \in [User -> Nat] /\ mistaken' \subseteq User
    BY <1>2 DEF TypeInv, TypeOK
  <2>. QED BY <1>1, <1>2, <1>3, <2>1, <2>2, <2>3, StepTypes
<1>. QED BY <1>3, <1>5

\* What is asked for.
Asked == {"register", "verify", "resend", "forgot", "reset", "login", "fail", "approve", "reject",
          "unlock", "unlockAny", "password", "status"}

\* What the services let a request begin with.
AskedOf(op, u) ==
  /\ op \in {"verify", "resend"} => user[u].status = "UNVERIFIED"
  /\ op \in {"forgot", "reset"} => user[u].status \in {"ACTIVE", "LOCKED"}
  /\ op \in {"login", "fail"} => user[u].status = "ACTIVE"
  /\ op \in {"approve", "reject"} => user[u].status = "PENDING_APPROVAL"
  /\ op = "unlock" => user[u].status = "LOCKED"
  /\ op = "register" => Registered = {} /\ u = NoUser
  /\ op \in {"unlockAny", "password", "status"} => Present(u)

FirstPc(op) ==
  CASE op = "register" -> "inserting" [] op \in {"verify", "reset"} -> "matching" [] op = "resend" -> "counting"
    [] op = "forgot" -> "replacing" [] OTHER -> "reading"

\* A request at its first statement.
FirstOK(n, pc) == n \in AnyCall /\ n.pc = pc /\ n.token = 0

LEMMA FirstForms ==
  ASSUME NEW pc \in Pc, NEW code \in Nat, NEW arg \in Password \cup Status
  PROVE  /\ FirstOK(At(pc), pc)
         /\ FirstOK([At(pc) EXCEPT !.code = code], pc)
         /\ FirstOK([At(pc) EXCEPT !.arg = arg], pc) /\ [At(pc) EXCEPT !.arg = arg].arg = arg
         /\ FirstOK([At(pc) EXCEPT !.code = code, !.arg = arg], pc)
         /\ [At(pc) EXCEPT !.code = code, !.arg = arg].arg = arg
<1>1. At(pc) \in AnyCall /\ At(pc).token = 0 /\ At(pc).pc = pc
  BY RowTypes DEF At, Idle
<1>. HIDE DEF Row
<1>. QED BY <1>1 DEF AnyCall, FirstOK

\* What a service starts a request with, once the user is found.
Starts(r, op, u, n) ==
  /\ Begin(r, op, u, n) /\ FirstOK(n, FirstPc(op))
  /\ op \in {"register", "reset", "password"} => n.arg \in Password
  /\ op = "status" => n.arg \in Status

LEMMA StartsAsks ==
  ASSUME NEW r, NEW u \in User \cup {NoUser}, NEW n,
         NEW op \in Asked,
         Starts(r, op, u, n), op # "register" => u \in User
  PROVE  Asks(r, op, u, n) /\ n.pc = FirstPc(op) /\ op \in Operation
BY DEF Asked, Starts, Asks, FirstOK, FirstPc, Begin

LEMMA AskForms ==
  ASSUME TypeInv, NEW r \in Request, Ask(r)
  PROVE  \E op \in Operation, u \in User \cup {NoUser} : \E n :
           Asks(r, op, u, n) /\ AskedOf(op, u) /\ n.pc = FirstPc(op)
             /\ op \in Asked
<1>0. \A i \in 0 .. Len(tokens) : i \in Nat
  OBVIOUS
<1>1. ASSUME NEW p \in Password, Register(r, p)
      PROVE  \E n : Starts(r, "register", NoUser, n) /\ AskedOf("register", NoUser)
  <2>1. FirstOK([At("inserting") EXCEPT !.arg = p], "inserting") /\ [At("inserting") EXCEPT !.arg = p].arg = p
    <3>1. 0 \in Nat /\ p \in Password \cup Status /\ "inserting" \in Pc
      BY DEF Pc
    <3>. QED BY <3>1, FirstForms
  <2>. QED BY <1>1, <2>1 DEF Register, Starts, FirstPc, AskedOf
<1>2. ASSUME NEW u \in User,
             \/ ResendVerificationCode(r, u) \/ RequestPasswordReset(r, u)
             \/ Approve(r, u) \/ Reject(r, u) \/ Unlock(r, u) \/ UnlockAny(r, u)
             \/ \E p \in Password : Login(r, u, p)
      PROVE  \E op \in Asked : \E n : Starts(r, op, u, n) /\ AskedOf(op, u) /\ op # "register"
  <2>1. FirstOK(At("counting"), "counting") /\ FirstOK(At("replacing"), "replacing") /\ FirstOK(At("reading"), "reading")
    <3>1. 0 \in Nat /\ "ACTIVE" \in Status
      BY DEF Status
    <3>. QED BY <3>1, FirstForms DEF Pc
  <2>2. CASE ResendVerificationCode(r, u)
    BY <2>1, <2>2 DEF ResendVerificationCode, Asked, Starts, FirstPc, AskedOf
  <2>3. CASE RequestPasswordReset(r, u)
    BY <2>1, <2>3 DEF RequestPasswordReset, Asked, Starts, FirstPc, AskedOf
  <2>4. CASE Approve(r, u)
    BY <2>1, <2>4 DEF Approve, Asked, Starts, FirstPc, AskedOf
  <2>5. CASE Reject(r, u)
    BY <2>1, <2>5 DEF Reject, Asked, Starts, FirstPc, AskedOf
  <2>6. CASE Unlock(r, u)
    BY <2>1, <2>6 DEF Unlock, Asked, Starts, FirstPc, AskedOf
  <2>7. CASE UnlockAny(r, u)
    BY <2>1, <2>7 DEF UnlockAny, Asked, Starts, FirstPc, AskedOf
  <2>8. CASE \E p \in Password : Login(r, u, p)
    <3>1. PICK op \in {"login", "fail"} : Begin(r, op, u, At("reading")) /\ user[u].status = "ACTIVE"
      BY <2>8 DEF Login
    <3>. QED BY <2>1, <3>1 DEF Asked, Starts, FirstPc, AskedOf
  <2>. QED BY <1>2, <2>2, <2>3, <2>4, <2>5, <2>6, <2>7, <2>8
<1>3. ASSUME NEW u \in User, NEW code \in 0 .. Len(tokens), VerifyEmail(r, u, code)
      PROVE  \E n : Starts(r, "verify", u, n) /\ AskedOf("verify", u)
  <2>1. FirstOK([At("matching") EXCEPT !.code = code], "matching")
    <3>1. "ACTIVE" \in Status
      BY DEF Status
    <3>. QED BY <1>0, <3>1, FirstForms DEF Pc
  <2>. QED BY <1>3, <2>1 DEF VerifyEmail, Starts, FirstPc, AskedOf
<1>4. ASSUME NEW u \in User, NEW p \in Password, NEW code \in 0 .. Len(tokens), ResetPassword(r, u, code, p)
      PROVE  \E n : Starts(r, "reset", u, n) /\ AskedOf("reset", u)
  <2>. DEFINE n == [At("matching") EXCEPT !.code = code, !.arg = p]
  <2>1. FirstOK(n, "matching") /\ n.arg = p
    <3>1. code \in Nat /\ p \in Password \cup Status /\ "matching" \in Pc
      BY <1>0 DEF Pc
    <3>. QED BY <3>1, FirstForms
  <2>2. Begin(r, "reset", u, n) /\ user[u].status \in {"ACTIVE", "LOCKED"}
    BY <1>4 DEF ResetPassword
  <2>. HIDE DEF n
  <2>. QED BY <2>1, <2>2 DEF Starts, FirstPc, AskedOf
<1>5. ASSUME NEW u \in User, NEW status \in Status, UpdateStatus(r, u, status)
      PROVE  \E n : Starts(r, "status", u, n) /\ AskedOf("status", u)
  <2>1. FirstOK([At("reading") EXCEPT !.arg = status], "reading") /\ [At("reading") EXCEPT !.arg = status].arg = status
    <3>1. 0 \in Nat /\ status \in Password \cup Status /\ "reading" \in Pc
      BY DEF Pc
    <3>. QED BY <3>1, FirstForms
  <2>. QED BY <1>5, <2>1 DEF UpdateStatus, Starts, FirstPc, AskedOf
<1>6. ASSUME NEW u \in User, NEW old \in Password, NEW p \in Password, ChangePassword(r, u, old, p)
      PROVE  \E n : Starts(r, "password", u, n) /\ AskedOf("password", u)
  <2>1. FirstOK([At("reading") EXCEPT !.arg = p], "reading") /\ [At("reading") EXCEPT !.arg = p].arg = p
    <3>1. 0 \in Nat /\ p \in Password \cup Status /\ "reading" \in Pc
      BY DEF Pc
    <3>. QED BY <3>1, FirstForms
  <2>. QED BY <1>6, <2>1 DEF ChangePassword, Starts, FirstPc, AskedOf
<1>7. \E op \in Asked, u \in User \cup {NoUser} : \E n :
        Starts(r, op, u, n) /\ AskedOf(op, u) /\ (op # "register" => u \in User)
  BY <1>1, <1>2, <1>3, <1>4, <1>5, <1>6 DEF Ask, Asked
<1>. QED BY <1>7, StartsAsks

\* Tokens are changed one by one, and never go.
LEMMA TokensChanged ==
  ASSUME tokens \in Seq(Token), NEW STATE new, tokens' = new,
         DOMAIN new = DOMAIN tokens, new = [i \in DOMAIN tokens |-> new[i]],
         \A i \in DOMAIN tokens :
           /\ new[i] \in Token
           /\ new[i].user = tokens[i].user /\ new[i].kind = tokens[i].kind
           /\ tokens[i].used = "code" => new[i].used = "code"
  PROVE  TokensGrow
<1>1. DOMAIN tokens = 1 .. Len(tokens) /\ Len(tokens) \in Nat
  OBVIOUS
<1>. HIDE DEF Token
<1>2. new \in [1 .. Len(tokens) -> Token]
  BY <1>1
<1>3. new \in Seq(Token) /\ Len(new) = Len(tokens)
  BY <1>1, <1>2
<1>. QED BY <1>1, <1>3 DEF TokensGrow

LEMMA AgeGrows ==
  ASSUME TypeInv, NEW j \in 1 .. Len(tokens), Age(j)
  PROVE  TokensGrow
<1>. DEFINE new == [tokens EXCEPT ![j].age = IF @ = "fresh" THEN "expired" ELSE "old"]
<1>0. tokens \in Seq(Token) /\ \A i \in DOMAIN tokens : tokens[i] \in Token
  BY DEF TypeInv, TypeOK
<1>1. \A i \in DOMAIN tokens :
        /\ new[i] \in Token
        /\ new[i].user = tokens[i].user /\ new[i].kind = tokens[i].kind
        /\ tokens[i].used = "code" => new[i].used = "code"
  BY <1>0 DEF Token
<1>2. tokens' = new /\ DOMAIN new = DOMAIN tokens /\ new = [i \in DOMAIN tokens |-> new[i]]
  BY DEF Age
<1>. HIDE DEF new
<1>. QED BY <1>0, <1>1, <1>2, TokensChanged

LEMMA TokenSteps ==
  ASSUME TypeInv, NEW r \in Request,
         ReplaceTokens(r) \/ MissCode(r) \/ MarkUsed(r) \/ IssueToken(r)
  PROVE  TokensGrow
<1>. USE DEF TypeInv, TypeOK
<1>0. /\ tokens \in Seq(Token) /\ \A i \in DOMAIN tokens : tokens[i] \in Token
      /\ DOMAIN tokens = 1 .. Len(tokens) /\ Len(tokens) \in Nat
  OBVIOUS
<1>1. CASE ReplaceTokens(r)
  <2>. DEFINE new == [i \in DOMAIN tokens |->
                        IF i \in Own(r) /\ tokens[i].used = "no" THEN [tokens[i] EXCEPT !.used = "replaced"]
                        ELSE tokens[i]]
  <2>1. \A i \in DOMAIN tokens :
          /\ new[i] \in Token
          /\ new[i].user = tokens[i].user /\ new[i].kind = tokens[i].kind
          /\ tokens[i].used = "code" => new[i].used = "code"
    BY <1>0 DEF Token
  <2>2. tokens' = new /\ DOMAIN new = DOMAIN tokens /\ new = [i \in DOMAIN tokens |-> new[i]]
    BY <1>1 DEF ReplaceTokens
  <2>. HIDE DEF new
  <2>. QED BY <1>0, <2>1, <2>2, TokensChanged
<1>2. CASE MissCode(r)
  <2>. DEFINE new == [i \in DOMAIN tokens |->
                        IF i = call[r].token /\ i \in Stored
                        THEN [tokens[i] EXCEPT !.attempts = call[r].tries + 1] ELSE tokens[i]]
  <2>1. \A i \in DOMAIN tokens :
          /\ new[i] \in Token
          /\ new[i].user = tokens[i].user /\ new[i].kind = tokens[i].kind
          /\ tokens[i].used = "code" => new[i].used = "code"
    <3>1. call[r].tries + 1 \in Nat
      OBVIOUS
    <3>. QED BY <1>0, <3>1 DEF Token
  <2>2. tokens' = new /\ DOMAIN new = DOMAIN tokens /\ new = [i \in DOMAIN tokens |-> new[i]]
    BY <1>2 DEF MissCode
  <2>. HIDE DEF new
  <2>. QED BY <1>0, <2>1, <2>2, TokensChanged
<1>3. CASE MarkUsed(r)
  <2>. DEFINE new == [i \in DOMAIN tokens |->
                        IF i = call[r].token /\ i \in Stored THEN [tokens[i] EXCEPT !.used = "code"] ELSE tokens[i]]
  <2>1. \A i \in DOMAIN tokens :
          /\ new[i] \in Token
          /\ new[i].user = tokens[i].user /\ new[i].kind = tokens[i].kind
          /\ tokens[i].used = "code" => new[i].used = "code"
    BY <1>0 DEF Token
  <2>2. tokens' = new /\ DOMAIN new = DOMAIN tokens /\ new = [i \in DOMAIN tokens |-> new[i]]
    BY <1>3 DEF MarkUsed
  <2>. HIDE DEF new
  <2>. QED BY <1>0, <2>1, <2>2, TokensChanged
<1>4. CASE IssueToken(r)
  <2>. DEFINE new == [user |-> call[r].user, kind |-> Kind(call[r].op),
                      used |-> "no", attempts |-> 0, age |-> "fresh"]
  <2>1. Present(call[r].user) => new \in Token
    BY DEF Token, Present, Kind
  <2>2. tokens' = IF Present(call[r].user) THEN Append(tokens, new) ELSE tokens
    BY <1>4 DEF IssueToken
  <2>. HIDE DEF new, Token
  <2>3. tokens' \in Seq(Token)
    BY <1>0, <2>1, <2>2
  <2>4. Len(tokens) <= Len(tokens') /\ \A i \in 1 .. Len(tokens) : tokens'[i] = tokens[i]
    BY <1>0, <2>2
  <2>. QED BY <2>3, <2>4 DEF TokensGrow
<1>. QED BY <1>1, <1>2, <1>3, <1>4

\* The oldest of the usable tokens is one of them.
LEMMA Least ==
  ASSUME NEW S \in SUBSET Nat, S # {}
  PROVE  Min(S) \in S /\ \A k \in S : Min(S) <= k
<1>1. IsWellFoundedOn(OpToRel(<, Nat), Nat)
  BY NatLessThanWellFounded
<1>2. PICK m \in S : \A k \in S : ~(<<k, m>> \in OpToRel(<, Nat))
  BY <1>1, WFMin
<1>3. \A k \in S : ~(k < m)
  BY <1>2 DEF OpToRel
<1>4. \A k \in S : m <= k
  BY <1>3
<1>. QED BY <1>4 DEF Min

\* What a request does to the users table when it writes.
LEMMA SaveTypes ==
  ASSUME TypeInv, NEW r \in Request, NEW ops, NEW STATE new, NEW STATE n, Save(r, ops, new, n),
         Present(call[r].user) => new \in Row,
         CallOK(n), n.token \in 0 .. Len(tokens),
         admitted' \subseteq User, wrong' \in [User -> Nat], mistaken' \subseteq User
  PROVE  TypeInv' /\ TokensGrow
<1>. HIDE DEF Row
<1>1. user' \in [User -> Row]
  BY DEF Save, TypeInv, TypeOK, Present
<1>2. TokensGrow
  BY SameTokens DEF Save
<1>. QED BY <1>1, <1>2, StepTypes DEF Save, Goes, TypeInv, TypeOK

LEMMA GoesTypes ==
  ASSUME TypeInv, TokensGrow, NEW r \in Request, NEW STATE n, Goes(r, n), CallOK(n), n.token \in 0 .. Len(tokens),
         UNCHANGED <<user, admitted, wrong>>, mistaken' \subseteq User
  PROVE  TypeInv'
BY StepTypes DEF Goes, TypeInv, TypeOK

\* What a request in flight is.
LEMMA CallType ==
  ASSUME TypeInv, NEW r \in Request
  PROVE  /\ CallOK(call[r]) /\ call[r] \in AnyCall
         /\ call[r].token \in 0 .. Len(tokens) /\ call[r].token \in Nat /\ Len(tokens) \in Nat
         /\ Idle.token \in 0 .. Len(tokens) /\ CallOK(Idle)
         /\ call[r].seen \in Row /\ (Present(call[r].user) => user[call[r].user] \in Row)
<1>. HIDE DEF Row
<1>1. Len(tokens) \in Nat
  BY DEF TypeInv, TypeOK
<1>. QED BY <1>1, RowTypes DEF TypeInv, TypeOK, AnyCall, CallOK, Idle, Present

LEMMA UsableTokens ==
  ASSUME TypeInv, NEW r \in Request
  PROVE  /\ Usable(r) \in SUBSET (1 .. Len(tokens)) /\ Usable(r) \in SUBSET Nat
         /\ \A k \in 1 .. Len(tokens) : tokens[k] \in Token /\ tokens[k].attempts \in Nat
<1>1. tokens \in Seq(Token)
  BY DEF TypeInv, TypeOK
<1>2. \A k \in 1 .. Len(tokens) : tokens[k] \in Token
  BY <1>1
<1>3. DOMAIN tokens = 1 .. Len(tokens)
  BY <1>1
<1>. QED BY <1>2, <1>3 DEF Usable, Own, Stored, Token

LEMMA CodeSteps ==
  ASSUME TypeInv, NEW r \in Request,
         \/ CountTokens(r) \/ ReplaceTokens(r) \/ IssueToken(r) \/ MatchCode(r) \/ MissCode(r) \/ MarkUsed(r)
  PROVE  TypeInv' /\ TokensGrow
<1>. DEFINE c == call[r]
<1>. USE CallType
<1>1. CASE CountTokens(r)
  <2>1. TokensGrow
    BY <1>1, SameTokens DEF CountTokens
  <2>. DEFINE n == [c EXCEPT !.pc = "replacing"]
  <2>2. CallOK(n) /\ n.token = c.token
    BY <1>1 DEF CountTokens, CallOK, AnyCall, Pc
  <2>3. Goes(r, n) \/ Goes(r, Idle)
    BY <1>1 DEF CountTokens
  <2>4. UNCHANGED <<user, admitted, wrong, mistaken>>
    BY <1>1 DEF CountTokens, history
  <2>. HIDE DEF n
  <2>. QED BY <2>1, <2>2, <2>3, <2>4, GoesTypes DEF TypeInv, TypeOK
<1>2. CASE ReplaceTokens(r)
  <2>1. TokensGrow
    BY <1>2, TokenSteps
  <2>. DEFINE n == [c EXCEPT !.pc = "issuing"]
  <2>2. CallOK(n) /\ n.token = c.token
    BY <1>2 DEF ReplaceTokens, CallOK, AnyCall, Pc
  <2>3. Goes(r, n) /\ UNCHANGED <<user, admitted, wrong, mistaken>>
    BY <1>2 DEF ReplaceTokens, history
  <2>. HIDE DEF n
  <2>. QED BY <2>1, <2>2, <2>3, GoesTypes DEF TypeInv, TypeOK
<1>3. CASE IssueToken(r)
  <2>1. TokensGrow
    BY <1>3, TokenSteps
  <2>2. Goes(r, Idle) /\ UNCHANGED <<user, admitted, wrong, mistaken>>
    BY <1>3 DEF IssueToken, history
  <2>. QED BY <2>1, <2>2, GoesTypes DEF TypeInv, TypeOK
<1>4. CASE MatchCode(r)
  <2>1. TokensGrow
    BY <1>4, SameTokens DEF MatchCode
  <2>. DEFINE i == Min(Usable(r))
              n == [c EXCEPT !.pc = IF i = c.code THEN "marking" ELSE "missing",
                             !.token = i, !.tries = tokens[i].attempts]
  <2>2. Usable(r) # {} => CallOK(n) /\ n.token = i /\ i \in 0 .. Len(tokens)
    <3>1. Usable(r) \in SUBSET (1 .. Len(tokens)) /\ \A k \in 1 .. Len(tokens) : tokens[k].attempts \in Nat
      BY UsableTokens
    <3>2. Usable(r) # {} => i \in Usable(r)
      BY <3>1, UsableTokens, Least
    <3>. HIDE DEF i
    <3>3. Usable(r) # {} => i \in 1 .. Len(tokens) /\ i \in Nat /\ i # 0 /\ i \in 0 .. Len(tokens)
      BY <3>1, <3>2
    <3>4. Usable(r) # {} => tokens[i].attempts \in Nat
      BY <3>1, <3>3
    <3>5. c.pc = "matching"
      BY <1>4 DEF MatchCode
    <3>6. Usable(r) # {} => n \in AnyCall /\ n.token = i
      BY <3>3, <3>4 DEF AnyCall, Pc
    <3>7. /\ n.pc \in {"marking", "missing"} /\ n.op = c.op /\ n.arg = c.arg /\ n.user = c.user
      BY DEF AnyCall
    <3>. HIDE DEF n
    <3>8. Usable(r) # {} => CallOK(n)
      BY <3>3, <3>5, <3>6, <3>7 DEF CallOK
    <3>. QED BY <3>3, <3>6, <3>8
  <2>3. (Usable(r) # {} /\ Goes(r, n)) \/ Goes(r, Idle)
    BY <1>4 DEF MatchCode
  <2>4. UNCHANGED <<user, admitted, wrong, mistaken>>
    BY <1>4 DEF MatchCode, history
  <2>. HIDE DEF n, i
  <2>. QED BY <2>1, <2>2, <2>3, <2>4, GoesTypes DEF TypeInv, TypeOK
<1>5. CASE MissCode(r)
  <2>1. TokensGrow
    BY <1>5, TokenSteps
  <2>2. Goes(r, Idle) /\ UNCHANGED <<user, admitted, wrong, mistaken>>
    BY <1>5 DEF MissCode, history
  <2>. QED BY <2>1, <2>2, GoesTypes DEF TypeInv, TypeOK
<1>6. CASE MarkUsed(r)
  <2>1. TokensGrow
    BY <1>6, TokenSteps
  <2>. DEFINE n == [c EXCEPT !.pc = "reading"]
  <2>2. CallOK(n) /\ n.token = c.token
    BY <1>6 DEF MarkUsed, CallOK, AnyCall, Pc
  <2>3. Goes(r, n) /\ UNCHANGED <<user, admitted, wrong, mistaken>>
    BY <1>6 DEF MarkUsed, history
  <2>. HIDE DEF n
  <2>. QED BY <2>1, <2>2, <2>3, GoesTypes DEF TypeInv, TypeOK
<1>. QED BY <1>1, <1>2, <1>3, <1>4, <1>5, <1>6

\* The rows that the updates of a user write.
LEMMA RowForms ==
  ASSUME TypeInv, NEW r \in Request, Present(call[r].user)
  PROVE  /\ Secured(call[r]) \in Row /\ Versioned(call[r]) \in Row /\ user[call[r].user] \in Row
         /\ \A n \in Nat : [Secured(call[r]) EXCEPT !.failed = n] \in Row
         /\ \A p \in Password : [Secured(call[r]) EXCEPT !.password = p] \in Row
         /\ \A s \in Status :
              /\ [Secured(call[r]) EXCEPT !.status = s] \in Row
              /\ [Secured(call[r]) EXCEPT !.status = s, !.failed = 0] \in Row
              /\ [Versioned(call[r]) EXCEPT !.status = s] \in Row
         /\ call[r].seen.failed + 1 \in Nat
<1>1. user[call[r].user] \in Row /\ call[r].seen \in Row
  BY CallType
<1>2. call[r].seen.failed + 1 \in Nat /\ call[r].seen.version + 1 \in Nat
  BY <1>1 DEF Row
<1>3. Secured(call[r]) \in Row
  BY <1>1 DEF Secured, Row
<1>4. Versioned(call[r]) \in Row
  BY <1>2, <1>3 DEF Versioned, Row
<1>. QED BY <1>1, <1>2, <1>3, <1>4 DEF Row

LEMMA ReadTypes ==
  ASSUME TypeInv, NEW r \in Request, Read(r)
  PROVE  TypeInv' /\ TokensGrow
<1>. DEFINE c == call[r]
            n == IF Present(c.user) THEN [c EXCEPT !.pc = "writing", !.seen = user[c.user]]
                 ELSE IF Counts(c) THEN [c EXCEPT !.pc = "falling"] ELSE Idle
<1>1. TokensGrow
  BY SameTokens DEF Read
<1>2. c.pc = "reading" /\ Goes(r, n) /\ UNCHANGED <<user, admitted, wrong, mistaken>>
  BY DEF Read, history
<1>3. CallOK(n) /\ n.token \in 0 .. Len(tokens)
  <2>1. Present(c.user) => CallOK([c EXCEPT !.pc = "writing", !.seen = user[c.user]])
    BY <1>2, CallType DEF CallOK, AnyCall, Pc
  <2>2. CallOK([c EXCEPT !.pc = "falling"])
    BY <1>2, CallType DEF CallOK, AnyCall, Pc
  <2>3. n.token = c.token \/ n = Idle
    BY CallType DEF AnyCall
  <2>. QED BY <2>1, <2>2, <2>3, CallType
<1>. HIDE DEF n
<1>. QED BY <1>1, <1>2, <1>3, GoesTypes DEF TypeInv, TypeOK

LEMMA WrongTypes ==
  ASSUME TypeInv, NEW u \in User
  PROVE  /\ [wrong EXCEPT ![u] = @ + 1] \in [User -> Nat] /\ wrong \in [User -> Nat]
         /\ [w \in User |-> IF w = u THEN 0 ELSE wrong[w]] \in [User -> Nat]
BY DEF TypeInv, TypeOK

\* The updates of a user.
Writing(r) ==
  \/ SetEmailVerified(r) \/ ApproveUser(r) \/ RejectUser(r) \/ UnlockUser(r) \/ ResetAndUnlock(r)
  \/ UpdatePassword(r) \/ RecordLogin(r) \/ IncrementFailed(r) \/ LockAccount(r) \/ Recount(r)
  \/ LockUser(r) \/ SetStatus(r)

LEMMA WriteSteps ==
  ASSUME TypeInv, NEW r \in Request, Writing(r)
  PROVE  TypeInv' /\ TokensGrow
<1>. DEFINE c == call[r]
<1>0. c.pc = "writing" /\ c.user \in User
  <2>1. c.pc = "writing"
    BY DEF Writing, SetEmailVerified, ApproveUser, RejectUser, UnlockUser, ResetAndUnlock, UpdatePassword, RecordLogin,
           IncrementFailed, LockAccount, Recount, LockUser, SetStatus, Save
  <2>. QED BY <2>1, CallType DEF CallOK
<1>1. /\ mistaken' \subseteq User /\ admitted' \subseteq User
      /\ wrong' \in [User -> Nat]
  <2>1. UNCHANGED mistaken
    BY DEF Writing, SetEmailVerified, ApproveUser, RejectUser, UnlockUser, ResetAndUnlock, UpdatePassword, RecordLogin,
           IncrementFailed, LockAccount, Recount, LockUser, SetStatus, history
  <2>2. UNCHANGED admitted \/ admitted' = admitted \cup {c.user}
    BY DEF Writing, SetEmailVerified, ApproveUser, RejectUser, UnlockUser, ResetAndUnlock, UpdatePassword, RecordLogin,
           IncrementFailed, LockAccount, Recount, LockUser, SetStatus, history
  <2>3. \/ UNCHANGED wrong \/ wrong' = [wrong EXCEPT ![c.user] = @ + 1]
        \/ wrong' = [w \in User |-> IF w = c.user THEN 0 ELSE wrong[w]]
    BY DEF Writing, SetEmailVerified, ApproveUser, RejectUser, UnlockUser, ResetAndUnlock, UpdatePassword, RecordLogin,
           IncrementFailed, LockAccount, Recount, LockUser, SetStatus, history, Forgets
  <2>4. mistaken \subseteq User /\ admitted \subseteq User
    BY DEF TypeInv, TypeOK
  <2>5. wrong' \in [User -> Nat]
    BY <1>0, <2>3, WrongTypes
  <2>. QED BY <1>0, <2>1, <2>2, <2>4, <2>5
<1>2. CallOK(Idle) /\ Idle.token \in 0 .. Len(tokens)
  BY CallType
<1>3. CASE SetEmailVerified(r)
  BY <1>1, <1>2, <1>3, RowForms, SaveTypes DEF SetEmailVerified, Status
<1>4. CASE ApproveUser(r)
  BY <1>1, <1>2, <1>4, RowForms, SaveTypes DEF ApproveUser, Status
<1>5. CASE RejectUser(r)
  BY <1>1, <1>2, <1>5, RowForms, SaveTypes DEF RejectUser, Status
<1>6. CASE UnlockUser(r)
  BY <1>1, <1>2, <1>6, RowForms, SaveTypes DEF UnlockUser, Status
<1>7. CASE ResetAndUnlock(r)
  <2>. DEFINE new == [Versioned(c) EXCEPT !.password = c.arg, !.failed = 0,
                        !.status = IF c.seen.status = "LOCKED" THEN "ACTIVE" ELSE c.seen.status]
  <2>1. Save(r, {"reset"}, new, Idle)
    BY <1>7 DEF ResetAndUnlock
  <2>2. c.arg \in Password
    BY <1>0, <2>1, CallType DEF CallOK, Save
  <2>3. Present(c.user) => new \in Row
    <3>1. c.seen \in Row
      BY CallType
    <3>2. IF c.seen.status = "LOCKED" THEN "ACTIVE" \in Status \cup {"unborn", "deleted"}
          ELSE c.seen.status \in Status \cup {"unborn", "deleted"}
      BY <3>1 DEF Row, Status
    <3>3. Present(c.user) => Versioned(c) \in Row
      BY RowForms
    <3>4. \A row \in Row, p \in Password, st \in Status \cup {"unborn", "deleted"} :
            [row EXCEPT !.password = p, !.failed = 0, !.status = st] \in Row
      BY DEF Row
    <3>. QED BY <2>2, <3>2, <3>3, <3>4
  <2>. HIDE DEF new
  <2>. QED BY <1>1, <1>2, <2>1, <2>3, SaveTypes
<1>8. CASE UpdatePassword(r)
  <2>1. c.arg \in Password
    BY <1>8, CallType DEF CallOK, Save, UpdatePassword
  <2>. QED BY <1>1, <1>2, <1>8, <2>1, RowForms, SaveTypes DEF UpdatePassword
<1>9. CASE RecordLogin(r)
  BY <1>1, <1>2, <1>9, RowForms, SaveTypes DEF RecordLogin
<1>10. CASE IncrementFailed(r) \/ Recount(r)
  <2>. DEFINE new == [Secured(c) EXCEPT !.failed = c.seen.failed + 1]
  <2>1. Present(c.user) => new \in Row
    BY RowForms
  <2>2. \A op \in {"lock", "suspend"} :
          /\ CallOK([c EXCEPT !.pc = "reading", !.op = op])
          /\ [c EXCEPT !.pc = "reading", !.op = op].token = c.token
    BY <1>0, CallType DEF CallOK, AnyCall, Pc, Op
  <2>3. PICK op \in {"lock", "suspend"} :
          Save(r, {"fail", "recount"}, new, [c EXCEPT !.pc = "reading", !.op = op])
            \/ Save(r, {"fail", "recount"}, new, Idle)
    BY <1>10 DEF IncrementFailed, Recount, Save
  <2>. DEFINE n == [c EXCEPT !.pc = "reading", !.op = op]
  <2>4. CallOK(n) /\ n.token \in 0 .. Len(tokens)
    BY <2>2, CallType
  <2>5. Save(r, {"fail", "recount"}, new, n) \/ Save(r, {"fail", "recount"}, new, Idle)
    BY <2>3
  <2>. HIDE DEF new, n
  <2>. QED BY <1>1, <1>2, <2>1, <2>4, <2>5, SaveTypes
<1>11. CASE LockAccount(r)
  BY <1>1, <1>2, <1>11, RowForms, SaveTypes DEF LockAccount, Status
<1>12. CASE LockUser(r)
  BY <1>1, <1>2, <1>12, RowForms, SaveTypes DEF LockUser, Status
<1>13. CASE SetStatus(r)
  <2>. DEFINE row == user[c.user]
              new == IF row.version = c.seen.version
                     THEN [row EXCEPT !.status = c.arg, !.version = @ + 1] ELSE row
  <2>1. Save(r, {"status"}, new, Idle)
    BY <1>13 DEF SetStatus
  <2>2. c.arg \in Status
    BY <1>0, <2>1, CallType DEF CallOK, Save
  <2>3. Present(c.user) => new \in Row
    <3>1. SUFFICES ASSUME row \in Row
                   PROVE  new \in Row
      BY RowForms
    <3>2. \A st \in Status, v \in Nat : [row EXCEPT !.status = st, !.version = v] \in Row
      <4>. HIDE DEF row
      <4>. QED BY <3>1 DEF Row
    <3>3. row.version + 1 \in Nat
      BY <3>1 DEF Row
    <3>. QED BY <2>2, <3>1, <3>2, <3>3
  <2>. HIDE DEF new
  <2>. QED BY <1>1, <1>2, <2>1, <2>3, SaveTypes
<1>. QED BY <1>3, <1>4, <1>5, <1>6, <1>7, <1>8, <1>9, <1>10, <1>11, <1>12, <1>13 DEF Writing

LEMMA OtherSteps ==
  ASSUME TypeInv, NEW r \in Request, InsertUser(r) \/ FallBack(r) \/ LookUpEmail(r) \/ Dies(r)
  PROVE  TypeInv' /\ TokensGrow
<1>. DEFINE c == call[r]
<1>0. TokensGrow
  BY SameTokens DEF InsertUser, FallBack, LookUpEmail, Dies
<1>1. CASE InsertUser(r)
  <2>1. c.pc = "inserting" /\ c.arg \in Password /\ UNCHANGED <<admitted, wrong, mistaken>>
    BY <1>1, CallType DEF InsertUser, CallOK, history
  <2>2. CASE Goes(r, Idle) /\ UNCHANGED user
    BY <1>0, <2>1, <2>2, GoesTypes, CallType DEF TypeInv, TypeOK
  <2>3. CASE \E u \in User :
               /\ user' = [user EXCEPT ![u] =
                    [status |-> "UNVERIFIED", password |-> c.arg, failed |-> 0, version |-> 1]]
               /\ Goes(r, [c EXCEPT !.pc = "replacing", !.user = u])
    <3>1. PICK u \in User :
            /\ user' = [user EXCEPT ![u] =
                 [status |-> "UNVERIFIED", password |-> c.arg, failed |-> 0, version |-> 1]]
            /\ Goes(r, [c EXCEPT !.pc = "replacing", !.user = u])
      BY <2>3
    <3>2. [status |-> "UNVERIFIED", password |-> c.arg, failed |-> 0, version |-> 1] \in Row
      BY <2>1 DEF Row, Status
    <3>3. user' \in [User -> Row]
      BY <3>1, <3>2 DEF TypeInv, TypeOK
    <3>. DEFINE n == [c EXCEPT !.pc = "replacing", !.user = u]
    <3>4. CallOK(n) /\ n.token = c.token
      BY <2>1, CallType DEF CallOK, AnyCall, Pc
    <3>5. Goes(r, n)
      BY <3>1
    <3>. HIDE DEF n, Row
    <3>. QED BY <1>0, <2>1, <3>3, <3>4, <3>5, StepTypes, CallType DEF Goes, TypeInv, TypeOK
  <2>. QED BY <1>1, <2>2, <2>3 DEF InsertUser
<1>2. CASE FallBack(r)
  <2>. DEFINE n == [c EXCEPT !.pc = "falling"]
  <2>1. CallOK(n) /\ n.token = c.token
    BY <1>2, CallType DEF FallBack, CallOK, AnyCall, Pc
  <2>2. call' = [call EXCEPT ![r] = n]
    BY <1>2 DEF FallBack, TypeInv
  <2>3. faults' \in 0 .. MaxFaults
    BY <1>2, AccountAssumption DEF FallBack, TypeInv, TypeOK
  <2>4. UNCHANGED <<user, made, admitted, wrong, mistaken>>
    BY <1>2 DEF FallBack, history
  <2>. HIDE DEF n
  <2>. QED BY <1>0, <2>1, <2>2, <2>3, <2>4, StepTypes, CallType DEF TypeInv, TypeOK
<1>3. CASE LookUpEmail(r)
  <2>1. mistaken' \subseteq User /\ UNCHANGED <<user, admitted, wrong>>
    BY <1>3 DEF LookUpEmail, Registered, TypeInv, TypeOK
  <2>2. CASE Goes(r, Idle)
    BY <1>0, <2>1, <2>2, GoesTypes, CallType
  <2>3. CASE \E u \in Registered : Goes(r, [At("reading") EXCEPT !.op = "recount", !.user = u])
    <3>1. PICK u \in User : Goes(r, [At("reading") EXCEPT !.op = "recount", !.user = u])
      BY <2>3 DEF Registered
    <3>. DEFINE n == [At("reading") EXCEPT !.op = "recount", !.user = u]
    <3>2. At("reading") \in AnyCall /\ At("reading").token = 0 /\ At("reading").pc = "reading"
      BY RowTypes DEF At, Idle, Pc
    <3>3. CallOK(n) /\ n.token = 0
      BY <3>2 DEF CallOK, AnyCall, Op
    <3>4. Goes(r, n)
      BY <3>1
    <3>. HIDE DEF n
    <3>. QED BY <1>0, <2>1, <3>3, <3>4, GoesTypes, CallType DEF Idle
  <2>. QED BY <1>3, <2>2, <2>3 DEF LookUpEmail
<1>4. CASE Dies(r)
  <2>1. faults' \in 0 .. MaxFaults
    BY <1>4, AccountAssumption DEF Dies, TypeInv, TypeOK
  <2>2. call' = [call EXCEPT ![r] = Idle] /\ UNCHANGED <<user, made, admitted, wrong, mistaken>>
    BY <1>4 DEF Dies, history
  <2>. QED BY <1>0, <2>1, <2>2, StepTypes, CallType DEF TypeInv, TypeOK
<1>. QED BY <1>0, <1>1, <1>2, <1>3, <1>4

LEMMA TimeAndDelete ==
  ASSUME TypeInv, (\E u \in User : Delete(u)) \/ (\E i \in 1 .. Len(tokens) : Age(i))
  PROVE  TypeInv' /\ TokensGrow
<1>. HIDE DEF AnyCall, Row
<1>1. CASE \E u \in User : Delete(u)
  <2>1. PICK u \in User : Delete(u)
    BY <1>1
  <2>2. TokensGrow
    BY <2>1, SameTokens DEF Delete
  <2>3. user' \in [User -> Row] /\ wrong' \in [User -> Nat]
    BY <2>1, RowTypes DEF Delete, TypeInv, TypeOK
  <2>4. made' \in 0 .. MaxRequests
    BY <2>1, AccountAssumption DEF Delete, TypeInv, TypeOK
  <2>5. UNCHANGED <<tokens, call, faults, admitted, mistaken>>
    BY <2>1 DEF Delete
  <2>. QED BY <2>2, <2>3, <2>4, <2>5 DEF TypeInv, TypeOK
<1>2. CASE \E i \in 1 .. Len(tokens) : Age(i)
  <2>1. UNCHANGED <<user, call, made, faults, admitted, wrong, mistaken>>
    BY <1>2 DEF Age, history
  <2>2. TokensGrow
    BY <1>2, AgeGrows
  <2>3. \A q \in Request : call'[q].token \in 0 .. Len(tokens')
    BY <2>1, <2>2 DEF TokensGrow, TypeInv, TypeOK
  <2>. QED BY <2>1, <2>2, <2>3 DEF TypeInv, TypeOK, TokensGrow
<1>. QED BY <1>1, <1>2

LEMMA Steps ==
  ASSUME TypeInv, [Next]_vars
  PROVE  TypeInv' /\ TokensGrow
<1>1. CASE UNCHANGED vars
  BY <1>1, SameTokens DEF TypeInv, TypeOK, vars
<1>2. ASSUME NEW r \in Request, Ask(r)
      PROVE  TypeInv' /\ TokensGrow
  BY <1>2, AskForms, AsksTypes
<1>3. ASSUME NEW r \in Request, Continue(r) \/ Dies(r)
      PROVE  TypeInv' /\ TokensGrow
  BY <1>3, CodeSteps, ReadTypes, WriteSteps, OtherSteps DEF Continue, Writing
<1>. QED BY <1>1, <1>2, <1>3, TimeAndDelete DEF Next

LEMMA TypeInit ==
  ASSUME Init
  PROVE  TypeInv
<1>1. user \in [User -> Row] /\ tokens \in Seq(Token) /\ call \in [Request -> AnyCall]
  BY RowTypes DEF Init
<1>2. \A r \in Request : call[r] = Idle /\ CallOK(call[r])
  BY RowTypes DEF Init
<1>. QED BY <1>1, <1>2, AccountAssumption DEF Init, TypeInv, TypeOK, Idle, AnyCall, Pc

LEMMA TypeInvCorrect == Spec => []TypeInv
<1>1. Init => TypeInv
  BY TypeInit
<1>2. TypeInv /\ [Next]_vars => TypeInv'
  BY Steps
<1>. QED BY <1>1, <1>2, PTL DEF Spec

\* Type correctness.
THEOREM TypeCorrect == Spec => []TypeOK
BY TypeInvCorrect, PTL DEF TypeInv

-----------------------------------------------------------------------------
\* Steps of the registration

\* What a request in flight may count on.
Justified(c) ==
  /\ c.pc = "inserting" => c.op = "register"
  /\ c.pc = "falling" => Counts(c)
  /\ c.pc = "writing" => c.seen.status \in Status
  /\ c.pc \notin {"idle", "inserting"} => user[c.user].status # "unborn"
  /\ c.pc \notin {"idle", "inserting"} /\ c.user \notin mistaken =>
       /\ c.op \in {"login", "fail", "lock", "forgot", "reset", "recount", "suspend"} => c.user \in admitted
       /\ c.op = "reject" => c.user \in admitted \/ Verified(c.user)
       /\ c.op = "verify" /\ c.pc \in {"reading", "writing"} =>
            Verified(c.user) \/ user[c.user].status = "deleted"
       /\ c.op = "verify" /\ c.pc = "marking" =>
            tokens[c.token].user = c.user /\ tokens[c.token].kind = "EMAIL_VERIFICATION"

StepsInv == NoStepSkipped /\ \A r \in Request : Justified(call[r])

\* What is so of a user, or of a token, stays so.
Advances ==
  /\ TokensGrow
  /\ admitted \subseteq admitted'
  /\ mistaken \subseteq mistaken'
  /\ \A u \in User : /\ user[u].status # "unborn" => user'[u].status # "unborn"
                     /\ user[u].status = "deleted" => user'[u].status = "deleted"

LEMMA VerifiedStays ==
  ASSUME TypeInv, TokensGrow, NEW u \in User, Verified(u)
  PROVE  Verified(u)'
<1>1. tokens \in Seq(Token) /\ tokens' \in Seq(Token) /\ Len(tokens) <= Len(tokens')
  BY DEF TypeInv, TypeOK, TokensGrow
<1>2. PICK i \in DOMAIN tokens :
        tokens[i].user = u /\ tokens[i].kind = "EMAIL_VERIFICATION" /\ tokens[i].used = "code"
  BY DEF Verified
<1>3. i \in 1 .. Len(tokens) /\ i \in DOMAIN tokens'
  BY <1>1, <1>2
<1>. QED BY <1>2, <1>3 DEF Verified, TokensGrow

LEMMA JustifiedStays ==
  ASSUME TypeInv, Advances, NEW q \in Request, call'[q] = call[q], Justified(call[q])
  PROVE  Justified(call[q])'
<1>. DEFINE c == call[q]
<1>1. CallOK(c) /\ c.token \in 0 .. Len(tokens) /\ Len(tokens) \in Nat
  BY CallType
<1>2. c' = c
  OBVIOUS
<1>3. c.user \in User => (Verified(c.user) => Verified(c.user)')
  <2>1. ASSUME c.user \in User, Verified(c.user)
        PROVE  Verified(c.user)'
    BY <2>1, <1>2, VerifiedStays DEF Advances, Verified
  <2>. QED BY <2>1
<1>4. c.pc \in {"marking"} => c.token \in 1 .. Len(tokens)
  BY <1>1 DEF CallOK
<1>5. c.pc \notin {"idle", "inserting"} => c.user \in User
  BY <1>1 DEF CallOK
<1>. HIDE DEF c
<1>6. /\ c.pc = "inserting" => c.op = "register"
      /\ c.pc = "falling" => Counts(c)'
      /\ c.pc = "writing" => c.seen.status \in Status
      /\ c.pc \notin {"idle", "inserting"} => user'[c.user].status # "unborn"
      /\ c.pc \notin {"idle", "inserting"} /\ c.user \notin mistaken' =>
           /\ c.op \in {"login", "fail", "lock", "forgot", "reset", "recount", "suspend"} => c.user \in admitted'
           /\ c.op = "reject" => c.user \in admitted' \/ Verified(c.user)'
           /\ c.op = "verify" /\ c.pc \in {"reading", "writing"} =>
                Verified(c.user)' \/ user'[c.user].status = "deleted"
           /\ c.op = "verify" /\ c.pc = "marking" =>
                tokens'[c.token].user = c.user /\ tokens'[c.token].kind = "EMAIL_VERIFICATION"
  <2>1. Justified(c)
    BY DEF c
  <2>. QED BY <1>2, <1>3, <1>4, <1>5, <2>1 DEF Justified, Advances, TokensGrow, Counts
<1>. QED BY <1>2, <1>6 DEF Justified, c, Counts, Verified

LEMMA StepsHold ==
  ASSUME TypeInv, StepsInv, Advances, NEW r \in Request,
         \A q \in Request : q # r => call'[q] = call[q],
         Justified(call[r])',
         \A u \in User \ mistaken' : user'[u].status # user[u].status =>
           /\ user'[u].status \in Status \ {"UNVERIFIED"} => u \in admitted' \/ Verified(u)
           /\ user'[u].status \in {"ACTIVE", "LOCKED"} => u \in admitted'
  PROVE  StepsInv'
<1>1. \A q \in Request : Justified(call[q])'
  <2>1. ASSUME NEW q \in Request, q # r
        PROVE  Justified(call[q])'
    BY <2>1, JustifiedStays DEF StepsInv
  <2>. QED BY <2>1
<1>2. NoStepSkipped'
  <2>1. SUFFICES ASSUME NEW u \in User, u \notin mistaken'
                 PROVE  /\ user'[u].status \in Status \ {"UNVERIFIED"} => u \in admitted' \/ Verified(u)'
                        /\ user'[u].status \in {"ACTIVE", "LOCKED"} => u \in admitted'
    BY DEF NoStepSkipped, Verified
  <2>2. Verified(u) => Verified(u)'
    BY VerifiedStays DEF Advances
  <2>3. /\ user[u].status \in Status \ {"UNVERIFIED"} => u \in admitted \/ Verified(u)
        /\ user[u].status \in {"ACTIVE", "LOCKED"} => u \in admitted
    BY <2>1 DEF StepsInv, NoStepSkipped, Advances
  <2>. QED BY <2>1, <2>2, <2>3 DEF Advances
<1>. QED BY <1>1, <1>2 DEF StepsInv

\* A step that leaves the users alone.
LEMMA SameUsers ==
  ASSUME TypeInv, StepsInv, TokensGrow, NEW r \in Request, NEW STATE n, call' = [call EXCEPT ![r] = n],
         UNCHANGED <<user, admitted>>, mistaken \subseteq mistaken',
         \/ n.pc = "idle" \/ (n.pc = "inserting" /\ n.op = "register")
         \/ Justified(call[r])'
  PROVE  StepsInv'
<1>1. Advances
  BY DEF Advances
<1>2. call'[r] = n /\ \A q \in Request : q # r => call'[q] = call[q]
  BY DEF TypeInv
<1>3. Justified(call[r])'
  BY <1>2 DEF Justified
<1>. QED BY <1>1, <1>2, <1>3, StepsHold

LEMMA AskSteps ==
  ASSUME TypeInv, StepsInv, NEW r \in Request, Ask(r)
  PROVE  StepsInv'
<1>0. PICK op \in Operation, u \in User \cup {NoUser} : \E n :
        Asks(r, op, u, n) /\ AskedOf(op, u) /\ n.pc = FirstPc(op) /\ op \in Asked
  BY AskForms
<1>1. PICK n : Asks(r, op, u, n) /\ AskedOf(op, u) /\ n.pc = FirstPc(op) /\ op \in Asked
  BY <1>0
<1>. DEFINE m == [n EXCEPT !.op = op, !.user = u]
<1>2. TokensGrow
  BY <1>1, AsksTypes
<1>3. call' = [call EXCEPT ![r] = m] /\ UNCHANGED <<user, tokens, admitted, wrong, mistaken>>
  BY <1>1 DEF Asks, Begin, history
<1>4. m.pc = n.pc /\ m.op = op /\ m.user = u
  BY <1>1 DEF Asks, AnyCall
<1>5. call'[r] = m
  BY <1>3 DEF TypeInv
<1>6. CASE op = "register"
  BY <1>1, <1>2, <1>3, <1>4, <1>6, SameUsers DEF FirstPc
<1>7. CASE op # "register"
  <2>1. u \in User /\ m.pc \notin {"idle", "inserting", "falling", "writing", "marking"}
    BY <1>1, <1>4, <1>7 DEF Asks, FirstPc
  <2>2. op = "verify" => m.pc = "matching"
    BY <1>1, <1>4 DEF FirstPc
  <2>3. user[u].status # "unborn"
    BY <1>1, <1>7, <2>1 DEF AskedOf, Asked, Present, Status
  <2>4. u \notin mistaken /\ op \in {"login", "fail", "forgot", "reset"} => u \in admitted
    BY <1>1, <2>1 DEF AskedOf, StepsInv, NoStepSkipped, Asked
  <2>5. u \notin mistaken /\ op = "reject" => u \in admitted \/ Verified(u)
    BY <1>1, <2>1 DEF AskedOf, StepsInv, NoStepSkipped, Status
  <2>. HIDE DEF m
  <2>6. Justified(call[r])'
    BY <1>1, <1>3, <1>4, <1>5, <2>1, <2>2, <2>3, <2>4, <2>5 DEF Justified, Verified, Asked
  <2>. QED BY <1>2, <1>3, <2>6, SameUsers
<1>. QED BY <1>6, <1>7

LEMMA CodeStepsHold ==
  ASSUME TypeInv, StepsInv, NEW r \in Request,
         \/ CountTokens(r) \/ ReplaceTokens(r) \/ IssueToken(r) \/ MatchCode(r) \/ MissCode(r) \/ MarkUsed(r)
  PROVE  StepsInv'
<1>. DEFINE c == call[r]
<1>1. TokensGrow
  BY CodeSteps
<1>2. UNCHANGED <<user, admitted, mistaken>>
  BY DEF CountTokens, ReplaceTokens, IssueToken, MatchCode, MissCode, MarkUsed, history
<1>3. c.pc \in {"counting", "replacing", "issuing", "matching", "missing", "marking"}
  BY DEF CountTokens, ReplaceTokens, IssueToken, MatchCode, MissCode, MarkUsed
<1>4. Justified(c) /\ CallOK(c) /\ c.user \in User
  BY <1>3, CallType DEF StepsInv, CallOK
<1>0. PICK u \in User : c.user = u
  BY <1>4
<1>10. Verified(u) => Verified(u)'
  BY <1>1, VerifiedStays
<1>11. /\ c.pc \notin {"idle", "inserting"} => user[u].status # "unborn"
       /\ u \notin mistaken =>
            /\ c.op \in {"login", "fail", "lock", "forgot", "reset", "recount", "suspend"} => u \in admitted
            /\ c.op = "reject" => u \in admitted \/ Verified(u)'
  BY <1>0, <1>3, <1>4, <1>10 DEF Justified
<1>5. CASE call' = [call EXCEPT ![r] = Idle]
  BY <1>1, <1>2, <1>5, SameUsers DEF Idle
<1>6. CASE CountTokens(r) \/ ReplaceTokens(r)
  <2>1. CASE Goes(r, Idle)
    BY <1>5, <2>1 DEF Goes
  <2>2. CASE \E pc \in {"replacing", "issuing"} : Goes(r, [c EXCEPT !.pc = pc])
    <3>1. PICK pc \in {"replacing", "issuing"} : call' = [call EXCEPT ![r] = [c EXCEPT !.pc = pc]]
      BY <2>2 DEF Goes
    <3>2. call'[r] = [c EXCEPT !.pc = pc]
      BY <3>1 DEF TypeInv
    <3>3. call'[r].pc = pc /\ call'[r].op = c.op /\ call'[r].user = c.user
      BY <1>4, <3>2 DEF CallOK, AnyCall
    <3>4. Justified(call[r])'
      BY <1>0, <1>2, <1>3, <1>11, <3>3 DEF Justified, Verified
    <3>. QED BY <1>1, <1>2, <3>1, <3>4, SameUsers
  <2>. QED BY <1>6, <2>1, <2>2 DEF CountTokens, ReplaceTokens
<1>7. CASE IssueToken(r) \/ MissCode(r)
  BY <1>5, <1>7 DEF IssueToken, MissCode, Goes
<1>8. CASE MatchCode(r)
  <2>. DEFINE i == Min(Usable(r))
  <2>1. CASE Goes(r, Idle)
    BY <1>5, <2>1 DEF Goes
  <2>2. CASE Goes(r, [c EXCEPT !.pc = IF i = c.code THEN "marking" ELSE "missing",
                               !.token = i, !.tries = tokens[i].attempts]) /\ Usable(r) # {}
    <3>1. UNCHANGED tokens
      BY <1>8 DEF MatchCode
    <3>2. i \in Usable(r)
      BY <2>2, UsableTokens, Least
    <3>3. tokens[i].user = c.user /\ tokens[i].kind = Kind(c.op)
      BY <3>2 DEF Usable, Own
    <3>. HIDE DEF i
    <3>4. /\ call'[r].pc \in {"marking", "missing"} /\ call'[r].token = i
          /\ call'[r].op = c.op /\ call'[r].user = c.user
      BY <1>4, <2>2 DEF Goes, TypeInv, CallOK, AnyCall
    <3>5. Justified(call[r])'
      BY <1>0, <1>2, <1>3, <1>11, <3>1, <3>3, <3>4 DEF Justified, Verified, Kind
    <3>. QED BY <1>1, <1>2, <2>2, <3>5, SameUsers DEF Goes
  <2>. QED BY <1>8, <2>1, <2>2 DEF MatchCode
<1>9. CASE MarkUsed(r)
  <2>1. Goes(r, [c EXCEPT !.pc = "reading"]) /\ c.pc = "marking"
    BY <1>9 DEF MarkUsed
  <2>2. call'[r].pc = "reading" /\ call'[r].op = c.op /\ call'[r].user = c.user
    BY <1>4, <2>1 DEF Goes, TypeInv, CallOK, AnyCall
  <2>3. u \notin mistaken /\ c.op = "verify" => Verified(u)' \/ user'[u].status = "deleted"
    <3>1. SUFFICES ASSUME u \notin mistaken, c.op = "verify", user[u].status # "deleted"
                   PROVE  Verified(u)'
      BY <1>2
    <3>2. c.token \in DOMAIN tokens /\ tokens[c.token].user = u /\ tokens[c.token].kind = "EMAIL_VERIFICATION"
      BY <1>0, <1>4, <2>1, <3>1, CallType DEF Justified, CallOK, TypeInv, TypeOK
    <3>3. Present(u)
      BY <1>3, <1>11, <3>1 DEF Present, TypeInv, TypeOK, Row
    <3>4. c.token \in Stored
      BY <3>2, <3>3 DEF Stored
    <3>5. DOMAIN tokens' = DOMAIN tokens /\ tokens'[c.token] = [tokens[c.token] EXCEPT !.used = "code"]
      BY <1>9, <3>2, <3>4 DEF MarkUsed
    <3>6. tokens[c.token] \in Token
      BY <3>2 DEF TypeInv, TypeOK
    <3>7. tokens'[c.token].user = u /\ tokens'[c.token].kind = "EMAIL_VERIFICATION" /\ tokens'[c.token].used = "code"
      BY <3>2, <3>5, <3>6 DEF Token
    <3>. QED BY <3>2, <3>5, <3>7 DEF Verified
  <2>5. Justified(call[r])'
    BY <1>0, <1>2, <1>3, <1>11, <2>2, <2>3 DEF Justified, Verified
  <2>. QED BY <1>1, <1>2, <2>1, <2>5, SameUsers DEF Goes
<1>. QED BY <1>6, <1>7, <1>8, <1>9

\* A write of a user's row by a request that is through with it, or that goes on
\* with what it counts on already.
LEMMA SaveHolds ==
  ASSUME TypeInv, StepsInv, NEW r \in Request, NEW ops, NEW STATE new, NEW STATE n, Save(r, ops, new, n),
         Present(call[r].user) => new.status \in Status, admitted \subseteq admitted', UNCHANGED mistaken,
         \/ n.pc = "idle"
         \/ /\ n.pc = "reading" /\ n.op \in {"lock", "suspend"} /\ n.user = call[r].user
            /\ call[r].op \in {"fail", "recount"},
         Present(call[r].user) /\ call[r].user \notin mistaken =>
           \/ new.status = user[call[r].user].status
           \/ call[r].user \in admitted'
           \/ new.status \in {"PENDING_APPROVAL", "INACTIVE"} /\ Verified(call[r].user)
  PROVE  StepsInv'
<1>. DEFINE c == call[r]
<1>1. c.pc = "writing" /\ call'[r] = n /\ \A q \in Request : q # r => call'[q] = call[q]
  BY DEF Save, Goes, TypeInv
<1>2. Justified(c) /\ c.user \in User
  BY <1>1, CallType DEF StepsInv, CallOK
<1>3. PICK u \in User : u = c.user
  BY <1>2
<1>4. /\ \A w \in User \ {u} : user'[w] = user[w]
      /\ IF Present(u) THEN user'[u] = new ELSE user'[u] = user[u]
  BY <1>3 DEF Save, TypeInv, TypeOK
<1>5. Advances
  <2>1. TokensGrow
    BY SameTokens DEF Save
  <2>2. Present(u) => new.status \in Status
    BY <1>3
  <2>3. \A w \in User : /\ user[w].status # "unborn" => user'[w].status # "unborn"
                        /\ user[w].status = "deleted" => user'[w].status = "deleted"
    BY <1>4, <2>2 DEF Present, Status
  <2>. QED BY <2>1, <2>3 DEF Advances
<1>6. user'[u].status # "unborn"
  BY <1>1, <1>2, <1>3, <1>5 DEF Justified, Advances
<1>7. Justified(call[r])'
  <2>1. u \notin mistaken /\ c.op \in {"fail", "recount"} => u \in admitted'
    BY <1>1, <1>2, <1>3 DEF Justified
  <2>. QED BY <1>1, <1>3, <1>6, <2>1 DEF Justified, Verified
<1>8. \A w \in User \ mistaken' : user'[w].status # user[w].status =>
        /\ user'[w].status \in Status \ {"UNVERIFIED"} => w \in admitted' \/ Verified(w)
        /\ user'[w].status \in {"ACTIVE", "LOCKED"} => w \in admitted'
  BY <1>3, <1>4
<1>. QED BY <1>1, <1>5, <1>7, <1>8, StepsHold

LEMMA WriteStepsHold ==
  ASSUME TypeInv, StepsInv, NEW r \in Request, Writing(r)
  PROVE  StepsInv'
<1>. DEFINE c == call[r]
<1>0. c.pc = "writing"
  BY DEF Writing, SetEmailVerified, ApproveUser, RejectUser, UnlockUser, ResetAndUnlock, UpdatePassword, RecordLogin,
         IncrementFailed, LockAccount, Recount, LockUser, SetStatus, Save
<1>1. Justified(c) /\ CallOK(c) /\ c.user \in User /\ c.seen.status \in Status
  BY <1>0, CallType DEF StepsInv, CallOK, Justified
<1>2. UNCHANGED mistaken /\ admitted \subseteq admitted'
  BY DEF Writing, SetEmailVerified, ApproveUser, RejectUser, UnlockUser, ResetAndUnlock, UpdatePassword, RecordLogin,
         IncrementFailed, LockAccount, Recount, LockUser, SetStatus, history
<1>3. Idle.pc = "idle"
  BY DEF Idle
<1>4. /\ \A st \in Status :
           /\ [Secured(c) EXCEPT !.status = st].status = st
           /\ [Secured(c) EXCEPT !.status = st, !.failed = 0].status = st
           /\ [Versioned(c) EXCEPT !.status = st].status = st
           /\ \A p \in Password : [Versioned(c) EXCEPT !.password = p, !.failed = 0, !.status = st].status = st
      /\ \A k \in Nat : [Secured(c) EXCEPT !.failed = k].status = user[c.user].status
      /\ \A p \in Password : [Secured(c) EXCEPT !.password = p].status = user[c.user].status
  BY <1>1 DEF TypeInv, TypeOK, Row, Secured, Versioned
<1>5. Present(c.user) => user[c.user].status \in Status
  BY DEF Present
<1>6. CASE SetEmailVerified(r)
  <2>1. Save(r, {"verify"}, [Versioned(c) EXCEPT !.status = "PENDING_APPROVAL"], Idle)
    BY <1>6 DEF SetEmailVerified
  <2>2. [Versioned(c) EXCEPT !.status = "PENDING_APPROVAL"].status = "PENDING_APPROVAL"
    BY <1>4 DEF Status
  <2>3. Present(c.user) /\ c.user \notin mistaken => Verified(c.user)
    BY <1>0, <1>1, <2>1 DEF Save, Justified, Present, Status
  <2>. QED BY <1>2, <1>3, <2>1, <2>2, <2>3, SaveHolds DEF Status
<1>7. CASE ApproveUser(r)
  <2>1. Save(r, {"approve"}, [Versioned(c) EXCEPT !.status = "ACTIVE"], Idle) /\ c.user \in admitted'
    BY <1>7 DEF ApproveUser
  <2>2. [Versioned(c) EXCEPT !.status = "ACTIVE"].status = "ACTIVE"
    BY <1>4 DEF Status
  <2>. QED BY <1>2, <1>3, <2>1, <2>2, SaveHolds DEF Status
<1>8. CASE RejectUser(r)
  <2>1. Save(r, {"reject"}, [Versioned(c) EXCEPT !.status = "INACTIVE"], Idle)
    BY <1>8 DEF RejectUser
  <2>2. [Versioned(c) EXCEPT !.status = "INACTIVE"].status = "INACTIVE"
    BY <1>4 DEF Status
  <2>3. c.user \notin mistaken => c.user \in admitted \/ Verified(c.user)
    BY <1>0, <1>1, <2>1 DEF Save, Justified
  <2>. QED BY <1>2, <1>3, <2>1, <2>2, <2>3, SaveHolds DEF Status
<1>9. CASE UnlockUser(r)
  <2>1. /\ Save(r, {"unlock", "unlockAny"}, [Secured(c) EXCEPT !.status = "ACTIVE", !.failed = 0], Idle)
        /\ c.user \in admitted'
    BY <1>9 DEF UnlockUser
  <2>2. [Secured(c) EXCEPT !.status = "ACTIVE", !.failed = 0].status = "ACTIVE"
    BY <1>4 DEF Status
  <2>. QED BY <1>2, <1>3, <2>1, <2>2, SaveHolds DEF Status
<1>10. CASE ResetAndUnlock(r)
  <2>. DEFINE st == IF c.seen.status = "LOCKED" THEN "ACTIVE" ELSE c.seen.status
              new == [Versioned(c) EXCEPT !.password = c.arg, !.failed = 0, !.status = st]
  <2>1. Save(r, {"reset"}, new, Idle)
    BY <1>10 DEF ResetAndUnlock
  <2>2. c.op = "reset" /\ c.arg \in Password /\ st \in Status
    BY <1>0, <1>1, <2>1 DEF CallOK, Save, Status
  <2>. HIDE DEF st
  <2>3. new.status \in Status
    BY <1>4, <2>2
  <2>4. c.user \notin mistaken => c.user \in admitted
    BY <1>0, <1>1, <2>2 DEF Justified
  <2>. HIDE DEF new
  <2>. QED BY <1>2, <1>3, <2>1, <2>3, <2>4, SaveHolds
<1>11. CASE UpdatePassword(r)
  <2>. DEFINE new == [Secured(c) EXCEPT !.password = c.arg]
  <2>1. Save(r, {"password"}, new, Idle)
    BY <1>11 DEF UpdatePassword
  <2>2. new.status = user[c.user].status
    BY <1>0, <1>1, <1>4, <2>1 DEF CallOK, Save
  <2>. HIDE DEF new
  <2>. QED BY <1>2, <1>3, <1>5, <2>1, <2>2, SaveHolds
<1>12. CASE RecordLogin(r)
  <2>. DEFINE new == [Secured(c) EXCEPT !.failed = 0]
  <2>1. Save(r, {"login"}, new, Idle)
    BY <1>12 DEF RecordLogin
  <2>2. new.status = user[c.user].status
    BY <1>4
  <2>. HIDE DEF new
  <2>. QED BY <1>2, <1>3, <1>5, <2>1, <2>2, SaveHolds
<1>13. CASE IncrementFailed(r) \/ Recount(r)
  <2>. DEFINE new == [Secured(c) EXCEPT !.failed = c.seen.failed + 1]
  <2>1. new.status = user[c.user].status
    <3>1. c.seen.failed + 1 \in Nat
      BY <1>1 DEF CallOK, AnyCall, Row
    <3>. QED BY <1>4, <3>1
  <2>2. PICK op \in {"lock", "suspend"} :
          Save(r, {"fail", "recount"}, new, [c EXCEPT !.pc = "reading", !.op = op])
            \/ Save(r, {"fail", "recount"}, new, Idle)
    BY <1>13 DEF IncrementFailed, Recount, Save
  <2>. DEFINE n == [c EXCEPT !.pc = "reading", !.op = op]
  <2>3. n.pc = "reading" /\ n.op \in {"lock", "suspend"} /\ n.user = c.user
    BY <1>1 DEF CallOK, AnyCall
  <2>4. Save(r, {"fail", "recount"}, new, n) \/ Save(r, {"fail", "recount"}, new, Idle)
    BY <2>2
  <2>5. c.op \in {"fail", "recount"}
    BY <2>4 DEF Save
  <2>. HIDE DEF new, n
  <2>. QED BY <1>2, <1>3, <1>5, <2>1, <2>3, <2>4, <2>5, SaveHolds
<1>14. CASE LockAccount(r)
  <2>1. Save(r, {"lock"}, [Versioned(c) EXCEPT !.status = "LOCKED"], Idle)
    BY <1>14 DEF LockAccount
  <2>2. [Versioned(c) EXCEPT !.status = "LOCKED"].status = "LOCKED"
    BY <1>4 DEF Status
  <2>3. c.user \notin mistaken => c.user \in admitted
    BY <1>0, <1>1, <2>1 DEF Justified, Save
  <2>. QED BY <1>2, <1>3, <2>1, <2>2, <2>3, SaveHolds DEF Status
<1>15. CASE LockUser(r)
  <2>1. Save(r, {"suspend"}, [Secured(c) EXCEPT !.status = "LOCKED"], Idle)
    BY <1>15 DEF LockUser
  <2>2. [Secured(c) EXCEPT !.status = "LOCKED"].status = "LOCKED"
    BY <1>4 DEF Status
  <2>3. c.user \notin mistaken => c.user \in admitted
    BY <1>0, <1>1, <2>1 DEF Justified, Save
  <2>. QED BY <1>2, <1>3, <2>1, <2>2, <2>3, SaveHolds DEF Status
<1>16. CASE SetStatus(r)
  <2>. DEFINE row == user[c.user]
              new == IF row.version = c.seen.version
                     THEN [row EXCEPT !.status = c.arg, !.version = @ + 1] ELSE row
  <2>1. Save(r, {"status"}, new, Idle) /\ c.user \in admitted'
    BY <1>16 DEF SetStatus
  <2>2. c.arg \in Status
    BY <1>0, <1>1, <2>1 DEF CallOK, Save
  <2>3. row \in Row
    BY <1>1 DEF TypeInv, TypeOK
  <2>4. Present(c.user) => new.status \in Status
    <3>1. Present(c.user) => row.status \in Status
      BY <1>5
    <3>. HIDE DEF row
    <3>. QED BY <2>2, <2>3, <3>1 DEF Row
  <2>. HIDE DEF new
  <2>. QED BY <1>2, <1>3, <2>1, <2>4, SaveHolds
<1>. QED BY <1>6, <1>7, <1>8, <1>9, <1>10, <1>11, <1>12, <1>13, <1>14, <1>15, <1>16 DEF Writing

LEMMA ReadHolds ==
  ASSUME TypeInv, StepsInv, NEW r \in Request, Read(r)
  PROVE  StepsInv'
<1>. DEFINE c == call[r]
            n == IF Present(c.user) THEN [c EXCEPT !.pc = "writing", !.seen = user[c.user]]
                 ELSE IF Counts(c) THEN [c EXCEPT !.pc = "falling"] ELSE Idle
<1>1. TokensGrow
  BY ReadTypes
<1>2. c.pc = "reading" /\ call' = [call EXCEPT ![r] = n] /\ UNCHANGED <<user, tokens, admitted, mistaken>>
  BY DEF Read, history, Goes
<1>3. Justified(c) /\ CallOK(c)
  BY CallType DEF StepsInv
<1>4. CASE n = Idle
  BY <1>1, <1>2, <1>4, SameUsers DEF Idle
<1>5. CASE n # Idle
  <2>1. /\ n.pc \in {"writing", "falling"} /\ n.op = c.op /\ n.user = c.user
        /\ n.pc = "writing" => n.seen.status \in Status
        /\ n.pc = "falling" => Counts(c)
    BY <1>3, <1>5 DEF CallOK, AnyCall, Present
  <2>. HIDE DEF n
  <2>2. call'[r] = n
    BY <1>2 DEF TypeInv
  <2>3. Justified(call[r])'
    BY <1>2, <1>3, <2>1, <2>2 DEF Justified, Verified, Counts
  <2>. QED BY <1>1, <1>2, <2>3, SameUsers
<1>. QED BY <1>4, <1>5

LEMMA OtherStepsHold ==
  ASSUME TypeInv, StepsInv, NEW r \in Request, InsertUser(r) \/ FallBack(r) \/ LookUpEmail(r) \/ Dies(r)
  PROVE  StepsInv'
<1>. DEFINE c == call[r]
<1>0. TokensGrow /\ Justified(c) /\ CallOK(c)
  BY OtherSteps, CallType DEF StepsInv
<1>1. CASE InsertUser(r)
  <2>1. c.pc = "inserting" /\ UNCHANGED <<tokens, admitted, mistaken>>
    BY <1>1 DEF InsertUser, history
  <2>2. CASE Goes(r, Idle) /\ UNCHANGED user
    BY <1>0, <2>1, <2>2, SameUsers DEF Goes, Idle
  <2>3. CASE \E u \in User :
               /\ user[u] = Unborn
               /\ user' = [user EXCEPT ![u] =
                    [status |-> "UNVERIFIED", password |-> c.arg, failed |-> 0, version |-> 1]]
               /\ Goes(r, [c EXCEPT !.pc = "replacing", !.user = u])
    <3>1. PICK u \in User :
            /\ user[u] = Unborn
            /\ user' = [user EXCEPT ![u] =
                 [status |-> "UNVERIFIED", password |-> c.arg, failed |-> 0, version |-> 1]]
            /\ Goes(r, [c EXCEPT !.pc = "replacing", !.user = u])
      BY <2>3
    <3>2. user'[u].status = "UNVERIFIED" /\ \A w \in User \ {u} : user'[w] = user[w]
      BY <3>1 DEF TypeInv, TypeOK
    <3>3. Advances
      BY <1>0, <2>1, <3>1, <3>2 DEF Advances, Unborn
    <3>4. /\ call'[r].pc = "replacing" /\ call'[r].user = u /\ call'[r].op = c.op
          /\ \A q \in Request : q # r => call'[q] = call[q]
      BY <1>0, <3>1 DEF Goes, TypeInv, CallOK, AnyCall
    <3>5. c.op = "register"
      BY <1>0, <2>1 DEF Justified
    <3>6. Justified(call[r])'
      BY <3>2, <3>4, <3>5 DEF Justified
    <3>. QED BY <3>2, <3>3, <3>4, <3>6, StepsHold
  <2>. QED BY <1>1, <2>2, <2>3 DEF InsertUser
<1>2. CASE FallBack(r)
  <2>1. call' = [call EXCEPT ![r] = [c EXCEPT !.pc = "falling"]]
    BY <1>2 DEF FallBack, TypeInv
  <2>2. UNCHANGED <<user, tokens, admitted, mistaken>> /\ Counts(c) /\ c.pc \in {"reading", "writing"}
    BY <1>2 DEF FallBack, history
  <2>3. call'[r].pc = "falling" /\ call'[r].op = c.op /\ call'[r].user = c.user
    BY <1>0, <2>1 DEF CallOK, AnyCall, TypeInv
  <2>4. Justified(call[r])'
    BY <1>0, <2>2, <2>3 DEF Justified, Counts
  <2>. QED BY <1>0, <2>1, <2>2, <2>4, SameUsers
<1>3. CASE LookUpEmail(r)
  <2>1. mistaken' = mistaken \cup (Registered \ {c.user}) /\ UNCHANGED <<user, tokens, admitted>> /\ c.pc = "falling"
    BY <1>3 DEF LookUpEmail
  <2>2. CASE Goes(r, Idle)
    BY <1>0, <2>1, <2>2, SameUsers DEF Goes, Idle
  <2>3. CASE \E u \in Registered : Goes(r, [At("reading") EXCEPT !.op = "recount", !.user = u])
    <3>1. PICK u \in Registered : Goes(r, [At("reading") EXCEPT !.op = "recount", !.user = u])
      BY <2>3
    <3>2. At("reading") \in AnyCall /\ At("reading").pc = "reading"
      BY RowTypes DEF Pc
    <3>3. call'[r].pc = "reading" /\ call'[r].op = "recount" /\ call'[r].user = u
      BY <3>1, <3>2 DEF Goes, TypeInv, AnyCall
    <3>4. user[u].status \in Status
      BY DEF Registered, Present
    <3>5. u \notin mistaken' => u \in admitted
      BY <1>0, <2>1 DEF Justified, Counts
    <3>6. Justified(call[r])'
      BY <2>1, <3>3, <3>4, <3>5 DEF Justified, Status
    <3>. QED BY <1>0, <2>1, <3>1, <3>6, SameUsers DEF Goes
  <2>. QED BY <1>3, <2>2, <2>3 DEF LookUpEmail
<1>4. CASE Dies(r)
  BY <1>0, <1>4, SameUsers DEF Dies, history, Idle
<1>. QED BY <1>1, <1>2, <1>3, <1>4

LEMMA RestHolds ==
  ASSUME TypeInv, StepsInv, (\E u \in User : Delete(u)) \/ (\E i \in 1 .. Len(tokens) : Age(i)) \/ UNCHANGED vars
  PROVE  StepsInv'
<1>1. TokensGrow
  BY TimeAndDelete, SameTokens DEF vars
<1>2. UNCHANGED <<call, admitted, mistaken>>
  BY DEF Delete, Age, vars, history
<1>3. \A u \in User : user'[u].status \in {user[u].status, "deleted"} /\ (user'[u].status # user[u].status => Present(u))
  BY DEF Delete, Age, vars, TypeInv, TypeOK, Deleted, Unborn
<1>4. Advances
  BY <1>1, <1>2, <1>3 DEF Advances, Present, Status
<1>5. \A q \in Request : Justified(call[q])'
  BY <1>2, <1>4, JustifiedStays DEF StepsInv
<1>6. NoStepSkipped'
  <2>1. SUFFICES ASSUME NEW u \in User, u \notin mistaken
                 PROVE  /\ user'[u].status \in Status \ {"UNVERIFIED"} => u \in admitted \/ Verified(u)'
                        /\ user'[u].status \in {"ACTIVE", "LOCKED"} => u \in admitted
    BY <1>2 DEF NoStepSkipped, Verified
  <2>2. Verified(u) => Verified(u)'
    BY <1>1, VerifiedStays
  <2>. QED BY <1>3, <2>1, <2>2 DEF StepsInv, NoStepSkipped, Status
<1>. QED BY <1>5, <1>6 DEF StepsInv

LEMMA StepsKept ==
  ASSUME TypeInv, StepsInv, [Next]_vars
  PROVE  StepsInv'
<1>1. ASSUME NEW r \in Request, Continue(r) \/ Dies(r)
      PROVE  StepsInv'
  BY <1>1, CodeStepsHold, ReadHolds, WriteStepsHold, OtherStepsHold DEF Continue, Writing
<1>. QED BY <1>1, AskSteps, RestHolds DEF Next

LEMMA StepsInvCorrect == Spec => []StepsInv
<1>1. Init => StepsInv
  BY DEF Init, StepsInv, NoStepSkipped, Justified, Idle, Unborn, Status
<1>2. TypeInv /\ StepsInv /\ [Next]_vars => StepsInv'
  BY StepsKept
<1>. QED BY <1>1, <1>2, TypeInvCorrect, PTL DEF Spec

\* However many requests overlap, whichever stale rows are written back, whichever
\* requests die half way: no account is further in the registration than the code
\* given and the administrator let it be.
THEOREM NobodySkipsAStep == Spec => []NoStepSkipped
BY StepsInvCorrect, PTL DEF StepsInv

-----------------------------------------------------------------------------
\* Tokens

\* How a request comes to issue a token, or to miss a code.
LEMMA Turns ==
  ASSUME TypeInv, [Next]_vars, NEW q \in Request
  PROVE  \/ call'[q] = call[q]
         \/ call'[q].pc \notin {"replacing", "issuing", "missing"}
         \/ call'[q].pc = "replacing" /\ (call'[q].op = "forgot" \/ InsertUser(q))
         \/ call'[q].pc = "missing" /\ MatchCode(q)
         \/ /\ call'[q].op = call[q].op /\ call'[q].user = call[q].user
            /\ \/ call'[q].pc = "replacing" /\ CountTokens(q)
               \/ call'[q].pc = "issuing" /\ ReplaceTokens(q)
<1>. USE DEF TypeInv
<1>. DEFINE Ends == {"replacing", "issuing", "missing"}
            Kept == call'[q].op = call[q].op /\ call'[q].user = call[q].user
<1>1. CASE UNCHANGED call
  BY <1>1
<1>2. ASSUME NEW r \in Request, Ask(r)
      PROVE  \/ call'[q] = call[q] \/ call'[q].pc \notin Ends
             \/ call'[q].pc = "replacing" /\ call'[q].op = "forgot"
  <2>0. PICK op \in Operation, u \in User \cup {NoUser} : \E n : Asks(r, op, u, n) /\ n.pc = FirstPc(op)
    BY <1>2, AskForms
  <2>1. PICK n : Asks(r, op, u, n) /\ n.pc = FirstPc(op)
    BY <2>0
  <2>. DEFINE m == [n EXCEPT !.op = op, !.user = u]
  <2>2. m.pc = FirstPc(op) /\ m.op = op
    BY <2>1 DEF Asks, AnyCall
  <2>3. call' = [call EXCEPT ![r] = m]
    BY <2>1 DEF Asks, Begin
  <2>. HIDE DEF m
  <2>. QED BY <2>2, <2>3 DEF FirstPc
<1>3. ASSUME NEW r \in Request, Continue(r) \/ Dies(r)
      PROVE  \/ call'[q] = call[q] \/ call'[q].pc \notin Ends
             \/ call'[q].pc = "replacing" /\ InsertUser(q)
             \/ call'[q].pc = "missing" /\ MatchCode(q)
             \/ Kept /\ \/ call'[q].pc = "replacing" /\ CountTokens(q)
                        \/ call'[q].pc = "issuing" /\ ReplaceTokens(q)
  <2>. DEFINE c == call[r]
  <2>0. ASSUME NEW n, Goes(r, n), n.pc \notin Ends
        PROVE  call'[q] = call[q] \/ call'[q].pc \notin Ends
    BY <2>0 DEF Goes
  <2>1. \A pc \in Pc : /\ [c EXCEPT !.pc = pc].pc = pc
                       /\ [c EXCEPT !.pc = pc].op = c.op /\ [c EXCEPT !.pc = pc].user = c.user
    BY CallType DEF AnyCall
  <2>2. \A s, pc : [c EXCEPT !.pc = pc, !.seen = s].pc = pc /\ [c EXCEPT !.pc = pc, !.op = s].pc = pc
    BY CallType DEF AnyCall
  <2>3. Idle.pc = "idle"
    BY DEF Idle
  <2>4. \A u : [At("reading") EXCEPT !.op = "recount", !.user = u].pc = "reading"
    BY RowTypes DEF At, Idle
  <2>5. CASE IssueToken(r) \/ MissCode(r) \/ MarkUsed(r)
    <3>1. Goes(r, Idle) \/ Goes(r, [c EXCEPT !.pc = "reading"])
      BY <2>5 DEF IssueToken, MissCode, MarkUsed
    <3>. QED BY <2>0, <2>1, <2>3, <3>1 DEF Pc
  <2>6. CASE Read(r) \/ LookUpEmail(r)
    <3>1. CASE Goes(r, Idle)
      BY <2>0, <2>3, <3>1
    <3>2. CASE Goes(r, [c EXCEPT !.pc = "falling"])
      BY <2>0, <2>1, <3>2 DEF Pc
    <3>3. CASE Goes(r, [c EXCEPT !.pc = "writing", !.seen = user[c.user]])
      BY <2>2, <3>3 DEF Goes
    <3>4. CASE \E u \in Registered : Goes(r, [At("reading") EXCEPT !.op = "recount", !.user = u])
      BY <2>4, <3>4 DEF Goes
    <3>. QED BY <2>6, <3>1, <3>2, <3>3, <3>4 DEF Read, LookUpEmail
  <2>7. CASE Writing(r)
    <3>1. \/ Goes(r, Idle) \/ Goes(r, [c EXCEPT !.pc = "reading", !.op = "lock"])
          \/ Goes(r, [c EXCEPT !.pc = "reading", !.op = "suspend"])
      BY <2>7 DEF Writing, SetEmailVerified, ApproveUser, RejectUser, UnlockUser, ResetAndUnlock, UpdatePassword,
                  RecordLogin, IncrementFailed, LockAccount, Recount, LockUser, SetStatus, Save
    <3>2. CASE Goes(r, Idle)
      BY <2>0, <2>3, <3>2
    <3>3. CASE \E op \in {"lock", "suspend"} : Goes(r, [c EXCEPT !.pc = "reading", !.op = op])
      BY <2>2, <3>3 DEF Goes
    <3>. QED BY <3>1, <3>2, <3>3
  <2>8. CASE FallBack(r) \/ Dies(r)
    BY <2>3, <2>8, CallType DEF FallBack, Dies, AnyCall
  <2>9. CASE CountTokens(r)
    <3>1. Goes(r, Idle) \/ Goes(r, [c EXCEPT !.pc = "replacing"])
      BY <2>9 DEF CountTokens
    <3>2. CASE Goes(r, Idle)
      BY <2>0, <2>3, <3>2
    <3>3. CASE Goes(r, [c EXCEPT !.pc = "replacing"])
      <4>. DEFINE n == [c EXCEPT !.pc = "replacing"]
      <4>1. n.pc = "replacing" /\ n.op = c.op /\ n.user = c.user
        BY <2>1 DEF Pc
      <4>2. call' = [call EXCEPT ![r] = n]
        BY <3>3 DEF Goes
      <4>. HIDE DEF n
      <4>3. CASE q = r
        <5>1. call'[q] = n
          BY <4>2, <4>3
        <5>. QED BY <2>9, <4>1, <4>3, <5>1
      <4>. QED BY <4>2, <4>3
    <3>. QED BY <3>1, <3>2, <3>3
  <2>10. CASE ReplaceTokens(r)
    <3>. DEFINE n == [c EXCEPT !.pc = "issuing"]
    <3>1. n.pc = "issuing" /\ n.op = c.op /\ n.user = c.user
      BY <2>1 DEF Pc
    <3>2. call' = [call EXCEPT ![r] = n]
      BY <2>10 DEF ReplaceTokens, Goes
    <3>. HIDE DEF n
    <3>3. CASE q = r
      <4>1. call'[q] = n
        BY <3>2, <3>3
      <4>. QED BY <2>10, <3>1, <3>3, <4>1
    <3>. QED BY <3>2, <3>3
  <2>11. CASE InsertUser(r)
    <3>1. CASE Goes(r, Idle)
      BY <2>0, <2>3, <3>1
    <3>2. CASE \E u \in User : Goes(r, [c EXCEPT !.pc = "replacing", !.user = u])
      <4>1. PICK u \in User : Goes(r, [c EXCEPT !.pc = "replacing", !.user = u])
        BY <3>2
      <4>. DEFINE n == [c EXCEPT !.pc = "replacing", !.user = u]
      <4>2. n.pc = "replacing"
        BY CallType DEF AnyCall
      <4>3. call' = [call EXCEPT ![r] = n]
        BY <4>1 DEF Goes
      <4>. HIDE DEF n
      <4>. QED BY <2>11, <4>2, <4>3
    <3>3. Goes(r, Idle) \/ \E u \in User : Goes(r, [c EXCEPT !.pc = "replacing", !.user = u])
      BY <2>11 DEF InsertUser
    <3>. QED BY <3>1, <3>2, <3>3
  <2>12. CASE MatchCode(r)
    <3>. DEFINE i == Min(Usable(r))
                n == [c EXCEPT !.pc = IF i = c.code THEN "marking" ELSE "missing",
                               !.token = i, !.tries = tokens[i].attempts]
    <3>1. call' = [call EXCEPT ![r] = Idle] \/ call' = [call EXCEPT ![r] = n]
      BY <2>12 DEF MatchCode, Goes
    <3>. HIDE DEF i
    <3>2. n.pc \in {"marking", "missing"}
      BY CallType DEF AnyCall
    <3>. HIDE DEF n
    <3>. QED BY <2>3, <2>12, <3>1, <3>2
  <2>. QED BY <1>3, <2>5, <2>6, <2>7, <2>8, <2>9, <2>10, <2>11, <2>12 DEF Continue, Writing
<1>. QED BY <1>1, <1>2, <1>3 DEF Next, vars, Delete, Age

-----------------------------------------------------------------------------
\* Attempts at a code

AttemptsInv ==
  /\ AttemptsWithinLimit
  /\ \A r \in Request : call[r].pc = "missing" => call[r].tries < MaxCodeAttempts

\* Attempts are counted where a code is missed, and nowhere else.
LEMMA CountedByMissing ==
  ASSUME TypeInv, [Next]_vars, NEW i \in DOMAIN tokens'
  PROVE  \/ i \in DOMAIN tokens /\ tokens'[i].attempts = tokens[i].attempts
         \/ tokens'[i].attempts = 0
         \/ \E r \in Request : call[r].pc = "missing" /\ tokens'[i].attempts = call[r].tries + 1
<1>0. /\ tokens \in Seq(Token) /\ \A j \in DOMAIN tokens : tokens[j] \in Token
      /\ DOMAIN tokens = 1 .. Len(tokens) /\ Len(tokens) \in Nat
  BY DEF TypeInv, TypeOK
<1>1. CASE UNCHANGED tokens
  BY <1>1
<1>2. CASE \E r \in Request : ReplaceTokens(r) \/ MarkUsed(r) \/ MissCode(r)
  <2>1. PICK r \in Request : ReplaceTokens(r) \/ MarkUsed(r) \/ MissCode(r)
    BY <1>2
  <2>2. i \in DOMAIN tokens /\ tokens[i] \in Token
    BY <1>0, <2>1 DEF ReplaceTokens, MarkUsed, MissCode
  <2>3. \A how, n : /\ [tokens[i] EXCEPT !.used = how].attempts = tokens[i].attempts
                    /\ [tokens[i] EXCEPT !.attempts = n].attempts = n
    BY <2>2 DEF Token
  <2>4. CASE ReplaceTokens(r)
    BY <2>2, <2>3, <2>4 DEF ReplaceTokens
  <2>5. CASE MarkUsed(r)
    BY <2>2, <2>3, <2>5 DEF MarkUsed
  <2>6. CASE MissCode(r)
    BY <2>2, <2>3, <2>6 DEF MissCode
  <2>. QED BY <2>1, <2>4, <2>5, <2>6
<1>3. CASE \E r \in Request : IssueToken(r)
  BY <1>0, <1>3 DEF IssueToken
<1>4. CASE \E j \in 1 .. Len(tokens) : Age(j)
  BY <1>0, <1>4 DEF Age, Token
<1>5. ASSUME NEW r \in Request, Ask(r)
      PROVE  UNCHANGED tokens
  BY <1>5, AskForms DEF Asks, Begin
<1>6. ASSUME NEW r \in Request, Continue(r) \/ Dies(r)
      PROVE  UNCHANGED tokens \/ ReplaceTokens(r) \/ MarkUsed(r) \/ MissCode(r) \/ IssueToken(r)
  BY <1>6 DEF Continue, Dies, InsertUser, CountTokens, MatchCode, Read, SetEmailVerified, ApproveUser, RejectUser,
     UnlockUser, ResetAndUnlock, UpdatePassword, RecordLogin, IncrementFailed, LockAccount, FallBack, LookUpEmail,
     Recount, LockUser, SetStatus, Save
<1>. QED BY <1>1, <1>2, <1>3, <1>4, <1>5, <1>6 DEF Next, vars, Delete

LEMMA AttemptsKept ==
  ASSUME TypeInv, TypeInv', AttemptsInv, [Next]_vars
  PROVE  AttemptsInv'
<1>1. MaxCodeAttempts \in Nat \ {0}
  BY AccountAssumption
<1>2. \A r \in Request : call[r].tries \in Nat
  BY DEF TypeInv, TypeOK
<1>3. AttemptsWithinLimit'
  <2>1. SUFFICES ASSUME NEW i \in DOMAIN tokens'
                 PROVE  tokens'[i].attempts <= MaxCodeAttempts
    BY DEF AttemptsWithinLimit
  <2>2. CASE i \in DOMAIN tokens /\ tokens'[i].attempts = tokens[i].attempts
    BY <2>2 DEF AttemptsInv, AttemptsWithinLimit
  <2>3. CASE tokens'[i].attempts = 0
    BY <1>1, <2>3
  <2>4. CASE \E r \in Request : call[r].pc = "missing" /\ tokens'[i].attempts = call[r].tries + 1
    BY <1>1, <1>2, <2>4 DEF AttemptsInv
  <2>. QED BY <2>2, <2>3, <2>4, CountedByMissing
<1>4. ASSUME NEW q \in Request, call'[q].pc = "missing"
      PROVE  call'[q].tries < MaxCodeAttempts
  <2>1. CASE call'[q] = call[q]
    BY <1>4, <2>1 DEF AttemptsInv
  <2>2. CASE MatchCode(q)
    <3>. DEFINE i == Min(Usable(q))
    <3>1. Usable(q) # {} => i \in Usable(q) /\ i \in 1 .. Len(tokens) /\ tokens[i].attempts \in Nat
      BY UsableTokens, Least
    <3>. HIDE DEF i
    <3>2. call'[q] = Idle \/ (Usable(q) # {} /\ ~(tokens[i].attempts >= MaxCodeAttempts)
                                /\ call'[q].tries = tokens[i].attempts)
      BY <2>2, CallType DEF MatchCode, Goes, i, TypeInv, AnyCall
    <3>3. call'[q] # Idle
      BY <1>4 DEF Idle
    <3>. QED BY <1>1, <3>1, <3>2, <3>3
  <2>. QED BY <1>4, <2>1, <2>2, Turns
<1>. QED BY <1>3, <1>4 DEF AttemptsInv

\* However many requests try a code at once, no attempt is written over the limit,
\* which the database would refuse.
THEOREM AttemptsStayWithinLimit == Spec => []AttemptsWithinLimit
<1>1. Init => AttemptsInv
  BY DEF Init, AttemptsInv, AttemptsWithinLimit, Idle
<1>2. TypeInv /\ TypeInv' /\ AttemptsInv /\ [Next]_vars => AttemptsInv'
  BY AttemptsKept
<1>3. AttemptsInv => AttemptsWithinLimit
  BY DEF AttemptsInv
<1>. QED BY <1>1, <1>2, <1>3, TypeInvCorrect, PTL DEF Spec

-----------------------------------------------------------------------------
\* Requests that come one after the other

OneAtATime == \A q, r \in Request : q = r

\* How the user of a request stands, where nobody else has changed it since.
Expected(op) ==
  CASE op \in {"register", "verify", "resend"} -> {"UNVERIFIED"}
    [] op \in {"approve", "reject"} -> {"PENDING_APPROVAL"}
    [] op \in {"login", "fail", "lock", "recount", "suspend"} -> {"ACTIVE"}
    [] op = "unlock" -> {"LOCKED"}
    [] op \in {"forgot", "reset"} -> {"ACTIVE", "LOCKED"}
    [] OTHER -> Status

Alone(c) ==
  /\ c.pc = "inserting" => Registered = {}
  /\ c.pc \notin {"idle", "inserting"} => Registered \subseteq {c.user}
  /\ c.pc \notin {"idle", "inserting"} /\ Present(c.user) =>
       /\ user[c.user].status \in Expected(c.op)
       /\ c.pc = "writing" => c.seen = user[c.user]
       /\ c.op \in {"lock", "suspend"} => user[c.user].failed >= MaxFallback

SerialInv == (\A u, v \in Registered : u = v) /\ \A r \in Request : Alone(call[r])

\* The row that was read is the row that is there.
LEMMA FreshRow ==
  ASSUME TypeInv, NEW r \in Request, Alone(call[r]), call[r].pc = "writing", Present(call[r].user)
  PROVE  /\ Secured(call[r]) \in Row /\ Versioned(call[r]) \in Row /\ user[call[r].user] \in Row
         /\ call[r].seen = user[call[r].user]
         /\ \A row \in {Secured(call[r]), Versioned(call[r])} :
              /\ row.status = user[call[r].user].status
              /\ row.password = user[call[r].user].password
              /\ row.failed = user[call[r].user].failed
<1>. DEFINE row == user[call[r].user]
<1>1. Secured(call[r]) \in Row /\ Versioned(call[r]) \in Row /\ row \in Row
  BY RowForms
<1>2. call[r].seen = row
  BY DEF Alone
<1>3. Secured(call[r]) = [row EXCEPT !.password = row.password, !.failed = row.failed]
  BY <1>2 DEF Secured
<1>4. /\ Secured(call[r]).status = row.status /\ Secured(call[r]).password = row.password
      /\ Secured(call[r]).failed = row.failed
  BY <1>1, <1>3 DEF Row
<1>5. Versioned(call[r]) = [Secured(call[r]) EXCEPT !.version = row.version + 1]
  BY <1>2 DEF Versioned
<1>6. /\ Versioned(call[r]).status = row.status /\ Versioned(call[r]).password = row.password
      /\ Versioned(call[r]).failed = row.failed
  <2>. HIDE DEF row
  <2>. QED BY <1>1, <1>4, <1>5 DEF Row
<1>. QED BY <1>1, <1>2, <1>4, <1>6

\* What each update makes of the status, the password and the failed logins.
StatusAfter(c, row) ==
  CASE c.op = "verify" -> {"PENDING_APPROVAL"}
    [] c.op \in {"approve", "unlock", "unlockAny", "reset"} -> {"ACTIVE"}
    [] c.op = "reject" -> {"INACTIVE"}
    [] c.op \in {"lock", "suspend"} -> {"LOCKED"}
    [] c.op = "status" -> {c.arg, row.status}
    [] OTHER -> {row.status}

PasswordAfter(c, row) == IF c.op \in {"reset", "password"} THEN c.arg ELSE row.password

Resets == {"unlock", "unlockAny", "reset", "login"}

FailedAfter(c, n) ==
  IF c.op \in Resets THEN 0 ELSE IF c.op \in {"fail", "recount"} THEN n + 1 ELSE n

NextCall(c, n) ==
  CASE c.op = "fail" /\ n >= MaxFailedLogins -> [c EXCEPT !.pc = "reading", !.op = "lock"]
    [] c.op = "recount" /\ n >= MaxFallback -> [c EXCEPT !.pc = "reading", !.op = "suspend"]
    [] OTHER -> Idle

WriteOps == {"verify", "approve", "reject", "unlock", "unlockAny", "reset", "password", "login", "fail", "lock",
             "recount", "suspend", "status"}

Good(c, new) ==
  /\ new.status \in StatusAfter(c, user[c.user])
  /\ new.password = PasswordAfter(c, user[c.user])
  /\ new.failed = FailedAfter(c, user[c.user].failed)

Updates(r) ==
  LET c == call[r]
  IN /\ c.pc = "writing" /\ c.user \in User /\ c.op \in WriteOps
     /\ \A w \in User : w # c.user \/ ~Present(c.user) => user'[w] = user[w]
     /\ Present(c.user) =>
          /\ user'[c.user].status \in StatusAfter(c, user[c.user])
          /\ user'[c.user].password = PasswordAfter(c, user[c.user])
          /\ user'[c.user].failed = FailedAfter(c, user[c.user].failed)
     /\ call' = [call EXCEPT ![r] = NextCall(c, c.seen.failed + 1)]
     /\ UNCHANGED <<tokens, made, faults>>

LEMMA UpdateForm ==
  ASSUME TypeInv, NEW r \in Request, NEW ops, NEW STATE new, ops \subseteq WriteOps,
         Save(r, ops, new, NextCall(call[r], call[r].seen.failed + 1)),
         Present(call[r].user) => Good(call[r], new)
  PROVE  Updates(r)
<1>. DEFINE c == call[r]
<1>1. c.pc = "writing" /\ c.user \in User /\ c.op \in ops
  BY CallType DEF Save, CallOK
<1>2. PICK u \in User : c.user = u
  BY <1>1
<1>3. user' = IF Present(u) THEN [user EXCEPT ![u] = new] ELSE user
  BY <1>2 DEF Save
<1>4. /\ \A w \in User : w # u \/ ~Present(u) => user'[w] = user[w]
      /\ Present(u) => user'[u] = new
  BY <1>3 DEF TypeInv, TypeOK
<1>5. call' = [call EXCEPT ![r] = NextCall(c, c.seen.failed + 1)] /\ UNCHANGED <<tokens, made, faults>>
  BY DEF Save, Goes
<1>. QED BY <1>1, <1>2, <1>4, <1>5 DEF Updates, Good

LEMMA Written ==
  ASSUME TypeInv, NEW r \in Request, Alone(call[r]), Writing(r)
  PROVE  Updates(r)
<1>. DEFINE c == call[r]
            row == user[c.user]
            next == NextCall(c, c.seen.failed + 1)
<1>0. c.pc = "writing" /\ CallOK(c)
  BY CallType DEF Writing, SetEmailVerified, ApproveUser, RejectUser, UnlockUser, ResetAndUnlock, UpdatePassword,
     RecordLogin, IncrementFailed, LockAccount, Recount, LockUser, SetStatus, Save
<1>1. Present(c.user) => /\ Secured(c) \in Row /\ Versioned(c) \in Row /\ row \in Row /\ c.seen = row
                         /\ row.status \in Expected(c.op)
                         /\ \A x \in {Secured(c), Versioned(c)} :
                              x.status = row.status /\ x.password = row.password /\ x.failed = row.failed
  BY <1>0, FreshRow DEF Alone
<1>2. c.op \notin {"fail", "recount"} => next = Idle
  BY DEF NextCall
<1>. HIDE DEF row
<1>4. CASE SetEmailVerified(r)
  <2>. DEFINE new == [Versioned(c) EXCEPT !.status = "PENDING_APPROVAL"]
  <2>1. Save(r, {"verify"}, new, Idle) /\ c.op = "verify"
    BY <1>4 DEF SetEmailVerified, Save
  <2>2. Present(c.user) => Good(c, new)
    BY <1>1, <2>1 DEF Good, StatusAfter, PasswordAfter, FailedAfter, Resets, Row, row
  <2>. HIDE DEF new
  <2>. QED BY <1>2, <2>1, <2>2, UpdateForm DEF WriteOps
<1>5. CASE ApproveUser(r)
  <2>. DEFINE new == [Versioned(c) EXCEPT !.status = "ACTIVE"]
  <2>1. Save(r, {"approve"}, new, Idle) /\ c.op = "approve"
    BY <1>5 DEF ApproveUser, Save
  <2>2. Present(c.user) => Good(c, new)
    BY <1>1, <2>1 DEF Good, StatusAfter, PasswordAfter, FailedAfter, Resets, Row, row
  <2>. HIDE DEF new
  <2>. QED BY <1>2, <2>1, <2>2, UpdateForm DEF WriteOps
<1>6. CASE RejectUser(r)
  <2>. DEFINE new == [Versioned(c) EXCEPT !.status = "INACTIVE"]
  <2>1. Save(r, {"reject"}, new, Idle) /\ c.op = "reject"
    BY <1>6 DEF RejectUser, Save
  <2>2. Present(c.user) => Good(c, new)
    BY <1>1, <2>1 DEF Good, StatusAfter, PasswordAfter, FailedAfter, Resets, Row, row
  <2>. HIDE DEF new
  <2>. QED BY <1>2, <2>1, <2>2, UpdateForm DEF WriteOps
<1>7. CASE UnlockUser(r)
  <2>. DEFINE new == [Secured(c) EXCEPT !.status = "ACTIVE", !.failed = 0]
  <2>1. Save(r, {"unlock", "unlockAny"}, new, Idle) /\ c.op \in {"unlock", "unlockAny"}
    BY <1>7 DEF UnlockUser, Save
  <2>2. Present(c.user) => Good(c, new)
    BY <1>1, <2>1 DEF Good, StatusAfter, PasswordAfter, FailedAfter, Resets, Row, row
  <2>. HIDE DEF new
  <2>. QED BY <1>2, <2>1, <2>2, UpdateForm DEF WriteOps
<1>8. CASE ResetAndUnlock(r)
  <2>. DEFINE st == IF c.seen.status = "LOCKED" THEN "ACTIVE" ELSE c.seen.status
              new == [Versioned(c) EXCEPT !.password = c.arg, !.failed = 0, !.status = st]
  <2>1. Save(r, {"reset"}, new, Idle) /\ c.op = "reset"
    BY <1>8 DEF ResetAndUnlock, Save
  <2>2. Present(c.user) => st = "ACTIVE"
    BY <1>1, <2>1 DEF Expected
  <2>. HIDE DEF st
  <2>3. Present(c.user) => Good(c, new)
    BY <1>1, <2>1, <2>2 DEF Good, StatusAfter, PasswordAfter, FailedAfter, Resets, Row, row
  <2>. HIDE DEF new
  <2>. QED BY <1>2, <2>1, <2>3, UpdateForm DEF WriteOps
<1>9. CASE UpdatePassword(r)
  <2>. DEFINE new == [Secured(c) EXCEPT !.password = c.arg]
  <2>1. Save(r, {"password"}, new, Idle) /\ c.op = "password"
    BY <1>9 DEF UpdatePassword, Save
  <2>2. Present(c.user) => Good(c, new)
    BY <1>1, <2>1 DEF Good, StatusAfter, PasswordAfter, FailedAfter, Resets, Row, row
  <2>. HIDE DEF new
  <2>. QED BY <1>2, <2>1, <2>2, UpdateForm DEF WriteOps
<1>10. CASE RecordLogin(r)
  <2>. DEFINE new == [Secured(c) EXCEPT !.failed = 0]
  <2>1. Save(r, {"login"}, new, Idle) /\ c.op = "login"
    BY <1>10 DEF RecordLogin, Save
  <2>2. Present(c.user) => Good(c, new)
    BY <1>1, <2>1 DEF Good, StatusAfter, PasswordAfter, FailedAfter, Resets, Row, row
  <2>. HIDE DEF new
  <2>. QED BY <1>2, <2>1, <2>2, UpdateForm DEF WriteOps
<1>11. CASE IncrementFailed(r)
  <2>. DEFINE new == [Secured(c) EXCEPT !.failed = c.seen.failed + 1]
  <2>1. Save(r, {"fail"}, new, next) /\ c.op = "fail"
    BY <1>11 DEF IncrementFailed, Save, NextCall
  <2>2. Present(c.user) => Good(c, new)
    BY <1>1, <2>1 DEF Good, StatusAfter, PasswordAfter, FailedAfter, Resets, Row, row
  <2>. HIDE DEF new
  <2>. QED BY <2>1, <2>2, UpdateForm DEF WriteOps
<1>12. CASE Recount(r)
  <2>. DEFINE new == [Secured(c) EXCEPT !.failed = c.seen.failed + 1]
  <2>1. Save(r, {"recount"}, new, next) /\ c.op = "recount"
    BY <1>12 DEF Recount, Save, NextCall
  <2>2. Present(c.user) => Good(c, new)
    BY <1>1, <2>1 DEF Good, StatusAfter, PasswordAfter, FailedAfter, Resets, Row, row
  <2>. HIDE DEF new
  <2>. QED BY <2>1, <2>2, UpdateForm DEF WriteOps
<1>13. CASE LockAccount(r)
  <2>. DEFINE new == [Versioned(c) EXCEPT !.status = "LOCKED"]
  <2>1. Save(r, {"lock"}, new, Idle) /\ c.op = "lock"
    BY <1>13 DEF LockAccount, Save
  <2>2. Present(c.user) => Good(c, new)
    BY <1>1, <2>1 DEF Good, StatusAfter, PasswordAfter, FailedAfter, Resets, Row, row
  <2>. HIDE DEF new
  <2>. QED BY <1>2, <2>1, <2>2, UpdateForm DEF WriteOps
<1>14. CASE LockUser(r)
  <2>. DEFINE new == [Secured(c) EXCEPT !.status = "LOCKED"]
  <2>1. Save(r, {"suspend"}, new, Idle) /\ c.op = "suspend"
    BY <1>14 DEF LockUser, Save
  <2>2. Present(c.user) => Good(c, new)
    BY <1>1, <2>1 DEF Good, StatusAfter, PasswordAfter, FailedAfter, Resets, Row, row
  <2>. HIDE DEF new
  <2>. QED BY <1>2, <2>1, <2>2, UpdateForm DEF WriteOps
<1>15. CASE SetStatus(r)
  <2>. DEFINE new == IF user[c.user].version = c.seen.version
                     THEN [user[c.user] EXCEPT !.status = c.arg, !.version = @ + 1] ELSE user[c.user]
  <2>1. Save(r, {"status"}, new, Idle) /\ c.op = "status"
    BY <1>15 DEF SetStatus, Save
  <2>2. Present(c.user) => Good(c, new)
    BY <1>1, <2>1 DEF Good, StatusAfter, PasswordAfter, FailedAfter, Resets, Row, row
  <2>. HIDE DEF new
  <2>. QED BY <1>2, <2>1, <2>2, UpdateForm DEF WriteOps
<1>. QED BY <1>4, <1>5, <1>6, <1>7, <1>8, <1>9, <1>10, <1>11, <1>12, <1>13, <1>14, <1>15 DEF Writing

\* A step that leaves the users alone.
LEMMA AloneGoesOn ==
  ASSUME TypeInv, SerialInv, OneAtATime, NEW r \in Request, NEW STATE n, call' = [call EXCEPT ![r] = n],
         UNCHANGED user,
         \/ n.pc = "idle"
         \/ n.pc = "inserting" /\ Registered = {}
         \/ /\ n.pc \notin {"idle", "inserting"} /\ Registered \subseteq {n.user}
            /\ Present(n.user) => /\ user[n.user].status \in Expected(n.op)
                                  /\ n.pc = "writing" => n.seen = user[n.user]
                                  /\ n.op \in {"lock", "suspend"} => user[n.user].failed >= MaxFallback
  PROVE  SerialInv'
<1>1. \A q \in Request : call'[q] = n
  BY DEF TypeInv, OneAtATime
<1>. QED BY <1>1 DEF SerialInv, Alone, Registered, Present

LEMMA AloneAsks ==
  ASSUME TypeInv, SerialInv, OneAtATime, NEW r \in Request, Ask(r)
  PROVE  SerialInv'
<1>0. PICK op \in Operation, u \in User \cup {NoUser} : \E n :
        Asks(r, op, u, n) /\ AskedOf(op, u) /\ n.pc = FirstPc(op) /\ op \in Asked
  BY AskForms
<1>1. PICK n : Asks(r, op, u, n) /\ AskedOf(op, u) /\ n.pc = FirstPc(op) /\ op \in Asked
  BY <1>0
<1>. DEFINE m == [n EXCEPT !.op = op, !.user = u]
<1>2. call' = [call EXCEPT ![r] = m] /\ UNCHANGED user
  BY <1>1 DEF Asks, Begin
<1>3. m.pc = n.pc /\ m.op = op /\ m.user = u
  BY <1>1 DEF Asks, AnyCall
<1>. HIDE DEF m
<1>4. CASE op = "register"
  BY <1>1, <1>2, <1>3, <1>4, AloneGoesOn DEF FirstPc, AskedOf
<1>5. CASE op # "register"
  <2>1. u \in User /\ Present(u) /\ m.pc \notin {"idle", "inserting", "writing"}
    BY <1>1, <1>3, <1>5 DEF Asks, FirstPc, AskedOf, Asked, Present, Status
  <2>2. Registered \subseteq {u}
    BY <2>1 DEF Registered, SerialInv
  <2>3. user[u].status \in Expected(op) /\ op \notin {"lock", "suspend"}
    BY <1>1, <1>5, <2>1 DEF AskedOf, Asked, Expected, Present
  <2>. QED BY <1>2, <1>3, <2>1, <2>2, <2>3, AloneGoesOn
<1>. QED BY <1>4, <1>5

\* A request that goes on with its user, or ends.
LEMMA AloneContinues ==
  ASSUME TypeInv, SerialInv, OneAtATime, NEW r \in Request, NEW STATE n, call' = [call EXCEPT ![r] = n],
         UNCHANGED user, call[r].pc \notin {"idle", "inserting"},
         \/ n.pc = "idle"
         \/ /\ n.pc \notin {"idle", "inserting"} /\ n.op = call[r].op /\ n.user = call[r].user
            /\ n.pc = "writing" => n.seen = user[n.user]
  PROVE  SerialInv'
<1>1. Alone(call[r])
  BY DEF SerialInv
<1>. QED BY <1>1, AloneGoesOn DEF Alone

LEMMA AloneInStep ==
  ASSUME TypeInv, StepsInv, SerialInv, OneAtATime, NEW r \in Request,
         \/ CountTokens(r) \/ ReplaceTokens(r) \/ IssueToken(r) \/ MatchCode(r) \/ MissCode(r) \/ MarkUsed(r)
         \/ Read(r) \/ FallBack(r) \/ LookUpEmail(r) \/ Dies(r)
  PROVE  SerialInv'
<1>. DEFINE c == call[r]
<1>0. Justified(c) /\ CallOK(c) /\ Alone(c) /\ c \in AnyCall
  BY CallType DEF StepsInv, SerialInv
<1>1. UNCHANGED user
  BY DEF CountTokens, ReplaceTokens, IssueToken, MatchCode, MissCode, MarkUsed, Read, FallBack, LookUpEmail, Dies
<1>2. c.pc # "idle" /\ (c.pc = "inserting" => Dies(r))
  BY DEF CountTokens, ReplaceTokens, IssueToken, MatchCode, MissCode, MarkUsed, Read, FallBack, LookUpEmail, Dies
<1>3. CASE call' = [call EXCEPT ![r] = Idle]
  BY <1>1, <1>3, AloneGoesOn DEF Idle
<1>4. CASE CountTokens(r) \/ ReplaceTokens(r) \/ IssueToken(r) \/ MissCode(r) \/ MarkUsed(r)
  <2>1. \/ call' = [call EXCEPT ![r] = Idle]
        \/ \E pc \in {"replacing", "issuing", "reading"} : call' = [call EXCEPT ![r] = [c EXCEPT !.pc = pc]]
    BY <1>4 DEF CountTokens, ReplaceTokens, IssueToken, MissCode, MarkUsed, Goes
  <2>2. ASSUME NEW pc \in {"replacing", "issuing", "reading"}, call' = [call EXCEPT ![r] = [c EXCEPT !.pc = pc]]
        PROVE  SerialInv'
    <3>. DEFINE n == [c EXCEPT !.pc = pc]
    <3>1. n.pc = pc /\ n.op = c.op /\ n.user = c.user
      BY <1>0 DEF AnyCall
    <3>2. call' = [call EXCEPT ![r] = n]
      BY <2>2
    <3>3. c.pc # "inserting"
      BY <1>4 DEF CountTokens, ReplaceTokens, IssueToken, MissCode, MarkUsed
    <3>. HIDE DEF n
    <3>. QED BY <1>1, <1>2, <3>1, <3>2, <3>3, AloneContinues
  <2>. QED BY <1>3, <2>1, <2>2
<1>5. CASE MatchCode(r)
  <2>. DEFINE i == Min(Usable(r))
              n == [c EXCEPT !.pc = IF i = c.code THEN "marking" ELSE "missing",
                             !.token = i, !.tries = tokens[i].attempts]
  <2>1. call' = [call EXCEPT ![r] = Idle] \/ call' = [call EXCEPT ![r] = n]
    BY <1>5 DEF MatchCode, Goes
  <2>. HIDE DEF i
  <2>2. n.pc \in {"marking", "missing"} /\ n.op = c.op /\ n.user = c.user
    BY <1>0 DEF AnyCall
  <2>3. c.pc = "matching"
    BY <1>5 DEF MatchCode
  <2>. HIDE DEF n
  <2>. QED BY <1>1, <1>3, <2>1, <2>2, <2>3, AloneContinues
<1>6. CASE Read(r)
  <2>. DEFINE n == IF Present(c.user) THEN [c EXCEPT !.pc = "writing", !.seen = user[c.user]]
                   ELSE [c EXCEPT !.pc = "falling"]
  <2>1. call' = [call EXCEPT ![r] = Idle] \/ call' = [call EXCEPT ![r] = n]
    BY <1>6 DEF Read, Goes
  <2>2. n.pc \in {"writing", "falling"} /\ n.op = c.op /\ n.user = c.user /\ (n.pc = "writing" => n.seen = user[n.user])
    BY <1>0 DEF AnyCall
  <2>3. c.pc = "reading"
    BY <1>6 DEF Read
  <2>. HIDE DEF n
  <2>. QED BY <1>1, <1>3, <2>1, <2>2, <2>3, AloneContinues
<1>7. CASE FallBack(r)
  <2>. DEFINE n == [c EXCEPT !.pc = "falling"]
  <2>1. call' = [call EXCEPT ![r] = n]
    BY <1>7 DEF FallBack, TypeInv
  <2>2. n.pc = "falling" /\ n.op = c.op /\ n.user = c.user
    BY <1>0 DEF AnyCall
  <2>3. c.pc \in {"reading", "writing"}
    BY <1>7 DEF FallBack
  <2>. HIDE DEF n
  <2>. QED BY <1>1, <2>1, <2>2, <2>3, AloneContinues
<1>8. CASE LookUpEmail(r)
  <2>1. CASE \E u \in Registered : Goes(r, [At("reading") EXCEPT !.op = "recount", !.user = u])
    <3>1. PICK u \in Registered : Goes(r, [At("reading") EXCEPT !.op = "recount", !.user = u])
      BY <2>1
    <3>. DEFINE n == [At("reading") EXCEPT !.op = "recount", !.user = u]
    <3>2. n.pc = "reading" /\ n.op = "recount" /\ n.user = u
      BY RowTypes DEF Pc, AnyCall
    <3>3. c.pc = "falling" /\ c.op \in {"fail", "lock"}
      BY <1>0, <1>8 DEF LookUpEmail, Justified, Counts
    <3>4. u = c.user /\ Present(u) /\ Registered \subseteq {u}
      BY <1>0, <3>3 DEF Alone, Registered
    <3>5. user[u].status \in Expected("recount")
      BY <1>0, <3>3, <3>4 DEF Alone, Expected
    <3>6. call' = [call EXCEPT ![r] = n]
      BY <3>1 DEF Goes
    <3>. HIDE DEF n
    <3>. QED BY <1>1, <3>2, <3>4, <3>5, <3>6, AloneGoesOn
  <2>. QED BY <1>3, <1>8, <2>1 DEF LookUpEmail, Goes
<1>9. CASE Dies(r)
  BY <1>3, <1>9 DEF Dies
<1>. QED BY <1>4, <1>5, <1>6, <1>7, <1>8, <1>9

LEMMA AloneInserts ==
  ASSUME TypeInv, StepsInv, SerialInv, OneAtATime, NEW r \in Request, InsertUser(r)
  PROVE  SerialInv'
<1>. DEFINE c == call[r]
<1>0. Justified(c) /\ CallOK(c) /\ c \in AnyCall /\ c.pc = "inserting" /\ c.op = "register"
  BY CallType DEF StepsInv, InsertUser, Justified
<1>1. CASE Goes(r, Idle) /\ UNCHANGED user
  BY <1>1, AloneGoesOn DEF Idle, Goes
<1>2. CASE Registered = {} /\ \E u \in User :
             /\ user' = [user EXCEPT ![u] =
                  [status |-> "UNVERIFIED", password |-> c.arg, failed |-> 0, version |-> 1]]
             /\ Goes(r, [c EXCEPT !.pc = "replacing", !.user = u])
  <2>1. PICK u \in User :
          /\ user' = [user EXCEPT ![u] =
               [status |-> "UNVERIFIED", password |-> c.arg, failed |-> 0, version |-> 1]]
          /\ Goes(r, [c EXCEPT !.pc = "replacing", !.user = u])
    BY <1>2
  <2>2. user'[u].status = "UNVERIFIED" /\ \A w \in User \ {u} : user'[w] = user[w]
    BY <2>1 DEF TypeInv, TypeOK
  <2>3. Registered' = {u}
    BY <1>2, <2>2 DEF Registered, Present, Status
  <2>4. \A q \in Request : call'[q].pc = "replacing" /\ call'[q].op = "register" /\ call'[q].user = u
    BY <1>0, <2>1 DEF Goes, OneAtATime, TypeInv, AnyCall
  <2>. QED BY <2>2, <2>3, <2>4 DEF SerialInv, Alone, Expected
<1>. QED BY <1>1, <1>2 DEF InsertUser

LEMMA AloneWrites ==
  ASSUME TypeInv, StepsInv, SerialInv, OneAtATime, NEW r \in Request, Writing(r)
  PROVE  SerialInv'
<1>. DEFINE c == call[r]
            n == NextCall(c, c.seen.failed + 1)
<1>0. Alone(c) /\ CallOK(c) /\ c \in AnyCall /\ Updates(r)
  BY CallType, Written DEF SerialInv
<1>1. c.pc = "writing" /\ c.user \in User
  BY <1>0 DEF Updates
<1>2. Registered' \subseteq Registered /\ \A u \in User : Present(u)' => Present(u)
  <2>1. \A w \in User : w # c.user \/ ~Present(c.user) => user'[w] = user[w]
    BY <1>0 DEF Updates
  <2>. QED BY <1>1, <2>1 DEF Registered, Present
<1>3. \A q \in Request : call'[q] = n
  BY <1>0 DEF Updates, OneAtATime, TypeInv
<1>4. CASE n = Idle
  BY <1>2, <1>3, <1>4 DEF SerialInv, Alone, Idle
<1>5. CASE n # Idle
  <2>1. /\ n.pc = "reading" /\ n.op \in {"lock", "suspend"} /\ n.user = c.user /\ c.op \in {"fail", "recount"}
        /\ c.seen.failed + 1 >= MaxFallback
    <3>1. c.seen.failed + 1 \in Nat
      BY <1>0 DEF AnyCall, Row
    <3>2. MaxFallback \in Nat /\ MaxFailedLogins \in Nat /\ MaxFallback <= MaxFailedLogins
      BY AccountAssumption
    <3>3. \/ c.op = "fail" /\ c.seen.failed + 1 >= MaxFailedLogins /\ n = [c EXCEPT !.pc = "reading", !.op = "lock"]
          \/ c.op = "recount" /\ c.seen.failed + 1 >= MaxFallback /\ n = [c EXCEPT !.pc = "reading", !.op = "suspend"]
      BY <1>5 DEF NextCall
    <3>4. c.seen.failed + 1 >= MaxFallback
      <4>1. \A x \in Nat : x >= MaxFailedLogins => x >= MaxFallback
        BY <3>2
      <4>. QED BY <3>1, <3>3, <4>1
    <3>. HIDE DEF n
    <3>. QED BY <1>0, <3>3, <3>4 DEF AnyCall
  <2>2. Present(c.user) => /\ user'[c.user].status \in Expected(n.op)
                           /\ user'[c.user].failed >= MaxFallback
    <3>1. SUFFICES ASSUME Present(c.user)
                   PROVE  user'[c.user].status \in Expected(n.op) /\ user'[c.user].failed >= MaxFallback
      OBVIOUS
    <3>2. user[c.user].status = "ACTIVE" /\ c.seen = user[c.user]
      BY <1>0, <1>1, <2>1, <3>1 DEF Alone, Expected
    <3>3. user'[c.user].status = "ACTIVE" /\ user'[c.user].failed = c.seen.failed + 1
      BY <1>0, <2>1, <3>1, <3>2 DEF Updates, StatusAfter, FailedAfter, Resets
    <3>. QED BY <2>1, <3>3 DEF Expected
  <2>. HIDE DEF n
  <2>3. Registered' \subseteq {c.user}
    BY <1>0, <1>1, <1>2 DEF Alone
  <2>. QED BY <1>1, <1>2, <1>3, <2>1, <2>2, <2>3 DEF SerialInv, Alone
<1>. QED BY <1>4, <1>5

LEMMA SerialKept ==
  ASSUME TypeInv, StepsInv, SerialInv, OneAtATime, [Next]_vars
  PROVE  SerialInv'
<1>1. ASSUME NEW r \in Request, Continue(r) \/ Dies(r)
      PROVE  SerialInv'
  BY <1>1, AloneInStep, AloneInserts, AloneWrites DEF Continue, Writing
<1>2. CASE \E u \in User : Delete(u)
  <2>1. PICK u \in User : Delete(u)
    BY <1>2
  <2>2. user' = [user EXCEPT ![u] = Deleted] /\ UNCHANGED call
    BY <2>1 DEF Delete
  <2>3. (\A w \in User \ {u} : user'[w] = user[w]) /\ user'[u].status = "deleted"
    BY <2>2 DEF TypeInv, TypeOK, Deleted, Unborn
  <2>4. Registered' \subseteq Registered /\ \A w \in User : Present(w)' => Present(w) /\ user'[w] = user[w]
    BY <2>3 DEF Registered, Present, Status
  <2>5. ASSUME NEW q \in Request
        PROVE  Alone(call[q])'
    BY <2>2, <2>4 DEF SerialInv, Alone, Present
  <2>. QED BY <2>4, <2>5 DEF SerialInv
<1>3. CASE (\E i \in 1 .. Len(tokens) : Age(i)) \/ UNCHANGED vars
  <2>1. UNCHANGED <<user, call>>
    BY <1>3 DEF Age, vars
  <2>. QED BY <2>1 DEF SerialInv, Alone, Registered, Present
<1>. QED BY <1>1, <1>2, <1>3, AloneAsks DEF Next

LEMMA SerialInvCorrect == ASSUME OneAtATime PROVE Spec => []SerialInv
<1>1. Init => SerialInv
  BY DEF Init, SerialInv, Alone, Registered, Present, Idle, Unborn, Status
<1>2. TypeInv /\ StepsInv /\ SerialInv /\ [Next]_vars => SerialInv'
  BY SerialKept
<1>. QED BY <1>1, <1>2, TypeInvCorrect, StepsInvCorrect, PTL DEF Spec

-----------------------------------------------------------------------------
\* Codes, where requests come one after the other

\* A user who is gone does not come back.
LEMMA StaysDeleted ==
  ASSUME TypeInv, StepsInv, [Next]_vars, NEW u \in User, user[u].status # "unborn", Present(u)'
  PROVE  Present(u)
<1>1. CASE UNCHANGED user
  BY <1>1 DEF Present
<1>2. ASSUME NEW r \in Request, Writing(r)
      PROVE  Present(u)
  <2>1. call[r].pc = "writing" /\ \E new : user' = IF Present(call[r].user) THEN [user EXCEPT ![call[r].user] = new] ELSE user
    BY <1>2 DEF Writing, SetEmailVerified, ApproveUser, RejectUser, UnlockUser, ResetAndUnlock, UpdatePassword,
       RecordLogin, IncrementFailed, LockAccount, Recount, LockUser, SetStatus, Save
  <2>2. u # call[r].user => user'[u] = user[u]
    BY <2>1 DEF TypeInv, TypeOK
  <2>3. u = call[r].user /\ ~Present(u) => user' = user
    BY <2>1
  <2>. QED BY <2>2, <2>3 DEF Present
<1>3. ASSUME NEW r \in Request, InsertUser(r)
      PROVE  Present(u)
  <2>1. UNCHANGED user \/ \E w \in User : user[w] = Unborn /\ \E new : user' = [user EXCEPT ![w] = new]
    BY <1>3 DEF InsertUser
  <2>. QED BY <2>1 DEF Present, Unborn, TypeInv, TypeOK
<1>4. CASE \E w \in User : Delete(w)
  BY <1>4 DEF Delete, Present, Deleted, Unborn, Status, TypeInv, TypeOK
<1>5. ASSUME NEW r \in Request, Ask(r)
      PROVE  UNCHANGED user
  BY <1>5, AskForms DEF Asks, Begin
<1>6. ASSUME NEW r \in Request, Continue(r) \/ Dies(r)
      PROVE  UNCHANGED user \/ Writing(r) \/ InsertUser(r)
  BY <1>6 DEF Continue, Writing, Dies, CountTokens, ReplaceTokens, IssueToken, MatchCode, MissCode, MarkUsed, Read,
     FallBack, LookUpEmail
<1>. QED BY <1>1, <1>2, <1>3, <1>4, <1>5, <1>6 DEF Next, vars, Age

CodeInv ==
  /\ OneCode
  /\ \A r \in Request : call[r].pc = "issuing" /\ Present(call[r].user) =>
       \A i \in DOMAIN tokens :
         tokens[i].user = call[r].user /\ tokens[i].kind = Kind(call[r].op) => tokens[i].used # "no"

\* No step but that of issuing makes a code usable.
NothingNew ==
  /\ DOMAIN tokens' = DOMAIN tokens
  /\ \A i \in DOMAIN tokens : /\ tokens'[i].user = tokens[i].user /\ tokens'[i].kind = tokens[i].kind
                              /\ tokens'[i].used = "no" => tokens[i].used = "no"
                              /\ tokens[i].age = "old" => tokens'[i].age = "old"

LEMMA TokensInStep ==
  ASSUME TypeInv, [Next]_vars
  PROVE  NothingNew \/ \E r \in Request : IssueToken(r)
<1>0. /\ tokens \in Seq(Token) /\ \A j \in DOMAIN tokens : tokens[j] \in Token
      /\ DOMAIN tokens = 1 .. Len(tokens) /\ Len(tokens) \in Nat
  BY DEF TypeInv, TypeOK
<1>1. CASE UNCHANGED tokens
  BY <1>1 DEF NothingNew
<1>2. CASE \E r \in Request : ReplaceTokens(r) \/ MarkUsed(r) \/ MissCode(r)
  <2>1. PICK r \in Request : ReplaceTokens(r) \/ MarkUsed(r) \/ MissCode(r)
    BY <1>2
  <2>2. DOMAIN tokens' = DOMAIN tokens
    BY <2>1 DEF ReplaceTokens, MarkUsed, MissCode
  <2>3. ASSUME NEW i \in DOMAIN tokens
        PROVE  \/ tokens'[i] = tokens[i]
               \/ \E x \in {"replaced", "code"} : tokens'[i] = [tokens[i] EXCEPT !.used = x]
               \/ tokens'[i] = [tokens[i] EXCEPT !.attempts = call[r].tries + 1]
    BY <2>1 DEF ReplaceTokens, MarkUsed, MissCode
  <2>. QED BY <1>0, <2>2, <2>3 DEF NothingNew, Token
<1>3. CASE \E j \in 1 .. Len(tokens) : Age(j)
  BY <1>0, <1>3 DEF Age, Token, NothingNew
<1>4. ASSUME NEW r \in Request, Ask(r)
      PROVE  UNCHANGED tokens
  BY <1>4, AskForms DEF Asks, Begin
<1>5. ASSUME NEW r \in Request, Continue(r) \/ Dies(r)
      PROVE  UNCHANGED tokens \/ ReplaceTokens(r) \/ MarkUsed(r) \/ MissCode(r) \/ IssueToken(r)
  BY <1>5 DEF Continue, Dies, InsertUser, CountTokens, MatchCode, Read, SetEmailVerified, ApproveUser, RejectUser,
     UnlockUser, ResetAndUnlock, UpdatePassword, RecordLogin, IncrementFailed, LockAccount, FallBack, LookUpEmail,
     Recount, LockUser, SetStatus, Save
<1>. QED BY <1>1, <1>2, <1>3, <1>4, <1>5 DEF Next, vars, Delete

\* What issuing a token leaves.
LEMMA Issued ==
  ASSUME TypeInv, NEW r \in Request, IssueToken(r)
  PROVE  /\ call[r].pc = "issuing" /\ call'[r] = Idle /\ UNCHANGED user
         /\ \/ UNCHANGED tokens
            \/ /\ Present(call[r].user) /\ Len(tokens) \in Nat /\ DOMAIN tokens = 1 .. Len(tokens)
               /\ DOMAIN tokens' = 1 .. Len(tokens) + 1
               /\ \A i \in 1 .. Len(tokens) : tokens'[i] = tokens[i]
               /\ tokens'[Len(tokens) + 1] = [user |-> call[r].user, kind |-> Kind(call[r].op),
                                              used |-> "no", attempts |-> 0, age |-> "fresh"]
<1>1. tokens \in Seq(Token) /\ DOMAIN tokens = 1 .. Len(tokens) /\ Len(tokens) \in Nat
  BY DEF TypeInv, TypeOK
<1>2. call[r].pc = "issuing" /\ call'[r] = Idle /\ UNCHANGED user
  BY DEF IssueToken, Goes, TypeInv
<1>. DEFINE new == [user |-> call[r].user, kind |-> Kind(call[r].op), used |-> "no", attempts |-> 0, age |-> "fresh"]
<1>3. tokens' = IF Present(call[r].user) THEN Append(tokens, new) ELSE tokens
  BY DEF IssueToken
<1>. HIDE DEF new
<1>4. /\ DOMAIN Append(tokens, new) = 1 .. Len(tokens) + 1
      /\ \A i \in 1 .. Len(tokens) : Append(tokens, new)[i] = tokens[i]
      /\ Append(tokens, new)[Len(tokens) + 1] = new
  BY <1>1
<1>. QED BY <1>1, <1>2, <1>3, <1>4 DEF new

LEMMA CodesKept ==
  ASSUME TypeInv, StepsInv, CodeInv, OneAtATime, [Next]_vars
  PROVE  CodeInv'
<1>1. OneCode'
  <2>1. CASE NothingNew
    BY <2>1 DEF NothingNew, CodeInv, OneCode
  <2>2. CASE \E r \in Request : IssueToken(r)
    <3>1. PICK r \in Request : IssueToken(r)
      BY <2>2
    <3>2. CASE UNCHANGED tokens
      BY <3>2 DEF CodeInv, OneCode
    <3>3. CASE ~UNCHANGED tokens
      <4>1. \A i \in DOMAIN tokens : tokens[i].user = call[r].user /\ tokens[i].kind = Kind(call[r].op) => tokens[i].used # "no"
        BY <3>1, <3>3, Issued DEF CodeInv
      <4>0. /\ Len(tokens) \in Nat /\ DOMAIN tokens = 1 .. Len(tokens) /\ DOMAIN tokens' = 1 .. Len(tokens) + 1
            /\ \A i \in 1 .. Len(tokens) : tokens'[i] = tokens[i]
        BY <3>1, <3>3, Issued
      <4>2. \A i \in DOMAIN tokens' : (i \in DOMAIN tokens /\ tokens'[i] = tokens[i]) \/ i = Len(tokens) + 1
        BY <4>0
      <4>3. tokens'[Len(tokens) + 1] = [user |-> call[r].user, kind |-> Kind(call[r].op),
                                        used |-> "no", attempts |-> 0, age |-> "fresh"]
        BY <3>1, <3>3, Issued
      <4>. QED BY <4>1, <4>2, <4>3 DEF CodeInv, OneCode
    <3>. QED BY <3>2, <3>3
  <2>. QED BY <2>1, <2>2, TokensInStep
<1>2. ASSUME NEW q \in Request, call'[q].pc = "issuing", Present(call[q].user)',
             NEW i \in DOMAIN tokens', tokens'[i].user = call'[q].user, tokens'[i].kind = Kind(call'[q].op)
      PROVE  tokens'[i].used # "no"
  <2>1. CASE call'[q] = call[q]
    <3>1. NothingNew
      <4>1. ASSUME NEW r \in Request, IssueToken(r)
            PROVE  FALSE
        <5>1. r = q /\ call'[r] = Idle
          BY <4>1, Issued DEF OneAtATime
        <5>. QED BY <1>2, <5>1 DEF Idle
      <4>. QED BY <4>1, TokensInStep
    <3>2. call[q].user \in User /\ user[call[q].user].status # "unborn"
      BY <1>2, <2>1, CallType DEF StepsInv, Justified, CallOK
    <3>3. PICK u \in User : u = call[q].user
      BY <3>2
    <3>4. Present(u)
      BY <1>2, <2>1, <3>2, <3>3, StaysDeleted DEF Present
    <3>. QED BY <1>2, <2>1, <3>1, <3>3, <3>4 DEF NothingNew, CodeInv
  <2>2. CASE ReplaceTokens(q) /\ call'[q].op = call[q].op /\ call'[q].user = call[q].user
    <3>1. UNCHANGED user
      BY <2>2 DEF ReplaceTokens
    <3>2. /\ DOMAIN tokens' = DOMAIN tokens
          /\ tokens'[i] = IF i \in Own(q) /\ tokens[i].used = "no" THEN [tokens[i] EXCEPT !.used = "replaced"]
                          ELSE tokens[i]
      BY <1>2, <2>2 DEF ReplaceTokens
    <3>3. i \in DOMAIN tokens /\ tokens[i] \in Token
      BY <3>2 DEF TypeInv, TypeOK
    <3>4. tokens[i].user = call[q].user /\ tokens[i].kind = Kind(call[q].op)
      BY <1>2, <2>2, <3>2, <3>3 DEF Token
    <3>5. i \in Own(q)
      BY <1>2, <2>2, <3>1, <3>3, <3>4 DEF Own, Stored, Present
    <3>. QED BY <3>2, <3>3, <3>5 DEF Token
  <2>. QED BY <1>2, <2>1, <2>2, Turns
<1>. QED BY <1>1, <1>2 DEF CodeInv

\* Where requests do not overlap, whatever becomes of them half way, a user has one
\* usable code of a kind.
THEOREM OneCodeAtATime == ASSUME OneAtATime PROVE Spec => []OneCode
<1>1. Init => CodeInv
  BY DEF Init, CodeInv, OneCode, Idle
<1>2. TypeInv /\ StepsInv /\ CodeInv /\ [Next]_vars => CodeInv'
  BY CodesKept
<1>3. CodeInv => OneCode
  BY DEF CodeInv
<1>. QED BY <1>1, <1>2, <1>3, TypeInvCorrect, StepsInvCorrect, PTL DEF Spec

LEMMA BornStays ==
  ASSUME TypeInv, StepsInv, SerialInv, [Next]_vars, NEW u \in User, user[u].status # "unborn"
  PROVE  user'[u].status # "unborn"
<1>1. CASE UNCHANGED user
  BY <1>1
<1>2. ASSUME NEW r \in Request, Writing(r)
      PROVE  user'[u].status # "unborn"
  <2>1. Updates(r) /\ CallOK(call[r])
    BY <1>2, Written, CallType DEF SerialInv
  <2>2. CASE u # call[r].user \/ ~Present(call[r].user)
    BY <2>1, <2>2 DEF Updates
  <2>3. CASE u = call[r].user /\ Present(call[r].user)
    <3>1. user'[u].status \in StatusAfter(call[r], user[u])
      BY <2>1, <2>3 DEF Updates
    <3>2. StatusAfter(call[r], user[u]) \subseteq Status
      <4>1. call[r].op = "status" => call[r].arg \in Status
        BY <2>1 DEF CallOK, Updates
      <4>2. user[u].status \in Status
        BY <2>3 DEF Present
      <4>. QED BY <4>1, <4>2 DEF StatusAfter, Status
    <3>. QED BY <3>1, <3>2 DEF Status
  <2>. QED BY <2>2, <2>3
<1>3. ASSUME NEW r \in Request, InsertUser(r)
      PROVE  user'[u].status # "unborn"
  <2>1. UNCHANGED user \/ \E w \in User : user[w] = Unborn /\ \E new : user' = [user EXCEPT ![w] = new]
    BY <1>3 DEF InsertUser
  <2>. QED BY <2>1 DEF Unborn, TypeInv, TypeOK
<1>4. CASE \E w \in User : Delete(w)
  BY <1>4 DEF Delete, Deleted, Unborn, TypeInv, TypeOK
<1>5. ASSUME NEW r \in Request, Ask(r)
      PROVE  UNCHANGED user
  BY <1>5, AskForms DEF Asks, Begin
<1>6. ASSUME NEW r \in Request, Continue(r) \/ Dies(r)
      PROVE  UNCHANGED user \/ Writing(r) \/ InsertUser(r)
  BY <1>6 DEF Continue, Writing, Dies, CountTokens, ReplaceTokens, IssueToken, MatchCode, MissCode, MarkUsed, Read,
     FallBack, LookUpEmail
<1>. QED BY <1>1, <1>2, <1>3, <1>4, <1>5, <1>6 DEF Next, vars, Age

\* The codes that count against the limit on resends.
Recent(u) == {i \in DOMAIN tokens : tokens[i].user = u /\ tokens[i].age # "old"
                                      /\ tokens[i].kind = "EMAIL_VERIFICATION"}

\* Only those who are, or were, in the table have codes; and who is being sent one
\* has been sent fewer than the limit.
ResendInv ==
  /\ \A i \in DOMAIN tokens : user[tokens[i].user].status # "unborn"
  /\ \A u \in User : Cardinality(Recent(u)) <= MaxResends
  /\ \A r \in Request :
       call[r].pc \in {"replacing", "issuing"} /\ Kind(call[r].op) = "EMAIL_VERIFICATION" /\ Present(call[r].user) =>
         Cardinality(Recent(call[r].user)) < MaxResends

LEMMA RecentFinite ==
  ASSUME TypeInv, NEW u \in User
  PROVE  IsFiniteSet(Recent(u)) /\ Cardinality(Recent(u)) \in Nat
<1>1. DOMAIN tokens = 1 .. Len(tokens) /\ Len(tokens) \in Int
  BY DEF TypeInv, TypeOK
<1>2. IsFiniteSet(1 .. Len(tokens))
  BY <1>1, FS_Interval
<1>3. Recent(u) \subseteq 1 .. Len(tokens)
  BY <1>1 DEF Recent
<1>. QED BY <1>2, <1>3, FS_Subset, FS_CardinalityType

LEMMA RecentShrinks ==
  ASSUME TypeInv, NothingNew, NEW u \in User
  PROVE  /\ IsFiniteSet(Recent(u)) /\ Cardinality(Recent(u)) \in Nat
         /\ Recent(u)' \subseteq Recent(u)
         /\ Cardinality(Recent(u)') \in Nat /\ Cardinality(Recent(u)') <= Cardinality(Recent(u))
<1>1. IsFiniteSet(Recent(u)) /\ Cardinality(Recent(u)) \in Nat
  BY RecentFinite
<1>2. Recent(u)' \subseteq Recent(u)
  BY DEF Recent, NothingNew
<1>. QED BY <1>1, <1>2, FS_Subset, FS_CardinalityType

LEMMA ResendsKept ==
  ASSUME TypeInv, StepsInv, SerialInv, ResendInv, OneAtATime, [Next]_vars
  PROVE  ResendInv'
<1>0. MaxResends \in Nat \ {0}
  BY AccountAssumption
<1>1. \A i \in DOMAIN tokens' : user'[tokens'[i].user].status # "unborn"
  <2>0. \A i \in DOMAIN tokens : tokens[i].user \in User
    <3>1. \A i \in DOMAIN tokens : tokens[i] \in Token
      BY DEF TypeInv, TypeOK
    <3>. QED BY <3>1 DEF Token
  <2>1. \A i \in DOMAIN tokens : user'[tokens[i].user].status # "unborn"
    BY <2>0, BornStays DEF ResendInv
  <2>2. CASE NothingNew
    BY <2>1, <2>2 DEF NothingNew
  <2>3. CASE \E r \in Request : IssueToken(r)
    <3>1. PICK r \in Request : IssueToken(r)
      BY <2>3
    <3>2. CASE UNCHANGED tokens
      BY <2>1, <3>2
    <3>3. CASE ~UNCHANGED tokens
      <4>1. /\ Len(tokens) \in Nat /\ DOMAIN tokens = 1 .. Len(tokens) /\ DOMAIN tokens' = 1 .. Len(tokens) + 1
            /\ \A i \in 1 .. Len(tokens) : tokens'[i] = tokens[i]
            /\ tokens'[Len(tokens) + 1] = [user |-> call[r].user, kind |-> Kind(call[r].op),
                                           used |-> "no", attempts |-> 0, age |-> "fresh"]
            /\ Present(call[r].user) /\ UNCHANGED user
        BY <3>1, <3>3, Issued
      <4>2. \A i \in DOMAIN tokens' : i \in DOMAIN tokens \/ i = Len(tokens) + 1
        BY <4>1
      <4>. QED BY <2>1, <4>1, <4>2 DEF Present, Status
    <3>. QED BY <3>2, <3>3
  <2>. QED BY <2>2, <2>3, TokensInStep
<1>2. ASSUME NEW u \in User
      PROVE  Cardinality(Recent(u)') <= MaxResends
  <2>0. Cardinality(Recent(u)) <= MaxResends
    BY DEF ResendInv
  <2>1. CASE NothingNew
    BY <1>0, <2>0, <2>1, RecentShrinks
  <2>2. CASE \E r \in Request : IssueToken(r)
    <3>1. PICK r \in Request : IssueToken(r)
      BY <2>2
    <3>2. CASE UNCHANGED tokens
      BY <2>0, <3>2 DEF Recent
    <3>3. CASE ~UNCHANGED tokens
      <4>1. /\ Len(tokens) \in Nat /\ DOMAIN tokens = 1 .. Len(tokens) /\ DOMAIN tokens' = 1 .. Len(tokens) + 1
            /\ \A i \in 1 .. Len(tokens) : tokens'[i] = tokens[i]
            /\ tokens'[Len(tokens) + 1] = [user |-> call[r].user, kind |-> Kind(call[r].op),
                                           used |-> "no", attempts |-> 0, age |-> "fresh"]
            /\ Present(call[r].user) /\ call[r].pc = "issuing"
        BY <3>1, <3>3, Issued
      <4>2. IsFiniteSet(Recent(u)) /\ Cardinality(Recent(u)) \in Nat
        BY RecentFinite
      <4>3. \A i \in DOMAIN tokens' : (i \in DOMAIN tokens /\ tokens'[i] = tokens[i]) \/ i = Len(tokens) + 1
        BY <4>1
      <4>4. Len(tokens) + 1 \in DOMAIN tokens' /\ Len(tokens) + 1 \notin DOMAIN tokens
        BY <4>1
      <4>5. CASE call[r].user = u /\ Kind(call[r].op) = "EMAIL_VERIFICATION"
        <5>1. Recent(u)' = Recent(u) \cup {Len(tokens) + 1}
          BY <4>1, <4>3, <4>4, <4>5 DEF Recent
        <5>2. Len(tokens) + 1 \notin Recent(u)
          BY <4>4 DEF Recent
        <5>3. Cardinality(Recent(u)') = Cardinality(Recent(u)) + 1
          BY <4>2, <5>1, <5>2, FS_AddElement
        <5>4. Cardinality(Recent(u)) < MaxResends
          BY <4>1, <4>5 DEF ResendInv
        <5>. QED BY <1>0, <4>2, <5>3, <5>4
      <4>6. CASE ~(call[r].user = u /\ Kind(call[r].op) = "EMAIL_VERIFICATION")
        <5>1. Recent(u)' = Recent(u)
          BY <4>1, <4>3, <4>6 DEF Recent
        <5>. QED BY <2>0, <5>1
      <4>. QED BY <4>5, <4>6
    <3>. QED BY <3>2, <3>3
  <2>. QED BY <2>1, <2>2, TokensInStep
<1>3. ASSUME NEW q \in Request, call'[q].pc \in {"replacing", "issuing"}, Kind(call'[q].op) = "EMAIL_VERIFICATION",
             Present(call[q].user)'
      PROVE  Cardinality(Recent(call[q].user)') < MaxResends
  <2>1. PICK u \in User : call'[q].user = u
    BY <1>3 DEF Present
  <2>2. SUFFICES Cardinality(Recent(u)') < MaxResends
    BY <2>1 DEF Recent
  <2>3. NothingNew
    <3>1. ASSUME NEW r \in Request, IssueToken(r)
          PROVE  FALSE
      <4>1. r = q /\ call'[r] = Idle
        BY <3>1, Issued DEF OneAtATime
      <4>. QED BY <1>3, <4>1 DEF Idle
    <3>. QED BY <3>1, TokensInStep
  <2>4. SUFFICES Cardinality(Recent(u)) < MaxResends
    BY <1>0, <2>3, RecentShrinks
  <2>5. CASE call'[q] = call[q]
    <3>1. user[u].status # "unborn"
      BY <1>3, <2>1, <2>5 DEF StepsInv, Justified
    <3>2. Present(u)
      BY <1>3, <2>1, <3>1, StaysDeleted DEF Present
    <3>. QED BY <1>3, <2>1, <2>5, <3>2 DEF ResendInv
  <2>6. CASE InsertUser(q)
    <3>1. user[u] = Unborn
      <4>1. call'[q] # Idle
        BY <1>3 DEF Idle
      <4>2. PICK w \in User : user[w] = Unborn /\ call'[q] = [call[q] EXCEPT !.pc = "replacing", !.user = w]
        BY <2>6, <4>1 DEF InsertUser, Goes, TypeInv
      <4>3. [call[q] EXCEPT !.pc = "replacing", !.user = w].user = w
        BY CallType DEF AnyCall
      <4>. QED BY <2>1, <4>2, <4>3
    <3>2. Recent(u) = {}
      BY <3>1 DEF Recent, ResendInv, Unborn
    <3>. QED BY <1>0, <3>2, FS_EmptySet
  <2>7. CASE CountTokens(q) /\ call'[q].pc = "replacing" /\ call'[q].op = call[q].op /\ call'[q].user = call[q].user
    <3>1. ~(Cardinality({i \in Own(q) : tokens[i].age # "old"}) >= MaxResends) /\ UNCHANGED user
      BY <2>7 DEF CountTokens, Goes, Idle, TypeInv
    <3>2. Present(u)
      BY <1>3, <2>1, <3>1 DEF Present
    <3>3. {i \in Own(q) : tokens[i].age # "old"} = Recent(u)
      BY <1>3, <2>1, <2>7, <3>2 DEF Own, Stored, Recent
    <3>. QED BY <1>0, <2>3, <3>1, <3>3, RecentShrinks
  <2>8. CASE ReplaceTokens(q) /\ call'[q].op = call[q].op /\ call'[q].user = call[q].user
    <3>1. call[q].pc = "replacing" /\ UNCHANGED user
      BY <2>8 DEF ReplaceTokens
    <3>2. Present(u)
      BY <1>3, <2>1, <3>1 DEF Present
    <3>. QED BY <1>3, <2>1, <2>8, <3>1, <3>2 DEF ResendInv
  <2>. QED BY <1>3, <2>5, <2>6, <2>7, <2>8, Turns DEF Kind
<1>. QED BY <1>1, <1>2, <1>3 DEF ResendInv, Recent

\* Where requests do not overlap, a user is sent no more codes in an hour than the
\* limit, the one of the registration included.
THEOREM ResendsAreLimited == ASSUME OneAtATime PROVE Spec => []ResendsWithinLimit
<1>1. Init => ResendInv
  <2>1. ASSUME Init
        PROVE  ResendInv
    <3>1. \A u \in User : Recent(u) = {}
      BY <2>1 DEF Init, Recent
    <3>2. Cardinality({}) <= MaxResends
      BY FS_EmptySet, AccountAssumption
    <3>3. DOMAIN tokens = {}
      BY <2>1 DEF Init
    <3>. QED BY <2>1, <3>1, <3>2, <3>3 DEF Init, ResendInv, Idle
  <2>. QED BY <2>1
<1>2. TypeInv /\ StepsInv /\ SerialInv /\ ResendInv /\ [Next]_vars => ResendInv'
  BY ResendsKept
<1>3. ResendInv => ResendsWithinLimit
  BY DEF ResendInv, ResendsWithinLimit, Recent
<1>. QED BY <1>1, <1>2, <1>3, TypeInvCorrect, StepsInvCorrect, SerialInvCorrect, PTL DEF Spec

-----------------------------------------------------------------------------
\* Failed logins, where requests come one after the other

Locking(u) ==
  \E r \in Request : call[r].user = u /\ call[r].op \in {"lock", "suspend"} /\ call[r].pc \in {"reading", "writing"}

\* What is counted is what is in the table, and an account that could still be logged
\* in to is below the limit, or is about to be locked, or a request has died before it
\* locked it.
LockInv ==
  \A u \in User :
    /\ wrong[u] = user[u].failed
    /\ user[u].status \in {"unborn", "deleted", "UNVERIFIED", "PENDING_APPROVAL"} => user[u].failed = 0
    /\ user[u].failed <= MaxFailedLogins + faults
    /\ user[u].status = "ACTIVE" /\ ~Locking(u) => user[u].failed < MaxFailedLogins + faults

\* Users and counts are as they were, and no lock has been lost but by a fault.
LEMMA LocksStay ==
  ASSUME TypeInv, LockInv, UNCHANGED <<user, wrong>>, faults' \in Nat, faults' >= faults,
         \/ faults' > faults
         \/ \A u \in User : user[u].status = "ACTIVE" /\ Locking(u) => Locking(u)'
  PROVE  LockInv'
<1>1. MaxFailedLogins \in Nat /\ faults \in Nat /\ \A u \in User : user[u].failed \in Nat
  BY AccountAssumption DEF TypeInv, TypeOK, Row
<1>2. ASSUME NEW u \in User
      PROVE  /\ user[u].failed <= MaxFailedLogins + faults'
             /\ user[u].status = "ACTIVE" /\ ~Locking(u)' => user[u].failed < MaxFailedLogins + faults'
  <2>1. /\ user[u].failed <= MaxFailedLogins + faults
        /\ user[u].status = "ACTIVE" /\ ~Locking(u) => user[u].failed < MaxFailedLogins + faults
    BY DEF LockInv
  <2>2. user[u].failed \in Nat
    BY <1>1
  <2>3. CASE faults' > faults
    BY <1>1, <2>1, <2>2, <2>3
  <2>4. CASE \A w \in User : user[w].status = "ACTIVE" /\ Locking(w) => Locking(w)'
    BY <1>1, <2>1, <2>2, <2>4
  <2>. QED BY <2>3, <2>4
<1>. QED BY <1>2 DEF LockInv, Locking

LEMMA WrongForm ==
  ASSUME TypeInv, NEW r \in Request, Writing(r), NEW w \in User
  PROVE  wrong'[w] = IF w # call[r].user THEN wrong[w]
                     ELSE IF call[r].op \in Resets THEN 0
                     ELSE IF call[r].op \in {"fail", "recount"} /\ Present(call[r].user) THEN wrong[w] + 1
                     ELSE wrong[w]
BY DEF Writing, SetEmailVerified, ApproveUser, RejectUser, UnlockUser, ResetAndUnlock, UpdatePassword, RecordLogin,
   IncrementFailed, LockAccount, Recount, LockUser, SetStatus, Save, Forgets, history, Resets, TypeInv, TypeOK

LEMMA LocksWhenWriting ==
  ASSUME TypeInv, StepsInv, SerialInv, LockInv, OneAtATime, "status" \notin Operation,
         NEW r \in Request, Writing(r)
  PROVE  LockInv'
<1>. DEFINE c == call[r]
            n == NextCall(c, c.seen.failed + 1)
<1>0. Alone(c) /\ CallOK(c) /\ Updates(r)
  BY CallType, Written DEF SerialInv
<1>1. c.pc = "writing" /\ c.user \in User /\ c.op \in WriteOps \ {"status"} /\ faults' = faults
  BY <1>0 DEF Updates, CallOK, AnyCall, Op
<1>2. /\ MaxFailedLogins \in Nat \ {0} /\ MaxFallback \in Nat /\ MaxFallback <= MaxFailedLogins /\ faults \in Nat
      /\ \A w \in User : user[w].failed \in Nat
  BY AccountAssumption DEF TypeInv, TypeOK, Row
<1>3. \A q \in Request : call'[q] = n
  BY <1>0 DEF Updates, OneAtATime, TypeInv
<1>4. ASSUME NEW w \in User
      PROVE  /\ wrong'[w] = user'[w].failed
             /\ user'[w].status \in {"unborn", "deleted", "UNVERIFIED", "PENDING_APPROVAL"} => user'[w].failed = 0
             /\ user'[w].failed <= MaxFailedLogins + faults
             /\ user'[w].status = "ACTIVE" /\ ~Locking(w)' => user'[w].failed < MaxFailedLogins + faults
  <2>1. /\ wrong[w] = user[w].failed
        /\ user[w].status \in {"unborn", "deleted", "UNVERIFIED", "PENDING_APPROVAL"} => user[w].failed = 0
        /\ user[w].failed <= MaxFailedLogins + faults
        /\ user[w].status = "ACTIVE" /\ ~Locking(w) => user[w].failed < MaxFailedLogins + faults
    BY DEF LockInv
  <2>2. user[w] \in Row /\ user[w].status \in Status \cup {"unborn", "deleted"} /\ user[w].failed \in Nat
    BY DEF TypeInv, TypeOK, Row
  <2>3. CASE w # c.user
    <3>1. ~Locking(w)
      BY <2>3 DEF Locking, OneAtATime
    <3>2. user'[w] = user[w] /\ wrong'[w] = wrong[w]
      BY <1>0, <2>3, WrongForm DEF Updates
    <3>. QED BY <2>1, <3>1, <3>2
  <2>4. CASE w = c.user /\ ~Present(c.user)
    <3>1. user'[w] = user[w] /\ user[w].failed = 0 /\ user[w].status # "ACTIVE"
      BY <1>0, <2>1, <2>2, <2>4 DEF Updates, Present, Status
    <3>2. wrong'[w] = 0
      BY <2>1, <2>4, <3>1, WrongForm
    <3>. QED BY <2>1, <3>1, <3>2
  <2>5. CASE w = c.user /\ Present(c.user)
    <3>1. /\ user'[w].status \in StatusAfter(c, user[w])
          /\ user'[w].failed = FailedAfter(c, user[w].failed)
          /\ user[w].status \in Expected(c.op)
      BY <1>0, <1>1, <2>5 DEF Updates, Alone
    <3>2. wrong'[w] = IF c.op \in Resets THEN 0 ELSE IF c.op \in {"fail", "recount"} THEN wrong[w] + 1 ELSE wrong[w]
      BY <2>5, WrongForm
    <3>3. wrong'[w] = user'[w].failed
      BY <2>1, <3>1, <3>2 DEF FailedAfter
    <3>4. CASE c.op \in {"verify", "approve", "reject"}
      <4>1. user[w].failed = 0 /\ user'[w].failed = 0
        BY <2>1, <3>1, <3>4 DEF Expected, FailedAfter, Resets
      <4>. QED BY <1>2, <3>3, <4>1
    <3>5. CASE c.op \in Resets
      BY <1>2, <3>1, <3>3, <3>5 DEF FailedAfter
    <3>6. CASE c.op = "password"
      <4>1. user'[w].status = user[w].status /\ user'[w].failed = user[w].failed
        BY <3>1, <3>6 DEF StatusAfter, FailedAfter, Resets
      <4>2. ~Locking(w)
        BY <3>6 DEF Locking, OneAtATime
      <4>. QED BY <2>1, <3>3, <4>1, <4>2
    <3>7. CASE c.op \in {"fail", "recount"}
      <4>1. user[w].status = "ACTIVE" /\ user'[w].status = "ACTIVE" /\ user'[w].failed = user[w].failed + 1
        BY <3>1, <3>7 DEF Expected, StatusAfter, FailedAfter, Resets
      <4>2. ~Locking(w)
        BY <3>7 DEF Locking, OneAtATime
      <4>3. user'[w].failed <= MaxFailedLogins + faults
        BY <1>2, <2>1, <2>2, <4>1, <4>2
      <4>4. ~Locking(w)' => n = Idle \/ n.op \notin {"lock", "suspend"} \/ n.pc # "reading" \/ n.user # w
        BY <1>3 DEF Locking
      <4>5. ~Locking(w)' => n = Idle
        BY <1>0, <2>5, <4>4 DEF NextCall, CallOK, AnyCall
      <4>6. n = Idle => ~(c.seen.failed + 1 >= MaxFailedLogins) \/ ~(c.seen.failed + 1 >= MaxFallback)
        BY <1>0, <3>7 DEF NextCall, CallOK, AnyCall, Idle
      <4>7. c.seen = user[w]
        BY <1>0, <1>1, <2>5 DEF Alone
      <4>8. ~Locking(w)' => user'[w].failed < MaxFailedLogins + faults
        BY <1>2, <2>2, <4>1, <4>5, <4>6, <4>7
      <4>. QED BY <3>3, <4>1, <4>3, <4>8
    <3>8. CASE c.op \in {"lock", "suspend"}
      <4>1. user'[w].status = "LOCKED" /\ user'[w].failed = user[w].failed
        BY <3>1, <3>8 DEF StatusAfter, FailedAfter, Resets
      <4>. QED BY <2>1, <3>3, <4>1
    <3>. QED BY <1>1, <3>4, <3>5, <3>6, <3>7, <3>8 DEF WriteOps, Resets
  <2>. QED BY <2>3, <2>4, <2>5
<1>. QED BY <1>1, <1>4 DEF LockInv, Locking

LEMMA LocksKept ==
  ASSUME TypeInv, TypeInv', StepsInv, SerialInv, LockInv, OneAtATime, "status" \notin Operation, [Next]_vars
  PROVE  LockInv'
<1>0. faults \in Nat /\ faults' \in Nat
  BY AccountAssumption DEF TypeInv, TypeOK
<1>1. CASE UNCHANGED <<user, wrong, faults, call>>
  BY <1>0, <1>1, LocksStay DEF Locking
<1>2. ASSUME NEW r \in Request, UNCHANGED <<user, wrong, faults>>,
             \A q \in Request : q # r => call'[q] = call[q], call[r].pc \notin {"reading", "writing"}
      PROVE  LockInv'
  <2>1. \A u \in User : ~Locking(u)
    BY <1>2 DEF Locking, OneAtATime
  <2>. QED BY <1>0, <1>2, <2>1, LocksStay
<1>3. ASSUME NEW r \in Request, Ask(r)
      PROVE  LockInv'
  <2>1. /\ UNCHANGED <<user, wrong, faults>> /\ call[r].pc = "idle"
        /\ \A q \in Request : q # r => call'[q] = call[q]
    BY <1>3, AskForms DEF Asks, Begin, history, OneAtATime
  <2>. QED BY <1>2, <2>1
<1>4. ASSUME NEW r \in Request,
             \/ CountTokens(r) \/ ReplaceTokens(r) \/ IssueToken(r) \/ MatchCode(r) \/ MissCode(r) \/ MarkUsed(r)
             \/ LookUpEmail(r)
      PROVE  LockInv'
  <2>1. /\ UNCHANGED <<user, wrong, faults>> /\ call[r].pc \notin {"reading", "writing"}
        /\ \A q \in Request : q # r => call'[q] = call[q]
    BY <1>4 DEF CountTokens, ReplaceTokens, IssueToken, MatchCode, MissCode, MarkUsed, LookUpEmail, Goes, history, OneAtATime
  <2>. QED BY <1>2, <2>1
<1>5. ASSUME NEW r \in Request, FallBack(r) \/ Dies(r)
      PROVE  LockInv'
  <2>1. UNCHANGED <<user, wrong>> /\ faults' = faults + 1
    BY <1>5 DEF FallBack, Dies, history
  <2>. QED BY <1>0, <2>1, LocksStay
<1>6. ASSUME NEW r \in Request, Read(r)
      PROVE  LockInv'
  <2>1. UNCHANGED <<user, wrong, faults>> /\ call[r].pc = "reading"
    BY <1>6 DEF Read, Goes, history
  <2>2. ASSUME NEW u \in User, user[u].status = "ACTIVE", Locking(u)
        PROVE  Locking(u)'
    <3>1. call[r].user = u /\ call[r].op \in {"lock", "suspend"}
      BY <2>2 DEF Locking, OneAtATime
    <3>2. call'[r] = [call[r] EXCEPT !.pc = "writing", !.seen = user[u]]
      BY <1>6, <2>2, <3>1 DEF Read, Goes, Present, Status, TypeInv
    <3>3. call'[r].user = u /\ call'[r].op \in {"lock", "suspend"} /\ call'[r].pc = "writing"
      BY <3>1, <3>2, CallType DEF AnyCall
    <3>. QED BY <3>3 DEF Locking
  <2>. QED BY <1>0, <2>1, <2>2, LocksStay
<1>7. ASSUME NEW r \in Request, InsertUser(r)
      PROVE  LockInv'
  <2>1. UNCHANGED <<wrong, faults>> /\ call[r].pc = "inserting"
    BY <1>7 DEF InsertUser, Goes, history
  <2>2. CASE UNCHANGED user
    <3>1. \A q \in Request : q # r => call'[q] = call[q]
      BY DEF OneAtATime
    <3>. QED BY <1>2, <2>1, <2>2, <3>1
  <2>3. CASE \E u \in User : /\ user[u] = Unborn
                             /\ user' = [user EXCEPT ![u] =
                                  [status |-> "UNVERIFIED", password |-> call[r].arg, failed |-> 0, version |-> 1]]
    <3>1. PICK u \in User : /\ user[u] = Unborn
                            /\ user' = [user EXCEPT ![u] =
                                 [status |-> "UNVERIFIED", password |-> call[r].arg, failed |-> 0, version |-> 1]]
      BY <2>3
    <3>2. /\ user'[u].status = "UNVERIFIED" /\ user'[u].failed = 0 /\ wrong[u] = 0
          /\ \A w \in User \ {u} : user'[w] = user[w]
      BY <3>1 DEF LockInv, Unborn, TypeInv, TypeOK
    <3>3. \A w \in User : ~Locking(w)
      BY <2>1 DEF Locking, OneAtATime
    <3>4. MaxFailedLogins \in Nat
      BY AccountAssumption
    <3>5. ASSUME NEW w \in User
          PROVE  /\ wrong'[w] = user'[w].failed
                 /\ user'[w].status \in {"unborn", "deleted", "UNVERIFIED", "PENDING_APPROVAL"} => user'[w].failed = 0
                 /\ user'[w].failed <= MaxFailedLogins + faults
                 /\ user'[w].status = "ACTIVE" => user'[w].failed < MaxFailedLogins + faults
      BY <1>0, <2>1, <3>2, <3>3, <3>4 DEF LockInv
    <3>. QED BY <2>1, <3>5 DEF LockInv, Locking
  <2>. QED BY <1>7, <2>2, <2>3 DEF InsertUser
<1>8. CASE \E u \in User : Delete(u)
  <2>1. PICK u \in User : Delete(u)
    BY <1>8
  <2>2. /\ user'[u] = Deleted /\ wrong'[u] = 0 /\ UNCHANGED <<call, faults>>
        /\ \A w \in User \ {u} : user'[w] = user[w] /\ wrong'[w] = wrong[w]
    BY <2>1 DEF Delete, TypeInv, TypeOK
  <2>3. MaxFailedLogins \in Nat
    BY AccountAssumption
  <2>4. ASSUME NEW w \in User
        PROVE  /\ wrong'[w] = user'[w].failed
               /\ user'[w].status \in {"unborn", "deleted", "UNVERIFIED", "PENDING_APPROVAL"} => user'[w].failed = 0
               /\ user'[w].failed <= MaxFailedLogins + faults
               /\ user'[w].status = "ACTIVE" /\ ~Locking(w) => user'[w].failed < MaxFailedLogins + faults
    BY <1>0, <2>2, <2>3 DEF LockInv, Deleted, Unborn
  <2>. QED BY <2>2, <2>4 DEF LockInv, Locking
<1>. QED BY <1>1, <1>3, <1>4, <1>5, <1>6, <1>7, <1>8, LocksWhenWriting
         DEF Next, Continue, Writing, vars, Age, history

\* Where requests do not overlap, and nobody sets the status by hand, no failed login
\* beyond the limit is let in, but for one each time that a request has died between
\* counting and locking.
THEOREM LocksOnTime == ASSUME OneAtATime, "status" \notin Operation PROVE Spec => []LocksInTime
<1>1. Init => LockInv
  BY AccountAssumption DEF Init, LockInv, Unborn
<1>2. TypeInv /\ TypeInv' /\ StepsInv /\ SerialInv /\ LockInv /\ [Next]_vars => LockInv'
  BY LocksKept
<1>3. TypeInv /\ LockInv => LocksInTime
  BY DEF LockInv, LocksInTime
<1>. QED BY <1>1, <1>2, <1>3, TypeInvCorrect, StepsInvCorrect, SerialInvCorrect, PTL DEF Spec

-----------------------------------------------------------------------------
\* The registration workflow, where requests come one after the other

statuses  == [u \in User |-> user[u].status]
passwords == [u \in User |-> user[u].password]
failures  == [u \in User |-> user[u].failed]

\* A step that changes one user changes each of the mapped functions at that user.
LEMMA OneUser ==
  ASSUME NEW u \in User, \A w \in User \ {u} : user'[w] = user[w]
  PROVE  /\ statuses'  = [statuses EXCEPT ![u] = user'[u].status]
         /\ passwords' = [passwords EXCEPT ![u] = user'[u].password]
         /\ failures'  = [failures EXCEPT ![u] = user'[u].failed]
<1>1. \A w \in User : statuses'[w] = [statuses EXCEPT ![u] = user'[u].status][w]
  BY DEF statuses
<1>2. \A w \in User : passwords'[w] = [passwords EXCEPT ![u] = user'[u].password][w]
  BY DEF passwords
<1>3. \A w \in User : failures'[w] = [failures EXCEPT ![u] = user'[u].failed][w]
  BY DEF failures
<1>. QED BY <1>1, <1>2, <1>3 DEF statuses, passwords, failures

\* An update of the repository is a move, a login, a lock, an unlock, a reset or a change
\* of the password.
LEMMA WriteFollows ==
  ASSUME TypeInv, SerialInv, OneAtATime, {"status", "unlockAny"} \cap Operation = {},
         NEW r \in Request, Writing(r)
  PROVE  [Workflow!Next]_(Workflow!vars)
<1>. DEFINE c == call[r]
<1>0. Alone(c) /\ CallOK(c) /\ Updates(r)
  BY CallType, Written DEF SerialInv
<1>1. c.pc = "writing" /\ c.user \in User /\ c.op \in WriteOps \ {"status", "unlockAny"}
  BY <1>0 DEF Updates, CallOK, AnyCall, Op
<1>2. PICK u \in User : u = c.user
  BY <1>1
<1>3. CASE ~Present(u)
  <2>1. \A w \in User : user'[w] = user[w]
    BY <1>0, <1>2, <1>3 DEF Updates
  <2>2. UNCHANGED Workflow!vars
    BY <2>1 DEF Workflow!vars
  <2>. QED BY <2>2
<1>4. CASE Present(u)
  <2>1. /\ user'[u].status \in StatusAfter(c, user[u])
        /\ user'[u].password = PasswordAfter(c, user[u])
        /\ user'[u].failed = FailedAfter(c, user[u].failed)
        /\ user[u].status \in Expected(c.op)
        /\ c.op \in {"lock", "suspend"} => user[u].failed >= MaxFallback
    BY <1>0, <1>1, <1>2, <1>4 DEF Updates, Alone
  <2>2. \A w \in User \ {u} : user'[w] = user[w]
    BY <1>0, <1>2 DEF Updates
  <2>3. /\ statuses'  = [statuses EXCEPT ![u] = user'[u].status]
        /\ passwords' = [passwords EXCEPT ![u] = user'[u].password]
        /\ failures'  = [failures EXCEPT ![u] = user'[u].failed]
    BY <2>2, OneUser
  <2>4. /\ statuses[u] = user[u].status /\ passwords[u] = user[u].password /\ failures[u] = user[u].failed
        /\ statuses  = [statuses EXCEPT ![u] = user[u].status]
        /\ passwords = [passwords EXCEPT ![u] = user[u].password]
        /\ failures  = [failures EXCEPT ![u] = user[u].failed]
    BY DEF statuses, passwords, failures
  <2>5. CASE c.op \in {"verify", "approve", "reject"}
    <3>1. /\ <<user[u].status, user'[u].status>> \in Workflow!Transition
          /\ user'[u].status \in {"PENDING_APPROVAL", "ACTIVE", "INACTIVE"}
          /\ user'[u].password = user[u].password /\ user'[u].failed = user[u].failed
      BY <2>1, <2>5 DEF Workflow!Transition, StatusAfter, PasswordAfter, FailedAfter, Expected, Resets
    <3>2. Workflow!Move(u)
      BY <2>3, <2>4, <3>1 DEF Workflow!Move, statuses, passwords, failures
    <3>. QED BY <3>2 DEF Workflow!Next
  <2>6. CASE c.op = "unlock"
    <3>1. user[u].status = "LOCKED" /\ user'[u].status = "ACTIVE" /\ user'[u].password = user[u].password
          /\ user'[u].failed = 0
      BY <2>1, <2>6 DEF StatusAfter, PasswordAfter, FailedAfter, Expected, Resets
    <3>2. Workflow!Unlock(u)
      BY <2>3, <2>4, <3>1 DEF Workflow!Unlock, statuses, passwords, failures
    <3>. QED BY <3>2 DEF Workflow!Next
  <2>7. CASE c.op = "reset"
    <3>1. user[u].status \in {"ACTIVE", "LOCKED"} /\ user'[u].status = "ACTIVE" /\ user'[u].password = c.arg
          /\ user'[u].failed = 0 /\ c.arg \in Password
      BY <1>0, <1>1, <2>1, <2>7 DEF StatusAfter, PasswordAfter, FailedAfter, Expected, Resets, CallOK
    <3>2. Workflow!ResetPassword(u)
      BY <2>3, <2>4, <3>1 DEF Workflow!ResetPassword, statuses, passwords, failures
    <3>. QED BY <3>2 DEF Workflow!Next
  <2>8. CASE c.op = "password"
    <3>1. user'[u].status = user[u].status /\ user'[u].password = c.arg
          /\ user'[u].failed = user[u].failed /\ c.arg \in Password /\ user[u].status \notin Workflow!Absent
      BY <1>0, <1>1, <1>4, <2>1, <2>8
         DEF StatusAfter, PasswordAfter, FailedAfter, Resets, CallOK, Workflow!Absent, Present, Status
    <3>2. Workflow!ChangePassword(u)
      BY <2>3, <2>4, <3>1 DEF Workflow!ChangePassword, statuses, passwords, failures
    <3>. QED BY <3>2 DEF Workflow!Next
  <2>9. CASE c.op \in {"login", "fail", "recount"}
    <3>1. user[u].status = "ACTIVE" /\ user'[u].status = "ACTIVE" /\ user'[u].password = user[u].password
          /\ user'[u].failed \in {0, user[u].failed + 1}
      BY <2>1, <2>9 DEF StatusAfter, PasswordAfter, FailedAfter, Expected, Resets
    <3>2. statuses' = statuses /\ passwords' = passwords
      BY <2>3, <2>4, <3>1
    <3>3. failures' \in {[failures EXCEPT ![u] = 0], [failures EXCEPT ![u] = failures[u] + 1]}
      BY <2>3, <2>4, <3>1
    <3>4. Workflow!Login(u)
      BY <2>4, <3>1, <3>2, <3>3 DEF Workflow!Login, statuses, passwords, failures
    <3>. QED BY <3>4 DEF Workflow!Next
  <2>10. CASE c.op \in {"lock", "suspend"}
    <3>1. user[u].status = "ACTIVE" /\ user'[u].status = "LOCKED" /\ user'[u].password = user[u].password
          /\ user'[u].failed = user[u].failed /\ user[u].failed >= MaxFallback
      BY <2>1, <2>10 DEF StatusAfter, PasswordAfter, FailedAfter, Expected, Resets
    <3>2. Workflow!Lock(u)
      BY <2>3, <2>4, <3>1 DEF Workflow!Lock, statuses, passwords, failures
    <3>. QED BY <3>2 DEF Workflow!Next
  <2>. QED BY <1>1, <2>5, <2>6, <2>7, <2>8, <2>9, <2>10 DEF WriteOps
<1>. QED BY <1>2, <1>3, <1>4

LEMMA StepFollows ==
  ASSUME TypeInv, SerialInv, OneAtATime, {"status", "unlockAny"} \cap Operation = {}, [Next]_vars
  PROVE  [Workflow!Next]_(Workflow!vars)
<1>1. CASE UNCHANGED user
  BY <1>1 DEF Workflow!vars
<1>2. ASSUME NEW r \in Request, InsertUser(r)
      PROVE  [Workflow!Next]_(Workflow!vars)
  <2>1. CASE Registered # {}
    BY <1>1, <1>2, <2>1 DEF InsertUser
  <2>2. CASE Registered = {}
    <3>1. PICK u \in User :
            /\ user[u] = Unborn
            /\ user' = [user EXCEPT ![u] =
                 [status |-> "UNVERIFIED", password |-> call[r].arg, failed |-> 0, version |-> 1]]
      BY <1>2, <2>2 DEF InsertUser
    <3>2. call[r].arg \in Password
      BY <1>2, CallType DEF InsertUser, CallOK
    <3>3. /\ user'[u].status = "UNVERIFIED" /\ user'[u].password = call[r].arg /\ user'[u].failed = 0
          /\ user[u].status = "unborn" /\ user[u].failed = 0
          /\ \A w \in User \ {u} : user'[w] = user[w]
      BY <3>1 DEF Unborn, TypeInv, TypeOK
    <3>4. /\ statuses'  = [statuses EXCEPT ![u] = "UNVERIFIED"]
          /\ passwords' = [passwords EXCEPT ![u] = call[r].arg]
          /\ failures'  = [failures EXCEPT ![u] = 0]
      BY <3>3, OneUser
    <3>5. failures = [failures EXCEPT ![u] = 0]
      BY <3>3 DEF failures
    <3>6. \A v \in User : statuses[v] \in Workflow!Absent
      BY <2>2 DEF statuses, Workflow!Absent, Registered, Present, TypeInv, TypeOK, Row
    <3>7. Workflow!Register(u)
      BY <3>2, <3>3, <3>4, <3>5, <3>6 DEF Workflow!Register, statuses, passwords, failures
    <3>. QED BY <3>7 DEF Workflow!Next
  <2>. QED BY <2>1, <2>2
<1>3. ASSUME NEW u \in User, Delete(u)
      PROVE  [Workflow!Next]_(Workflow!vars)
  <2>1. /\ user'[u].status = "deleted" /\ user'[u].password = NoPassword /\ user'[u].failed = 0
        /\ \A w \in User \ {u} : user'[w] = user[w]
    BY <1>3 DEF Delete, Deleted, Unborn, TypeInv, TypeOK
  <2>2. /\ statuses'  = [statuses EXCEPT ![u] = "deleted"]
        /\ passwords' = [passwords EXCEPT ![u] = NoPassword]
        /\ failures'  = [failures EXCEPT ![u] = 0]
    BY <2>1, OneUser
  <2>3. statuses[u] \notin Workflow!Absent
    BY <1>3 DEF Delete, statuses, Present, Status, Workflow!Absent
  <2>4. Workflow!Delete(u)
    BY <2>2, <2>3 DEF Workflow!Delete, statuses, passwords, failures
  <2>. QED BY <2>4 DEF Workflow!Next
<1>4. ASSUME NEW r \in Request, Ask(r)
      PROVE  UNCHANGED user
  BY <1>4, AskForms DEF Asks, Begin
<1>5. ASSUME NEW r \in Request, Continue(r) \/ Dies(r)
      PROVE  UNCHANGED user \/ Writing(r) \/ InsertUser(r)
  BY <1>5 DEF Continue, Writing, Dies, CountTokens, ReplaceTokens, IssueToken, MatchCode, MissCode, MarkUsed, Read,
     FallBack, LookUpEmail
<1>. QED BY <1>1, <1>2, <1>3, <1>4, <1>5, WriteFollows DEF Next, vars, Age

\* Where requests do not overlap, and nobody sets the status or unlocks the account by
\* hand, what happens to an account is what the registration workflow promises, also
\* when requests die half way or fall back.
THEOREM WorkflowIsFollowed ==
  ASSUME OneAtATime, {"status", "unlockAny"} \cap Operation = {}
  PROVE  Spec => FollowsWorkflow
<1>1. Init => Workflow!Init
  BY DEF Init, Unborn, Workflow!Init
<1>2. TypeInv /\ SerialInv /\ [Next]_vars => [Workflow!Next]_(Workflow!vars)
  BY StepFollows
<1>. QED BY <1>1, <1>2, TypeInvCorrect, SerialInvCorrect, PTL DEF Spec, FollowsWorkflow, Workflow!Spec

=============================================================================
