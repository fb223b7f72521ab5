------------------------------ MODULE Account ------------------------------
(***************************************************************************)
(* The accounts of one email address: RegistrationService, the password    *)
(* part of AuthService and of UserService, over the users and              *)
(* verification_tokens tables.                                             *)
(*                                                                         *)
(* Every method of the repositories that changes a user reads the row and  *)
(* then writes it, and the security column, which holds the password and   *)
(* the failed logins, is written back whole as it was read.  An action is  *)
(* one round trip to the database; requests interleave between any two.    *)
(* A code is named by its token: two tokens never have the same code.      *)
(* Logins with a second factor and the tokens of sessions are in Sessions, *)
(* invitations and links in Users.  lockedUntil, which the fallback of a   *)
(* failed login sets and which only refuses logins for half an hour, is    *)
(* left out.                                                               *)
(***************************************************************************)
EXTENDS Integers, Sequences, FiniteSets, FiniteSetsExt

CONSTANTS
  User,             \* ids, each generated once
  NoUser,
  Password,
  NoPassword,
  Request,          \* requests in flight
  Operation,        \* bound: what requests ask for
  MaxFailedLogins,  \* MAX_FAILED_LOGIN_ATTEMPTS
  MaxFallback,      \* maxFailedAttempts of UserService
  MaxCodeAttempts,  \* MAX_VERIFICATION_ATTEMPTS
  MaxResends,       \* MAX_RESEND_PER_HOUR
  MaxRequests,      \* bound: requests made
  MaxFaults         \* bound: requests that die half way, or fall back

ASSUME AccountAssumption ==
  /\ NoUser \notin User /\ NoPassword \notin Password
  /\ MaxFallback \in 1 .. MaxFailedLogins
  /\ MaxFailedLogins \in Nat \ {0} /\ MaxCodeAttempts \in Nat \ {0} /\ MaxResends \in Nat \ {0}
  /\ MaxRequests \in Nat /\ MaxFaults \in Nat

VARIABLES
  user,         \* the users table
  tokens,       \* the verification_tokens table, in the order of creation
  call,         \* what each request has got so far
  made,
  faults,
  admitted,     \* history: users an administrator has let in
  wrong,        \* history: failed logins counted since the last reset
  mistaken      \* history: users whose account a fallback took for the one of the failed login

vars == <<user, tokens, call, made, faults, admitted, wrong, mistaken>>
history == <<admitted, wrong, mistaken>>

Status == {"UNVERIFIED", "PENDING_APPROVAL", "ACTIVE", "INACTIVE", "LOCKED"}

Unborn  == [status |-> "unborn", password |-> NoPassword, failed |-> 0, version |-> 0]
Deleted == [Unborn EXCEPT !.status = "deleted"]

Present(u) == u \in User /\ user[u].status \in Status
Registered == {u \in User : Present(u)}

Row == [status : Status \cup {"unborn", "deleted"}, password : Password \cup {NoPassword},
        failed : Nat, version : Nat]

\* used: whether used_at is set, and by what; age: past its fifteen minutes, past
\* the hour of the resend limit.
Token == [user : User, kind : {"EMAIL_VERIFICATION", "PASSWORD_RESET"},
          used : {"no", "code", "replaced"}, attempts : Nat, age : {"fresh", "expired", "old"}]

Pc == {"idle", "inserting", "counting", "replacing", "issuing", "matching", "missing",
       "marking", "reading", "writing", "falling"}

\* arg: the password or the status that is set; code: the code given; token,
\* tries: the token found and its attempts; seen: the row as it was read.
Idle == [pc |-> "idle", op |-> "none", user |-> NoUser, arg |-> NoPassword, code |-> 0,
         token |-> 0, tries |-> 0, seen |-> Unborn]

TypeOK ==
  /\ user \in [User -> Row]
  /\ tokens \in Seq(Token)
  /\ \A r \in Request :
       /\ call[r].pc \in Pc
       /\ call[r].user \in User \cup {NoUser}
       /\ call[r].token \in 0 .. Len(tokens)
       /\ call[r].tries \in Nat
       /\ call[r].seen \in Row
  /\ made \in 0 .. MaxRequests
  /\ faults \in 0 .. MaxFaults
  /\ admitted \subseteq User
  /\ wrong \in [User -> Nat]
  /\ mistaken \subseteq User

Init ==
  /\ user = [u \in User |-> Unborn]
  /\ tokens = <<>>
  /\ call = [r \in Request |-> Idle]
  /\ made = 0
  /\ faults = 0
  /\ admitted = {}
  /\ wrong = [u \in User |-> 0]
  /\ mistaken = {}

-----------------------------------------------------------------------------
\* Steps of a request

\* The service reads the user by email or id, and goes on if its status allows it.
Begin(r, op, u, next) ==
  /\ op \in Operation
  /\ call[r].pc = "idle"
  /\ made < MaxRequests
  /\ made' = made + 1
  /\ call' = [call EXCEPT ![r] = [next EXCEPT !.op = op, !.user = u]]
  /\ UNCHANGED <<user, tokens, faults, history>>

Goes(r, next) == call' = [call EXCEPT ![r] = next] /\ UNCHANGED <<made, faults>>

At(pc) == [Idle EXCEPT !.pc = pc]

-----------------------------------------------------------------------------
\* Requests

Register(r, p) ==
  /\ Registered = {}
  /\ Begin(r, "register", NoUser, [At("inserting") EXCEPT !.arg = p])

VerifyEmail(r, u, code) ==
  /\ user[u].status = "UNVERIFIED"
  /\ Begin(r, "verify", u, [At("matching") EXCEPT !.code = code])

ResendVerificationCode(r, u) ==
  /\ user[u].status = "UNVERIFIED"
  /\ Begin(r, "resend", u, At("counting"))

RequestPasswordReset(r, u) ==
  /\ user[u].status \in {"ACTIVE", "LOCKED"}
  /\ Begin(r, "forgot", u, At("replacing"))

ResetPassword(r, u, code, p) ==
  /\ user[u].status \in {"ACTIVE", "LOCKED"}
  /\ Begin(r, "reset", u, [At("matching") EXCEPT !.code = code, !.arg = p])

Login(r, u, p) ==
  /\ user[u].status = "ACTIVE"
  /\ Begin(r, IF p = user[u].password THEN "login" ELSE "fail", u, At("reading"))

Approve(r, u) == user[u].status = "PENDING_APPROVAL" /\ Begin(r, "approve", u, At("reading"))
Reject(r, u)  == user[u].status = "PENDING_APPROVAL" /\ Begin(r, "reject", u, At("reading"))
Unlock(r, u)  == user[u].status = "LOCKED" /\ Begin(r, "unlock", u, At("reading"))

\* UserService has an unlockUser of its own, which does not ask for the status.
UnlockAny(r, u) == Present(u) /\ Begin(r, "unlockAny", u, At("reading"))

ChangePassword(r, u, old, new) ==
  /\ Present(u)
  /\ user[u].password = old
  /\ Begin(r, "password", u, [At("reading") EXCEPT !.arg = new])

UpdateStatus(r, u, status) ==
  /\ Present(u)
  /\ Begin(r, "status", u, [At("reading") EXCEPT !.arg = status])

Delete(u) ==
  /\ "delete" \in Operation
  /\ Present(u)
  /\ made < MaxRequests
  /\ made' = made + 1
  /\ user' = [user EXCEPT ![u] = Deleted]
  /\ wrong' = [wrong EXCEPT ![u] = 0]
  /\ UNCHANGED <<tokens, call, faults, admitted, mistaken>>

-----------------------------------------------------------------------------
\* Registration and codes

\* The unique index on the email refuses a second account.
InsertUser(r) ==
  /\ call[r].pc = "inserting"
  /\ IF Registered # {}
     THEN Goes(r, Idle) /\ UNCHANGED user
     ELSE \E u \in User :
            /\ user[u] = Unborn
            /\ user' = [user EXCEPT ![u] =
                 [status |-> "UNVERIFIED", password |-> call[r].arg, failed |-> 0, version |-> 1]]
            /\ Goes(r, [call[r] EXCEPT !.pc = "replacing", !.user = u])
  /\ UNCHANGED <<tokens, history>>

Kind(op) == IF op \in {"forgot", "reset"} THEN "PASSWORD_RESET" ELSE "EMAIL_VERIFICATION"

\* ON DELETE CASCADE: a token is in the table as long as its user is in the other.
Stored == {i \in DOMAIN tokens : Present(tokens[i].user)}

\* The tokens that a request is about.
Own(r) == {i \in Stored : tokens[i].user = call[r].user /\ tokens[i].kind = Kind(call[r].op)}
Usable(r) == {i \in Own(r) : tokens[i].used = "no" /\ tokens[i].age = "fresh"}

\* Mutation of CountTokens: the limit is passed before it is noticed.
CountTokensOffByOne(r) ==
  /\ call[r].pc = "counting"
  /\ Goes(r, IF Cardinality({i \in Own(r) : tokens[i].age # "old"}) > MaxResends THEN Idle
             ELSE [call[r] EXCEPT !.pc = "replacing"])
  /\ UNCHANGED <<user, tokens, history>>

CountTokens(r) ==
  /\ call[r].pc = "counting"
  /\ Goes(r, IF Cardinality({i \in Own(r) : tokens[i].age # "old"}) >= MaxResends THEN Idle
             ELSE [call[r] EXCEPT !.pc = "replacing"])
  /\ UNCHANGED <<user, tokens, history>>

\* Mutation of ReplaceTokens: the tokens in use stay.
ReplaceTokensNone(r) ==
  /\ call[r].pc = "replacing"
  /\ UNCHANGED tokens
  /\ Goes(r, [call[r] EXCEPT !.pc = "issuing"])
  /\ UNCHANGED <<user, history>>

ReplaceTokens(r) ==
  /\ call[r].pc = "replacing"
  /\ tokens' = [i \in DOMAIN tokens |->
       IF i \in Own(r) /\ tokens[i].used = "no" THEN [tokens[i] EXCEPT !.used = "replaced"]
       ELSE tokens[i]]
  /\ Goes(r, [call[r] EXCEPT !.pc = "issuing"])
  /\ UNCHANGED <<user, history>>

\* The foreign key refuses the token of a user that has been deleted.
IssueToken(r) ==
  /\ call[r].pc = "issuing"
  /\ tokens' = IF Present(call[r].user)
               THEN Append(tokens, [user |-> call[r].user, kind |-> Kind(call[r].op),
                                    used |-> "no", attempts |-> 0, age |-> "fresh"])
               ELSE tokens
  /\ Goes(r, Idle)
  /\ UNCHANGED <<user, history>>

\* Mutation of MatchCode: one attempt too many.
MatchCodeOffByOne(r) ==
  LET c == call[r]
      i == Min(Usable(r))
  IN /\ c.pc = "matching"
     /\ Goes(r, IF Usable(r) = {} THEN Idle
                ELSE IF tokens[i].attempts > MaxCodeAttempts THEN Idle
                ELSE [c EXCEPT !.pc = IF i = c.code THEN "marking" ELSE "missing",
                               !.token = i, !.tries = tokens[i].attempts])
     /\ UNCHANGED <<user, tokens, history>>

\* The oldest usable token counts.
MatchCode(r) ==
  LET c == call[r]
      i == Min(Usable(r))
  IN /\ c.pc = "matching"
     /\ Goes(r, IF Usable(r) = {} THEN Idle
                ELSE IF tokens[i].attempts >= MaxCodeAttempts THEN Idle
                ELSE [c EXCEPT !.pc = IF i = c.code THEN "marking" ELSE "missing",
                               !.token = i, !.tries = tokens[i].attempts])
     /\ UNCHANGED <<user, tokens, history>>

MissCode(r) ==
  /\ call[r].pc = "missing"
  /\ tokens' = [i \in DOMAIN tokens |->
       IF i = call[r].token /\ i \in Stored THEN [tokens[i] EXCEPT !.attempts = call[r].tries + 1]
       ELSE tokens[i]]
  /\ Goes(r, Idle)
  /\ UNCHANGED <<user, history>>

MarkUsed(r) ==
  /\ call[r].pc = "marking"
  /\ tokens' = [i \in DOMAIN tokens |->
       IF i = call[r].token /\ i \in Stored THEN [tokens[i] EXCEPT !.used = "code"]
       ELSE tokens[i]]
  /\ Goes(r, [call[r] EXCEPT !.pc = "reading"])
  /\ UNCHANGED <<user, history>>

-----------------------------------------------------------------------------
\* The repository's updates of a user: read, then write.

\* recordFailedLogin, whose failure is caught.
Counts(c) == c.op \in {"fail", "lock"}

Read(r) ==
  LET c == call[r]
  IN /\ c.pc = "reading"
     /\ Goes(r, IF Present(c.user) THEN [c EXCEPT !.pc = "writing", !.seen = user[c.user]]
                ELSE IF Counts(c) THEN [c EXCEPT !.pc = "falling"] ELSE Idle)
     /\ UNCHANGED <<user, tokens, history>>

\* The row with the security column as it was read; with a new version too.
Secured(c)   == [user[c.user] EXCEPT !.password = c.seen.password, !.failed = c.seen.failed]
Versioned(c) == [Secured(c) EXCEPT !.version = c.seen.version + 1]

\* An UPDATE of a user that has been deleted changes no row.
Save(r, ops, new, next) ==
  /\ call[r].pc = "writing"
  /\ call[r].op \in ops
  /\ user' = IF Present(call[r].user) THEN [user EXCEPT ![call[r].user] = new] ELSE user
  /\ Goes(r, next)
  /\ UNCHANGED tokens

Forgets(u) == wrong' = [w \in User |-> IF w = u THEN 0 ELSE wrong[w]]

\* Mutation of SetEmailVerified: nobody has to approve.
SetEmailVerifiedActive(r) ==
  /\ Save(r, {"verify"}, [Versioned(call[r]) EXCEPT !.status = "ACTIVE"], Idle)
  /\ UNCHANGED history

SetEmailVerified(r) ==
  /\ Save(r, {"verify"}, [Versioned(call[r]) EXCEPT !.status = "PENDING_APPROVAL"], Idle)
  /\ UNCHANGED history

ApproveUser(r) ==
  /\ Save(r, {"approve"}, [Versioned(call[r]) EXCEPT !.status = "ACTIVE"], Idle)
  /\ admitted' = admitted \cup {call[r].user}
  /\ UNCHANGED <<wrong, mistaken>>

RejectUser(r) ==
  /\ Save(r, {"reject"}, [Versioned(call[r]) EXCEPT !.status = "INACTIVE"], Idle)
  /\ UNCHANGED history

UnlockUser(r) ==
  /\ Save(r, {"unlock", "unlockAny"}, [Secured(call[r]) EXCEPT !.status = "ACTIVE", !.failed = 0],
          Idle)
  /\ Forgets(call[r].user)
  /\ admitted' = admitted \cup {call[r].user}
  /\ UNCHANGED mistaken

\* Mutation of ResetAndUnlock: the account stays locked.
ResetAndUnlockKeepsLock(r) ==
  /\ Save(r, {"reset"},
          [Versioned(call[r]) EXCEPT !.password = call[r].arg, !.failed = 0,
             !.status = call[r].seen.status], Idle)
  /\ Forgets(call[r].user)
  /\ UNCHANGED <<admitted, mistaken>>

ResetAndUnlock(r) ==
  LET c == call[r]
  IN /\ Save(r, {"reset"},
             [Versioned(c) EXCEPT !.password = c.arg, !.failed = 0,
                !.status = IF c.seen.status = "LOCKED" THEN "ACTIVE" ELSE c.seen.status], Idle)
     /\ Forgets(c.user)
     /\ UNCHANGED <<admitted, mistaken>>

UpdatePassword(r) ==
  /\ Save(r, {"password"}, [Secured(call[r]) EXCEPT !.password = call[r].arg], Idle)
  /\ UNCHANGED history

RecordLogin(r) ==
  /\ Save(r, {"login"}, [Secured(call[r]) EXCEPT !.failed = 0], Idle)
  /\ Forgets(call[r].user)
  /\ UNCHANGED <<admitted, mistaken>>

\* Mutation of IncrementFailed: locks after one more.
IncrementFailedOffByOne(r) ==
  LET c == call[r]
      n == c.seen.failed + 1
  IN /\ Save(r, {"fail"}, [Secured(c) EXCEPT !.failed = n],
             IF n > MaxFailedLogins THEN [c EXCEPT !.pc = "reading", !.op = "lock"] ELSE Idle)
     /\ wrong' = IF Present(c.user) THEN [wrong EXCEPT ![c.user] = @ + 1] ELSE wrong
     /\ UNCHANGED <<admitted, mistaken>>

IncrementFailed(r) ==
  LET c == call[r]
      n == c.seen.failed + 1
  IN /\ Save(r, {"fail"}, [Secured(c) EXCEPT !.failed = n],
             IF n >= MaxFailedLogins THEN [c EXCEPT !.pc = "reading", !.op = "lock"] ELSE Idle)
     /\ wrong' = IF Present(c.user) THEN [wrong EXCEPT ![c.user] = @ + 1] ELSE wrong
     /\ UNCHANGED <<admitted, mistaken>>

LockAccount(r) ==
  /\ Save(r, {"lock"}, [Versioned(call[r]) EXCEPT !.status = "LOCKED"], Idle)
  /\ UNCHANGED history

\* The database fails under recordFailedLogin.
FallBack(r) ==
  /\ call[r].pc \in {"reading", "writing"}
  /\ Counts(call[r])
  /\ faults < MaxFaults
  /\ faults' = faults + 1
  /\ call' = [call EXCEPT ![r].pc = "falling"]
  /\ UNCHANGED <<user, tokens, made, history>>

\* recordLoginAttempt: the account that has the email by now is counted for,
LookUpEmail(r) ==
  /\ call[r].pc = "falling"
  /\ IF Registered = {} THEN Goes(r, Idle)
     ELSE \E u \in Registered : Goes(r, [At("reading") EXCEPT !.op = "recount", !.user = u])
  /\ mistaken' = mistaken \cup (Registered \ {call[r].user})
  /\ UNCHANGED <<user, tokens, admitted, wrong>>

\* once more if recordFailedLogin has come that far,
Recount(r) ==
  LET c == call[r]
      n == c.seen.failed + 1
  IN /\ Save(r, {"recount"}, [Secured(c) EXCEPT !.failed = n],
             IF n >= MaxFallback THEN [c EXCEPT !.pc = "reading", !.op = "suspend"] ELSE Idle)
     /\ wrong' = IF Present(c.user) THEN [wrong EXCEPT ![c.user] = @ + 1] ELSE wrong
     /\ UNCHANGED <<admitted, mistaken>>

\* and locked at a limit of its own.
LockUser(r) ==
  /\ Save(r, {"suspend"}, [Secured(call[r]) EXCEPT !.status = "LOCKED"], Idle)
  /\ UNCHANGED history

\* The one update that compares the version.
SetStatus(r) ==
  LET c == call[r]
      row == user[c.user]
  IN /\ Save(r, {"status"},
             IF row.version = c.seen.version
             THEN [row EXCEPT !.status = c.arg, !.version = @ + 1] ELSE row, Idle)
     /\ admitted' = admitted \cup {c.user}
     /\ UNCHANGED <<wrong, mistaken>>

-----------------------------------------------------------------------------
\* Time passes for a token not before it has for the older ones.
Age(i) ==
  /\ i \in DOMAIN tokens
  /\ tokens[i].age # "old"
  /\ \A j \in 1 .. i - 1 : tokens[j].age = "old" \/ (tokens[i].age = "fresh" /\ tokens[j].age = "expired")
  /\ tokens' = [tokens EXCEPT ![i].age = IF @ = "fresh" THEN "expired" ELSE "old"]
  /\ UNCHANGED <<user, call, made, faults, history>>

\* The process dies or the database fails: what is written stays written.
Dies(r) ==
  /\ call[r].pc # "idle"
  /\ faults < MaxFaults
  /\ faults' = faults + 1
  /\ call' = [call EXCEPT ![r] = Idle]
  /\ UNCHANGED <<user, tokens, made, history>>

Ask(r) ==
  \/ \E p \in Password : Register(r, p)
  \/ \E u \in User :
       \/ ResendVerificationCode(r, u) \/ RequestPasswordReset(r, u)
       \/ Approve(r, u) \/ Reject(r, u) \/ Unlock(r, u) \/ UnlockAny(r, u)
       \/ \E status \in Status : UpdateStatus(r, u, status)
       \/ \E code \in 0 .. Len(tokens) : VerifyEmail(r, u, code)
       \/ \E p \in Password :
            \/ Login(r, u, p)
            \/ \E code \in 0 .. Len(tokens) : ResetPassword(r, u, code, p)
            \/ \E old \in Password : ChangePassword(r, u, old, p)

Continue(r) ==
  \/ InsertUser(r) \/ CountTokens(r) \/ ReplaceTokens(r) \/ IssueToken(r)
  \/ MatchCode(r) \/ MissCode(r) \/ MarkUsed(r)
  \/ Read(r) \/ SetEmailVerified(r) \/ ApproveUser(r) \/ RejectUser(r) \/ UnlockUser(r)
  \/ ResetAndUnlock(r) \/ UpdatePassword(r) \/ RecordLogin(r) \/ IncrementFailed(r)
  \/ LockAccount(r) \/ FallBack(r) \/ LookUpEmail(r) \/ Recount(r) \/ LockUser(r) \/ SetStatus(r)

Next ==
  \/ \E r \in Request : Ask(r) \/ Continue(r) \/ Dies(r)
  \/ \E u \in User : Delete(u)
  \/ \E i \in 1 .. Len(tokens) : Age(i)

Spec == Init /\ [][Next]_vars

-----------------------------------------------------------------------------
\* Correctness

\* A code sent to the user's address was given.
Verified(u) ==
  \E i \in DOMAIN tokens :
    tokens[i].user = u /\ tokens[i].kind = "EMAIL_VERIFICATION" /\ tokens[i].used = "code"

\* Nobody gets past a step of the registration: an account beyond UNVERIFIED has
\* had its code given, and one that can log in, or could until it was locked, has
\* been approved, whatever overlaps and whichever stale rows are written back;
\* unless an administrator has set the status, or unlocked the account, by hand, or
\* a fallback took the account for the one of the failed login it counts.
NoStepSkipped ==
  \A u \in User \ mistaken :
    /\ user[u].status \in Status \ {"UNVERIFIED"} => u \in admitted \/ Verified(u)
    /\ user[u].status \in {"ACTIVE", "LOCKED"} => u \in admitted

\* CHECK (attempts <= max_attempts): attempts are written as one more than was
\* read, and still never pass the limit, however many requests try at once.
AttemptsWithinLimit ==
  \A i \in DOMAIN tokens : tokens[i].attempts <= MaxCodeAttempts

\* Where requests do not overlap, whatever becomes of them half way:
\* one code of a kind is usable at a time,
OneCode ==
  \A i, j \in DOMAIN tokens :
    tokens[i].user = tokens[j].user /\ tokens[i].kind = tokens[j].kind
      /\ tokens[i].used = "no" /\ tokens[j].used = "no" => i = j

\* a user is sent no more codes in an hour than the limit,
ResendsWithinLimit ==
  \A u \in User :
    Cardinality({i \in DOMAIN tokens : tokens[i].user = u /\ tokens[i].age # "old"
                                         /\ tokens[i].kind = "EMAIL_VERIFICATION"}) <= MaxResends

\* no failed login beyond the limit is let in, but for one each time that a
\* request has died between counting and locking,
LocksInTime == \A u \in User : wrong[u] <= MaxFailedLogins + faults

\* and what happens to an account is what the registration workflow promises.
\* The lower of the two limits is the one it promises.
Workflow == INSTANCE AccountLifecycle WITH
  MaxFailedLogins <- MaxFallback,
  status   <- [u \in User |-> user[u].status],
  password <- [u \in User |-> user[u].password],
  failed   <- [u \in User |-> user[u].failed]

FollowsWorkflow == Workflow!Spec

-----------------------------------------------------------------------------
\* What RFC-0011 says and the code does not do

\* "PENDING_APPROVAL: Email verified, awaiting admin approval -> ACTIVE (approve),
\* -> INACTIVE (reject)", and the other rows of the table of states.
Documented ==
  {<<"unborn", "UNVERIFIED">>, <<"UNVERIFIED", "PENDING_APPROVAL">>,
   <<"PENDING_APPROVAL", "ACTIVE">>, <<"PENDING_APPROVAL", "INACTIVE">>,
   <<"ACTIVE", "INACTIVE">>, <<"ACTIVE", "LOCKED">>, <<"INACTIVE", "ACTIVE">>,
   <<"LOCKED", "ACTIVE">>}

FollowsTable ==
  [][\A u \in User :
       \/ user'[u].status \in {user[u].status, "deleted"}
       \/ <<user[u].status, user'[u].status>> \in Documented]_vars

\* "LOCKED (6 failed logins)" (RFC-0011:64) follows ACTIVE: only an account that could log in is locked.
\* The fallback of a failed login counts for whoever has the email by then.
LockedWasAdmitted == \A u \in User : user[u].status = "LOCKED" => u \in admitted

\* "Password is updated": what a reset or a change has stored is replaced by
\* another reset or change, and by nothing else.
PasswordStays ==
  [][\A u \in User : Present(u) /\ Present(u)' /\ user'[u].password # user[u].password =>
       \E r \in Request : call[r].op \in {"reset", "password"} /\ call[r].pc = "writing"
                            /\ call[r].user = u /\ user'[u].password = call[r].arg]_vars

\* "After 6 failures, account status changes to LOCKED".
LockedAfterLimit ==
  (\A r \in Request : call[r].pc = "idle") =>
    \A u \in User : wrong[u] >= MaxFailedLogins => user[u].status # "ACTIVE"
=============================================================================
