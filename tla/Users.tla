-------------------------------- MODULE Users --------------------------------
(***************************************************************************)
(* Users as administrators keep them, and the links that are mailed to     *)
(* them: UserService, UserRepository and the handlers of users.            *)
(*                                                                         *)
(* A link carries a token that is kept in the security column until it is  *)
(* used.  Every method that sets a part of that column reads the row and   *)
(* writes the column back whole, without comparing the version that        *)
(* updates of the other columns compare.  An operation is a list of such   *)
(* methods.  Those that approve, reject, lock and unlock an account also   *)
(* write a version, one above the one they have read.  The methods that    *)
(* set parts of the column left out here, which are in Sessions, and leave *)
(* the version, write these as they have read them: recordLogin stands for *)
(* them.  What an update gives is one field, the name of its request, and  *)
(* a username.                                                             *)
(***************************************************************************)
EXTENDS Requests, Sequences, FiniteSets, FiniteSetsExt

CONSTANTS
  MaxUsers,     \* bound: users
  MaxLinks,     \* bound: tokens generated
  ListLimit,    \* the users that are searched for a token
  Email, Username

VARIABLES
  person,       \* the users table
  issued,       \* tokens generated
  lapsed,       \* the tokens whose time is over
  spent,        \* history: the tokens that were shown and accepted
  chosen,       \* history: the password each user has last asked for
  filled,       \* history: the fields that were given to each user
  rewound,      \* history: the users whose version was written back to a lower one
  denied        \* history: a good token was refused

users == <<person, issued, lapsed, spent, chosen, filled, rewound, denied>>

UserId == 1 .. MaxUsers     \* in the order of creation
Link == 1 .. MaxLinks
Password == 1 .. 2
None == "none"              \* no username

Status == {"UNVERIFIED", "PENDING_APPROVAL", "ACTIVE", "INACTIVE", "LOCKED"}

\* 0: no password, no token
Security == [password : {0} \cup Password, verification : {0} \cup Link, reset : {0} \cup Link]

UserRow == [state : {"unborn", "there", "gone"}, email : Email, username : Username \cup {None},
            status : Status, verified : BOOLEAN, fields : SUBSET Request,
            security : Security, version : Nat]

There(u) == person[u].state = "there"

UsersTypeOK ==
  /\ RequestsTypeOK
  /\ person \in [UserId -> UserRow]
  /\ issued \in 0 .. MaxLinks /\ lapsed \subseteq Link /\ spent \subseteq Link
  /\ chosen \in [UserId -> {0} \cup Password] /\ filled \in [UserId -> SUBSET Request]
  /\ rewound \subseteq UserId /\ denied \in BOOLEAN

NoSecurity == [password |-> 0, verification |-> 0, reset |-> 0]

NewUser(email, name) ==
  [state |-> "there", email |-> email, username |-> name, status |-> "UNVERIFIED", verified |-> FALSE,
   fields |-> {}, security |-> NoSecurity, version |-> 1]

AnyEmail == CHOOSE e \in Email : TRUE
UnbornUser == [NewUser(AnyEmail, None) EXCEPT !.state = "unborn"]

\* The first user was invited, or has come to be active.
UsersInit ==
  /\ RequestsInit
  /\ \E active \in BOOLEAN :
       LET invited == [NewUser(AnyEmail, None) EXCEPT !.security.verification = 1]
           joined == [NewUser(AnyEmail, None) EXCEPT !.security.password = 1, !.status = "ACTIVE", !.verified = TRUE]
       IN /\ person = [u \in UserId |-> IF u > 1 THEN UnbornUser ELSE IF active THEN joined ELSE invited]
          /\ chosen = [u \in UserId |-> IF u = 1 /\ active THEN 1 ELSE 0]
          /\ spent = IF active THEN {1} ELSE {}
  /\ issued = 1 /\ lapsed = {}
  /\ filled = [u \in UserId |-> {}]
  /\ rewound = {} /\ denied = FALSE

-----------------------------------------------------------------------------
\* Requests.  steps: the methods of the repository that are still to be called.

Securing(steps, u, p) == [pc |-> "read", steps |-> steps, user |-> u, password |-> p]

\* The email is looked for.  p = 0: an invitation, or a user without a password.
Create(r, e, name, p) ==
  /\ \A u \in UserId : ~(There(u) /\ person[u].email = e)
  /\ Begin(r, [pc |-> "insert", email |-> e, name |-> name, password |-> p, free |-> name = None])
  /\ UNCHANGED users

\* The password is compared with the one that is read.
ChangePassword(r, u, p) ==
  /\ There(u)
  /\ person[u].security.password # 0
  /\ Begin(r, Securing(<<"password">>, u, p))
  /\ chosen' = [chosen EXCEPT ![u] = p]
  /\ UNCHANGED <<person, issued, lapsed, spent, filled, rewound, denied>>

RequestPasswordReset(r, u) ==
  /\ There(u)
  /\ Begin(r, Securing(<<"reset">>, u, 0))
  /\ UNCHANGED users

Anyone == {u \in UserId : There(u)}
Unverified == {u \in Anyone : person[u].status = "UNVERIFIED"}

\* The first of the users that are asked for.
Listed(asked) == {u \in asked : Cardinality({v \in asked : v < u}) < ListLimit}

ResetBy(t, u) == person[u].security.reset = t /\ t \notin lapsed
VerifiedBy(t, u) == person[u].security.verification = t

\* A token is looked for among the users that are listed.  p = 0: no password is given.
Show(r, t, holders, steps, p) ==
  IF holders # {}
    THEN LET u == CHOOSE v \in holders : TRUE IN
         /\ Begin(r, Securing(steps, u, p))
         /\ spent' = spent \cup {t}
         /\ chosen' = IF p = 0 THEN chosen ELSE [chosen EXCEPT ![u] = p]
         /\ UNCHANGED <<person, issued, lapsed, filled, rewound, denied>>
    ELSE /\ \E u \in UserId : There(u) /\ (VerifiedBy(t, u) \/ ResetBy(t, u))
         /\ Begin(r, Idle)
         /\ denied' = TRUE
         /\ UNCHANGED <<person, issued, lapsed, spent, chosen, filled, rewound>>

ResetPassword(r, t, p) == Show(r, t, {u \in Listed(Anyone) : ResetBy(t, u)}, <<"password", "clear">>, p)

VerifyEmail(r, t) == Show(r, t, {u \in Listed(Anyone) : VerifiedBy(t, u)}, <<"verify">>, 0)

AcceptInvitation(r, t, p) ==
  Show(r, t, {u \in Listed(Unverified) : VerifiedBy(t, u)}, <<"password", "verify", "accept">>, p)

RecordLogin(r, u) == There(u) /\ Begin(r, Securing(<<"login">>, u, 0)) /\ UNCHANGED users

\* The methods that write a version, and the status a user is asked to have for each.
Asked == [confirm |-> {"UNVERIFIED"}, approve |-> {"PENDING_APPROVAL"}, reject |-> {"PENDING_APPROVAL"},
          lock |-> {"ACTIVE"}, unlock |-> {"ACTIVE", "LOCKED"}]

\* A code has verified the email, the registration is decided on, or logins have failed.
Decide(r, u, step) ==
  /\ There(u) /\ person[u].status \in Asked[step]
  /\ Begin(r, Securing(<<step>>, u, 0))
  /\ UNCHANGED users

\* A code stands for the old password.
ResetByCode(r, u, p) ==
  /\ There(u) /\ person[u].status \in Asked["unlock"]
  /\ Begin(r, Securing(<<"unlock">>, u, p))
  /\ chosen' = [chosen EXCEPT ![u] = p]
  /\ UNCHANGED <<person, issued, lapsed, spent, filled, rewound, denied>>

\* The user is read for the username it has.
Update(r, u, name) ==
  /\ There(u)
  /\ Begin(r, [pc |-> IF name \in {None, person[u].username} THEN "look" ELSE "name",
               user |-> u, name |-> name, field |-> {r}, status |-> None])
  /\ UNCHANGED users

UpdateStatus(r, u, status) ==
  /\ There(u)
  /\ Begin(r, [pc |-> "look", user |-> u, name |-> None, field |-> {}, status |-> status])
  /\ UNCHANGED users

DeleteUser(r, u) == There(u) /\ Begin(r, [pc |-> "delete", user |-> u]) /\ UNCHANGED users

-----------------------------------------------------------------------------
\* Statements

Named(name) == {u \in UserId : There(u) /\ person[u].username = name}

\* A new user's name is looked for before the insert.
FindUsername(r) ==
  LET c == call[r] IN
  /\ \/ At(r, "insert") /\ ~c.free
        /\ IF Named(c.name) = {} THEN Goes(r, [c EXCEPT !.free = TRUE]) ELSE Done(r)
     \/ At(r, "name")
        /\ IF Named(c.name) \subseteq {c.user} THEN Goes(r, [c EXCEPT !.pc = "look"]) ELSE Done(r)
  /\ UNCHANGED users

\* An email that has been taken meanwhile is refused by the index.
Insert(r) ==
  LET c == call[r]
      u == Min({v \in UserId : person[v].state = "unborn"})
  IN
  /\ At(r, "insert") /\ c.free
  /\ \E v \in UserId : person[v].state = "unborn"
  /\ IF \E v \in UserId : There(v) /\ person[v].email = c.email
       THEN Done(r) /\ UNCHANGED users
       ELSE /\ person' = [person EXCEPT ![u] = NewUser(c.email, c.name)]
            /\ chosen' = [chosen EXCEPT ![u] = c.password]
            /\ Goes(r, Securing((IF c.password = 0 THEN <<>> ELSE <<"password">>) \o <<"invite">>, u, c.password))
            /\ UNCHANGED <<issued, lapsed, spent, filled, rewound, denied>>

ReadSecurity(r) ==
  LET c == call[r] IN
  /\ At(r, "read")
  /\ IF There(c.user)
       THEN Goes(r, [pc |-> "write", steps |-> c.steps, user |-> c.user, password |-> c.password,
                     seen |-> person[c.user]])
       ELSE Done(r)
  /\ UNCHANGED users

\* The column as each method writes it, from what it has read.
Secured(step, s, p, t) ==
  CASE step \in {"password", "unlock"} -> [s EXCEPT !.password = p]
    [] step = "invite" -> [s EXCEPT !.verification = t]
    [] step = "reset" -> [s EXCEPT !.reset = t]
    [] step = "clear" -> [s EXCEPT !.reset = 0]
    [] step = "verify" -> [s EXCEPT !.verification = 0]
    [] OTHER -> s

\* The status as each method writes it, or leaves it.
Judged(step, seen, status) ==
  CASE step = "confirm" -> "PENDING_APPROVAL"
    [] step \in {"verify", "approve"} -> "ACTIVE"
    [] step = "reject" -> "INACTIVE"
    [] step = "lock" -> "LOCKED"
    [] step = "unlock" -> IF seen.status = "LOCKED" THEN "ACTIVE" ELSE seen.status
    [] OTHER -> status

\* The row as each method writes it, with the column.
Rewritten(row, step, seen, security) ==
  [row EXCEPT !.security = security,
              !.status = Judged(step, seen, @),
              !.verified = @ \/ step \in {"verify", "confirm"},
              !.version = IF step \in DOMAIN Asked THEN seen.version + 1 ELSE @]

\* After the last method that reads, an accepted invitation is only marked.
WriteSecurity(r) ==
  LET c == call[r]
      step == Head(c.steps)
      generates == step \in {"invite", "reset"}
      rest == Tail(c.steps)
  IN
  /\ At(r, "write")
  /\ generates => issued < MaxLinks
  /\ issued' = IF generates THEN issued + 1 ELSE issued
  /\ person' = [person EXCEPT ![c.user] =
       IF There(c.user) THEN Rewritten(@, step, c.seen, Secured(step, c.seen.security, c.password, issued + 1)) ELSE @]
  /\ rewound' = IF person'[c.user].version < person[c.user].version THEN rewound \cup {c.user} ELSE rewound
  /\ CASE rest = <<>> -> Done(r)
       [] rest = <<"accept">> -> Goes(r, [pc |-> "accept", user |-> c.user])
       [] OTHER -> Goes(r, Securing(rest, c.user, c.password))
  /\ UNCHANGED <<lapsed, spent, chosen, filled, denied>>

SetInvitationAccepted(r) ==
  LET c == call[r] IN
  /\ At(r, "accept")
  /\ person' = [person EXCEPT ![c.user].status = IF There(c.user) THEN "ACTIVE" ELSE @]
  /\ Done(r)
  /\ UNCHANGED <<issued, lapsed, spent, chosen, filled, rewound, denied>>

ReadUser(r) ==
  LET c == call[r] IN
  /\ At(r, "look")
  /\ IF There(c.user) THEN Goes(r, [pc |-> "save", user |-> c.user, name |-> c.name, field |-> c.field,
                                        status |-> c.status, seen |-> person[c.user]]) ELSE Done(r)
  /\ UNCHANGED users

\* Mutation of Unmodified: no version is compared.
UnmodifiedNot(u, seen) == There(u)

Unmodified(u, seen) == There(u) /\ person[u].version = seen.version

\* What is not given stays as it is in the row.
Updated(row, c) ==
  [row EXCEPT !.version = c.seen.version + 1,
              !.username = IF c.name = None THEN @ ELSE c.name,
              !.fields = IF c.field = {} THEN @ ELSE c.seen.fields \cup c.field,
              !.status = IF c.status = None THEN @ ELSE c.status]

SaveUser(r) ==
  LET c == call[r] IN
  /\ At(r, "save")
  /\ IF Unmodified(c.user, c.seen)
       THEN /\ person' = [person EXCEPT ![c.user] = Updated(@, c)]
            /\ filled' = [filled EXCEPT ![c.user] = @ \cup c.field]
       ELSE UNCHANGED <<person, filled>>
  /\ Done(r)
  /\ UNCHANGED <<issued, lapsed, spent, chosen, rewound, denied>>

RemoveUser(r) ==
  LET c == call[r] IN
  /\ At(r, "delete")
  /\ person' = [person EXCEPT ![c.user].state = "gone"]
  /\ Done(r)
  /\ UNCHANGED <<issued, lapsed, spent, chosen, filled, rewound, denied>>

ResetExpires(t) ==
  /\ t \notin lapsed
  /\ \E u \in UserId : There(u) /\ person[u].security.reset = t
  /\ lapsed' = lapsed \cup {t}
  /\ UNCHANGED <<requests, person, issued, spent, chosen, filled, rewound, denied>>

UsersNext ==
  \/ \E r \in Request :
       \/ \E e \in Email, name \in Username \cup {None}, p \in {0, 1} : Create(r, e, name, p)
       \/ \E u \in UserId :
            \/ \E p \in Password : ChangePassword(r, u, p)
            \/ RequestPasswordReset(r, u) \/ RecordLogin(r, u) \/ DeleteUser(r, u)
            \/ \E step \in DOMAIN Asked \ {"unlock"} : Decide(r, u, step)
            \/ \E p \in Password : ResetByCode(r, u, p)
            \/ \E name \in Username \cup {None} : Update(r, u, name)
            \/ \E status \in {"ACTIVE", "INACTIVE"} : UpdateStatus(r, u, status)
       \/ \E t \in Link :
            \/ VerifyEmail(r, t)
            \/ \E p \in Password : ResetPassword(r, t, p) \/ AcceptInvitation(r, t, p)
       \/ FindUsername(r) \/ Insert(r) \/ ReadSecurity(r) \/ WriteSecurity(r) \/ SetInvitationAccepted(r)
       \/ ReadUser(r) \/ SaveUser(r) \/ RemoveUser(r)
       \/ Fails(r) /\ UNCHANGED users
  \/ \E t \in Link : ResetExpires(t)

UsersSpec == UsersInit /\ [][UsersNext]_<<users, requests>>

-----------------------------------------------------------------------------
\* Correctness

\* Between requests that come one after the other, a token that was accepted is not good
\* again, whatever other links the user has been sent meanwhile.
TokensSpent ==
  Settled => \A u \in UserId : There(u) =>
    person[u].security.verification \notin spent /\ person[u].security.reset \notin spent

\* Between requests that come one after the other, a user has the password it last asked
\* for, by whichever way.
PasswordAsChosen == Settled => \A u \in UserId : There(u) => person[u].security.password = chosen[u]

\* Requests that come one after the other give no two users one username.
UsernamesDiffer == Settled => \A name \in Username : Cardinality(Named(name)) <= 1

\* Whatever overlaps, a field that was given to a user is not lost to another update,
\* unless the version of the user was written back to a lower one.
FieldsKept == \A u \in UserId \ rewound : filled[u] \subseteq person[u].fields

-----------------------------------------------------------------------------
\* What the code suggests and does not do

\* clearPasswordResetToken (UserRepository.ts:529) makes a link good once: a write of what
\* was read before makes it good again.
LinksWorkOnce == \A u \in UserId : There(u) /\ (\A r \in Request : At(r, "idle")) => person[u].security.reset \notin spent

\* "Username ... is already taken" (UserService.ts:58), whatever overlaps.
UsernamesUnique == \A name \in Username : Cardinality(Named(name)) <= 1

\* "Optimistic locking" (UserRepository.ts:360): an approval, a lock or a reset that was
\* overtaken by two updates writes the version of the first, and a third that has read that
\* version takes back the field of the second.
FieldsStay == \A u \in UserId : filled[u] \subseteq person[u].fields

\* "users.items.find" among the first hundred (UserService.ts:291): a good token is
\* refused when its user is not among them.
GoodTokensAccepted == ~denied

\* "Check for existing user with same email" (UserService.ts:91): a user whose creation
\* died before it got a token stays unverified, and cannot be invited again.
UnverifiedCanVerify ==
  (\A r \in Request : At(r, "idle")) =>
    \A u \in UserId : There(u) /\ person[u].status = "UNVERIFIED" => person[u].security.verification # 0
=============================================================================
