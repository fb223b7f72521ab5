------------------------------ MODULE Sessions ------------------------------
(***************************************************************************)
(* Sessions of users: the tokens of AuthService, second factors and what   *)
(* UserService keeps of them in the security column of users.              *)
(*                                                                         *)
(* A session is opened by a login, goes on by exchanging its refresh token *)
(* for another, and ends when its token is taken out of refreshTokens, a   *)
(* map in the memory of the process.  The security column is read and      *)
(* written back whole by every method that sets a part of it.  Passwords   *)
(* and codes are right or wrong; accounts that are not confirmed yet are   *)
(* in Account, and lockedUntil, which only ever delays a login, is left    *)
(* out.                                                                    *)
(***************************************************************************)
EXTENDS Requests, Integers, FiniteSets, FiniteSetsExt

CONSTANTS
  Person,       \* users
  MaxTokens,    \* bound: refresh tokens generated
  MaxMfaFailed  \* maxFailedAttempts

VARIABLES
  account,      \* the users table
  refreshTokens,
  challenged,   \* the users with an MFA token that is still good
  secured,      \* history: the users who were last asked to have a second factor
  cut           \* history: the tokens there were when a user last left all devices

sessions == <<account, refreshTokens, challenged, secured, cut>>

Token == 1 .. MaxTokens     \* jti, in the order of generation

Security == [mfa : BOOLEAN, failed : Nat]
AccountRow == [status : {"ACTIVE", "INACTIVE", "LOCKED", "gone"}, security : Security]
TokenRow == [state : {"unborn", "stored", "ended"}, user : Person, session : Token]

UnbornToken == [state |-> "unborn", user |-> CHOOSE p \in Person : TRUE, session |-> 1]

Known(p) == account[p].status # "gone"
NewTokens == {t \in Token : refreshTokens[t].state = "unborn"}
Stored == {t \in Token : refreshTokens[t].state = "stored"}
SessionOf(t) == refreshTokens[t].session

SessionsTypeOK ==
  /\ RequestsTypeOK
  /\ account \in [Person -> AccountRow]
  /\ refreshTokens \in [Token -> TokenRow]
  /\ challenged \subseteq Person /\ secured \subseteq Person
  /\ cut \in [Person -> 0 .. MaxTokens]

SessionsInit ==
  /\ RequestsInit
  /\ account = [p \in Person |-> [status |-> "ACTIVE", security |-> [mfa |-> FALSE, failed |-> 0]]]
  /\ refreshTokens = [t \in Token |-> UnbornToken]
  /\ challenged = {} /\ secured = {}
  /\ cut = [p \in Person |-> 0]

\* generateTokens: a token of a new session, or of the session of token t.
Generate(tokens, p, t) ==
  LET n == Min(NewTokens) IN
  [tokens EXCEPT ![n] = [state |-> "stored", user |-> p, session |-> IF t = 0 THEN n ELSE SessionOf(t)]]

End(tokens, S) == [t \in Token |-> IF t \in S THEN [tokens[t] EXCEPT !.state = "ended"] ELSE tokens[t]]

\* The column is to be read to do op; then says what follows it.
Securing(op, p) == [pc |-> "read", op |-> op, user |-> p]

-----------------------------------------------------------------------------
\* Requests

\* The password is right.  code: "none", "right" or "wrong".
Login(r, p, code) ==
  /\ account[p].status = "ACTIVE"
  /\ IF account[p].security.mfa /\ code = "none"
       THEN /\ Begin(r, Idle)
            /\ challenged' = challenged \cup {p}
       ELSE /\ Begin(r, IF account[p].security.mfa /\ code = "wrong"
                          THEN [pc |-> "mail", op |-> "fail", user |-> p]
                          ELSE Securing("login", p))
            /\ UNCHANGED challenged
  /\ UNCHANGED <<account, refreshTokens, secured, cut>>

\* The user is read for the code; there is none to match once the second factor is gone.
VerifyMfa(r, p) ==
  /\ p \in challenged
  /\ Known(p)
  /\ account[p].security.mfa
  /\ Begin(r, [pc |-> "mail", op |-> "record", user |-> p])
  /\ UNCHANGED sessions

Refresh(r, t) ==
  /\ t \in Stored
  /\ Begin(r, [pc |-> "refresh", token |-> t, user |-> refreshTokens[t].user])
  /\ UNCHANGED sessions

Logout(r, t) ==
  /\ t \in Stored
  /\ Begin(r, Idle)
  /\ refreshTokens' = End(refreshTokens, {t})
  /\ UNCHANGED <<account, challenged, secured, cut>>

LogoutAllDevices(r, p) ==
  /\ Begin(r, Idle)
  /\ refreshTokens' = End(refreshTokens, {t \in Stored : refreshTokens[t].user = p})
  /\ cut' = [cut EXCEPT ![p] = Cardinality(Token \ NewTokens)]
  /\ UNCHANGED <<account, challenged, secured>>

EnableMfa(r, p) == Known(p) /\ Begin(r, Securing("enable", p)) /\ UNCHANGED sessions
DisableMfa(r, p) == Known(p) /\ Begin(r, Securing("disable", p)) /\ UNCHANGED sessions
UnlockUser(r, p) == Known(p) /\ Begin(r, Securing("unlock", p)) /\ UNCHANGED sessions

UpdateStatus(r, p, status) ==
  /\ Known(p)
  /\ Begin(r, [pc |-> "status", user |-> p, status |-> status])
  /\ UNCHANGED sessions

DeleteUser(r, p) == Known(p) /\ Begin(r, [pc |-> "status", user |-> p, status |-> "gone"]) /\ UNCHANGED sessions

-----------------------------------------------------------------------------
\* Statements

\* recordLoginAttempt looks the user up by email, and does nothing for one it does not find.
FindByEmail(r) ==
  LET c == call[r] IN
  /\ At(r, "mail")
  /\ c.op = "record" /\ ~Known(c.user) => NewTokens # {}
  /\ IF Known(c.user) THEN Goes(r, Securing(c.op, c.user)) ELSE Done(r)
  /\ refreshTokens' = IF c.op = "record" /\ ~Known(c.user) THEN Generate(refreshTokens, c.user, 0) ELSE refreshTokens
  /\ UNCHANGED <<account, challenged, secured, cut>>

ReadSecurity(r) ==
  LET c == call[r] IN
  /\ At(r, "read")
  /\ IF Known(c.user)
       THEN Goes(r, [pc |-> "write", op |-> c.op, user |-> c.user, seen |-> account[c.user].security])
       ELSE Done(r)
  /\ UNCHANGED sessions

\* The column as each method writes it, from what it has read.
Secured(op, s) ==
  CASE op \in {"login", "record", "reset", "unlock"} -> [s EXCEPT !.failed = 0]
    [] op = "fail" -> [s EXCEPT !.failed = @ + 1]
    [] op = "enable" -> [s EXCEPT !.mfa = TRUE]
    [] op = "disable" -> [s EXCEPT !.mfa = FALSE]
    [] op = "lock" -> s

StatusAfter(op, status) == CASE op = "lock" -> "LOCKED" [] op = "unlock" -> "ACTIVE" [] OTHER -> status

WriteSecurity(r) ==
  LET c == call[r]
      s == Secured(c.op, c.seen)
      opens == c.op \in {"login", "reset"}
  IN
  /\ At(r, "write")
  /\ opens => NewTokens # {}
  /\ account' = [account EXCEPT ![c.user] =
                   IF Known(c.user) THEN [status |-> StatusAfter(c.op, @.status), security |-> s] ELSE @]
  /\ refreshTokens' = IF opens THEN Generate(refreshTokens, c.user, 0) ELSE refreshTokens
  /\ secured' = CASE c.op = "enable" -> secured \cup {c.user}
                  [] c.op = "disable" -> secured \ {c.user}
                  [] OTHER -> secured
  /\ CASE c.op = "record" -> Goes(r, Securing("reset", c.user))
       [] c.op = "fail" /\ s.failed >= MaxMfaFailed -> Goes(r, Securing("lock", c.user))
       [] OTHER -> Done(r)
  /\ UNCHANGED <<challenged, cut>>

\* Mutation of Exchanged: the old token is not revoked.
ExchangedBoth(t, p) == Generate(refreshTokens, p, t)

\* The old token is revoked and a new one generated, without an await in between.
Exchanged(t, p) == Generate(End(refreshTokens, {t}), p, t)

\* A refused token stays in the map.
Refused(t) == refreshTokens

GetUser(r) ==
  LET c == call[r]
      active == account[c.user].status = "ACTIVE"
  IN
  /\ At(r, "refresh")
  /\ active => NewTokens # {}
  /\ refreshTokens' = IF active THEN Exchanged(c.token, c.user) ELSE Refused(c.token)
  /\ Done(r)
  /\ UNCHANGED <<account, challenged, secured, cut>>

SetStatus(r) ==
  LET c == call[r] IN
  /\ At(r, "status")
  /\ account' = [account EXCEPT ![c.user].status = IF @ = "gone" THEN @ ELSE c.status]
  /\ Done(r)
  /\ UNCHANGED <<refreshTokens, challenged, secured, cut>>

ChallengeExpires(p) ==
  /\ p \in challenged
  /\ challenged' = challenged \ {p}
  /\ UNCHANGED <<requests, account, refreshTokens, secured, cut>>

\* The end of the process ends every session and every request.
Restart ==
  /\ Stored # {}
  /\ refreshTokens' = End(refreshTokens, Stored)
  /\ call' = [r \in Request |-> Idle]
  /\ calm' = (calm /\ \A r \in Request : At(r, "idle"))
  /\ UNCHANGED <<made, account, challenged, secured, cut>>

SessionsNext ==
  \/ \E r \in Request :
       \/ \E p \in Person :
            \/ \E code \in {"none", "right", "wrong"} : Login(r, p, code)
            \/ VerifyMfa(r, p) \/ LogoutAllDevices(r, p)
            \/ EnableMfa(r, p) \/ DisableMfa(r, p) \/ UnlockUser(r, p) \/ DeleteUser(r, p)
            \/ \E status \in {"ACTIVE", "INACTIVE"} : UpdateStatus(r, p, status)
       \/ \E t \in Token : Refresh(r, t) \/ Logout(r, t)
       \/ FindByEmail(r) \/ ReadSecurity(r) \/ WriteSecurity(r) \/ GetUser(r) \/ SetStatus(r)
       \/ Fails(r) /\ UNCHANGED sessions
  \/ \E p \in Person : ChallengeExpires(p)
  \/ Restart

SessionsSpec == SessionsInit /\ [][SessionsNext]_<<sessions, requests>>

-----------------------------------------------------------------------------
\* Correctness

\* Between requests that come one after the other, a session has one token that is good:
\* each exchange takes away the token it was given.
OneTokenPerSession ==
  Settled => \A t, u \in Stored : SessionOf(t) = SessionOf(u) => t = u

\* However exchanges, logins and logouts overlap, a token that was taken out of the map
\* is never good again.
Ends == \A t \in Token : refreshTokens[t].state = "ended" => refreshTokens'[t].state = "ended"

EndedForGood == [][Ends]_<<sessions, requests>>

\* Between requests that come one after the other, a user has a second factor when
\* last asked to have one, whatever logins have written the column since.
MfaAsAsked == Settled => \A p \in Person : Known(p) => (account[p].security.mfa <=> p \in secured)

-----------------------------------------------------------------------------
\* What comments of the code say and the code does not do

\* "Revoke old refresh token" (AuthService.ts:388): two exchanges that both found the
\* token in the map each generate another.
OneHeir == \A t, u \in Stored : SessionOf(t) = SessionOf(u) => t = u

\* "Remove all refresh tokens for this user" (AuthService.ts:414): an exchange that has
\* begun goes on, and so does its session.
AllDevicesLeft == \A t \in Stored : SessionOf(t) > cut[refreshTokens[t].user]
=============================================================================
