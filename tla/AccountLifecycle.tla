-------------------------- MODULE AccountLifecycle --------------------------
(***************************************************************************)
(* What the registration workflow promises of an account: the five states, *)
(* who moves an account from one to the next, when failed logins lock it,  *)
(* and what sets its password.  One email address: at most one account is  *)
(* present at a time, and a deleted account does not come back.            *)
(***************************************************************************)
EXTENDS Naturals

CONSTANTS User, Password, NoPassword, MaxFailedLogins

VARIABLES status, password, failed

vars == <<status, password, failed>>

Absent == {"unborn", "deleted"}

Init ==
  /\ status = [u \in User |-> "unborn"]
  /\ password = [u \in User |-> NoPassword]
  /\ failed = [u \in User |-> 0]

Register(u) ==
  /\ status[u] = "unborn"
  /\ \A v \in User : status[v] \in Absent
  /\ status' = [status EXCEPT ![u] = "UNVERIFIED"]
  /\ \E p \in Password : password' = [password EXCEPT ![u] = p]
  /\ UNCHANGED failed

\* A verified email address, an administrator's decision.
Transition == {<<"UNVERIFIED", "PENDING_APPROVAL">>, <<"PENDING_APPROVAL", "ACTIVE">>,
               <<"PENDING_APPROVAL", "INACTIVE">>}

Move(u) ==
  /\ \E st \in {"PENDING_APPROVAL", "ACTIVE", "INACTIVE"} :
       /\ <<status[u], st>> \in Transition
       /\ status' = [status EXCEPT ![u] = st]
  /\ UNCHANGED <<password, failed>>

\* A login, refused or not, counts failures while the account is active.
Login(u) ==
  /\ status[u] = "ACTIVE"
  /\ failed' \in {[failed EXCEPT ![u] = 0], [failed EXCEPT ![u] = @ + 1]}
  /\ UNCHANGED <<status, password>>

Lock(u) ==
  /\ status[u] = "ACTIVE"
  /\ failed[u] >= MaxFailedLogins
  /\ status' = [status EXCEPT ![u] = "LOCKED"]
  /\ UNCHANGED <<password, failed>>

Unlock(u) ==
  /\ status[u] = "LOCKED"
  /\ status' = [status EXCEPT ![u] = "ACTIVE"]
  /\ failed' = [failed EXCEPT ![u] = 0]
  /\ UNCHANGED password

\* A reset unlocks, a change by the account's owner does not.
ResetPassword(u) ==
  /\ status[u] \in {"ACTIVE", "LOCKED"}
  /\ status' = [status EXCEPT ![u] = "ACTIVE"]
  /\ failed' = [failed EXCEPT ![u] = 0]
  /\ \E p \in Password : password' = [password EXCEPT ![u] = p]

ChangePassword(u) ==
  /\ status[u] \notin Absent
  /\ \E p \in Password : password' = [password EXCEPT ![u] = p]
  /\ UNCHANGED <<status, failed>>

Delete(u) ==
  /\ status[u] \notin Absent
  /\ status' = [status EXCEPT ![u] = "deleted"]
  /\ password' = [password EXCEPT ![u] = NoPassword]
  /\ failed' = [failed EXCEPT ![u] = 0]

Next ==
  \E u \in User :
    \/ Register(u) \/ Move(u) \/ Login(u) \/ Lock(u) \/ Unlock(u)
    \/ ResetPassword(u) \/ ChangePassword(u) \/ Delete(u)

Spec == Init /\ [][Next]_vars
=============================================================================
