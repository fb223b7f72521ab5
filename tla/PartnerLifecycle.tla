-------------------------- MODULE PartnerLifecycle --------------------------
(***************************************************************************)
(* What the partner service promises of a partner, whoever calls it and    *)
(* however the calls overlap: every acknowledged change is one atomic step *)
(* on the partner's record, the status follows the life cycle, what is     *)
(* revoked stays revoked, and a credential's scopes were granted.          *)
(***************************************************************************)
CONSTANTS
  Partner,
  Credential,    \* API keys and OAuth clients
  Hook,          \* webhook subscriptions
  Scope

VARIABLES
  status,        \* of each partner
  scopes,        \* granted to it
  credentials,   \* state of its credentials
  credScopes,    \* scopes of its credentials
  hooks          \* state of its webhooks

vars == <<status, scopes, credentials, credScopes, hooks>>

Init ==
  /\ status = [p \in Partner |-> "absent"]
  /\ scopes = [p \in Partner |-> {}]
  /\ credentials = [p \in Partner |-> [c \in Credential |-> "absent"]]
  /\ credScopes = [p \in Partner |-> [c \in Credential |-> {}]]
  /\ hooks = [p \in Partner |-> [h \in Hook |-> "absent"]]

Transition ==
  {<<"absent", "PENDING">>, <<"PENDING", "REJECTED">>,
   <<"APPROVED", "ACTIVE">>, <<"APPROVED", "SUSPENDED">>,
   <<"ACTIVE", "SUSPENDED">>, <<"SUSPENDED", "ACTIVE">>}

Granted(p) == status[p] \in {"APPROVED", "ACTIVE", "SUSPENDED"}

ChangeStatus(p) ==
  \E st \in {"PENDING", "REJECTED", "ACTIVE", "SUSPENDED"} :
    /\ <<status[p], st>> \in Transition
    /\ status' = [status EXCEPT ![p] = st]
    /\ UNCHANGED <<scopes, credentials, credScopes, hooks>>

\* The scopes are granted once, with the approval.
Approve(p) ==
  /\ status[p] = "PENDING"
  /\ status' = [status EXCEPT ![p] = "APPROVED"]
  /\ \E sc \in SUBSET Scope : scopes' = [scopes EXCEPT ![p] = sc]
  /\ UNCHANGED <<credentials, credScopes, hooks>>

Issue(p) ==
  \E c \in Credential, sc \in SUBSET scopes[p] :
    /\ Granted(p)
    /\ credentials[p][c] = "absent"
    /\ credentials' = [credentials EXCEPT ![p][c] = "ACTIVE"]
    /\ credScopes' = [credScopes EXCEPT ![p][c] = sc]
    /\ UNCHANGED <<status, scopes, hooks>>

Revoke(p) ==
  \E c \in Credential :
    /\ credentials[p][c] # "absent"
    /\ credentials' = [credentials EXCEPT ![p][c] = "REVOKED"]
    /\ UNCHANGED <<status, scopes, credScopes, hooks>>

SetHook(p) ==
  \E h \in Hook, st \in {"enabled", "disabled", "absent"} :
    /\ Granted(p)
    /\ hooks' = [hooks EXCEPT ![p][h] = st]
    /\ UNCHANGED <<status, scopes, credentials, credScopes>>

Next ==
  \E p \in Partner : ChangeStatus(p) \/ Approve(p) \/ Issue(p) \/ Revoke(p) \/ SetHook(p)

Spec == Init /\ [][Next]_vars
=============================================================================
