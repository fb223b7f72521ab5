--------------------------- MODULE CustomerApiKeys ---------------------------
(***************************************************************************)
(* Customer API keys: CustomerApiKeyService over the customer_api_keys     *)
(* table, the routes that manage keys and the middleware that admits them. *)
(*                                                                         *)
(* An admission is decided by one read; the count of uses is incremented   *)
(* by a statement that nothing waits for.  An update writes the whole of   *)
(* what it has read, except for the count.  Left out are names, prefixes   *)
(* and hashes, and the address and the time of the last use.               *)
(***************************************************************************)
EXTENDS Requests, Integers, FiniteSets, FiniteSetsExt

CONSTANTS
  MaxKeys,      \* bound: keys created
  ScopeSet      \* bound: the sets of scopes that are asked for

VARIABLES
  key,
  late,         \* the expiry dates have passed
  wanted,       \* history: what the last answered request made of each key
  admitted,     \* history: the requests each key was admitted for
  lost          \* history: the increments that failed

keys == <<key, late, wanted, admitted, lost>>

Key == 1 .. MaxKeys     \* ids, in the order of creation

\* ApiKeyScope
ReadScope == {"bundles:read", "devices:read", "rules:read", "assets:read", "groups:read",
              "simulator:read", "*:read"}
SimulatorScope == {"simulator:read", "simulator:write", "simulator:admin"}
Scope == ReadScope \cup SimulatorScope

Setting == [active : BOOLEAN, scopes : SUBSET Scope, expires : BOOLEAN]
KeyRow == [state : {"unborn", "there", "gone"}, set : Setting, usage : Nat]

NoSetting == [active |-> FALSE, scopes |-> {}, expires |-> FALSE]
UnbornKey == [state |-> "unborn", set |-> NoSetting, usage |-> 0]

Valid(k) == k \in Key /\ key[k].state = "there"
NewKeys == {k \in Key : key[k].state = "unborn"}

KeysTypeOK ==
  /\ RequestsTypeOK
  /\ key \in [Key -> KeyRow]
  /\ late \in BOOLEAN
  /\ wanted \in [Key -> Setting]
  /\ admitted \in [Key -> 0 .. MaxRequests] /\ lost \in [Key -> 0 .. MaxRequests]

KeysInit ==
  /\ RequestsInit
  /\ key = [k \in Key |-> UnbornKey]
  /\ late = FALSE
  /\ wanted = [k \in Key |-> NoSetting]
  /\ admitted = [k \in Key |-> 0] /\ lost = [k \in Key |-> 0]

HasScope(granted, required) ==
  \/ required \in granted
  \/ "*:read" \in granted /\ required \in ReadScope
  \/ "simulator:admin" \in granted /\ required \in SimulatorScope

-----------------------------------------------------------------------------
\* Requests

CreateKey(r, scopes, expires) ==
  /\ NewKeys # {}
  /\ Begin(r, [pc |-> "insertKey", scopes |-> scopes, expires |-> expires])
  /\ UNCHANGED keys

\* The route reads the key to compare its customer.  "keep" is what the request leaves out.
UpdateKey(r, k, active, scopes) ==
  /\ Valid(k)
  /\ Begin(r, [pc |-> "readKey", key |-> k, active |-> active, scopes |-> scopes])
  /\ UNCHANGED keys

RevokeKey(r, k) ==
  /\ Valid(k)
  /\ Begin(r, [pc |-> "findKey", key |-> k])
  /\ UNCHANGED keys

\* validateApiKeyWithTenant admits the request, which goes on, and leaves the increment to itself.
PresentKey(r, k, required) ==
  /\ Valid(k)
  /\ key[k].set.active
  /\ ~(key[k].set.expires /\ late)
  /\ HasScope(key[k].set.scopes, required)
  /\ Begin(r, [pc |-> "increment", key |-> k])
  /\ admitted' = [admitted EXCEPT ![k] = @ + 1]
  /\ UNCHANGED <<key, late, wanted, lost>>

-----------------------------------------------------------------------------
\* Statements

InsertKey(r) ==
  LET c == call[r]
      k == Min(NewKeys)
      set == [active |-> TRUE, scopes |-> c.scopes, expires |-> c.expires]
  IN
  /\ At(r, "insertKey")
  /\ NewKeys # {}
  /\ key' = [key EXCEPT ![k] = [state |-> "there", set |-> set, usage |-> 0]]
  /\ wanted' = [wanted EXCEPT ![k] = set]
  /\ Done(r)
  /\ UNCHANGED <<late, admitted, lost>>

\* What the update has, and the key for the rest; a request with scopes has one at least.
Merged(c) ==
  [key[c.key].set EXCEPT !.active = IF c.active = "keep" THEN @ ELSE c.active = "yes",
     !.scopes = IF c.scopes = {} THEN @ ELSE c.scopes]

\* updateApiKey reads the key again.
ReadKey(r) ==
  LET c == call[r] IN
  /\ At(r, "readKey")
  /\ IF Valid(c.key)
       THEN Goes(r, [pc |-> "writeKey", key |-> c.key, set |-> Merged(c), usage |-> key[c.key].usage,
                     active |-> c.active, scopes |-> c.scopes])
       ELSE Done(r)
  /\ UNCHANGED keys

\* Mutation of Updated: the row is written with the count that was read.
UpdatedWhole(c) == IF Valid(c.key) THEN [key[c.key] EXCEPT !.set = c.set, !.usage = c.usage] ELSE key[c.key]

\* There is no version to compare; an update that finds no row answers as the others do.
Updated(c) == IF Valid(c.key) THEN [key[c.key] EXCEPT !.set = c.set] ELSE key[c.key]

WriteKey(r) ==
  LET c == call[r] IN
  /\ At(r, "writeKey")
  /\ key' = [key EXCEPT ![c.key] = Updated(c)]
  /\ wanted' = [wanted EXCEPT ![c.key].active = IF c.active = "keep" THEN @ ELSE c.active = "yes",
                  ![c.key].scopes = IF c.scopes = {} THEN @ ELSE c.scopes]
  /\ Done(r)
  /\ UNCHANGED <<late, admitted, lost>>

\* revokeApiKey reads the key again.
FindKey(r) ==
  LET c == call[r] IN
  /\ At(r, "findKey")
  /\ IF Valid(c.key) THEN Goes(r, [c EXCEPT !.pc = "dropKey"]) ELSE Done(r)
  /\ UNCHANGED keys

DropKey(r) ==
  /\ At(r, "dropKey")
  /\ key' = [key EXCEPT ![call[r].key] = [UnbornKey EXCEPT !.state = "gone"]]
  /\ Done(r)
  /\ UNCHANGED <<late, wanted, admitted, lost>>

IncrementUsage(r) ==
  LET k == call[r].key IN
  /\ At(r, "increment")
  /\ key' = IF Valid(k) THEN [key EXCEPT ![k].usage = @ + 1] ELSE key
  /\ Done(r)
  /\ UNCHANGED <<late, wanted, admitted, lost>>

\* The failure of an increment is caught, and forgotten.
LoseIncrement(r) ==
  LET k == call[r].key IN
  /\ At(r, "increment")
  /\ lost' = [lost EXCEPT ![k] = @ + 1]
  /\ Fails(r)
  /\ UNCHANGED <<key, late, wanted, admitted>>

KeyRequestFails(r) == ~At(r, "increment") /\ Fails(r) /\ UNCHANGED keys

DatesPass ==
  /\ ~late
  /\ late' = TRUE
  /\ UNCHANGED <<requests, key, wanted, admitted, lost>>

\* The routes that admit a key ask for one scope only.
KeysNext ==
  \/ \E r \in Request :
       \/ \E scopes \in ScopeSet, expires \in BOOLEAN : CreateKey(r, scopes, expires)
       \/ \E k \in Key :
            \/ \E active \in {"keep", "yes", "no"}, scopes \in ScopeSet \cup {{}} : UpdateKey(r, k, active, scopes)
            \/ RevokeKey(r, k) \/ PresentKey(r, k, "bundles:read")
       \/ InsertKey(r) \/ ReadKey(r) \/ WriteKey(r) \/ FindKey(r) \/ DropKey(r)
       \/ IncrementUsage(r) \/ LoseIncrement(r) \/ KeyRequestFails(r)
  \/ DatesPass

KeysSpec == KeysInit /\ [][KeysNext]_<<keys, requests>>

-----------------------------------------------------------------------------
\* Correctness

\* However updates overlap the increments nothing waits for, the uses counted by a key
\* are the requests it admitted, but for those whose increment is under way or has failed.
UsageAccounted ==
  \A k \in Key : Valid(k) =>
    key[k].usage + lost[k] + Cardinality({r \in Request : At(r, "increment") /\ call[r].key = k}) = admitted[k]

\* Between requests that come one after the other, a key is as it was last asked to be, in
\* the parts an update leaves out too, although the update writes all of them.
StoredAsWanted == Settled => \A k \in Key : Valid(k) => key[k].set = wanted[k]

\* A key that was revoked stays so, whatever update was under way, and admits nothing more.
Withdraws ==
  \A k \in Key : key[k].state = "gone" => key'[k].state = "gone" /\ admitted'[k] = admitted[k]

RevokedForGood == [][Withdraws]_<<keys, requests>>

-----------------------------------------------------------------------------
\* What comments of the code say and the code does not do

\* "Deactivate an API key (soft delete)" (CustomerApiKeyService.ts:232): an update that
\* has read the key before, of its name say, activates it again.
DeactivatedStays == \A k \in Key : Valid(k) /\ ~wanted[k].active => ~key[k].set.active
=============================================================================
