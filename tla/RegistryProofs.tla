--------------------------- MODULE RegistryProofs ---------------------------
(***************************************************************************)
(* The components of Registry, for any values of the constants: each one's *)
(* invariant says nothing unless the behaviour is one of its component,    *)
(* and then Registry makes the steps of that component alone.              *)
(***************************************************************************)
EXTENDS Registry, EstateProofs

-----------------------------------------------------------------------------
\* Sequences

\* What is in a sequence is first in it or in the rest.
LEMMA ToSetOfTail ==
  ASSUME NEW S, NEW s \in Seq(S), s # <<>>
  PROVE  /\ Tail(s) \in Seq(S) /\ Head(s) = s[1]
         /\ {s[i] : i \in DOMAIN s} \subseteq {Head(s)} \cup {Tail(s)[i] : i \in DOMAIN Tail(s)}
<1>1. Len(s) \in Nat /\ Len(s) > 0 /\ DOMAIN s = 1 .. Len(s) /\ Head(s) = s[1]
  OBVIOUS
<1>2. Tail(s) \in Seq(S) /\ Len(Tail(s)) = Len(s) - 1 /\ \A i \in 1 .. Len(Tail(s)) : Tail(s)[i] = s[i + 1]
  BY HeadTailProperties
<1>3. DOMAIN Tail(s) = 1 .. Len(s) - 1
  BY <1>2, <1>1
<1>4. ASSUME NEW i \in DOMAIN s, i # 1
      PROVE  s[i] \in {Tail(s)[k] : k \in DOMAIN Tail(s)}
  <2>1. i - 1 \in DOMAIN Tail(s) /\ (i - 1) + 1 = i
    BY <1>1, <1>3, <1>4
  <2>2. Tail(s)[i - 1] = s[i]
    BY <1>2, <1>3, <1>1, <2>1
  <2>. QED BY <2>1, <2>2
<1>. QED BY <1>1, <1>2, <1>4

-----------------------------------------------------------------------------
\* Domain permissions

PermissionsCall ==
  {Naming!Idle}
    \cup [pc : {"find", "insert"}, todo : Seq(PermissionKey), single : BOOLEAN]
    \cup [pc : {"write"}, id : Naming!Permission, by : Tenant, active : BOOLEAN]
    \cup [pc : {"drop"}, id : Naming!Permission, by : Tenant]

Bulk == [tenant : Tenant, keys : Seq(PermissionKey), made : SUBSET Naming!Permission,
         end : {"none", "created", "exists", "failed"}]

PermissionsTypes ==
  /\ permission \in [Naming!Permission -> Naming!PermissionRow]
  /\ call \in [Request -> PermissionsCall]
  /\ bulk \in [Request -> Bulk]
  /\ standing \in [Request -> SUBSET PermissionKey]

\* A creation under way has not ended, and what it does not still have to do has stood.
KeysStand ==
  \A r \in Request : call[r].pc # "idle" =>
    /\ bulk[r].end = "none"
    /\ call[r].pc \in {"find", "insert"} =>
         /\ call[r].todo # <<>>
         /\ Naming!ToSet(bulk[r].keys) \subseteq standing[r] \cup Naming!ToSet(call[r].todo)

PermissionsInv == PermissionsTypes /\ KeysStand /\ Naming!PermissionsDiffer /\ Naming!BulkComplete

\* What a step has to make of the request it is a step of: a request that begins has
\* all its keys to do, and one that goes on leaves only what stands now.
PermissionsGoOn(r, c, b) ==
  /\ c \in PermissionsCall /\ b \in Bulk
  /\ c.pc # "idle" => b.end = "none"
  /\ c.pc \in {"find", "insert"} => c.todo # <<>>
  /\ IF call[r].pc = "idle"
     THEN /\ c.pc # "idle"
          /\ c.pc \in {"find", "insert"} => Naming!ToSet(b.keys) \subseteq Naming!ToSet(c.todo)
     ELSE /\ b.keys = bulk[r].keys
          /\ c.pc \in {"find", "insert"} \/ b.end = "created" => call[r].pc \in {"find", "insert"}
          /\ c.pc \in {"find", "insert"} =>
               Naming!ToSet(call[r].todo) \subseteq Naming!ToSet(c.todo) \cup Naming!KeysOf(b.tenant)'
          /\ b.end = "created" => Naming!ToSet(call[r].todo) \subseteq Naming!KeysOf(b.tenant)'

LEMMA PermissionsStep ==
  ASSUME PermissionsInv, NEW r \in Request, NEW c, NEW b, PermissionsGoOn(r, c, b),
         call' = [call EXCEPT ![r] = c], bulk' = [bulk EXCEPT ![r] = b],
         permission' \in [Naming!Permission -> Naming!PermissionRow], Naming!PermissionsDiffer',
         Naming!Standing
  PROVE  PermissionsInv'
<1>. HIDE DEF PermissionsCall, Bulk
<1>1. \A s \in Request : /\ call'[s] = IF s = r THEN c ELSE call[s]
                         /\ bulk'[s] = IF s = r THEN b ELSE bulk[s]
  BY DEF PermissionsInv, PermissionsTypes
<1>2. \A s : /\ Naming!KeysOf(bulk'[s].tenant) \subseteq PermissionKey
            /\ (Naming!KeysOf(bulk[s].tenant))' \subseteq PermissionKey
  BY DEF Naming!KeysOf, Naming!PermissionRow, PermissionsInv, PermissionsTypes
<1>3. \A s \in Request : standing'[s] =
        IF call[s].pc = "idle" /\ call'[s].pc # "idle" THEN Naming!KeysOf(bulk'[s].tenant)
        ELSE IF call[s].pc = "idle" THEN standing[s]
        ELSE standing[s] \cup (Naming!KeysOf(bulk[s].tenant))'
  BY DEF Naming!Standing, Naming!At
<1>4. standing' \in [Request -> SUBSET PermissionKey]
  <2>1. \A s \in Request : standing'[s] \subseteq PermissionKey
    BY <1>2, <1>3 DEF PermissionsInv, PermissionsTypes
  <2>. QED BY <2>1 DEF Naming!Standing
<1>5. PermissionsTypes'
  BY <1>4 DEF PermissionsInv, PermissionsTypes, PermissionsGoOn
<1>6. \A s \in Request \ {r} :
        call'[s] = call[s] /\ bulk'[s] = bulk[s] /\ standing[s] \subseteq standing'[s]
  <2>. TAKE s \in Request \ {r}
  <2>1. call'[s] = call[s] /\ bulk'[s] = bulk[s]
    BY <1>1
  <2>2. standing'[s] = standing[s] \/ standing'[s] = standing[s] \cup (Naming!KeysOf(bulk[s].tenant))'
    BY <1>3, <2>1
  <2>. QED BY <2>1, <2>2
<1>7. KeysStand'
  <2>. SUFFICES ASSUME NEW s \in Request, call'[s].pc # "idle"
                PROVE  /\ bulk'[s].end = "none"
                       /\ call'[s].pc \in {"find", "insert"} =>
                            /\ call'[s].todo # <<>>
                            /\ Naming!ToSet(bulk'[s].keys) \subseteq standing'[s] \cup Naming!ToSet(call'[s].todo)
    BY DEF KeysStand
  <2>1. CASE s # r
    BY <1>6, <2>1 DEF PermissionsInv, KeysStand
  <2>2. CASE s = r
    <3>1. call'[s] = c /\ bulk'[s] = b
      BY <1>1, <2>2
    <3>2. CASE call[r].pc = "idle"
      BY <2>2, <3>1, <3>2 DEF PermissionsGoOn
    <3>3. CASE call[r].pc # "idle" /\ c.pc \in {"find", "insert"}
      <4>1. call[r].pc \in {"find", "insert"} /\ b.keys = bulk[r].keys
            /\ Naming!ToSet(call[r].todo) \subseteq Naming!ToSet(c.todo) \cup Naming!KeysOf(b.tenant)'
        BY <3>3 DEF PermissionsGoOn
      <4>2. Naming!ToSet(bulk[r].keys) \subseteq standing[r] \cup Naming!ToSet(call[r].todo)
        BY <3>3, <4>1 DEF PermissionsInv, KeysStand
      <4>3. standing'[r] = standing[r] \cup Naming!KeysOf(b.tenant)'
        <5>1. standing'[r] = standing[r] \cup (Naming!KeysOf(bulk[r].tenant))'
          BY <1>3, <3>3
        <5>. QED BY <2>2, <3>1, <5>1 DEF Naming!KeysOf
      <4>. QED BY <2>2, <3>1, <3>3, <4>1, <4>2, <4>3 DEF PermissionsGoOn
    <3>4. CASE call[r].pc # "idle" /\ c.pc \notin {"find", "insert"}
      BY <2>2, <3>1, <3>4 DEF PermissionsGoOn
    <3>. QED BY <3>2, <3>3, <3>4
  <2>. QED BY <2>1, <2>2
<1>8. Naming!BulkComplete'
  <2>. SUFFICES ASSUME NEW s \in Request, bulk'[s].end = "created"
                PROVE  Naming!ToSet(bulk'[s].keys) \subseteq standing'[s]
    BY DEF Naming!BulkComplete
  <2>1. CASE s # r
    BY <1>6, <2>1 DEF PermissionsInv, Naming!BulkComplete
  <2>2. CASE s = r
    <3>1. bulk'[s] = b /\ call'[s] = c /\ b.end = "created"
      BY <1>1, <2>2
    <3>2. call[r].pc \in {"find", "insert"} /\ b.keys = bulk[r].keys
          /\ Naming!ToSet(call[r].todo) \subseteq Naming!KeysOf(b.tenant)'
      BY <3>1 DEF PermissionsGoOn
    <3>3. Naming!ToSet(bulk[r].keys) \subseteq standing[r] \cup Naming!ToSet(call[r].todo)
      BY <3>2 DEF PermissionsInv, KeysStand
    <3>4. standing'[r] = standing[r] \cup (Naming!KeysOf(bulk[r].tenant))'
      BY <1>3, <3>2
    <3>5. (Naming!KeysOf(bulk[r].tenant))' = Naming!KeysOf(b.tenant)'
      BY <2>2, <3>1 DEF Naming!KeysOf
    <3>. QED BY <2>2, <3>1, <3>2, <3>3, <3>4, <3>5
  <2>. QED BY <2>1, <2>2
<1>. QED BY <1>5, <1>7, <1>8 DEF PermissionsInv

LEMMA PermissionsShapes ==
  ASSUME PermissionsInv, NEW r \in Request
  PROVE  /\ bulk[r] \in Bulk /\ call[r] \in PermissionsCall
         /\ Naming!NoBulk \in Bulk /\ Naming!NoBulk.end = "none"
         /\ Naming!Idle.pc = "idle"
         /\ call[r].pc \in {"find", "insert"} => call[r].todo \in Seq(PermissionKey) /\ call[r].todo # <<>>
         /\ call[r].pc \in {"write", "drop"} => call[r].id \in Naming!Permission
<1>1. bulk[r] \in Bulk /\ call[r] \in PermissionsCall
  <2>. HIDE DEF Bulk, PermissionsCall
  <2>. QED BY DEF PermissionsInv, PermissionsTypes
<1>2. Naming!NoBulk \in Bulk /\ Naming!NoBulk.end = "none"
  <2>1. (CHOOSE t \in Tenant : TRUE) \in Tenant
    BY RegistryAssumption
  <2>. QED BY <2>1 DEF Naming!NoBulk, Bulk
<1>3. Naming!Idle.pc = "idle"
  BY DEF Naming!Idle
<1>4. /\ call[r].pc \in {"find", "insert"} => call[r].todo \in Seq(PermissionKey)
      /\ call[r].pc \in {"write", "drop"} => call[r].id \in Naming!Permission
  BY <1>1, <1>3 DEF PermissionsCall
<1>. QED BY <1>1, <1>2, <1>3, <1>4 DEF PermissionsInv, KeysStand

\* A step that changes no permission.
LEMMA PermissionsStay ==
  ASSUME PermissionsInv, UNCHANGED permission
  PROVE  permission' \in [Naming!Permission -> Naming!PermissionRow] /\ Naming!PermissionsDiffer'
BY DEF PermissionsInv, PermissionsTypes, Naming!PermissionsDiffer, Naming!There

LEMMA PermissionsCreate ==
  ASSUME PermissionsInv, NEW r \in Request, NEW t \in Tenant, NEW ks \in Seq(PermissionKey), ks # <<>>,
         NEW single \in BOOLEAN, Naming!Create(r, t, ks, single), Naming!Standing
  PROVE  PermissionsInv'
<1>. PICK c : c = [pc |-> "find", todo |-> ks, single |-> single]
  OBVIOUS
<1>. PICK b : b = [Naming!NoBulk EXCEPT !.tenant = t, !.keys = ks]
  OBVIOUS
<1>1. call[r].pc = "idle" /\ call' = [call EXCEPT ![r] = c] /\ bulk' = [bulk EXCEPT ![r] = b] /\ UNCHANGED permission
  BY DEF Naming!Create, Naming!Begin, Naming!At
<1>2. b \in Bulk /\ b.end = "none" /\ b.keys = ks
  BY PermissionsShapes DEF Bulk
<1>3. c \in PermissionsCall /\ c.pc = "find" /\ c.todo = ks
  BY DEF PermissionsCall
<1>4. PermissionsGoOn(r, c, b)
  <2>. HIDE DEF PermissionsCall, Bulk
  <2>. QED BY <1>1, <1>2, <1>3 DEF PermissionsGoOn
<1>. QED BY <1>1, <1>4, PermissionsStay, PermissionsStep

LEMMA PermissionsTouch ==
  ASSUME PermissionsInv, NEW r \in Request, NEW t \in Tenant, NEW u \in Naming!Permission,
         Naming!Delete(r, t, u) \/ \E on \in BOOLEAN : Naming!Change(r, t, u, on), Naming!Standing
  PROVE  PermissionsInv'
<1>. PICK b : b = Naming!NoBulk
  OBVIOUS
<1>1. \E c \in PermissionsCall : c.pc \in {"write", "drop"} /\ Naming!Begin(r, c)
  <2>1. CASE Naming!Delete(r, t, u)
    <3>1. PICK c : c = [pc |-> "drop", id |-> u, by |-> t]
      OBVIOUS
    <3>2. c \in PermissionsCall /\ c.pc = "drop" /\ Naming!Begin(r, c)
      BY <2>1, <3>1 DEF PermissionsCall, Naming!Delete
    <3>. QED BY <3>2
  <2>2. ASSUME NEW on \in BOOLEAN, Naming!Change(r, t, u, on)
        PROVE  \E c \in PermissionsCall : c.pc \in {"write", "drop"} /\ Naming!Begin(r, c)
    <3>1. PICK c : c = [pc |-> "write", id |-> u, by |-> t, active |-> on]
      OBVIOUS
    <3>2. c \in PermissionsCall /\ c.pc = "write" /\ Naming!Begin(r, c)
      BY <2>2, <3>1 DEF PermissionsCall, Naming!Change
    <3>. QED BY <3>2
  <2>. QED BY <2>1, <2>2
<1>2. PICK c \in PermissionsCall : c.pc \in {"write", "drop"} /\ Naming!Begin(r, c)
  BY <1>1
<1>3. call[r].pc = "idle" /\ call' = [call EXCEPT ![r] = c] /\ bulk' = [bulk EXCEPT ![r] = b] /\ UNCHANGED permission
  BY <1>2 DEF Naming!Delete, Naming!Change, Naming!Begin, Naming!At
<1>4. b \in Bulk /\ b.end = "none"
  BY PermissionsShapes
<1>5. PermissionsGoOn(r, c, b)
  <2>. HIDE DEF PermissionsCall, Bulk
  <2>. QED BY <1>2, <1>3, <1>4 DEF PermissionsGoOn
<1>. QED BY <1>3, <1>5, PermissionsStay, PermissionsStep

LEMMA KeysOfTail ==
  ASSUME NEW todo \in Seq(PermissionKey), todo # <<>>
  PROVE  /\ Tail(todo) \in Seq(PermissionKey)
         /\ Naming!ToSet(todo) \subseteq {Head(todo)} \cup Naming!ToSet(Tail(todo))
BY ToSetOfTail DEF Naming!ToSet

\* The first key to do stands now, and the request goes on with the others.
LEMMA PermissionsProceed ==
  ASSUME PermissionsInv, NEW r \in Request, call[r].pc \in {"find", "insert"},
         NEW us \in SUBSET Naming!Permission, Naming!Proceeds(r, us),
         Head(call[r].todo) \in Naming!KeysOf(bulk[r].tenant)',
         permission' \in [Naming!Permission -> Naming!PermissionRow], Naming!PermissionsDiffer',
         Naming!Standing
  PROVE  PermissionsInv'
<1>. PICK todo : todo = call[r].todo
  OBVIOUS
<1>. PICK rest : rest = Tail(todo)
  OBVIOUS
<1>. PICK b : b = [bulk[r] EXCEPT !.made = @ \cup us, !.end = IF rest = <<>> THEN "created" ELSE @]
  OBVIOUS
<1>. PICK c : c = IF rest = <<>> THEN Naming!Idle ELSE [call[r] EXCEPT !.pc = "find", !.todo = rest]
  OBVIOUS
<1>1. todo \in Seq(PermissionKey) /\ todo # <<>> /\ call[r] \in PermissionsCall /\ bulk[r] \in Bulk
      /\ Naming!Idle.pc = "idle" /\ bulk[r].end = "none"
  <2>. HIDE DEF Bulk, PermissionsCall
  <2>1. todo \in Seq(PermissionKey) /\ todo # <<>> /\ call[r] \in PermissionsCall /\ bulk[r] \in Bulk
        /\ Naming!Idle.pc = "idle"
    BY PermissionsShapes
  <2>. QED BY <2>1 DEF PermissionsInv, KeysStand
<1>2. rest \in Seq(PermissionKey) /\ Naming!ToSet(todo) \subseteq {Head(todo)} \cup Naming!ToSet(rest)
  BY <1>1, KeysOfTail
<1>3. b \in Bulk /\ b.keys = bulk[r].keys /\ b.tenant = bulk[r].tenant
      /\ b.end = IF rest = <<>> THEN "created" ELSE "none"
  BY <1>1 DEF Bulk
<1>4. c \in PermissionsCall /\ IF rest = <<>> THEN c.pc = "idle" ELSE c.pc = "find" /\ c.todo = rest
  BY <1>1, <1>2 DEF PermissionsCall
<1>5. call' = [call EXCEPT ![r] = c] /\ bulk' = [bulk EXCEPT ![r] = b]
  BY DEF Naming!Proceeds, Naming!Done, Naming!Goes
<1>. HIDE DEF Bulk, PermissionsCall
<1>6. bulk'[r] = b
  BY <1>5 DEF PermissionsInv, PermissionsTypes
<1>7. Head(todo) \in Naming!KeysOf(b.tenant)'
  BY <1>6 DEF Naming!KeysOf
<1>8. rest = <<>> => Naming!ToSet(rest) = {}
  BY DEF Naming!ToSet
<1>9. PermissionsGoOn(r, c, b)
  BY <1>1, <1>2, <1>3, <1>4, <1>7, <1>8 DEF PermissionsGoOn
<1>. QED BY <1>5, <1>9, PermissionsStep

\* What a request ends with leaves the permissions as they are, or changes one of them.
LEMMA PermissionsEnd ==
  ASSUME PermissionsInv, NEW r \in Request, call[r].pc # "idle", call' = [call EXCEPT ![r] = Naming!Idle], NEW b \in Bulk,
         b.keys = bulk[r].keys, b.end # "created", bulk' = [bulk EXCEPT ![r] = b],
         permission' \in [Naming!Permission -> Naming!PermissionRow], Naming!PermissionsDiffer',
         Naming!Standing
  PROVE  PermissionsInv'
<1>. PICK c : c = Naming!Idle
  OBVIOUS
<1>1. call' = [call EXCEPT ![r] = c]
  OBVIOUS
<1>2. c \in PermissionsCall /\ c.pc = "idle"
  BY PermissionsShapes DEF PermissionsCall
<1>. HIDE DEF PermissionsCall, Bulk
<1>3. PermissionsGoOn(r, c, b)
  BY <1>2 DEF PermissionsGoOn
<1>. QED BY <1>1, <1>3, PermissionsStep

LEMMA PermissionsEnds ==
  ASSUME PermissionsInv, NEW r \in Request, NEW how \in {"exists", "failed"}, Naming!Ends(r, how),
         call[r].pc # "idle", UNCHANGED permission, Naming!Standing
  PROVE  PermissionsInv'
<1>. PICK b : b = [bulk[r] EXCEPT !.end = how]
  OBVIOUS
<1>1. b \in Bulk /\ b.keys = bulk[r].keys /\ b.end # "created"
  BY PermissionsShapes DEF Bulk
<1>2. bulk' = [bulk EXCEPT ![r] = b] /\ call' = [call EXCEPT ![r] = Naming!Idle]
  BY DEF Naming!Ends, Naming!Done, Naming!Goes
<1>. HIDE DEF Bulk
<1>. QED BY <1>1, <1>2, PermissionsEnd, PermissionsStay

LEMMA PermissionsFind ==
  ASSUME PermissionsInv, NEW r \in Request, Naming!Find(r), Naming!Standing
  PROVE  PermissionsInv'
<1>1. call[r].pc = "find" /\ UNCHANGED permission
  BY DEF Naming!Find, Naming!At
<1>2. CASE ~Naming!Found(bulk[r].tenant, Head(call[r].todo))
  <2>. PICK c : c = [call[r] EXCEPT !.pc = "insert"]
    OBVIOUS
  <2>. PICK b : b = bulk[r]
    OBVIOUS
  <2>1. call' = [call EXCEPT ![r] = c] /\ bulk' = bulk
    BY <1>2 DEF Naming!Find, Naming!Goes
  <2>2. call[r] \in PermissionsCall /\ call[r].todo # <<>> /\ b \in Bulk /\ Naming!Idle.pc = "idle" /\ b.end = "none"
    BY <1>1, PermissionsShapes DEF PermissionsInv, KeysStand
  <2>3. c \in PermissionsCall /\ c.pc = "insert" /\ c.todo = call[r].todo
    BY <1>1, <2>2 DEF PermissionsCall
  <2>. HIDE DEF Bulk, PermissionsCall
  <2>4. PermissionsGoOn(r, c, b)
    BY <1>1, <2>2, <2>3 DEF PermissionsGoOn
  <2>5. bulk' = [bulk EXCEPT ![r] = b]
    BY <2>1 DEF PermissionsInv, PermissionsTypes
  <2>. QED BY <1>1, <2>1, <2>4, <2>5, PermissionsStay, PermissionsStep
<1>3. CASE Naming!Found(bulk[r].tenant, Head(call[r].todo)) /\ call[r].single
  BY <1>1, <1>3, PermissionsEnds DEF Naming!Find
<1>4. CASE Naming!Found(bulk[r].tenant, Head(call[r].todo)) /\ ~call[r].single
  <2>1. Naming!Proceeds(r, {})
    BY <1>4 DEF Naming!Find
  <2>2. bulk'[r].tenant = bulk[r].tenant
    <3>. PICK b : b = [bulk[r] EXCEPT !.made = @ \cup {}, !.end = IF Tail(call[r].todo) = <<>> THEN "created" ELSE @]
      OBVIOUS
    <3>1. bulk' = [bulk EXCEPT ![r] = b] /\ b.tenant = bulk[r].tenant
      BY <2>1, PermissionsShapes DEF Naming!Proceeds, Bulk
    <3>. QED BY <3>1 DEF PermissionsInv, PermissionsTypes
  <2>3. Head(call[r].todo) \in Naming!KeysOf(bulk[r].tenant)'
    BY <1>1, <1>4, <2>2 DEF Naming!Found, Naming!KeysOf, Naming!There
  <2>. QED BY <1>1, <2>1, <2>3, PermissionsProceed, PermissionsStay
<1>. QED BY <1>2, <1>3, <1>4

\* The unique index: a key that is not taken is given to a new row.
LEMMA PermissionsInsert ==
  ASSUME PermissionsInv, NEW r \in Request, Naming!Insert(r), Naming!Standing
  PROVE  PermissionsInv'
<1>. PICK k : k = Head(call[r].todo)
  OBVIOUS
<1>. PICK t : t = bulk[r].tenant
  OBVIOUS
<1>. PICK u : u = Naming!Min(Naming!NewPermissions)
  OBVIOUS
<1>1. call[r].pc = "insert"
  BY DEF Naming!Insert, Naming!At
<1>2. CASE Naming!Taken(t, k)
  <2>1. Naming!Ends(r, "failed") /\ UNCHANGED permission
    BY <1>2 DEF Naming!Insert
  <2>. QED BY <1>1, <2>1, PermissionsEnds
<1>3. CASE ~Naming!Taken(t, k)
  <2>. PICK new : new = [state |-> "there", tenant |-> t, key |-> k, active |-> TRUE]
    OBVIOUS
  <2>1. permission' = [permission EXCEPT ![u] = new] /\ Naming!Proceeds(r, {u}) /\ Naming!NewPermissions # {}
    BY <1>3 DEF Naming!Insert
  <2>2. u \in Naming!Permission /\ permission[u].state = "unborn"
    <3>1. Naming!NewPermissions \in SUBSET Nat
      BY RegistryAssumption DEF Naming!NewPermissions, Naming!Permission
    <3>2. u \in Naming!NewPermissions
      BY <2>1, <3>1, LeastOf DEF Naming!Min
    <3>. QED BY <3>2 DEF Naming!NewPermissions
  <2>3. k \in PermissionKey /\ t \in Tenant
    BY <1>1, PermissionsShapes, HeadTailProperties DEF Bulk
  <2>4. new \in Naming!PermissionRow /\ new.state = "there" /\ new.tenant = t /\ new.key = k
    BY <2>3 DEF Naming!PermissionRow
  <2>5. permission' \in [Naming!Permission -> Naming!PermissionRow]
        /\ \A v \in Naming!Permission : permission'[v] = IF v = u THEN new ELSE permission[v]
    <3>. HIDE DEF Naming!PermissionRow
    <3>. QED BY <2>1, <2>4 DEF PermissionsInv, PermissionsTypes
  <2>6. \A v \in Naming!Permission : Naming!There(v) /\ permission[v].tenant = t => permission[v].key # k
    BY <1>3 DEF Naming!Taken, Naming!KeysOf
  <2>7. Naming!PermissionsDiffer'
    BY <2>4, <2>5, <2>6 DEF PermissionsInv, Naming!PermissionsDiffer, Naming!There
  <2>8. bulk'[r].tenant = t
    <3>. PICK b : b = [bulk[r] EXCEPT !.made = @ \cup {u}, !.end = IF Tail(call[r].todo) = <<>> THEN "created" ELSE @]
      OBVIOUS
    <3>1. bulk' = [bulk EXCEPT ![r] = b] /\ b.tenant = bulk[r].tenant
      BY <2>1, PermissionsShapes DEF Naming!Proceeds, Bulk
    <3>. QED BY <3>1 DEF PermissionsInv, PermissionsTypes
  <2>9. k \in Naming!KeysOf(bulk[r].tenant)'
    BY <2>2, <2>4, <2>5, <2>8 DEF Naming!KeysOf, Naming!There
  <2>. QED BY <1>1, <2>1, <2>2, <2>5, <2>7, <2>9, PermissionsProceed
<1>. QED BY <1>2, <1>3

\* A change or a deletion keeps what a permission is of.
LEMMA PermissionsWrite ==
  ASSUME PermissionsInv, NEW r \in Request, Naming!Write(r) \/ Naming!Drop(r), Naming!Standing
  PROVE  PermissionsInv'
<1>. PICK u : u = call[r].id
  OBVIOUS
<1>. PICK b : b = bulk[r]
  OBVIOUS
<1>1. call[r].pc \in {"write", "drop"} /\ call' = [call EXCEPT ![r] = Naming!Idle] /\ bulk' = bulk
  BY DEF Naming!Write, Naming!Drop, Naming!At, Naming!Done, Naming!Goes
<1>2. u \in Naming!Permission /\ call[r] \in PermissionsCall /\ b \in Bulk /\ b.end = "none"
  BY <1>1, PermissionsShapes DEF PermissionsInv, KeysStand
<1>3. permission[u] \in Naming!PermissionRow
  BY <1>2 DEF PermissionsInv, PermissionsTypes
<1>4. \E new \in Naming!PermissionRow :
        /\ permission' = [permission EXCEPT ![u] = new]
        /\ new.tenant = permission[u].tenant /\ new.key = permission[u].key
        /\ new.state = "there" => permission[u].state = "there"
  <2>1. CASE Naming!Write(r)
    <3>. PICK new : new = [permission[u] EXCEPT !.active = IF Naming!There(u) THEN call[r].active ELSE @]
      OBVIOUS
    <3>1. permission' = [permission EXCEPT ![u] = new]
      BY <2>1 DEF Naming!Write
    <3>2. call[r].active \in BOOLEAN
      BY <1>2, <2>1 DEF PermissionsCall, Naming!Write, Naming!At, Naming!Idle
    <3>3. new \in Naming!PermissionRow /\ new.tenant = permission[u].tenant /\ new.key = permission[u].key
          /\ new.state = permission[u].state
      BY <1>3, <3>2 DEF Naming!PermissionRow
    <3>. QED BY <3>1, <3>3
  <2>2. CASE Naming!Drop(r)
    <3>. PICK new : new = [permission[u] EXCEPT !.state = "gone"]
      OBVIOUS
    <3>1. permission' = [permission EXCEPT ![u] = new]
      BY <2>2 DEF Naming!Drop
    <3>2. new \in Naming!PermissionRow /\ new.tenant = permission[u].tenant /\ new.key = permission[u].key
          /\ new.state = "gone"
      BY <1>3 DEF Naming!PermissionRow
    <3>. QED BY <3>1, <3>2
  <2>. QED BY <2>1, <2>2
<1>5. PICK new \in Naming!PermissionRow :
        /\ permission' = [permission EXCEPT ![u] = new]
        /\ new.tenant = permission[u].tenant /\ new.key = permission[u].key
        /\ new.state = "there" => permission[u].state = "there"
  BY <1>4
<1>6. permission' \in [Naming!Permission -> Naming!PermissionRow]
      /\ \A v \in Naming!Permission : permission'[v] = IF v = u THEN new ELSE permission[v]
  <2>. HIDE DEF Naming!PermissionRow
  <2>. QED BY <1>2, <1>5 DEF PermissionsInv, PermissionsTypes
<1>7. Naming!PermissionsDiffer'
  BY <1>2, <1>5, <1>6 DEF PermissionsInv, Naming!PermissionsDiffer, Naming!There
<1>. HIDE DEF Bulk, PermissionsCall
<1>8. bulk' = [bulk EXCEPT ![r] = b]
  BY <1>1 DEF PermissionsInv, PermissionsTypes
<1>. QED BY <1>1, <1>2, <1>6, <1>7, <1>8, PermissionsEnd

LEMMA PermissionsBreak ==
  ASSUME PermissionsInv, NEW r \in Request, Naming!Break(r), Naming!Standing
  PROVE  PermissionsInv'
<1>. PICK b : b = [bulk[r] EXCEPT !.end = IF bulk[r].keys = <<>> THEN @ ELSE "failed"]
  OBVIOUS
<1>1. call[r].pc # "idle" /\ call' = [call EXCEPT ![r] = Naming!Idle] /\ bulk' = [bulk EXCEPT ![r] = b] /\ UNCHANGED permission
  BY DEF Naming!Break, Naming!Fails, Naming!At
<1>2. b \in Bulk /\ b.keys = bulk[r].keys /\ b.end # "created"
  <2>1. bulk[r] \in Bulk /\ bulk[r].end = "none"
    BY <1>1, PermissionsShapes DEF PermissionsInv, KeysStand
  <2>. QED BY <2>1 DEF Bulk
<1>. HIDE DEF Bulk
<1>. QED BY <1>1, <1>2, PermissionsStay, PermissionsEnd

\* A bulk of permissions that has succeeded missed none that it named, and no tenant has
\* one permission twice, whatever overlaps: what was skipped stood when it was found, and
\* the unique index refuses what has come in between.
THEOREM PermissionsCorrect == Spec => []PermissionsConsistent
<1>. DEFINE Inv == active = "permissions" => PermissionsInv
<1>1. Init => Inv
  <2>. SUFFICES ASSUME Naming!PermissionsInit
                PROVE  PermissionsInv
    BY DEF Init
  <2>. PICK t : t = CHOOSE x \in Tenant : TRUE
    OBVIOUS
  <2>. PICK k : k = CHOOSE x \in PermissionKey : TRUE
    OBVIOUS
  <2>1. t \in Tenant /\ k \in PermissionKey
    BY RegistryAssumption
  <2>2. permission = [u \in Naming!Permission |-> [state |-> "unborn", tenant |-> Naming!NoBulk.tenant, key |-> k, active |-> TRUE]]
        /\ Naming!NoBulk.tenant = t
    BY DEF Naming!PermissionsInit, Naming!NoBulk
  <2>3. Naming!NoBulk \in Bulk /\ Naming!NoBulk.end = "none" /\ Naming!Idle.pc = "idle"
    BY <2>1 DEF Naming!NoBulk, Bulk, Naming!Idle
  <2>4. call = [r \in Request |-> Naming!Idle] /\ bulk = [r \in Request |-> Naming!NoBulk] /\ standing = [r \in Request |-> {}]
    BY DEF Naming!PermissionsInit, Naming!RequestsInit
  <2>5. PermissionsTypes
    <3>1. permission \in [Naming!Permission -> Naming!PermissionRow]
      BY <2>1, <2>2 DEF Naming!PermissionRow
    <3>. QED BY <2>3, <2>4, <3>1 DEF PermissionsTypes, PermissionsCall
  <2>6. KeysStand /\ Naming!BulkComplete
    BY <2>3, <2>4 DEF KeysStand, Naming!BulkComplete
  <2>7. Naming!PermissionsDiffer
    BY <2>2 DEF Naming!PermissionsDiffer, Naming!There
  <2>. QED BY <2>5, <2>6, <2>7 DEF PermissionsInv
<1>2. Inv /\ [Next]_vars => Inv'
  <2>. SUFFICES ASSUME active = "permissions", PermissionsInv, Naming!PermissionsNext
                PROVE  PermissionsInv'
    <3>1. ASSUME active = "permissions", PermissionsInv, UNCHANGED vars
          PROVE  PermissionsInv'
      BY <3>1 DEF vars, requests, naming, PermissionsInv, PermissionsTypes, KeysStand, Naming!PermissionsDiffer,
         Naming!BulkComplete, Naming!There
    <3>2. [Next]_vars => active' = active /\ (active = "permissions" => Naming!PermissionsNext \/ UNCHANGED vars)
      BY DEF Next, vars
    <3>. QED BY <3>1, <3>2
  <2>1. PICK r \in Request :
          \/ \E t \in Tenant : \/ \E k \in PermissionKey : Naming!Create(r, t, <<k>>, TRUE)
                               \/ \E ks \in Naming!BoundedSeq(PermissionKey, MaxBulk) \ {<<>>} : Naming!Create(r, t, ks, FALSE)
                               \/ \E u \in Naming!Permission :
                                    Naming!Delete(r, t, u) \/ \E on \in BOOLEAN : Naming!Change(r, t, u, on)
          \/ Naming!Find(r) \/ Naming!Insert(r) \/ Naming!Write(r) \/ Naming!Drop(r) \/ Naming!Break(r)
    BY DEF Naming!PermissionsNext
  <2>2. Naming!Standing
    BY DEF Naming!PermissionsNext
  <2>3. ASSUME NEW t \in Tenant, NEW k \in PermissionKey, Naming!Create(r, t, <<k>>, TRUE)
        PROVE  PermissionsInv'
    <3>1. <<k>> \in Seq(PermissionKey) /\ <<k>> # <<>>
      OBVIOUS
    <3>. QED BY <2>2, <2>3, <3>1, PermissionsCreate
  <2>4. ASSUME NEW t \in Tenant, NEW ks \in Naming!BoundedSeq(PermissionKey, MaxBulk) \ {<<>>}, Naming!Create(r, t, ks, FALSE)
        PROVE  PermissionsInv'
    <3>1. ks \in Seq(PermissionKey)
      BY DEF Naming!BoundedSeq
    <3>. QED BY <2>2, <2>4, <3>1, PermissionsCreate
  <2>. QED BY <2>1, <2>2, <2>3, <2>4, PermissionsTouch, PermissionsFind, PermissionsInsert, PermissionsWrite, PermissionsBreak
<1>3. Inv => PermissionsConsistent
  BY DEF PermissionsInv, PermissionsConsistent
<1>. QED BY <1>1, <1>2, <1>3, PTL DEF Spec

-----------------------------------------------------------------------------
\* The monitor of the simulator

Event == [session : Watched, kind : Exercised]

MonitorTypes ==
  /\ listening \in BOOLEAN
  /\ clients \in [Client -> Watching!Watcher]
  /\ counters \in [Watching!Counter -> Nat]
  /\ emitted \in Seq(Event)

\* The monitor listens as long as somebody is connected.
HeardByMonitor == \A c \in Client : clients[c].connected => listening /\ clients[c].since <= Len(emitted)

MonitorInv == MonitorTypes /\ HeardByMonitor /\ Watching!WatchersSeeAll /\ Watching!CountersAgree

\* The events of one kind, and how many they are when one more is emitted.
OfKind(es, k) == {n \in DOMAIN es : es[n].kind = k}

LEMMA CountersCount ==
  /\ Watching!CountersAgree <=>
       /\ counters["bundleFetches"] = Cardinality(OfKind(emitted, "bundle:fetched"))
       /\ counters["bundleUnchanged"] = Cardinality(OfKind(emitted, "bundle:unchanged"))
       /\ counters["totalSessions"] = Cardinality(OfKind(emitted, "session:started"))
  /\ Watching!CountersAgree' <=>
       /\ counters'["bundleFetches"] = Cardinality(OfKind(emitted', "bundle:fetched"))
       /\ counters'["bundleUnchanged"] = Cardinality(OfKind(emitted', "bundle:unchanged"))
       /\ counters'["totalSessions"] = Cardinality(OfKind(emitted', "session:started"))
<1>1. \A k : /\ {n \in DOMAIN emitted : emitted[n].kind = k} = OfKind(emitted, k)
            /\ {n \in DOMAIN emitted' : emitted'[n].kind = k} = OfKind(emitted', k)
  BY DEF OfKind
<1>2. \A S : Watching!Cardinality(S) = Cardinality(S)
  BY DEF Watching!Cardinality, Cardinality
<1>. QED BY <1>1, <1>2, Zenon DEF Watching!CountersAgree

LEMMA OneMoreEvent ==
  ASSUME NEW es \in Seq(Event), NEW e \in Event, NEW k
  PROVE  /\ Cardinality(OfKind(es, k)) \in Nat
         /\ Cardinality(OfKind(Append(es, e), k)) = Cardinality(OfKind(es, k)) + IF e.kind = k THEN 1 ELSE 0
<1>. DEFINE n == Len(es)
<1>. HIDE DEF Event
<1>1. n \in Nat /\ DOMAIN es = 1 .. n
  OBVIOUS
<1>2. /\ Append(es, e) \in Seq(Event) /\ Len(Append(es, e)) = n + 1
      /\ \A i \in 1 .. n : Append(es, e)[i] = es[i]
      /\ Append(es, e)[n + 1] = e
  BY AppendProperties
<1>3. DOMAIN Append(es, e) = 1 .. n + 1
  BY <1>2
<1>. HIDE DEF n
<1>4. OfKind(es, k) \subseteq 1 .. n
  BY <1>1 DEF OfKind
<1>5. IsFiniteSet(OfKind(es, k)) /\ Cardinality(OfKind(es, k)) \in Nat
  <2>1. IsFiniteSet(1 .. n)
    BY <1>1, FS_Interval
  <2>2. IsFiniteSet(OfKind(es, k))
    BY <1>4, <2>1, FS_Subset
  <2>. QED BY <2>2, FS_CardinalityType
<1>6. n + 1 \notin OfKind(es, k)
  BY <1>1, <1>4
<1>7. CASE e.kind = k
  <2>1. OfKind(Append(es, e), k) = OfKind(es, k) \cup {n + 1}
    BY <1>1, <1>2, <1>3, <1>7 DEF OfKind
  <2>2. Cardinality(OfKind(es, k) \cup {n + 1}) = Cardinality(OfKind(es, k)) + 1
    BY <1>5, <1>6, FS_AddElement
  <2>. QED BY <1>5, <1>7, <2>1, <2>2
<1>8. CASE e.kind # k
  <2>1. OfKind(Append(es, e), k) = OfKind(es, k)
    BY <1>1, <1>2, <1>3, <1>8 DEF OfKind
  <2>. QED BY <1>5, <1>8, <2>1
<1>. QED BY <1>7, <1>8

\* What a client has got is what session s has emitted since, in order.
HasAll(got, es, since, s) ==
  /\ {got[i] : i \in DOMAIN got} = {n \in since + 1 .. Len(es) : es[n].session = s}
  /\ \A i, k \in DOMAIN got : i < k => got[i] < got[k]

\* A client that gets what is emitted next has still got all that is its own.
LEMMA OneMoreGot ==
  ASSUME NEW es \in Seq(Event), NEW e \in Event, NEW got \in Seq(Nat), NEW since \in Nat, since <= Len(es), NEW s,
         HasAll(got, es, since, s), NEW es2, es2 = Append(es, e), NEW next, next = IF e.session = s THEN Append(got, Len(es) + 1) ELSE got
  PROVE  HasAll(next, es2, since, s)
<1>0. /\ {got[i] : i \in DOMAIN got} = {n \in since + 1 .. Len(es) : es[n].session = s}
      /\ \A i, k \in DOMAIN got : i < k => got[i] < got[k]
  BY DEF HasAll
<1>. DEFINE m == Len(es)
            g == Len(got)
            mine == {n \in since + 1 .. m : es[n].session = s}
            mine2 == {n \in since + 1 .. Len(es2) : es2[n].session = s}
<1>. HIDE DEF Event
<1>1. m \in Nat /\ Len(es2) = m + 1 /\ (\A i \in 1 .. m : es2[i] = es[i]) /\ es2[m + 1] = e
  BY AppendProperties
<1>2. mine2 = IF e.session = s THEN mine \cup {m + 1} ELSE mine
  BY <1>1
<1>3. CASE e.session # s
  BY <1>0, <1>2, <1>3 DEF HasAll
<1>4. CASE e.session = s
  <2>. DEFINE got2 == Append(got, m + 1)
  <2>0. g \in Nat /\ DOMAIN got = 1 .. g /\ m + 1 \in Nat
    BY <1>1
  <2>1. /\ got2 \in Seq(Nat) /\ Len(got2) = g + 1
        /\ \A i \in 1 .. g : got2[i] = got[i]
        /\ got2[g + 1] = m + 1
    BY <2>0, AppendProperties
  <2>2. DOMAIN got2 = 1 .. g + 1
    BY <2>1
  <2>3. \A i \in 1 .. g : got[i] \in mine
    BY <1>0, <2>0
  <2>. HIDE DEF got2, g
  <2>4. {got2[i] : i \in DOMAIN got2} = {got[i] : i \in DOMAIN got} \cup {m + 1}
    <3>1. \A i \in DOMAIN got2 : got2[i] \in {got[k] : k \in DOMAIN got} \cup {m + 1}
      <4>. TAKE i \in DOMAIN got2
      <4>1. i \in 1 .. g \/ i = g + 1
        BY <2>0, <2>2
      <4>. QED BY <2>0, <2>1, <4>1
    <3>2. g + 1 \in DOMAIN got2 /\ \A k \in DOMAIN got : k \in DOMAIN got2 /\ got2[k] = got[k]
      BY <2>0, <2>1, <2>2
    <3>. QED BY <2>1, <3>1, <3>2
  <2>5. \A i, k \in DOMAIN got2 : i < k => got2[i] < got2[k]
    <3>. SUFFICES ASSUME NEW i \in 1 .. g + 1, NEW k \in 1 .. g + 1, i < k
                  PROVE  got2[i] < got2[k]
      BY <2>2
    <3>1. i \in 1 .. g /\ got2[i] = got[i] /\ got[i] \in mine
      BY <2>0, <2>1, <2>3
    <3>2. CASE k = g + 1
      <4>1. got[i] \in since + 1 .. m
        BY <3>1
      <4>. QED BY <1>1, <2>1, <3>1, <3>2, <4>1
    <3>3. CASE k # g + 1
      <4>1. k \in 1 .. g /\ got2[k] = got[k]
        BY <2>0, <2>1, <3>3
      <4>. QED BY <1>0, <2>0, <3>1, <4>1
    <3>. QED BY <3>2, <3>3
  <2>. HIDE DEF mine, mine2, m
  <2>6. {got2[i] : i \in DOMAIN got2} = mine2
    BY <1>0, <1>2, <1>4, <2>4 DEF mine, m
  <2>7. next = got2
    BY <1>4 DEF got2, m
  <2>8. HasAll(got2, es2, since, s)
    BY <2>5, <2>6 DEF HasAll, mine2
  <2>. QED BY <2>7, <2>8
<1>. QED BY <1>3, <1>4

LEMMA WatchersHaveAll ==
  /\ Watching!WatchersSeeAll <=> \A c \in Client : clients[c].connected =>
       HasAll(clients[c].got, emitted, clients[c].since, clients[c].session)
  /\ Watching!WatchersSeeAll' <=> \A c \in Client : clients'[c].connected =>
       HasAll(clients'[c].got, emitted', clients'[c].since, clients'[c].session)
BY Zenon DEF Watching!WatchersSeeAll, Watching!Connected, HasAll

\* A step in which nothing is emitted, and each client stays as it is or is gone or new.
LEMMA MonitorQuiet ==
  ASSUME MonitorInv, UNCHANGED <<counters, emitted>>, listening' \in BOOLEAN, listening => listening',
         clients' \in [Client -> Watching!Watcher],
         \A c \in Client : clients'[c].connected =>
           \/ clients'[c] = clients[c]
           \/ listening' /\ clients'[c].since = Len(emitted) /\ clients'[c].got = <<>>
  PROVE  MonitorInv'
<1>1. emitted \in Seq(Event) /\ Len(emitted) \in Nat
  BY DEF MonitorInv, MonitorTypes
<1>2. MonitorTypes'
  BY DEF MonitorInv, MonitorTypes
<1>3. Watching!CountersAgree'
  BY DEF MonitorInv, Watching!CountersAgree
<1>4. HeardByMonitor'
  BY <1>1 DEF MonitorInv, HeardByMonitor
<1>5. Watching!WatchersSeeAll'
  <2>. SUFFICES ASSUME NEW c \in Client, clients'[c].connected
                PROVE  /\ {clients'[c].got[i] : i \in DOMAIN clients'[c].got}
                            = {n \in clients'[c].since + 1 .. Len(emitted) : emitted[n].session = clients'[c].session}
                       /\ \A i, k \in DOMAIN clients'[c].got : i < k => clients'[c].got[i] < clients'[c].got[k]
    BY DEF Watching!WatchersSeeAll, Watching!Connected
  <2>1. CASE clients'[c] = clients[c]
    BY <2>1 DEF MonitorInv, Watching!WatchersSeeAll, Watching!Connected
  <2>2. CASE clients'[c].since = Len(emitted) /\ clients'[c].got = <<>>
    BY <1>1, <2>2
  <2>. QED BY <2>1, <2>2
<1>. QED BY <1>2, <1>3, <1>4, <1>5 DEF MonitorInv

LEMMA NoWatcherType ==
  Watching!NoWatcher \in Watching!Watcher /\ Watching!NoWatcher.connected = FALSE
<1>1. (CHOOSE s \in Watched : TRUE) \in Watched
  BY RegistryAssumption
<1>2. <<>> \in Seq(Nat)
  OBVIOUS
<1>. QED BY <1>1, <1>2 DEF Watching!NoWatcher, Watching!Watcher

\* The engine emits: the counters count it, and its clients get it, but for the broken ones.
LEMMA MonitorEmit ==
  ASSUME MonitorInv, NEW s \in Watched, NEW kind \in Exercised, NEW broken \in SUBSET Watching!Connected,
         Watching!Emit(s, kind, broken)
  PROVE  MonitorInv'
<1>. PICK es : es = emitted
  OBVIOUS
<1>. PICK e : e = [session |-> s, kind |-> kind]
  OBVIOUS
<1>1. es \in Seq(Event) /\ e \in Event /\ e.session = s /\ e.kind = kind
  BY DEF MonitorInv, MonitorTypes, Event
<1>2. emitted' = Append(es, e) /\ listening' = listening /\ clients' = Watching!Broadcast(s, Len(es) + 1, broken)
      /\ counters' = [n \in Watching!Counter |-> IF n \in Watching!CountedAs(kind) THEN counters[n] + 1 ELSE counters[n]]
  BY DEF Watching!Emit
<1>. HIDE DEF Event
<1>3. Len(es) \in Nat /\ Append(es, e) \in Seq(Event) /\ Len(Append(es, e)) = Len(es) + 1
  BY <1>1, AppendProperties
<1>4. \A c \in Client : clients[c] \in Watching!Watcher
  <2>. QED BY DEF MonitorInv, MonitorTypes
<1>5. ASSUME NEW c \in Client, c \notin broken, clients[c].connected
      PROVE  /\ clients'[c].connected /\ clients'[c].session = clients[c].session /\ clients'[c].since = clients[c].since
             /\ clients'[c].got = IF s = clients[c].session THEN Append(clients[c].got, Len(es) + 1) ELSE clients[c].got
  <2>1. c \in Watching!Reached(s) <=> clients[c].session = s
    BY <1>5 DEF Watching!Reached, Watching!Connected, MonitorInv, HeardByMonitor
  <2>2. clients'[c] = IF c \in Watching!Reached(s) THEN [clients[c] EXCEPT !.got = Append(@, Len(es) + 1)] ELSE clients[c]
    BY <1>2, <1>5 DEF Watching!Broadcast
  <2>. QED BY <1>4, <1>5, <2>1, <2>2 DEF Watching!Watcher
<1>6. \A c \in Client : c \in broken \/ ~clients[c].connected => ~clients'[c].connected
  BY <1>2, NoWatcherType DEF Watching!Broadcast, Watching!Reached, Watching!Connected
<1>7. ASSUME NEW c \in Client, clients'[c].connected
      PROVE  /\ clients[c].connected /\ clients'[c].since = clients[c].since /\ clients[c].since <= Len(es)
             /\ HasAll(clients'[c].got, emitted', clients'[c].since, clients'[c].session)
  <2>. PICK w : w = clients[c]
    OBVIOUS
  <2>1. c \notin broken /\ w.connected
    BY <1>6, <1>7
  <2>2. w.got \in Seq(Nat) /\ w.since \in Nat /\ w.since <= Len(es)
    BY <1>4, <2>1 DEF Watching!Watcher, MonitorInv, HeardByMonitor
  <2>3. HasAll(w.got, es, w.since, w.session)
    BY <2>1, WatchersHaveAll DEF MonitorInv
  <2>. PICK next : next = IF e.session = w.session THEN Append(w.got, Len(es) + 1) ELSE w.got
    OBVIOUS
  <2>. PICK es2 : es2 = Append(es, e)
    OBVIOUS
  <2>. PICK got : got = w.got
    OBVIOUS
  <2>. PICK since : since = w.since
    OBVIOUS
  <2>. PICK own : own = w.session
    OBVIOUS
  <2>4. HasAll(next, es2, w.since, w.session)
    <3>1. got \in Seq(Nat) /\ since \in Nat /\ since <= Len(es)
      BY <2>2
    <3>2. HasAll(got, es, since, own)
      BY <2>3
    <3>3. next = IF e.session = own THEN Append(got, Len(es) + 1) ELSE got
      OBVIOUS
    <3>4. HasAll(next, es2, since, own)
      BY <1>1, <3>1, <3>2, <3>3, OneMoreGot
    <3>. QED BY <3>4
  <2>5. clients'[c].session = w.session /\ clients'[c].since = w.since /\ clients'[c].got = next /\ emitted' = es2
    BY <1>1, <1>2, <1>5, <2>1
  <2>. QED BY <2>1, <2>2, <2>4, <2>5
<1>8. clients' \in [Client -> Watching!Watcher]
  <2>1. \A c \in Client : clients'[c] \in Watching!Watcher
    <3>. TAKE c \in Client
    <3>1. clients'[c] = Watching!NoWatcher \/ clients'[c] = clients[c]
          \/ clients'[c] = [clients[c] EXCEPT !.got = Append(@, Len(es) + 1)]
      BY <1>2 DEF Watching!Broadcast
    <3>2. clients[c] \in Watching!Watcher /\ Append(clients[c].got, Len(es) + 1) \in Seq(Nat)
      BY <1>3, <1>4 DEF Watching!Watcher
    <3>. QED BY <3>1, <3>2, NoWatcherType DEF Watching!Watcher
  <2>. QED BY <1>2, <2>1 DEF Watching!Broadcast
<1>9. Watching!CountersAgree'
  <2>1. \A k : Cardinality(OfKind(es, k)) \in Nat
               /\ Cardinality(OfKind(emitted', k)) = Cardinality(OfKind(es, k)) + IF kind = k THEN 1 ELSE 0
    BY <1>1, <1>2, OneMoreEvent
  <2>2. /\ counters["bundleFetches"] = Cardinality(OfKind(es, "bundle:fetched"))
        /\ counters["bundleUnchanged"] = Cardinality(OfKind(es, "bundle:unchanged"))
        /\ counters["totalSessions"] = Cardinality(OfKind(es, "session:started"))
    BY CountersCount DEF MonitorInv
  <2>3. /\ "bundleFetches" \in Watching!CountedAs(kind) <=> kind = "bundle:fetched"
        /\ "bundleUnchanged" \in Watching!CountedAs(kind) <=> kind = "bundle:unchanged"
        /\ "totalSessions" \in Watching!CountedAs(kind) <=> kind = "session:started"
    BY DEF Watching!CountedAs
  <2>4. /\ counters'["bundleFetches"] = Cardinality(OfKind(emitted', "bundle:fetched"))
        /\ counters'["bundleUnchanged"] = Cardinality(OfKind(emitted', "bundle:unchanged"))
        /\ counters'["totalSessions"] = Cardinality(OfKind(emitted', "session:started"))
    BY <1>2, <2>1, <2>2, <2>3 DEF Watching!Counter
  <2>. QED BY <2>4, CountersCount
<1>10. MonitorTypes'
  <2>1. counters' \in [Watching!Counter -> Nat]
    BY <1>2 DEF MonitorInv, MonitorTypes
  <2>. QED BY <1>2, <1>3, <1>8, <2>1 DEF MonitorInv, MonitorTypes
<1>11. HeardByMonitor'
  BY <1>2, <1>3, <1>4, <1>7 DEF MonitorInv, HeardByMonitor, Watching!Watcher
<1>12. Watching!WatchersSeeAll'
  BY <1>7, WatchersHaveAll
<1>. QED BY <1>9, <1>10, <1>11, <1>12 DEF MonitorInv

\* A client of the monitor gets every event of its session from its connection on, once and
\* in order, and no others, whoever is removed in the middle of a broadcast; and the counters
\* of the metrics agree with what the engine has emitted since the process started.
THEOREM MonitorCorrect == Spec => []MonitorConsistent
<1>. DEFINE Inv == active = "monitor" => MonitorInv
<1>1. Init => Inv
  <2>. SUFFICES ASSUME Watching!MonitorInit
                PROVE  MonitorInv
    BY DEF Init
  <2>1. listening = FALSE /\ clients = [c \in Client |-> Watching!NoWatcher] /\ emitted = <<>>
        /\ counters = [n \in Watching!Counter |-> 0]
    BY DEF Watching!MonitorInit
  <2>2. MonitorTypes
    <3>. HIDE DEF Watching!Watcher, Watching!NoWatcher
    <3>1. <<>> \in Seq(Event)
      OBVIOUS
    <3>. QED BY <2>1, <3>1, NoWatcherType DEF MonitorTypes
  <2>3. HeardByMonitor /\ Watching!WatchersSeeAll
    BY <2>1, NoWatcherType DEF HeardByMonitor, Watching!WatchersSeeAll, Watching!Connected
  <2>4. Watching!CountersAgree
    <3>1. \A k : OfKind(emitted, k) = {}
      BY <2>1 DEF OfKind
    <3>2. \A n \in Watching!Counter : counters[n] = 0
      BY <2>1
    <3>. QED BY <3>1, <3>2, FS_EmptySet, CountersCount DEF Watching!Counter
  <2>. QED BY <2>2, <2>3, <2>4 DEF MonitorInv
<1>2. Inv /\ [Next]_vars => Inv'
  <2>. SUFFICES ASSUME active = "monitor", MonitorInv, Watching!MonitorNext
                PROVE  MonitorInv'
    <3>1. ASSUME active = "monitor", MonitorInv, UNCHANGED vars
          PROVE  MonitorInv'
      BY <3>1, MonitorQuiet DEF vars, monitor, MonitorInv, MonitorTypes
    <3>2. [Next]_vars => active' = active /\ (active = "monitor" => Watching!MonitorNext \/ UNCHANGED vars)
      BY DEF Next, vars
    <3>. QED BY <3>1, <3>2
  <2>1. ASSUME NEW c \in Client, Watching!Disconnect(c)
        PROVE  MonitorInv'
    <3>1. clients' = [clients EXCEPT ![c] = Watching!NoWatcher] /\ UNCHANGED <<listening, counters, emitted>>
      BY <2>1 DEF Watching!Disconnect
    <3>2. clients' \in [Client -> Watching!Watcher] /\ \A d \in Client : clients'[d].connected => clients'[d] = clients[d]
      <4>. HIDE DEF Watching!Watcher, Watching!NoWatcher
      <4>. QED BY <3>1, NoWatcherType DEF MonitorInv, MonitorTypes
    <3>3. listening' \in BOOLEAN /\ (listening => listening')
      BY <3>1 DEF MonitorInv, MonitorTypes
    <3>. QED BY <3>1, <3>2, <3>3, MonitorQuiet
  <2>2. ASSUME NEW c \in Client, NEW s \in Watched, Watching!Connect(c, s)
        PROVE  MonitorInv'
    <3>. PICK w : w = [connected |-> TRUE, session |-> s, since |-> Len(emitted), got |-> <<>>]
      OBVIOUS
    <3>1. clients' = [clients EXCEPT ![c] = w] /\ listening' = TRUE /\ UNCHANGED <<counters, emitted>>
      BY <2>2 DEF Watching!Connect
    <3>2. w \in Watching!Watcher /\ w.since = Len(emitted) /\ w.got = <<>>
      <4>1. Len(emitted) \in Nat /\ <<>> \in Seq(Nat)
        BY DEF MonitorInv, MonitorTypes
      <4>. QED BY <4>1 DEF Watching!Watcher
    <3>3. clients' \in [Client -> Watching!Watcher] /\ \A d \in Client : clients'[d] = IF d = c THEN w ELSE clients[d]
      <4>. HIDE DEF Watching!Watcher
      <4>. QED BY <3>1, <3>2 DEF MonitorInv, MonitorTypes
    <3>. QED BY <3>1, <3>2, <3>3, MonitorQuiet
  <2>3. ASSUME NEW broken \in SUBSET Watching!Connected, Watching!Heartbeat(broken)
        PROVE  MonitorInv'
    <3>1. clients' = [c \in Client |-> IF c \in broken THEN Watching!NoWatcher ELSE clients[c]]
          /\ UNCHANGED <<listening, counters, emitted>>
      BY <2>3 DEF Watching!Heartbeat
    <3>2. clients' \in [Client -> Watching!Watcher] /\ \A d \in Client : clients'[d].connected => clients'[d] = clients[d]
      <4>. HIDE DEF Watching!Watcher, Watching!NoWatcher
      <4>. QED BY <3>1, NoWatcherType DEF MonitorInv, MonitorTypes
    <3>3. listening' \in BOOLEAN /\ (listening => listening')
      BY <3>1 DEF MonitorInv, MonitorTypes
    <3>. QED BY <3>1, <3>2, <3>3, MonitorQuiet
  <2>. QED BY <2>1, <2>2, <2>3, MonitorEmit DEF Watching!MonitorNext
<1>3. Inv => MonitorConsistent
  BY DEF MonitorInv, MonitorConsistent
<1>. QED BY <1>1, <1>2, <1>3, PTL DEF Spec

-----------------------------------------------------------------------------
\* Rules and bundles

\* A poll since whose start nothing has changed has read where the devices are.
PollsKnow == \A r \in Request : call[r].pc = "rules" /\ r \notin stirred => call[r].where = place

RulesInv == call = [r \in Request |-> call[r]] /\ PollsKnow /\ Rules!HeldIsClosed

\* What a step that does not end the reading of a poll leaves to it.
LEMMA RulesStep ==
  ASSUME RulesInv, NEW r \in Request, call[r].pc # "rules", NEW c, call' = [call EXCEPT ![r] = c],
         UNCHANGED <<place, held>>, stirred \ {r} \subseteq stirred', c.pc = "rules" => c.where = place
  PROVE  RulesInv' /\ Rules!Refreshes
<1>1. call' = [q \in Request |-> call'[q]] /\ \A q \in Request : call'[q] = IF q = r THEN c ELSE call[q]
  BY DEF RulesInv
<1>2. PollsKnow'
  BY <1>1 DEF RulesInv, PollsKnow
<1>3. Rules!HeldIsClosed'
  BY DEF RulesInv, Rules!HeldIsClosed
<1>4. Rules!Refreshes
  BY <1>1 DEF Rules!Refreshes, Rules!At
<1>. QED BY <1>1, <1>2, <1>3, <1>4 DEF RulesInv

\* A request that begins, or makes a statement of another kind.
LEMMA RulesBegin ==
  ASSUME RulesInv, NEW r \in Request, NEW c, Rules!Begin(r, c), c.pc # "rules",
         stirred' = stirred \ {r}, UNCHANGED <<rule, place, second, held>>
  PROVE  RulesInv' /\ Rules!Refreshes
<1>1. call[r].pc # "rules" /\ call' = [call EXCEPT ![r] = c]
  BY DEF Rules!Begin, Rules!At
<1>. QED BY <1>1, RulesStep

LEMMA RulesDone ==
  ASSUME RulesInv, NEW r \in Request, call[r].pc # "rules", Rules!Done(r), Rules!Stir,
         UNCHANGED <<place, second, held>>
  PROVE  RulesInv' /\ Rules!Refreshes
<1>1. PICK c : c = Rules!Idle
  OBVIOUS
<1>2. call' = [call EXCEPT ![r] = c] /\ c.pc = "idle"
  BY <1>1 DEF Rules!Done, Rules!Goes, Rules!Idle
<1>3. stirred \ {r} \subseteq stirred'
  BY DEF Rules!Stir
<1>. QED BY <1>2, <1>3, RulesStep

LEMMA RulesAsk ==
  ASSUME RulesInv, NEW r \in Request,
         \/ \E alarm, scope : Rules!CreateRule(r, alarm, scope)
         \/ \E u, scope : Rules!UpdateRule(r, u, scope)
         \/ \E u : Rules!ToggleRule(r, u) \/ Rules!DeleteRule(r, u)
         \/ Rules!Poll(r)
  PROVE  RulesInv' /\ Rules!Refreshes
<1>1. ASSUME NEW alarm, NEW scope, Rules!CreateRule(r, alarm, scope)
      PROVE  RulesInv' /\ Rules!Refreshes
  <2>1. PICK c : c = [pc |-> "insertRule", alarm |-> alarm, scope |-> scope]
    OBVIOUS
  <2>. QED BY <1>1, <2>1, RulesBegin DEF Rules!CreateRule
<1>2. ASSUME NEW u, NEW scope, Rules!UpdateRule(r, u, scope)
      PROVE  RulesInv' /\ Rules!Refreshes
  <2>1. PICK c : c = [pc |-> "readRule", rule |-> u, scope |-> {scope}, enabled |-> {}]
    OBVIOUS
  <2>. QED BY <1>2, <2>1, RulesBegin DEF Rules!UpdateRule
<1>3. ASSUME NEW u, Rules!ToggleRule(r, u)
      PROVE  RulesInv' /\ Rules!Refreshes
  <2>1. PICK c : c = [pc |-> "readRule", rule |-> u, scope |-> {}, enabled |-> {~rule[u].enabled}]
    OBVIOUS
  <2>. QED BY <1>3, <2>1, RulesBegin DEF Rules!ToggleRule
<1>4. ASSUME NEW u, Rules!DeleteRule(r, u)
      PROVE  RulesInv' /\ Rules!Refreshes
  <2>1. PICK c : c = [pc |-> "dropRule", rule |-> u]
    OBVIOUS
  <2>. QED BY <1>4, <2>1, RulesBegin DEF Rules!DeleteRule
<1>5. ASSUME Rules!Poll(r)
      PROVE  RulesInv' /\ Rules!Refreshes
  <2>1. PICK c : c = [pc |-> "devices"]
    OBVIOUS
  <2>. QED BY <1>5, <2>1, RulesBegin DEF Rules!Poll
<1>. QED BY <1>1, <1>2, <1>3, <1>4, <1>5

\* A statement of a request on the rules.
LEMMA RulesWrite ==
  ASSUME RulesInv, NEW r \in Request,
         Rules!InsertRule(r) \/ Rules!ReadRule(r) \/ Rules!WriteRule(r) \/ Rules!DropRule(r)
  PROVE  RulesInv' /\ Rules!Refreshes
<1>1. CASE Rules!InsertRule(r)
  BY <1>1, RulesDone DEF Rules!InsertRule, Rules!At
<1>2. CASE Rules!WriteRule(r)
  BY <1>2, RulesDone DEF Rules!WriteRule, Rules!At
<1>3. CASE Rules!DropRule(r)
  BY <1>3, RulesDone DEF Rules!DropRule, Rules!At
<1>4. CASE Rules!ReadRule(r)
  <2>1. PICK u : u = call[r].rule
    OBVIOUS
  <2>2. PICK c : c = [pc |-> "writeRule", rule |-> u, scope |-> call[r].scope, enabled |-> call[r].enabled,
                      version |-> rule[u].version]
    OBVIOUS
  <2>3. PICK i : i = Rules!Idle
    OBVIOUS
  <2>4. /\ call[r].pc = "readRule" /\ UNCHANGED <<place, held, stirred>>
        /\ call' = [call EXCEPT ![r] = c] \/ call' = [call EXCEPT ![r] = i]
    BY <1>4, <2>1, <2>2, <2>3 DEF Rules!ReadRule, Rules!Reading, Rules!tables, Rules!At, Rules!Goes, Rules!Done
  <2>5. c.pc = "writeRule" /\ i.pc = "idle"
    BY <2>2, <2>3 DEF Rules!Idle
  <2>. QED BY <2>4, <2>5, RulesStep
<1>. QED BY <1>1, <1>2, <1>3, <1>4

LEMMA RulesReadDevices ==
  ASSUME RulesInv, NEW r \in Request, Rules!ReadDevices(r)
  PROVE  RulesInv' /\ Rules!Refreshes
<1>1. PICK c : c = [pc |-> "rules", where |-> place]
  OBVIOUS
<1>2. call[r].pc = "devices" /\ call' = [call EXCEPT ![r] = c] /\ UNCHANGED <<place, held, stirred>>
  BY <1>1 DEF Rules!ReadDevices, Rules!At, Rules!Goes, Rules!Reading, Rules!tables
<1>3. c.where = place
  BY <1>1
<1>. QED BY <1>2, <1>3, RulesStep

\* The bundle maps a device to rules of its catalog, which are the alarm rules there are.
LEMMA BundleIs ==
  ASSUME NEW where, NEW b \in {Rules!BuildBundle(where, Rules!Existing), Rules!BuildSimplifiedBundle(where, Rules!Existing)}
  PROVE  \A d \in Sensor :
           /\ b.index[d] = {u \in Rules!Rule : Rules!Exists(u) /\ rule[u].alarm /\ rule[u].enabled
                                                 /\ Rules!Applies(rule[u].scope, d, where)}
           /\ b.index[d] \subseteq b.catalog
<1>1. PICK rows : rows = Rules!Existing
  OBVIOUS
<1>2. PICK alarms : alarms = Rules!Alarms(rows)
  OBVIOUS
<1>3. /\ b.index = [d \in Sensor |-> {u \in alarms : Rules!Applies(rows[u].scope, d, where)}]
      /\ b.catalog = alarms
  <2>1. b = Rules!BuildBundle(where, rows)
    BY <1>1 DEF Rules!BuildSimplifiedBundle
  <2>. QED BY <1>2, <2>1 DEF Rules!BuildBundle
<1>4. \A u : u \in DOMAIN rows <=> u \in Rules!Rule /\ Rules!Exists(u)
  BY <1>1 DEF Rules!Existing
<1>5. \A u \in DOMAIN rows : rows[u] = rule[u]
  BY <1>1 DEF Rules!Existing
<1>6. \A u : u \in alarms <=> u \in Rules!Rule /\ Rules!Exists(u) /\ rule[u].alarm /\ rule[u].enabled
  BY <1>2, <1>4, <1>5 DEF Rules!Alarms
<1>. SUFFICES ASSUME NEW d \in Sensor
              PROVE  /\ b.index[d] = {u \in Rules!Rule : Rules!Exists(u) /\ rule[u].alarm /\ rule[u].enabled
                                                           /\ Rules!Applies(rule[u].scope, d, where)}
                     /\ b.index[d] \subseteq b.catalog
  OBVIOUS
<1>7. b.index[d] = {u \in alarms : Rules!Applies(rows[u].scope, d, where)}
  BY <1>3
<1>8. \A u \in alarms : rows[u] = rule[u]
  BY <1>4, <1>5, <1>6
<1>9. b.index[d] = {u \in alarms : Rules!Applies(rule[u].scope, d, where)}
  BY <1>7, <1>8
<1>. QED BY <1>3, <1>6, <1>9

LEMMA RulesReadRules ==
  ASSUME RulesInv, NEW r \in Request, Rules!ReadRules(r)
  PROVE  RulesInv' /\ Rules!Refreshes
<1>1. PICK where : where = call[r].where
  OBVIOUS
<1>2. PICK c : c = Rules!Idle
  OBVIOUS
<1>3. /\ call[r].pc = "rules" /\ call' = [call EXCEPT ![r] = c] /\ c.pc = "idle"
      /\ UNCHANGED <<rule, place, second, stirred>>
  BY <1>2 DEF Rules!ReadRules, Rules!At, Rules!Done, Rules!Goes, Rules!Idle
<1>4. PICK b \in {Rules!BuildBundle(where, Rules!Existing), Rules!BuildSimplifiedBundle(where, Rules!Existing)} :
        held' = IF b.version = held.version THEN held ELSE b
  BY <1>1 DEF Rules!ReadRules, Rules!NotModified
<1>5. \A d \in Sensor :
        /\ b.index[d] = {u \in Rules!Rule : Rules!Exists(u) /\ rule[u].alarm /\ rule[u].enabled
                                              /\ Rules!Applies(rule[u].scope, d, where)}
        /\ b.index[d] \subseteq b.catalog
  BY BundleIs
<1>6. call' = [q \in Request |-> call'[q]] /\ \A q \in Request : call'[q] = IF q = r THEN c ELSE call[q]
  BY <1>3 DEF RulesInv
<1>7. PollsKnow'
  BY <1>3, <1>6 DEF RulesInv, PollsKnow
<1>8. Rules!HeldIsClosed'
  BY <1>4, <1>5 DEF RulesInv, Rules!HeldIsClosed
<1>9. Rules!Refreshes
  <2>. SUFFICES ASSUME r \notin stirred, held.version # second, NEW d \in Sensor
                PROVE  held'.index[d] = {u \in Rules!Rule : Rules!Exists(u) /\ rule[u].alarm /\ rule[u].enabled
                                                              /\ Rules!Applies(rule[u].scope, d, place)}
    BY <1>3, <1>6 DEF Rules!Refreshes, Rules!At
  <2>1. where = place
    BY <1>1, <1>3 DEF RulesInv, PollsKnow
  <2>2. b.version = second
    BY DEF Rules!BuildSimplifiedBundle, Rules!BuildBundle
  <2>3. held' = b
    BY <1>4, <2>2
  <2>. QED BY <1>5, <2>1, <2>3
<1>. QED BY <1>6, <1>7, <1>8, <1>9 DEF RulesInv

\* A request that fails, the devices and the clock.
LEMMA RulesAround ==
  ASSUME RulesInv,
         \/ \E r \in Request : Rules!Fails(r) /\ Rules!Reading
         \/ \E d, p : Rules!MoveSensor(d, p)
         \/ Rules!Tick
         \/ UNCHANGED <<rules, requests>>
  PROVE  RulesInv' /\ Rules!Refreshes
<1>1. ASSUME NEW r \in Request, Rules!Fails(r), Rules!Reading
      PROVE  RulesInv' /\ Rules!Refreshes
  <2>1. PICK c : c = Rules!Idle
    OBVIOUS
  <2>2. call' = [call EXCEPT ![r] = c] /\ c.pc = "idle" /\ calm' = FALSE /\ UNCHANGED <<place, held, stirred>>
    BY <1>1, <2>1 DEF Rules!Fails, Rules!Reading, Rules!tables, Rules!Idle
  <2>3. call' = [q \in Request |-> call'[q]] /\ \A q \in Request : call'[q] = IF q = r THEN c ELSE call[q]
    BY <2>2 DEF RulesInv
  <2>4. PollsKnow' /\ Rules!HeldIsClosed'
    BY <2>2, <2>3 DEF RulesInv, PollsKnow, Rules!HeldIsClosed
  <2>. QED BY <2>2, <2>3, <2>4 DEF RulesInv, Rules!Refreshes
<1>2. ASSUME NEW d, NEW p, Rules!MoveSensor(d, p)
      PROVE  RulesInv' /\ Rules!Refreshes
  <2>1. UNCHANGED <<call, held>> /\ stirred' = stirred \cup {r \in Request : call[r].pc # "idle"}
    BY <1>2 DEF Rules!MoveSensor, Rules!requests, Rules!Stir, Rules!At
  <2>2. PollsKnow'
    BY <2>1 DEF RulesInv, PollsKnow
  <2>. QED BY <2>1, <2>2 DEF RulesInv, Rules!HeldIsClosed, Rules!Refreshes, Rules!At
<1>3. CASE Rules!Tick \/ UNCHANGED <<rules, requests>>
  <2>1. UNCHANGED <<call, place, held, stirred>>
    BY <1>3 DEF Rules!Tick, Rules!requests, rules, requests
  <2>. QED BY <2>1 DEF RulesInv, PollsKnow, Rules!HeldIsClosed, Rules!Refreshes, Rules!At
<1>. QED BY <1>1, <1>2, <1>3

LEMMA RulesGoOn ==
  ASSUME RulesInv, [Rules!RulesNext]_<<rules, requests>>
  PROVE  RulesInv' /\ Rules!Refreshes
<1>1. CASE UNCHANGED <<rules, requests>>
  BY <1>1, RulesAround
<1>2. CASE Rules!RulesNext
  BY <1>2, RulesAsk, RulesWrite, RulesReadDevices, RulesReadRules, RulesAround DEF Rules!RulesNext
<1>. QED BY <1>1, <1>2

LEMMA RulesStart ==
  ASSUME Rules!RulesInit
  PROVE  RulesInv
<1>1. /\ call = [r \in Request |-> Rules!Idle] /\ Rules!Idle.pc = "idle"
      /\ held = [version |-> 0, index |-> [d \in Sensor |-> {}], catalog |-> {}]
  BY DEF Rules!RulesInit, Rules!RequestsInit, Rules!Idle
<1>2. PollsKnow
  BY <1>1 DEF PollsKnow
<1>3. Rules!HeldIsClosed
  BY <1>1 DEF Rules!HeldIsClosed
<1>. QED BY <1>1, <1>2, <1>3 DEF RulesInv

-----------------------------------------------------------------------------
\* The evaluation of rules

\* What the last answers were computed from is still there.
AnswersStand ==
  /\ config \in Config
  /\ verdict # "none" => verdict = Judging!Evaluation(config, enabled, sample, hour)
  /\ scanned => /\ raised \subseteq Judging!Exceeding(bundled, sample)
                /\ Judging!Exceeding(bundled, sample) # {} => raised # {}


\* The operators

\* Where the bundle tells the rule, its threshold is exceeded where the rule triggers.
LEMMA ThresholdIsRule ==
  ASSUME NEW c \in Judging!AlarmThresholdConfig, Judging!Told(c), NEW x
  PROVE  Judging!CheckThreshold([value |-> c.value, high |-> c.high], x) <=> Judging!Triggered(c, x)
<1>1. CASE c.high = {}
  <2>1. c.operator = "GT"
    BY <1>1 DEF Judging!Told
  <2>. QED BY <1>1, <2>1 DEF Judging!CheckThreshold, Judging!Triggered
<1>2. CASE c.high # {}
  <2>1. c.operator = "OUTSIDE"
    BY <1>2 DEF Judging!Told
  <2>. QED BY <1>2, <2>1 DEF Judging!CheckThreshold, Judging!Triggered
<1>. QED BY <1>1, <1>2

\* An optional number that is there is one number.
LEMMA OptionalIsOne ==
  ASSUME NEW o \in Judging!Optional, o # {}
  PROVE  \E n \in Int : o = {n}
BY DEF Judging!Optional

\* Opposite operators exclude each other.
LEMMA OppositesExcludeEachOther ==
  ASSUME NEW c \in Judging!AlarmThresholdConfig, NEW x \in Int,
         c.operator \in {"BETWEEN", "OUTSIDE"} => c.high # {}
  PROVE  Judging!Triggered(c, x) <=> ~Judging!Triggered([c EXCEPT !.operator = Judging!Opposite(c.operator)], x)
<1>. DEFINE d == [c EXCEPT !.operator = Judging!Opposite(c.operator)]
<1>1. /\ c.value \in Int /\ c.high \in Judging!Optional /\ c.operator \in Judging!Operator
      /\ d.value = c.value /\ d.high = c.high /\ d.operator = Judging!Opposite(c.operator)
  BY DEF Judging!AlarmThresholdConfig
<1>. HIDE DEF d
<1>2. ASSUME c.operator \in {"GT", "LTE"}
      PROVE  Judging!Triggered(c, x) <=> ~Judging!Triggered(d, x)
  <2>1. CASE c.operator = "GT"
    BY <1>1, <2>1 DEF Judging!Triggered, Judging!Opposite
  <2>2. CASE c.operator = "LTE"
    BY <1>1, <2>2 DEF Judging!Triggered, Judging!Opposite
  <2>. QED BY <1>2, <2>1, <2>2
<1>3. ASSUME c.operator \in {"LT", "GTE"}
      PROVE  Judging!Triggered(c, x) <=> ~Judging!Triggered(d, x)
  <2>1. CASE c.operator = "LT"
    BY <1>1, <2>1 DEF Judging!Triggered, Judging!Opposite
  <2>2. CASE c.operator = "GTE"
    BY <1>1, <2>2 DEF Judging!Triggered, Judging!Opposite
  <2>. QED BY <1>3, <2>1, <2>2
<1>4. ASSUME c.operator \in {"EQ", "NEQ"}
      PROVE  Judging!Triggered(c, x) <=> ~Judging!Triggered(d, x)
  BY <1>1, <1>4 DEF Judging!Triggered, Judging!Opposite
<1>5. ASSUME c.operator \in {"BETWEEN", "OUTSIDE"}
      PROVE  Judging!Triggered(c, x) <=> ~Judging!Triggered(d, x)
  <2>1. PICK h \in Int : c.high = {h}
    BY <1>1, <1>5, OptionalIsOne
  <2>2. CASE c.operator = "BETWEEN"
    BY <1>1, <2>1, <2>2 DEF Judging!Triggered, Judging!Opposite
  <2>3. CASE c.operator = "OUTSIDE"
    BY <1>1, <2>1, <2>3 DEF Judging!Triggered, Judging!Opposite
  <2>. QED BY <1>5, <2>2, <2>3
<1>6. Judging!Triggered(c, x) <=> ~Judging!Triggered(d, x)
  BY <1>1, <1>2, <1>3, <1>4, <1>5 DEF Judging!Operator
<1>. QED BY <1>6 DEF d

\* A better reading gets no worse grade.
LEMMA BetterIsGradedBetter ==
  ASSUME NEW c \in Judging!SLAConfig, NEW x \in Int, NEW y \in Int,
         IF Judging!HigherIsBetter(c) THEN x <= y ELSE x >= y
  PROVE  Judging!Grade(Judging!Graded(c, x)) <= Judging!Grade(Judging!Graded(c, y))
<1>1. c.target \in Int /\ c.warning \in Int
  BY DEF Judging!SLAConfig
<1>2. PICK margin \in Int : margin = c.target * c.warning
  BY <1>1
<1>3. Judging!Breached(c, y) => Judging!Breached(c, x)
  BY <1>1 DEF Judging!Breached
<1>4. Judging!NearTarget(c, y) => Judging!NearTarget(c, x)
  BY <1>1, <1>2 DEF Judging!NearTarget
<1>. QED BY <1>3, <1>4 DEF Judging!Graded, Judging!Grade

\* What the last answers were computed from stays.
LEMMA AnswersStart == Judging!EvaluationInit => AnswersStand
BY DEF Judging!EvaluationInit, AnswersStand

LEMMA AnswersGoOn == AnswersStand /\ [Judging!EvaluationNext]_judging => AnswersStand'
<1>. SUFFICES ASSUME AnswersStand, [Judging!EvaluationNext]_judging
              PROVE  AnswersStand'
  OBVIOUS
<1>. USE DEF AnswersStand
<1>1. CASE Judging!Evaluate
  BY <1>1 DEF Judging!Evaluate
<1>2. CASE Judging!ToggleRule
  BY <1>2 DEF Judging!ToggleRule
<1>3. CASE Judging!FetchBundle
  BY <1>3 DEF Judging!FetchBundle
<1>4. CASE Judging!ScanDevice
  BY <1>4 DEF Judging!ScanDevice
<1>5. CASE Judging!Tick
  BY <1>5 DEF Judging!Tick
<1>6. ASSUME NEW c \in Config, Judging!UpdateRule(c)
      PROVE  AnswersStand'
  BY <1>6 DEF Judging!UpdateRule
<1>7. ASSUME NEW s \in Judging!Sample, Judging!GenerateTelemetry(s)
      PROVE  AnswersStand'
  BY <1>7 DEF Judging!GenerateTelemetry
<1>8. CASE UNCHANGED judging
  BY <1>8 DEF judging
<1>. QED BY <1>1, <1>2, <1>3, <1>4, <1>5, <1>6, <1>7, <1>8 DEF Judging!EvaluationNext

\* Where the bundle tells the rule, the two agree.
LEMMA AnswersAgree ==
  ASSUME Config \subseteq Judging!AnyConfig, AnswersStand
  PROVE  Judging!EvaluatorsAgree
<1>. SUFFICES ASSUME Judging!BothJudged, Judging!Told(config)
             PROVE  /\ verdict = "triggered" => raised # {}
                    /\ raised = {config.metric} => verdict = "triggered"
  BY DEF Judging!EvaluatorsAgree
<1>. DEFINE m == config.metric
            b == [value |-> config.value, high |-> config.high]
<1>1. config.type = "ALARM_THRESHOLD"
  BY DEF Judging!Told, Judging!Alarm
<1>2. config \in Judging!AlarmThresholdConfig
  BY <1>1 DEF AnswersStand, Judging!AnyConfig, Judging!SLAConfig, Judging!MaintenanceWindowConfig,
              Judging!EscalationConfig
<1>3. bundled = IF enabled THEN {b} ELSE {}
  BY <1>1 DEF Judging!BothJudged, Judging!Simplified
<1>4. verdict = "triggered" <=> enabled /\ m \in DOMAIN sample /\ Judging!Triggered(config, sample[m])
  BY <1>1 DEF AnswersStand, Judging!BothJudged, Judging!Evaluation
<1>5. m \in Judging!Exceeding(bundled, sample) <=> enabled /\ m \in DOMAIN sample /\ Judging!Triggered(config, sample[m])
  <2>1. m \in Judging!Exceeding(bundled, sample) <=>
          m \in DOMAIN sample /\ enabled /\ Judging!CheckThreshold(b, sample[m])
    BY <1>3 DEF Judging!Exceeding
  <2>2. Judging!CheckThreshold(b, sample[m]) <=> Judging!Triggered(config, sample[m])
    BY <1>2, ThresholdIsRule
  <2>. QED BY <2>1, <2>2
<1>6. verdict = "triggered" => raised # {}
  BY <1>4, <1>5 DEF AnswersStand, Judging!BothJudged
<1>7. raised = {m} => verdict = "triggered"
  BY <1>4, <1>5 DEF AnswersStand, Judging!BothJudged
<1>. QED BY <1>6, <1>7

\* Opposite operators exclude each other, and grades are in order, for any configuration.
LEMMA OrderHolds ==
  ASSUME Config \subseteq Judging!AnyConfig, Measured \subseteq Int, config \in Config
  PROVE  Judging!OppositesExclude /\ Judging!GradesOrdered
<1>1. Judging!OppositesExclude
  <2>. SUFFICES ASSUME Judging!Alarm(config),
                       config.operator \in {"BETWEEN", "OUTSIDE"} => config.high # {},
                       NEW x \in Measured
                PROVE  Judging!Triggered(config, x) <=>
                         ~Judging!Triggered([config EXCEPT !.operator = Judging!Opposite(config.operator)], x)
    BY DEF Judging!OppositesExclude
  <2>1. config \in Judging!AlarmThresholdConfig
    BY DEF Judging!Alarm, Judging!AnyConfig, Judging!SLAConfig, Judging!MaintenanceWindowConfig, Judging!EscalationConfig
  <2>. QED BY <2>1, OppositesExcludeEachOther
<1>2. Judging!GradesOrdered
  <2>. SUFFICES ASSUME config.type = "SLA", NEW x \in Measured, NEW y \in Measured,
                       IF Judging!HigherIsBetter(config) THEN x <= y ELSE x >= y
                PROVE  Judging!Grade(Judging!Graded(config, x)) <= Judging!Grade(Judging!Graded(config, y))
    BY DEF Judging!GradesOrdered
  <2>1. config \in Judging!SLAConfig
    BY DEF Judging!AnyConfig, Judging!AlarmThresholdConfig, Judging!MaintenanceWindowConfig, Judging!EscalationConfig
  <2>. QED BY <2>1, BetterIsGradedBetter
<1>. QED BY <1>1, <1>2

\* A poll that nothing has overlapped brings the gateway up to date, and every bundle lists
\* what it maps devices to, whatever is written while it is made.  RuleService.evaluate and
\* SimulatorEngine.evaluateRule agree on every rule above a value or outside a range, opposite
\* operators exclude each other and a better reading is graded no worse, for every
\* configuration, every reading and the changes made to the rule in between.
THEOREM BundlesCorrect ==
  ASSUME Config \subseteq Judging!AnyConfig, Measured \subseteq Int
  PROVE  Spec => BundlesConsistent
<1>. DEFINE Inv == (active = "rules" => RulesInv) /\ (active = "evaluation" => AnswersStand)
<1>1. Init => Inv
  BY RulesStart, AnswersStart DEF Init
<1>2. Inv /\ [Next]_vars => Inv' /\ [active = "rules" => Rules!Refreshes]_vars
  <2>1. [Next]_vars => /\ active' = active
                       /\ active = "rules" => [Rules!RulesNext]_<<rules, requests>>
                       /\ active = "evaluation" => [Judging!EvaluationNext]_judging
    BY DEF Next, vars
  <2>. QED BY <2>1, RulesGoOn, AnswersGoOn
<1>3. Inv => (active = "rules" => Rules!HeldIsClosed)
  BY DEF RulesInv
<1>4. Inv => (active = "evaluation" =>
                /\ Judging!EvaluatorsAgree
                /\ Judging!OppositesExclude
                /\ Judging!GradesOrdered)
  BY AnswersAgree, OrderHolds DEF AnswersStand
<1>. QED BY <1>1, <1>2, <1>3, <1>4, PTL DEF Spec, BundlesConsistent


-----------------------------------------------------------------------------
\* Sessions

SessionOp == {"login", "fail", "record", "reset", "lock", "enable", "disable", "unlock"}

SessionCall ==
  {Signing!Idle}
    \cup [pc : {"mail", "read"}, op : SessionOp, user : Person]
    \cup [pc : {"write"}, op : SessionOp, user : Person, seen : Signing!Security]
    \cup [pc : {"refresh"}, token : Signing!Token, user : Person]
    \cup [pc : {"status"}, user : Person, status : {"ACTIVE", "INACTIVE", "gone"}]

\* The rows: a session is named after its first token, which has been generated.
SessionRowsOK ==
  /\ account \in [Person -> Signing!AccountRow]
  /\ refreshTokens \in [Signing!Token -> Signing!TokenRow]
  /\ \A t \in Signing!Token : t \notin Signing!NewTokens => Signing!SessionOf(t) \notin Signing!NewTokens

SessionsApart == \A t, u \in Signing!Stored : Signing!SessionOf(t) = Signing!SessionOf(u) => t = u
FactorsAsAsked == \A p \in Person : Signing!Known(p) => (account[p].security.mfa <=> p \in secured)

\* What a request that nothing overlaps has read is so.
KnowsSession(c) ==
  /\ c.pc = "refresh" => c.token \in Signing!Stored
  /\ c.pc = "write" => c.seen = account[c.user].security

SessionsCalm ==
  calm =>
    /\ \A q, r \in Request : call[q].pc # "idle" /\ call[r].pc # "idle" => q = r
    /\ \A r \in Request : KnowsSession(call[r])
    /\ SessionsApart /\ FactorsAsAsked

SessionsInv ==
  /\ SessionRowsOK
  /\ call \in [Request -> SessionCall]
  /\ \A r \in Request : call[r].pc = "refresh" => call[r].token \notin Signing!NewTokens
  /\ calm \in BOOLEAN
  /\ SessionsCalm

LEMMA SessionsShapes ==
  ASSUME SessionsInv, NEW r \in Request
  PROVE  /\ call[r] \in SessionCall
         /\ Signing!Idle.pc = "idle" /\ Signing!Idle \in SessionCall
         /\ call[r].pc \in {"mail", "read", "write"} => call[r].op \in SessionOp
         /\ call[r].pc \in {"mail", "read", "write", "refresh", "status"} => call[r].user \in Person
         /\ call[r].pc = "write" => call[r].seen \in Signing!Security
         /\ call[r].pc = "refresh" => call[r].token \in Signing!Token
         /\ call[r].pc = "status" => call[r].status \in {"ACTIVE", "INACTIVE", "gone"}
<1>1. call[r] \in SessionCall
  <2>. HIDE DEF SessionCall
  <2>. QED BY DEF SessionsInv
<1>2. Signing!Idle.pc = "idle" /\ Signing!Idle \in SessionCall
  BY DEF Signing!Idle, SessionCall
<1>. HIDE DEF Signing!Token, SessionOp, Signing!Security
<1>. QED BY <1>1, <1>2 DEF SessionCall

\* A request that makes a statement is alone, if none have overlapped.
LEMMA SessionsAlone ==
  ASSUME SessionsInv, NEW r \in Request, NEW c,
         \/ Signing!Begin(r, c)
         \/ call[r].pc # "idle" /\ Signing!Goes(r, c)
  PROVE  /\ call' = [call EXCEPT ![r] = c] /\ calm' \in BOOLEAN
         /\ calm' => calm /\ \A q \in Request \ {r} : call[q].pc = "idle"
<1>1. CASE Signing!Begin(r, c)
  BY <1>1 DEF Signing!Begin, Signing!At, SessionsInv
<1>2. CASE call[r].pc # "idle" /\ Signing!Goes(r, c)
  <2>1. calm' = calm /\ call' = [call EXCEPT ![r] = c]
    BY <1>2 DEF Signing!Goes
  <2>2. calm => \A q \in Request \ {r} : call[q].pc = "idle"
    BY <1>2 DEF SessionsInv, SessionsCalm
  <2>. QED BY <2>1, <2>2 DEF SessionsInv
<1>. QED BY <1>1, <1>2

\* What a request leaves when it has written its rows well.
LEMMA SessionsStep ==
  ASSUME SessionsInv, NEW r \in Request, NEW c \in SessionCall, call' = [call EXCEPT ![r] = c], calm' \in BOOLEAN,
         calm' => calm /\ \A q \in Request \ {r} : call[q].pc = "idle",
         SessionRowsOK', Signing!NewTokens' \subseteq Signing!NewTokens,
         c.pc = "refresh" => c.token \notin Signing!NewTokens',
         calm' => KnowsSession(c)' /\ SessionsApart' /\ FactorsAsAsked'
  PROVE  SessionsInv'
<1>. HIDE DEF SessionCall
<1>1. call' \in [Request -> SessionCall] /\ \A q \in Request : call'[q] = IF q = r THEN c ELSE call[q]
  BY DEF SessionsInv
<1>2. \A q \in Request : call'[q].pc = "refresh" => call'[q].token \notin Signing!NewTokens'
  BY <1>1 DEF SessionsInv
<1>3. ASSUME calm' PROVE SessionsCalm'
  <2>1. \A q, s \in Request : call'[q].pc # "idle" /\ call'[s].pc # "idle" => q = s
    BY <1>1, <1>3
  <2>2. ASSUME NEW q \in Request PROVE KnowsSession(call[q])'
    <3>1. CASE q = r
      BY <1>1, <1>3, <3>1 DEF KnowsSession
    <3>2. CASE q # r
      BY <1>1, <1>3, <3>2 DEF KnowsSession
    <3>. QED BY <3>1, <3>2
  <2>. QED BY <1>3, <2>1, <2>2 DEF SessionsCalm
<1>4. SessionsCalm'
  BY <1>3 DEF SessionsCalm
<1>. QED BY <1>1, <1>2, <1>4 DEF SessionsInv

\* What a request that writes no row leaves.
LEMMA SessionsReads ==
  ASSUME SessionsInv, NEW r \in Request, NEW c \in SessionCall, UNCHANGED <<account, refreshTokens, secured>>,
         \/ Signing!Begin(r, c)
         \/ call[r].pc # "idle" /\ Signing!Goes(r, c),
         KnowsSession(c)
  PROVE  SessionsInv'
<1>. HIDE DEF SessionCall, Signing!Token
<1>1. /\ call' = [call EXCEPT ![r] = c] /\ calm' \in BOOLEAN
      /\ calm' => calm /\ \A q \in Request \ {r} : call[q].pc = "idle"
  BY SessionsAlone
<1>2. Signing!NewTokens' = Signing!NewTokens /\ Signing!Stored' = Signing!Stored
  BY DEF Signing!NewTokens, Signing!Stored
<1>3. SessionRowsOK'
  BY <1>2 DEF SessionsInv, SessionRowsOK, Signing!SessionOf
<1>4. calm' => SessionsApart' /\ FactorsAsAsked'
  BY <1>1, <1>2 DEF SessionsInv, SessionsCalm, SessionsApart, FactorsAsAsked, Signing!SessionOf, Signing!Known
<1>5. KnowsSession(c)'
  BY <1>2 DEF KnowsSession
<1>6. c.pc = "refresh" => c.token \notin Signing!NewTokens
  BY DEF KnowsSession, Signing!Stored, Signing!NewTokens
<1>. QED BY <1>1, <1>2, <1>3, <1>4, <1>5, <1>6, SessionsStep

\* Tokens that are ended leave the others as they were.
LEMMA SessionsEnd ==
  ASSUME SessionRowsOK, NEW S \in SUBSET Signing!Token, S \cap Signing!NewTokens = {},
         refreshTokens' = Signing!End(refreshTokens, S), UNCHANGED account
  PROVE  /\ SessionRowsOK' /\ Signing!NewTokens' = Signing!NewTokens /\ Signing!Stored' = Signing!Stored \ S
         /\ \A t \in Signing!Token : Signing!SessionOf(t)' = Signing!SessionOf(t)
         /\ SessionsApart => SessionsApart'
         /\ Signing!Ends
<1>. HIDE DEF Signing!Token
<1>1. \A t \in Signing!Token :
        /\ refreshTokens'[t] \in Signing!TokenRow
        /\ refreshTokens'[t].session = refreshTokens[t].session
        /\ refreshTokens'[t].state = IF t \in S THEN "ended" ELSE refreshTokens[t].state
  BY DEF Signing!End, SessionRowsOK, Signing!TokenRow
<1>2. Signing!NewTokens' = Signing!NewTokens /\ Signing!Stored' = Signing!Stored \ S
  BY <1>1 DEF Signing!NewTokens, Signing!Stored
<1>3. \A t \in Signing!Token : Signing!SessionOf(t)' = Signing!SessionOf(t)
  BY <1>1 DEF Signing!SessionOf
<1>4. refreshTokens' \in [Signing!Token -> Signing!TokenRow]
  BY <1>1 DEF Signing!End
<1>5. SessionRowsOK'
  BY <1>2, <1>3, <1>4 DEF SessionRowsOK
<1>6. SessionsApart => SessionsApart'
  BY <1>2, <1>3 DEF SessionsApart, Signing!Stored
<1>. QED BY <1>1, <1>2, <1>3, <1>5, <1>6 DEF Signing!Ends

\* A token that is generated is the first of a session, or goes on with that of token k.
LEMMA SessionsGenerate ==
  ASSUME SessionRowsOK, Signing!NewTokens # {}, NEW p \in Person, NEW k \in Signing!Token \cup {0},
         k \notin Signing!NewTokens, NEW S \in SUBSET Signing!Token, S \cap Signing!NewTokens = {},
         refreshTokens' = Signing!Generate(Signing!End(refreshTokens, S), p, k),
         account' \in [Person -> Signing!AccountRow]
  PROVE  /\ SessionRowsOK' /\ Signing!NewTokens' \subseteq Signing!NewTokens /\ Signing!Ends
         /\ SessionsApart /\ (k # 0 => k \in Signing!Stored /\ S = {k}) => SessionsApart'
<1>. HIDE DEF Signing!Token
<1>1. PICK n : n = Signing!Min(Signing!NewTokens)
  OBVIOUS
<1>2. n \in Signing!NewTokens /\ n \in Signing!Token
  <2>1. Signing!NewTokens \in SUBSET Nat
    BY DEF Signing!NewTokens, Signing!Token
  <2>2. \E x \in Signing!NewTokens : \A y \in Signing!NewTokens : x =< y
    BY <2>1, LeastOf
  <2>3. n \in Signing!NewTokens
    BY <1>1, <2>2 DEF Signing!Min
  <2>. QED BY <2>3 DEF Signing!NewTokens
<1>3. PICK s : s = IF k = 0 THEN n ELSE Signing!SessionOf(k)
  OBVIOUS
<1>4. refreshTokens' = [Signing!End(refreshTokens, S) EXCEPT ![n] = [state |-> "stored", user |-> p, session |-> s]]
  BY <1>1, <1>3 DEF Signing!Generate
<1>5. k # 0 => k \in Signing!Token /\ Signing!SessionOf(k) \notin Signing!NewTokens
  BY DEF SessionRowsOK
<1>6. s \in Signing!Token
  BY <1>2, <1>3, <1>5 DEF SessionRowsOK, Signing!SessionOf, Signing!TokenRow
<1>7. \A t \in Signing!Token :
        /\ Signing!End(refreshTokens, S)[t] \in Signing!TokenRow
        /\ Signing!End(refreshTokens, S)[t].session = refreshTokens[t].session
        /\ Signing!End(refreshTokens, S)[t].state = IF t \in S THEN "ended" ELSE refreshTokens[t].state
  BY DEF Signing!End, SessionRowsOK, Signing!TokenRow
<1>8. /\ DOMAIN Signing!End(refreshTokens, S) = Signing!Token
      /\ Signing!End(refreshTokens, S) = [t \in Signing!Token |-> Signing!End(refreshTokens, S)[t]]
  BY DEF Signing!End
<1>9. \A t \in Signing!Token :
        refreshTokens'[t] = IF t = n THEN [state |-> "stored", user |-> p, session |-> s] ELSE Signing!End(refreshTokens, S)[t]
  BY <1>4, <1>8
<1>10. refreshTokens'[n].state = "stored" /\ refreshTokens'[n].session = s /\ refreshTokens'[n] \in Signing!TokenRow
  BY <1>2, <1>6, <1>9 DEF Signing!TokenRow
<1>11. \A t \in Signing!Token \ {n} :
         /\ refreshTokens'[t] \in Signing!TokenRow
         /\ refreshTokens'[t].session = refreshTokens[t].session
         /\ refreshTokens'[t].state = IF t \in S THEN "ended" ELSE refreshTokens[t].state
  BY <1>7, <1>9
<1>12. Signing!NewTokens' = Signing!NewTokens \ {n} /\ Signing!Stored' = (Signing!Stored \ S) \cup {n}
  BY <1>2, <1>10, <1>11 DEF Signing!NewTokens, Signing!Stored
<1>13. Signing!SessionOf(n)' = s /\ \A t \in Signing!Token \ {n} : Signing!SessionOf(t)' = Signing!SessionOf(t)
  BY <1>10, <1>11 DEF Signing!SessionOf
<1>14. refreshTokens' \in [Signing!Token -> Signing!TokenRow]
  <2>1. \A t \in Signing!Token : refreshTokens'[t] \in Signing!TokenRow
    BY <1>10, <1>11
  <2>. QED BY <1>4, <1>8, <2>1
<1>15. s \notin Signing!NewTokens'
  BY <1>3, <1>5, <1>12
<1>16. \A t \in Signing!Token : t \notin Signing!NewTokens' => Signing!SessionOf(t)' \notin Signing!NewTokens'
  BY <1>12, <1>13, <1>15 DEF SessionRowsOK
<1>17. Signing!Ends
  BY <1>2, <1>11 DEF Signing!Ends, Signing!NewTokens
<1>18. ASSUME SessionsApart, k # 0 => k \in Signing!Stored /\ S = {k} PROVE SessionsApart'
  <2>1. \A t \in Signing!Stored \ S : Signing!SessionOf(t) # s
    <3>1. CASE k = 0
      <4>1. \A t \in Signing!Stored : t \in Signing!Token /\ t \notin Signing!NewTokens
        BY DEF Signing!Stored, Signing!NewTokens
      <4>. QED BY <1>2, <1>3, <3>1, <4>1 DEF SessionRowsOK
    <3>2. CASE k # 0
      BY <1>3, <1>18, <3>2 DEF SessionsApart
    <3>. QED BY <3>1, <3>2
  <2>2. \A t \in Signing!Stored \ S : t \in Signing!Token \ {n}
    BY <1>2 DEF Signing!Stored, Signing!NewTokens
  <2>. QED BY <1>12, <1>13, <1>18, <2>1, <2>2 DEF SessionsApart
<1>. QED BY <1>12, <1>14, <1>16, <1>17, <1>18 DEF SessionRowsOK

LEMMA SessionsEndNone ==
  ASSUME SessionRowsOK
  PROVE  Signing!End(refreshTokens, {}) = refreshTokens
BY DEF SessionRowsOK, Signing!End

LEMMA SessionsAsk ==
  ASSUME SessionsInv, NEW r \in Request,
         \/ \E p \in Person :
              \/ \E code \in {"none", "right", "wrong"} : Signing!Login(r, p, code)
              \/ Signing!VerifyMfa(r, p)
              \/ Signing!EnableMfa(r, p) \/ Signing!DisableMfa(r, p) \/ Signing!UnlockUser(r, p) \/ Signing!DeleteUser(r, p)
              \/ \E status \in {"ACTIVE", "INACTIVE"} : Signing!UpdateStatus(r, p, status)
         \/ \E t \in Signing!Token : Signing!Refresh(r, t)
  PROVE  SessionsInv' /\ UNCHANGED refreshTokens
<1>. HIDE DEF Signing!Token
<1>. DEFINE Asked(c) == Signing!Begin(r, c) /\ UNCHANGED <<account, refreshTokens, secured>>
<1>1. ASSUME NEW c \in SessionCall, c.pc \notin {"refresh", "write"}, Asked(c)
      PROVE  SessionsInv' /\ UNCHANGED refreshTokens
  BY <1>1, SessionsReads DEF KnowsSession
<1>2. ASSUME NEW p \in Person, NEW op \in SessionOp, Asked(Signing!Securing(op, p))
      PROVE  SessionsInv' /\ UNCHANGED refreshTokens
  <2>1. PICK c : c = [pc |-> "read", op |-> op, user |-> p]
    OBVIOUS
  <2>2. c \in SessionCall /\ c.pc = "read" /\ c = Signing!Securing(op, p)
    BY <2>1 DEF SessionCall, Signing!Securing
  <2>. QED BY <1>1, <1>2, <2>2
<1>3. ASSUME NEW p \in Person, NEW op \in SessionOp, Asked([pc |-> "mail", op |-> op, user |-> p])
      PROVE  SessionsInv' /\ UNCHANGED refreshTokens
  <2>1. PICK c : c = [pc |-> "mail", op |-> op, user |-> p]
    OBVIOUS
  <2>2. c \in SessionCall /\ c.pc = "mail"
    BY <2>1 DEF SessionCall
  <2>. QED BY <1>1, <1>3, <2>1, <2>2
<1>4. ASSUME NEW p \in Person, NEW status \in {"ACTIVE", "INACTIVE", "gone"},
             Asked([pc |-> "status", user |-> p, status |-> status])
      PROVE  SessionsInv' /\ UNCHANGED refreshTokens
  <2>1. PICK c : c = [pc |-> "status", user |-> p, status |-> status]
    OBVIOUS
  <2>2. c \in SessionCall /\ c.pc = "status"
    BY <2>1 DEF SessionCall
  <2>. QED BY <1>1, <1>4, <2>1, <2>2
<1>5. ASSUME NEW p \in Person, NEW code, Signing!Login(r, p, code)
      PROVE  SessionsInv' /\ UNCHANGED refreshTokens
  <2>1. UNCHANGED <<account, refreshTokens, secured>>
    BY <1>5 DEF Signing!Login
  <2>2. \/ Signing!Begin(r, Signing!Idle) \/ Signing!Begin(r, [pc |-> "mail", op |-> "fail", user |-> p])
        \/ Signing!Begin(r, Signing!Securing("login", p))
    BY <1>5 DEF Signing!Login
  <2>3. CASE Signing!Begin(r, Signing!Idle)
    BY <1>1, <2>1, <2>3 DEF Signing!Idle, SessionCall
  <2>4. "fail" \in SessionOp /\ "login" \in SessionOp
    BY DEF SessionOp
  <2>. QED BY <1>2, <1>3, <2>1, <2>2, <2>3, <2>4
<1>6. ASSUME NEW p \in Person, Signing!VerifyMfa(r, p)
      PROVE  SessionsInv' /\ UNCHANGED refreshTokens
  BY <1>3, <1>6 DEF Signing!VerifyMfa, Signing!sessions, SessionOp
<1>7. ASSUME NEW p \in Person, Signing!EnableMfa(r, p) \/ Signing!DisableMfa(r, p) \/ Signing!UnlockUser(r, p)
      PROVE  SessionsInv' /\ UNCHANGED refreshTokens
  BY <1>2, <1>7 DEF Signing!EnableMfa, Signing!DisableMfa, Signing!UnlockUser, Signing!sessions, SessionOp
<1>8. ASSUME NEW p \in Person, NEW status \in {"ACTIVE", "INACTIVE"},
             Signing!DeleteUser(r, p) \/ Signing!UpdateStatus(r, p, status)
      PROVE  SessionsInv' /\ UNCHANGED refreshTokens
  BY <1>4, <1>8 DEF Signing!DeleteUser, Signing!UpdateStatus, Signing!sessions
<1>9. ASSUME NEW t \in Signing!Token, Signing!Refresh(r, t)
      PROVE  SessionsInv' /\ UNCHANGED refreshTokens
  <2>1. PICK c : c = [pc |-> "refresh", token |-> t, user |-> refreshTokens[t].user]
    OBVIOUS
  <2>2. Signing!Begin(r, c) /\ t \in Signing!Stored /\ UNCHANGED <<account, refreshTokens, secured>>
    BY <1>9, <2>1 DEF Signing!Refresh, Signing!sessions
  <2>3. refreshTokens[t].user \in Person
    BY DEF SessionsInv, SessionRowsOK, Signing!TokenRow
  <2>4. c \in SessionCall
    BY <2>1, <2>3 DEF SessionCall
  <2>5. KnowsSession(c)
    BY <2>1, <2>2 DEF KnowsSession
  <2>. QED BY <2>2, <2>4, <2>5, SessionsReads
<1>. QED BY <1>5, <1>6, <1>7, <1>8, <1>9

\* A request that ends tokens, and no more.
LEMMA SessionsLeave ==
  ASSUME SessionsInv, NEW r \in Request, NEW S \in SUBSET Signing!Stored,
         Signing!Begin(r, Signing!Idle), refreshTokens' = Signing!End(refreshTokens, S), UNCHANGED <<account, secured>>
  PROVE  SessionsInv' /\ Signing!Ends
<1>. HIDE DEF Signing!Token, SessionCall
<1>1. S \subseteq Signing!Token /\ S \cap Signing!NewTokens = {}
  BY DEF Signing!Stored, Signing!NewTokens
<1>2. /\ call' = [call EXCEPT ![r] = Signing!Idle] /\ calm' \in BOOLEAN
      /\ calm' => calm /\ \A q \in Request \ {r} : call[q].pc = "idle"
  BY SessionsAlone
<1>3. /\ SessionRowsOK' /\ Signing!NewTokens' = Signing!NewTokens /\ Signing!Ends
      /\ SessionsApart => SessionsApart'
  BY <1>1, SessionsEnd DEF SessionsInv
<1>4. calm' => SessionsApart' /\ FactorsAsAsked'
  BY <1>2, <1>3 DEF SessionsInv, SessionsCalm, FactorsAsAsked, Signing!Known
<1>5. KnowsSession(Signing!Idle)' /\ Signing!Idle.pc # "refresh" /\ Signing!Idle \in SessionCall
  BY SessionsShapes DEF KnowsSession
<1>. QED BY <1>2, <1>3, <1>4, <1>5, SessionsStep

LEMMA SessionsFindByEmail ==
  ASSUME SessionsInv, NEW r \in Request, Signing!FindByEmail(r)
  PROVE  SessionsInv' /\ Signing!Ends
<1>. HIDE DEF Signing!Token, SessionCall
<1>1. PICK p : p = call[r].user
  OBVIOUS
<1>2. /\ call[r].pc = "mail" /\ call[r].pc # "idle" /\ p \in Person /\ call[r].op \in SessionOp
      /\ UNCHANGED <<account, secured>>
  BY <1>1, SessionsShapes DEF Signing!FindByEmail, Signing!At
<1>3. CASE Signing!Known(p)
  <2>1. PICK c : c = [pc |-> "read", op |-> call[r].op, user |-> p]
    OBVIOUS
  <2>2. Signing!Goes(r, c) /\ UNCHANGED refreshTokens
    BY <1>1, <1>3, <2>1 DEF Signing!FindByEmail, Signing!Securing
  <2>3. c \in SessionCall /\ KnowsSession(c)
    BY <1>2, <2>1 DEF SessionCall, KnowsSession
  <2>. QED BY <1>2, <2>2, <2>3, SessionsReads DEF Signing!Ends
<1>4. CASE ~Signing!Known(p)
  <2>1. Signing!Goes(r, Signing!Idle)
    BY <1>1, <1>4 DEF Signing!FindByEmail, Signing!Done
  <2>2. Signing!Idle \in SessionCall /\ Signing!Idle.pc = "idle" /\ KnowsSession(Signing!Idle)'
    BY SessionsShapes DEF KnowsSession
  <2>3. CASE call[r].op # "record"
    <3>1. UNCHANGED refreshTokens
      BY <2>3 DEF Signing!FindByEmail
    <3>2. KnowsSession(Signing!Idle)
      BY <2>2 DEF KnowsSession
    <3>. QED BY <1>2, <2>1, <2>2, <3>1, <3>2, SessionsReads DEF Signing!Ends
  <2>4. CASE call[r].op = "record"
    <3>1. Signing!NewTokens # {} /\ refreshTokens' = Signing!Generate(refreshTokens, p, 0)
      BY <1>1, <1>4, <2>4 DEF Signing!FindByEmail
    <3>2. refreshTokens' = Signing!Generate(Signing!End(refreshTokens, {}), p, 0)
      BY <3>1, SessionsEndNone DEF SessionsInv
    <3>3. 0 \notin Signing!NewTokens
      BY DEF Signing!NewTokens, Signing!Token
    <3>4. account' \in [Person -> Signing!AccountRow]
      BY <1>2 DEF SessionsInv, SessionRowsOK
    <3>5. /\ SessionRowsOK' /\ Signing!NewTokens' \subseteq Signing!NewTokens /\ Signing!Ends
          /\ SessionsApart => SessionsApart'
      BY <1>2, <3>1, <3>2, <3>3, <3>4, SessionsGenerate DEF SessionsInv
    <3>6. /\ call' = [call EXCEPT ![r] = Signing!Idle] /\ calm' \in BOOLEAN
          /\ calm' => calm /\ \A q \in Request \ {r} : call[q].pc = "idle"
      BY <1>2, <2>1, SessionsAlone
    <3>7. calm' => SessionsApart' /\ FactorsAsAsked'
      BY <1>2, <3>5, <3>6 DEF SessionsInv, SessionsCalm, FactorsAsAsked, Signing!Known
    <3>. QED BY <2>2, <3>5, <3>6, <3>7, SessionsStep
  <2>. QED BY <2>3, <2>4
<1>. QED BY <1>3, <1>4

LEMMA SessionsReadSecurity ==
  ASSUME SessionsInv, NEW r \in Request, Signing!ReadSecurity(r)
  PROVE  SessionsInv' /\ UNCHANGED refreshTokens
<1>. HIDE DEF Signing!Token, SessionCall
<1>1. PICK p : p = call[r].user
  OBVIOUS
<1>2. /\ call[r].pc = "read" /\ call[r].pc # "idle" /\ p \in Person /\ call[r].op \in SessionOp
      /\ UNCHANGED <<account, refreshTokens, secured>>
  BY <1>1, SessionsShapes DEF Signing!ReadSecurity, Signing!At, Signing!sessions
<1>3. PICK c : c = IF Signing!Known(p) THEN [pc |-> "write", op |-> call[r].op, user |-> p, seen |-> account[p].security]
                   ELSE Signing!Idle
  OBVIOUS
<1>4. Signing!Goes(r, c)
  BY <1>1, <1>3 DEF Signing!ReadSecurity, Signing!Done
<1>5. account[p].security \in Signing!Security
  BY <1>2 DEF SessionsInv, SessionRowsOK, Signing!AccountRow
<1>6. c \in SessionCall
  <2>1. CASE Signing!Known(p)
    BY <1>2, <1>3, <1>5, <2>1 DEF SessionCall
  <2>2. CASE ~Signing!Known(p)
    BY <1>3, <2>2, SessionsShapes
  <2>. QED BY <2>1, <2>2
<1>7. KnowsSession(c)
  <2>1. CASE Signing!Known(p)
    BY <1>3, <2>1 DEF KnowsSession
  <2>2. CASE ~Signing!Known(p)
    BY <1>3, <2>2, SessionsShapes DEF KnowsSession
  <2>. QED BY <2>1, <2>2
<1>. QED BY <1>2, <1>4, <1>6, <1>7, SessionsReads

\* Only the methods for it change the second factor.
LEMMA SecuredFactor ==
  ASSUME NEW op \in SessionOp, NEW s \in Signing!Security
  PROVE  /\ Signing!Secured(op, s) \in Signing!Security
         /\ Signing!Secured(op, s).mfa = IF op = "enable" THEN TRUE ELSE IF op = "disable" THEN FALSE ELSE s.mfa
<1>1. CASE op \in {"login", "record", "reset", "unlock"}
  BY <1>1 DEF Signing!Secured, Signing!Security
<1>2. CASE op = "fail"
  BY <1>2 DEF Signing!Secured, Signing!Security
<1>3. CASE op \in {"enable", "disable"}
  BY <1>3 DEF Signing!Secured, Signing!Security
<1>4. CASE op = "lock"
  BY <1>4 DEF Signing!Secured, Signing!Security
<1>. QED BY <1>1, <1>2, <1>3, <1>4 DEF SessionOp

LEMMA SessionsWriteSecurity ==
  ASSUME SessionsInv, NEW r \in Request, Signing!WriteSecurity(r)
  PROVE  SessionsInv' /\ Signing!Ends
<1>. HIDE DEF Signing!Token, SessionCall, SessionOp, Signing!Security
<1>1. PICK p, op, s : p = call[r].user /\ op = call[r].op /\ s = Signing!Secured(op, call[r].seen)
  OBVIOUS
<1>2. /\ call[r].pc = "write" /\ call[r].pc # "idle" /\ p \in Person /\ op \in SessionOp
      /\ call[r].seen \in Signing!Security
  BY <1>1, SessionsShapes DEF Signing!WriteSecurity, Signing!At
<1>3. s \in Signing!Security /\ s.mfa = IF op = "enable" THEN TRUE ELSE IF op = "disable" THEN FALSE ELSE call[r].seen.mfa
  BY <1>1, <1>2, SecuredFactor
<1>4. PICK row : row = IF Signing!Known(p) THEN [status |-> Signing!StatusAfter(op, account[p].status), security |-> s]
                       ELSE account[p]
  OBVIOUS
<1>5. account' = [account EXCEPT ![p] = row]
  BY <1>1, <1>4 DEF Signing!WriteSecurity
<1>6. account[p] \in Signing!AccountRow
  BY <1>2 DEF SessionsInv, SessionRowsOK
<1>7. Signing!Known(p) =>
        Signing!StatusAfter(op, account[p].status) \in {"ACTIVE", "INACTIVE", "LOCKED", "gone"}
  BY <1>6 DEF Signing!StatusAfter, Signing!AccountRow
<1>8. row \in Signing!AccountRow /\ (Signing!Known(p) => row.security = s) /\ (~Signing!Known(p) => row = account[p])
  <2>1. CASE Signing!Known(p)
    BY <1>3, <1>4, <1>7, <2>1 DEF Signing!AccountRow
  <2>2. CASE ~Signing!Known(p)
    BY <1>4, <1>6, <2>2
  <2>. QED BY <2>1, <2>2
<1>9. account' \in [Person -> Signing!AccountRow] /\ \A q \in Person : account'[q] = IF q = p THEN row ELSE account[q]
  BY <1>2, <1>5, <1>8 DEF SessionsInv, SessionRowsOK
<1>10. secured' = CASE op = "enable" -> secured \cup {p} [] op = "disable" -> secured \ {p} [] OTHER -> secured
  BY <1>1 DEF Signing!WriteSecurity
<1>11. calm /\ FactorsAsAsked => FactorsAsAsked'
  <2>1. \A q \in Person \ {p} : Signing!Known(q)' = Signing!Known(q) /\ account'[q] = account[q] /\ (q \in secured' <=> q \in secured)
    <3>1. CASE op = "enable"
      BY <1>9, <1>10, <3>1 DEF Signing!Known
    <3>2. CASE op = "disable"
      BY <1>9, <1>10, <3>2 DEF Signing!Known
    <3>3. CASE op # "enable" /\ op # "disable"
      BY <1>9, <1>10, <3>3 DEF Signing!Known
    <3>. QED BY <3>1, <3>2, <3>3
  <2>2. ASSUME calm, FactorsAsAsked, Signing!Known(p)' PROVE account'[p].security.mfa <=> p \in secured'
    <3>1. Signing!Known(p) /\ account'[p].security = s
      BY <1>2, <1>8, <1>9, <2>2 DEF Signing!Known
    <3>2. call[r].seen = account[p].security
      BY <1>1, <1>2, <2>2 DEF SessionsInv, SessionsCalm, KnowsSession
    <3>3. call[r].seen.mfa <=> p \in secured
      BY <1>2, <2>2, <3>1, <3>2 DEF FactorsAsAsked
    <3>4. CASE op = "enable"
      BY <1>3, <1>10, <3>1, <3>4
    <3>5. CASE op = "disable"
      BY <1>3, <1>10, <3>1, <3>5
    <3>6. CASE op # "enable" /\ op # "disable"
      BY <1>3, <1>10, <3>1, <3>3, <3>6
    <3>. QED BY <3>4, <3>5, <3>6
  <2>. QED BY <2>1, <2>2 DEF FactorsAsAsked
<1>12. /\ SessionRowsOK' /\ Signing!NewTokens' \subseteq Signing!NewTokens /\ Signing!Ends
       /\ SessionsApart => SessionsApart'
  <2>1. CASE op \in {"login", "reset"}
    <3>1. Signing!NewTokens # {} /\ refreshTokens' = Signing!Generate(refreshTokens, p, 0)
      BY <1>1, <2>1 DEF Signing!WriteSecurity
    <3>2. refreshTokens' = Signing!Generate(Signing!End(refreshTokens, {}), p, 0)
      BY <3>1, SessionsEndNone DEF SessionsInv
    <3>3. 0 \notin Signing!NewTokens
      BY DEF Signing!NewTokens, Signing!Token
    <3>. QED BY <1>2, <1>9, <3>1, <3>2, <3>3, SessionsGenerate DEF SessionsInv
  <2>2. CASE op \notin {"login", "reset"}
    <3>1. UNCHANGED refreshTokens
      BY <1>1, <2>2 DEF Signing!WriteSecurity
    <3>2. Signing!NewTokens' = Signing!NewTokens /\ Signing!Stored' = Signing!Stored
      BY <3>1 DEF Signing!NewTokens, Signing!Stored
    <3>. QED BY <1>9, <3>1, <3>2 DEF SessionsInv, SessionRowsOK, SessionsApart, Signing!SessionOf, Signing!Ends
  <2>. QED BY <2>1, <2>2
<1>13. \E c \in SessionCall : c.pc \in {"read", "idle"} /\ Signing!Goes(r, c)
  <2>1. \/ Signing!Goes(r, Signing!Idle)
        \/ \E then \in {"reset", "lock"} : Signing!Goes(r, [pc |-> "read", op |-> then, user |-> p])
    <3>1. CASE op = "record"
      BY <1>1, <3>1 DEF Signing!WriteSecurity, Signing!Securing
    <3>2. CASE op = "fail" /\ s.failed >= MaxMfaFailed
      BY <1>1, <3>2 DEF Signing!WriteSecurity, Signing!Securing
    <3>3. CASE op # "record" /\ ~(op = "fail" /\ s.failed >= MaxMfaFailed)
      BY <1>1, <3>3 DEF Signing!WriteSecurity, Signing!Done
    <3>. QED BY <3>1, <3>2, <3>3
  <2>2. CASE Signing!Goes(r, Signing!Idle)
    BY <2>2, SessionsShapes
  <2>3. ASSUME NEW then \in {"reset", "lock"}, Signing!Goes(r, [pc |-> "read", op |-> then, user |-> p])
        PROVE  \E c \in SessionCall : c.pc \in {"read", "idle"} /\ Signing!Goes(r, c)
    <3>1. PICK c : c = [pc |-> "read", op |-> then, user |-> p]
      OBVIOUS
    <3>2. c \in SessionCall /\ c.pc = "read"
      BY <1>2, <3>1 DEF SessionCall, SessionOp
    <3>. QED BY <2>3, <3>1, <3>2
  <2>. QED BY <2>1, <2>2, <2>3
<1>14. PICK c \in SessionCall : c.pc \in {"read", "idle"} /\ Signing!Goes(r, c)
  BY <1>13
<1>15. /\ call' = [call EXCEPT ![r] = c] /\ calm' \in BOOLEAN
       /\ calm' => calm /\ \A q \in Request \ {r} : call[q].pc = "idle"
  BY <1>2, <1>14, SessionsAlone
<1>16. KnowsSession(c)' /\ c.pc # "refresh"
  BY <1>14 DEF KnowsSession
<1>17. calm' => SessionsApart' /\ FactorsAsAsked'
  BY <1>11, <1>12, <1>15 DEF SessionsInv, SessionsCalm
<1>. QED BY <1>12, <1>15, <1>16, <1>17, SessionsStep

LEMMA SessionsGetUser ==
  ASSUME SessionsInv, NEW r \in Request, Signing!GetUser(r)
  PROVE  SessionsInv' /\ Signing!Ends
<1>. HIDE DEF Signing!Token, SessionCall
<1>1. PICK p, t : p = call[r].user /\ t = call[r].token
  OBVIOUS
<1>2. /\ call[r].pc = "refresh" /\ call[r].pc # "idle" /\ p \in Person /\ t \in Signing!Token
      /\ UNCHANGED <<account, secured>> /\ Signing!Goes(r, Signing!Idle)
  BY <1>1, SessionsShapes DEF Signing!GetUser, Signing!At, Signing!Done
<1>3. t \notin Signing!NewTokens /\ (calm => t \in Signing!Stored)
  BY <1>1, <1>2 DEF SessionsInv, SessionsCalm, KnowsSession
<1>4. Signing!Idle \in SessionCall /\ Signing!Idle.pc = "idle" /\ KnowsSession(Signing!Idle) /\ KnowsSession(Signing!Idle)'
  BY SessionsShapes DEF KnowsSession
<1>5. CASE account[p].status = "ACTIVE"
  <2>1. Signing!NewTokens # {} /\ refreshTokens' = Signing!Generate(Signing!End(refreshTokens, {t}), p, t)
    BY <1>1, <1>5 DEF Signing!GetUser, Signing!Exchanged
  <2>2. t # 0 /\ {t} \in SUBSET Signing!Token /\ {t} \cap Signing!NewTokens = {}
    BY <1>2, <1>3 DEF Signing!Token
  <2>3. account' \in [Person -> Signing!AccountRow]
    BY <1>2 DEF SessionsInv, SessionRowsOK
  <2>4. /\ SessionRowsOK' /\ Signing!NewTokens' \subseteq Signing!NewTokens /\ Signing!Ends
        /\ SessionsApart /\ t \in Signing!Stored => SessionsApart'
    BY <1>2, <1>3, <2>1, <2>2, <2>3, SessionsGenerate DEF SessionsInv
  <2>5. /\ call' = [call EXCEPT ![r] = Signing!Idle] /\ calm' \in BOOLEAN
        /\ calm' => calm /\ \A q \in Request \ {r} : call[q].pc = "idle"
    BY <1>2, SessionsAlone
  <2>6. calm' => SessionsApart' /\ FactorsAsAsked'
    BY <1>2, <1>3, <2>4, <2>5 DEF SessionsInv, SessionsCalm, FactorsAsAsked, Signing!Known
  <2>. QED BY <1>4, <2>4, <2>5, <2>6, SessionsStep
<1>6. CASE account[p].status # "ACTIVE"
  <2>1. UNCHANGED refreshTokens
    BY <1>1, <1>6 DEF Signing!GetUser, Signing!Refused
  <2>. QED BY <1>2, <1>4, <2>1, SessionsReads DEF Signing!Ends
<1>. QED BY <1>5, <1>6

LEMMA SessionsSetStatus ==
  ASSUME SessionsInv, NEW r \in Request, Signing!SetStatus(r)
  PROVE  SessionsInv' /\ UNCHANGED refreshTokens
<1>. HIDE DEF Signing!Token, SessionCall
<1>1. PICK p : p = call[r].user
  OBVIOUS
<1>2. /\ call[r].pc = "status" /\ call[r].pc # "idle" /\ p \in Person
      /\ call[r].status \in {"ACTIVE", "INACTIVE", "gone"}
      /\ UNCHANGED <<refreshTokens, secured>> /\ Signing!Goes(r, Signing!Idle)
  BY <1>1, SessionsShapes DEF Signing!SetStatus, Signing!At, Signing!Done
<1>3. PICK status : status = IF account[p].status = "gone" THEN "gone" ELSE call[r].status
  OBVIOUS
<1>4. account' = [account EXCEPT ![p].status = status]
  BY <1>1, <1>3 DEF Signing!SetStatus
<1>5. /\ account' \in [Person -> Signing!AccountRow]
      /\ \A q \in Person : account'[q].security = account[q].security
      /\ account'[p].status = status /\ \A q \in Person \ {p} : account'[q] = account[q]
  BY <1>2, <1>3, <1>4 DEF SessionsInv, SessionRowsOK, Signing!AccountRow
<1>6. \A q \in Person : Signing!Known(q)' => Signing!Known(q)
  BY <1>3, <1>5 DEF Signing!Known
<1>7. Signing!NewTokens' = Signing!NewTokens /\ Signing!Stored' = Signing!Stored
  BY <1>2 DEF Signing!NewTokens, Signing!Stored
<1>8. SessionRowsOK'
  BY <1>2, <1>5, <1>7 DEF SessionsInv, SessionRowsOK, Signing!SessionOf
<1>9. /\ call' = [call EXCEPT ![r] = Signing!Idle] /\ calm' \in BOOLEAN
      /\ calm' => calm /\ \A q \in Request \ {r} : call[q].pc = "idle"
  BY <1>2, SessionsAlone
<1>10. calm' => SessionsApart' /\ FactorsAsAsked'
  BY <1>2, <1>5, <1>6, <1>7, <1>9 DEF SessionsInv, SessionsCalm, SessionsApart, FactorsAsAsked, Signing!SessionOf
<1>11. Signing!Idle \in SessionCall /\ Signing!Idle.pc = "idle" /\ KnowsSession(Signing!Idle)'
  BY SessionsShapes DEF KnowsSession
<1>. QED BY <1>2, <1>7, <1>8, <1>9, <1>10, <1>11, SessionsStep

LEMMA SessionsFail ==
  ASSUME SessionsInv, NEW r \in Request, Signing!Fails(r), UNCHANGED Signing!sessions
  PROVE  SessionsInv' /\ UNCHANGED refreshTokens
<1>. HIDE DEF Signing!Token, SessionCall
<1>1. UNCHANGED <<account, refreshTokens, secured>> /\ call' = [call EXCEPT ![r] = Signing!Idle] /\ calm' = FALSE
  BY DEF Signing!Fails, Signing!sessions
<1>2. Signing!NewTokens' = Signing!NewTokens
  BY <1>1 DEF Signing!NewTokens
<1>3. SessionRowsOK'
  BY <1>1, <1>2 DEF SessionsInv, SessionRowsOK, Signing!SessionOf
<1>. QED BY <1>1, <1>2, <1>3, SessionsShapes, SessionsStep

LEMMA SessionsRestart ==
  ASSUME SessionsInv, Signing!Restart
  PROVE  SessionsInv' /\ Signing!Ends
<1>. HIDE DEF Signing!Token, SessionCall
<1>1. /\ UNCHANGED <<account, secured>> /\ call' = [r \in Request |-> Signing!Idle]
      /\ refreshTokens' = Signing!End(refreshTokens, Signing!Stored)
      /\ calm' \in BOOLEAN /\ (calm' => calm)
  BY DEF Signing!Restart, SessionsInv
<1>2. Signing!Stored \in SUBSET Signing!Token /\ Signing!Stored \cap Signing!NewTokens = {}
  BY DEF Signing!Stored, Signing!NewTokens
<1>3. SessionRowsOK' /\ Signing!Ends /\ (SessionsApart => SessionsApart')
  BY <1>1, <1>2, SessionsEnd DEF SessionsInv
<1>4. \A r \in Request : call'[r].pc = "idle" /\ call'[r] \in SessionCall
  <2>1. Signing!Idle \in SessionCall /\ Signing!Idle.pc = "idle"
    BY DEF SessionCall, Signing!Idle
  <2>. QED BY <1>1, <2>1
<1>5. call' \in [Request -> SessionCall]
  BY <1>1, <1>4
<1>6. calm' => SessionsApart' /\ FactorsAsAsked'
  BY <1>1, <1>3 DEF SessionsInv, SessionsCalm, FactorsAsAsked, Signing!Known
<1>7. \A r \in Request : KnowsSession(call[r])'
  BY <1>4 DEF KnowsSession
<1>8. SessionsCalm'
  BY <1>4, <1>6, <1>7 DEF SessionsCalm
<1>. QED BY <1>1, <1>3, <1>4, <1>5, <1>8 DEF SessionsInv

\* What changes nothing that is spoken of here.
LEMMA SessionsStay ==
  ASSUME SessionsInv, UNCHANGED <<account, refreshTokens, secured, call, calm>>
  PROVE  SessionsInv' /\ Signing!Ends
<1>1. Signing!NewTokens' = Signing!NewTokens /\ Signing!Stored' = Signing!Stored
  BY DEF Signing!NewTokens, Signing!Stored
<1>2. SessionRowsOK'
  BY <1>1 DEF SessionsInv, SessionRowsOK, Signing!SessionOf
<1>3. SessionsCalm'
  BY <1>1 DEF SessionsInv, SessionsCalm, SessionsApart, FactorsAsAsked, KnowsSession, Signing!SessionOf, Signing!Known
<1>. QED BY <1>1, <1>2, <1>3 DEF SessionsInv, Signing!Ends

LEMMA SessionsStart == Signing!SessionsInit => SessionsInv
<1>. SUFFICES ASSUME Signing!SessionsInit PROVE SessionsInv
  OBVIOUS
<1>. HIDE DEF SessionCall
<1>1. /\ call = [r \in Request |-> Signing!Idle] /\ calm = TRUE
      /\ account = [p \in Person |-> [status |-> "ACTIVE", security |-> [mfa |-> FALSE, failed |-> 0]]]
      /\ refreshTokens = [t \in Signing!Token |-> Signing!UnbornToken] /\ secured = {}
  BY DEF Signing!SessionsInit, Signing!RequestsInit
<1>2. Signing!Idle \in SessionCall /\ Signing!Idle.pc = "idle"
  BY DEF SessionCall, Signing!Idle
<1>3. \A r \in Request : call[r].pc = "idle" /\ call[r] \in SessionCall
  BY <1>1, <1>2
<1>4. Signing!UnbornToken.state = "unborn"
  BY DEF Signing!UnbornToken
<1>5. Signing!NewTokens = Signing!Token /\ Signing!Stored = {}
  BY <1>1, <1>4 DEF Signing!NewTokens, Signing!Stored
<1>6. \A t \in Signing!Token : Signing!UnbornToken \in Signing!TokenRow
  <2>1. Person # {} => (CHOOSE p \in Person : TRUE) \in Person
    OBVIOUS
  <2>2. \A t \in Signing!Token : 1 \in Signing!Token
    BY RegistryAssumption DEF Signing!Token
  <2>. QED BY <2>1, <2>2, RegistryAssumption DEF Signing!UnbornToken, Signing!TokenRow
<1>7. [status |-> "ACTIVE", security |-> [mfa |-> FALSE, failed |-> 0]] \in Signing!AccountRow
  BY DEF Signing!AccountRow, Signing!Security
<1>8. SessionRowsOK
  BY <1>1, <1>5, <1>6, <1>7 DEF SessionRowsOK
<1>9. FactorsAsAsked /\ SessionsApart
  BY <1>1, <1>5 DEF FactorsAsAsked, SessionsApart
<1>10. SessionsCalm
  BY <1>3, <1>9 DEF SessionsCalm, KnowsSession
<1>. QED BY <1>1, <1>3, <1>8, <1>10 DEF SessionsInv

LEMMA SessionsGoOn ==
  SessionsInv /\ [Signing!SessionsNext]_<<sessions, requests>> => SessionsInv' /\ Signing!Ends
<1>. SUFFICES ASSUME SessionsInv, [Signing!SessionsNext]_<<sessions, requests>> PROVE SessionsInv' /\ Signing!Ends
  OBVIOUS
<1>. HIDE DEF Signing!Token
<1>1. UNCHANGED refreshTokens => Signing!Ends
  BY DEF Signing!Ends
<1>2. ASSUME NEW r \in Request, NEW t \in Signing!Token, Signing!Logout(r, t) PROVE SessionsInv' /\ Signing!Ends
  <2>1. {t} \in SUBSET Signing!Stored
    BY <1>2 DEF Signing!Logout
  <2>. QED BY <1>2, <2>1, SessionsLeave DEF Signing!Logout
<1>3. ASSUME NEW r \in Request, NEW p \in Person, Signing!LogoutAllDevices(r, p) PROVE SessionsInv' /\ Signing!Ends
  BY <1>3, SessionsLeave DEF Signing!LogoutAllDevices
<1>4. ASSUME NEW p \in Person, Signing!ChallengeExpires(p) PROVE SessionsInv' /\ Signing!Ends
  BY <1>4, SessionsStay DEF Signing!ChallengeExpires, Signing!requests
<1>5. CASE UNCHANGED <<sessions, requests>>
  BY <1>5, SessionsStay DEF sessions, requests
<1>6. CASE Signing!Restart
  BY <1>6, SessionsRestart
<1>. QED BY <1>1, <1>2, <1>3, <1>4, <1>5, <1>6, SessionsAsk, SessionsFindByEmail, SessionsReadSecurity,
            SessionsWriteSecurity, SessionsGetUser, SessionsSetStatus, SessionsFail DEF Signing!SessionsNext

LEMMA SessionsHold ==
  SessionsInv => Signing!OneTokenPerSession /\ Signing!MfaAsAsked
BY DEF SessionsInv, SessionsCalm, SessionsApart, FactorsAsAsked, Signing!OneTokenPerSession, Signing!MfaAsAsked,
       Signing!Settled

\* However exchanges, logins, logouts and restarts overlap, a refresh token that was ended
\* is not good again; one after the other, an exchange leaves its session one good token,
\* and a user the second factor it was last asked to have, although every method writes
\* the whole column back.
THEOREM SessionsCorrect == Spec => SessionsConsistent
<1>. DEFINE Inv == active = "sessions" => SessionsInv
<1>1. Init => Inv
  BY SessionsStart DEF Init
<1>2. Inv /\ [Next]_vars => Inv' /\ [active = "sessions" => Signing!Ends]_vars
  <2>1. [Next]_vars => active' = active /\ (active = "sessions" => [Signing!SessionsNext]_<<sessions, requests>>)
    BY DEF Next, vars
  <2>. QED BY <2>1, SessionsGoOn
<1>3. Inv => (active = "sessions" => Signing!OneTokenPerSession /\ Signing!MfaAsAsked)
  BY SessionsHold
<1>. QED BY <1>1, <1>2, <1>3, PTL DEF Spec, SessionsConsistent

-----------------------------------------------------------------------------
\* Users

\* The methods that an operation has still to call, and what is left after the first.
UserSteps ==
  {<<"password">>, <<"invite">>, <<"password", "invite">>, <<"reset">>, <<"password", "clear">>, <<"clear">>,
   <<"verify">>, <<"password", "verify", "accept">>, <<"verify", "accept">>, <<"login">>,
   <<"confirm">>, <<"approve">>, <<"reject">>, <<"lock">>, <<"unlock">>}

UserCall ==
  {Directory!Idle}
    \cup [pc : {"insert"}, email : Email, name : Username \cup {Directory!None}, password : {0, 1}, free : BOOLEAN]
    \cup [pc : {"read"}, steps : UserSteps, user : Directory!UserId, password : {0} \cup Directory!Password]
    \cup [pc : {"write"}, steps : UserSteps, user : Directory!UserId, password : {0} \cup Directory!Password,
          seen : Directory!UserRow]
    \cup [pc : {"accept", "delete"}, user : Directory!UserId]
    \cup [pc : {"name", "look"}, user : Directory!UserId, name : Username \cup {Directory!None},
          field : SUBSET Request, status : {Directory!None, "ACTIVE", "INACTIVE"}]
    \cup [pc : {"save"}, user : Directory!UserId, name : Username \cup {Directory!None},
          field : SUBSET Request, status : {Directory!None, "ACTIVE", "INACTIVE"}, seen : Directory!UserRow]

\* The operations that still have to set a password, to clear a link and to verify an email.
PasswordSteps ==
  {<<"password">>, <<"password", "invite">>, <<"password", "clear">>, <<"password", "verify", "accept">>, <<"unlock">>}
ClearSteps == {<<"password", "clear">>, <<"clear">>}
VerifySteps == {<<"verify">>, <<"password", "verify", "accept">>, <<"verify", "accept">>}

\* The operation of c for user u is one of S.
Does(c, u, S) == c.pc \in {"read", "write"} /\ c.user = u /\ c.steps \in S

\* The rows: what was given to a user whose version never went back is there, and no token is held or accepted that was not generated.
UserRowsOK ==
  /\ person \in [Directory!UserId -> Directory!UserRow]
  /\ issued \in 0 .. MaxLinks /\ spent \subseteq 1 .. issued
  /\ chosen \in [Directory!UserId -> {0} \cup Directory!Password]
  /\ filled \in [Directory!UserId -> SUBSET Request]
  /\ \A u \in Directory!UserId :
       /\ u \notin rewound => filled[u] \subseteq person[u].fields
       /\ person[u].state = "unborn" => filled[u] = {}
       /\ person[u].security.verification =< issued /\ person[u].security.reset =< issued

\* What a request has read may be old, but is not of another row or from the future.
Behind(c) ==
  /\ c.pc = "write" => c.seen.security.verification =< issued /\ c.seen.security.reset =< issued
  /\ c.pc = "save" =>
       /\ person[c.user].state # "unborn"
       /\ c.user \notin rewound =>
            /\ c.seen.version =< person[c.user].version
            /\ c.seen.version = person[c.user].version => c.seen.fields = person[c.user].fields

\* What a request that nothing overlaps has read is so.
KnowsUser(c) ==
  /\ c.pc = "write" => c.seen = person[c.user]
  /\ c.pc \in {"read", "write"} /\ c.steps \in PasswordSteps => c.password = chosen[c.user]
  /\ c.pc = "insert" /\ c.free /\ c.name # Directory!None => Directory!Named(c.name) = {}
  /\ c.pc \in {"look", "save"} /\ c.name # Directory!None => Directory!Named(c.name) \subseteq {c.user}

\* No two links carry the same token, and no two users the same name.
UsersApart ==
  \A u, v \in Directory!UserId : Directory!There(u) /\ Directory!There(v) =>
    /\ person[u].security.verification = person[v].security.verification =>
         u = v \/ person[u].security.verification = 0
    /\ person[u].security.reset = person[v].security.reset => u = v \/ person[u].security.reset = 0
    /\ person[u].security.verification = person[v].security.reset => person[u].security.verification = 0
    /\ person[u].username = person[v].username => u = v \/ person[u].username = Directory!None

\* What is not as it should be for user u is what the operation of c still has to do.
SoundBy(u, c) ==
  /\ person[u].security.verification \in spent => Does(c, u, VerifySteps)
  /\ person[u].security.reset \in spent => Does(c, u, ClearSteps)
  /\ person[u].security.password # chosen[u] => Does(c, u, PasswordSteps)

UsersSound(u) ==
  /\ person[u].security.verification \in spent => \E r \in Request : Does(call[r], u, VerifySteps)
  /\ person[u].security.reset \in spent => \E r \in Request : Does(call[r], u, ClearSteps)
  /\ person[u].security.password # chosen[u] => \E r \in Request : Does(call[r], u, PasswordSteps)

UsersCalm ==
  calm =>
    /\ \A q, r \in Request : call[q].pc # "idle" /\ call[r].pc # "idle" => q = r
    /\ \A r \in Request : KnowsUser(call[r])
    /\ UsersApart
    /\ \A u \in Directory!UserId : Directory!There(u) => UsersSound(u)

UsersInv ==
  /\ UserRowsOK
  /\ call \in [Request -> UserCall]
  /\ \A r \in Request : Behind(call[r])
  /\ calm \in BOOLEAN
  /\ UsersCalm

\* A list of one after a list of none, and after a list of one.
LEMMA OneAfter ==
  ASSUME NEW a, NEW b
  PROVE  <<>> \o <<b>> = <<b>> /\ <<a>> \o <<b>> = <<a, b>>
<1>1. PICK s : s = <<a, b>>
  OBVIOUS
<1>2. s \in Seq({a, b}) /\ Len(s) = 2 /\ s[1] = a /\ s[2] = b
  BY <1>1
<1>3. PICK t : t = <<a>> \o <<b>>
  OBVIOUS
<1>4. t \in Seq({a, b}) /\ Len(t) = 2 /\ t[1] = a /\ t[2] = b
  BY <1>3
<1>5. s = t
  BY <1>2, <1>4, SeqEqual
<1>6. <<b>> \in Seq({b})
  OBVIOUS
<1>7. <<>> \o <<b>> = <<b>>
  BY <1>6, ConcatEmptySeq
<1>. QED BY <1>1, <1>3, <1>5, <1>7

\* The methods that write the security column.
UserMethods ==
  {"password", "invite", "reset", "clear", "verify", "login", "confirm", "approve", "reject", "lock", "unlock"}

\* The operations, one method after the other.
LEMMA StepsOf ==
  ASSUME NEW s \in UserSteps
  PROVE  /\ Head(s) \in UserMethods
         /\ Tail(s) \in UserSteps \cup {<<>>, <<"accept">>} /\ Tail(s) \notin PasswordSteps
         /\ s \in PasswordSteps <=> Head(s) \in {"password", "unlock"}
         /\ s \in ClearSteps /\ Head(s) # "clear" => Tail(s) \in ClearSteps
         /\ s \in VerifySteps /\ Head(s) # "verify" => Tail(s) \in VerifySteps
         /\ Tail(s) \in VerifySteps => s \in VerifySteps
<1>1. CASE s = <<"password", "invite">>
  BY <1>1 DEF UserMethods, UserSteps, PasswordSteps, ClearSteps, VerifySteps
<1>2. CASE s = <<"password", "clear">>
  BY <1>2 DEF UserMethods, UserSteps, PasswordSteps, ClearSteps, VerifySteps
<1>3. CASE s = <<"password", "verify", "accept">>
  BY <1>3 DEF UserMethods, UserSteps, PasswordSteps, ClearSteps, VerifySteps
<1>4. CASE s = <<"verify", "accept">>
  BY <1>4 DEF UserMethods, UserSteps, PasswordSteps, ClearSteps, VerifySteps
<1>5. CASE s = <<"password">>
  BY <1>5 DEF UserMethods, UserSteps, PasswordSteps, ClearSteps, VerifySteps
<1>6. CASE s = <<"invite">>
  BY <1>6 DEF UserMethods, UserSteps, PasswordSteps, ClearSteps, VerifySteps
<1>7. CASE s = <<"reset">>
  BY <1>7 DEF UserMethods, UserSteps, PasswordSteps, ClearSteps, VerifySteps
<1>8. CASE s = <<"clear">>
  BY <1>8 DEF UserMethods, UserSteps, PasswordSteps, ClearSteps, VerifySteps
<1>9. CASE s = <<"verify">>
  BY <1>9 DEF UserMethods, UserSteps, PasswordSteps, ClearSteps, VerifySteps
<1>10. CASE s = <<"login">>
  BY <1>10 DEF UserMethods, UserSteps, PasswordSteps, ClearSteps, VerifySteps
<1>11. CASE s = <<"confirm">>
  BY <1>11 DEF UserMethods, UserSteps, PasswordSteps, ClearSteps, VerifySteps
<1>12. CASE s = <<"unlock">>
  BY <1>12 DEF UserMethods, UserSteps, PasswordSteps, ClearSteps, VerifySteps
<1>13. CASE s = <<"approve">>
  BY <1>13 DEF UserMethods, UserSteps, PasswordSteps, ClearSteps, VerifySteps
<1>14. CASE s = <<"reject">>
  BY <1>14 DEF UserMethods, UserSteps, PasswordSteps, ClearSteps, VerifySteps
<1>15. CASE s = <<"lock">>
  BY <1>15 DEF UserMethods, UserSteps, PasswordSteps, ClearSteps, VerifySteps
<1>. QED BY <1>1, <1>2, <1>3, <1>4, <1>5, <1>6, <1>7, <1>8, <1>9, <1>10, <1>11, <1>12, <1>13, <1>14, <1>15
    DEF UserSteps

LEMMA UsersShapes ==
  ASSUME UsersInv, NEW r \in Request
  PROVE  /\ call[r] \in UserCall
         /\ Directory!Idle.pc = "idle" /\ Directory!Idle \in UserCall
         /\ Behind(Directory!Idle) /\ KnowsUser(Directory!Idle)
         /\ call[r].pc = "insert" =>
              /\ call[r].email \in Email /\ call[r].name \in Username \cup {Directory!None}
              /\ call[r].password \in {0, 1} /\ call[r].free \in BOOLEAN
         /\ call[r].pc \in {"read", "write"} =>
              call[r].steps \in UserSteps /\ call[r].password \in {0} \cup Directory!Password
         /\ call[r].pc \in {"read", "write", "accept", "delete", "name", "look", "save"} =>
              call[r].user \in Directory!UserId
         /\ call[r].pc \in {"name", "look", "save"} =>
              /\ call[r].name \in Username \cup {Directory!None} /\ call[r].field \in SUBSET Request
              /\ call[r].status \in {Directory!None, "ACTIVE", "INACTIVE"}
         /\ call[r].pc \in {"write", "save"} => call[r].seen \in Directory!UserRow
<1>1. call[r] \in UserCall
  <2>. HIDE DEF UserCall
  <2>. QED BY DEF UsersInv
<1>2. Directory!Idle.pc = "idle" /\ Directory!Idle \in UserCall
  BY DEF Directory!Idle, UserCall
<1>. HIDE DEF Directory!UserId, Directory!Password, Directory!Security, Directory!UserRow, Directory!None, UserSteps
<1>3. Behind(Directory!Idle) /\ KnowsUser(Directory!Idle)
  BY <1>2 DEF Behind, KnowsUser
<1>4. CASE call[r].pc \in {"insert", "read", "write", "accept", "delete"}
  BY <1>1, <1>2, <1>3, <1>4 DEF UserCall
<1>5. CASE call[r].pc \in {"name", "look", "save"}
  BY <1>1, <1>2, <1>3, <1>5 DEF UserCall
<1>6. CASE call[r].pc \notin {"insert", "read", "write", "accept", "delete", "name", "look", "save"}
  BY <1>1, <1>2, <1>3, <1>6 DEF UserCall
<1>. QED BY <1>4, <1>5, <1>6

LEMMA UsersAlone ==
  ASSUME UsersInv, NEW r \in Request, NEW c,
         \/ Directory!Begin(r, c)
         \/ call[r].pc # "idle" /\ Directory!Goes(r, c)
  PROVE  /\ call' = [call EXCEPT ![r] = c] /\ calm' \in BOOLEAN
         /\ calm' => calm /\ \A q \in Request \ {r} : call[q].pc = "idle"
<1>1. CASE Directory!Begin(r, c)
  BY <1>1 DEF Directory!Begin, Directory!At, UsersInv
<1>2. CASE call[r].pc # "idle" /\ Directory!Goes(r, c)
  <2>1. calm' = calm /\ call' = [call EXCEPT ![r] = c]
    BY <1>2 DEF Directory!Goes
  <2>2. calm => \A q \in Request \ {r} : call[q].pc = "idle"
    BY <1>2 DEF UsersInv, UsersCalm
  <2>. QED BY <2>1, <2>2 DEF UsersInv
<1>. QED BY <1>1, <1>2

\* A request that is alone answers for every user.
LEMMA UsersAnswer ==
  ASSUME UsersInv, NEW r \in Request, calm, \A q \in Request \ {r} : call[q].pc = "idle",
         NEW u \in Directory!UserId, Directory!There(u)
  PROVE  SoundBy(u, call[r])
<1>. HIDE DEF Directory!UserId
<1>1. UsersSound(u)
  BY DEF UsersInv, UsersCalm
<1>2. \A q \in Request \ {r} : ~ Does(call[q], u, VerifySteps) /\ ~ Does(call[q], u, ClearSteps) /\ ~ Does(call[q], u, PasswordSteps)
  BY DEF Does
<1>. QED BY <1>1, <1>2 DEF UsersSound, SoundBy

\* No version goes back but those of the users that have been noted, and with it no field.
RowsGoOn ==
  /\ rewound \subseteq rewound'
  /\ \A u \in Directory!UserId : person[u].state # "unborn" =>
       /\ person'[u].state # "unborn"
       /\ u \notin rewound' =>
            /\ person[u].version =< person'[u].version
            /\ person'[u].version = person[u].version => person'[u].fields = person[u].fields

\* A statement that writes no row.
LEMMA RowsStay ==
  ASSUME UserRowsOK, UNCHANGED <<person, rewound>>
  PROVE  RowsGoOn
<1>. HIDE DEF Directory!UserId
<1>1. \A u \in Directory!UserId : person[u].version \in Nat
  BY DEF UserRowsOK, Directory!UserRow
<1>. QED BY <1>1 DEF RowsGoOn

\* What a request leaves when it has written its rows well.
LEMMA UsersStep ==
  ASSUME UsersInv, NEW r \in Request, NEW c \in UserCall, call' = [call EXCEPT ![r] = c], calm' \in BOOLEAN,
         calm' => calm /\ \A q \in Request \ {r} : call[q].pc = "idle",
         UserRowsOK', issued =< issued', RowsGoOn,
         Behind(c)',
         calm' => /\ KnowsUser(c)' /\ UsersApart'
                  /\ \A u \in Directory!UserId : Directory!There(u)' => SoundBy(u, c)'
  PROVE  UsersInv'
<1>. HIDE DEF UserCall, Directory!UserId, Directory!UserRow, Directory!Security
<1>1. call' \in [Request -> UserCall] /\ \A q \in Request : call'[q] = IF q = r THEN c ELSE call[q]
  BY DEF UsersInv
<1>2. ASSUME NEW q \in Request, q # r PROVE Behind(call[q])'
  <2>1. call'[q] = call[q]
    BY <1>1, <1>2
  <2>2. CASE call[q].pc = "write"
    <3>1. /\ call[q].seen.security.verification \in Nat /\ call[q].seen.security.reset \in Nat
          /\ Behind(call[q])
      BY <2>2, UsersShapes DEF UsersInv, Directory!UserRow, Directory!Security, Directory!Link
    <3>. QED BY <2>1, <2>2, <3>1 DEF Behind, UsersInv, UserRowsOK
  <2>3. CASE call[q].pc = "save"
    <3>1. call[q].user \in Directory!UserId /\ call[q].seen.version \in Nat /\ Behind(call[q])
      BY <2>3, UsersShapes DEF UsersInv, Directory!UserRow
    <3>2. person[call[q].user].version \in Nat /\ person'[call[q].user].version \in Nat
      BY <3>1 DEF UsersInv, UserRowsOK, Directory!UserRow
    <3>. QED BY <2>1, <2>3, <3>1, <3>2 DEF Behind, RowsGoOn
  <2>4. CASE call[q].pc \notin {"write", "save"}
    BY <2>1, <2>4 DEF Behind
  <2>. QED BY <2>2, <2>3, <2>4
<1>3. \A q \in Request : Behind(call[q])'
  <2>1. Behind(call[r])'
    BY <1>1
  <2>. QED BY <1>2, <2>1
<1>4. ASSUME calm' PROVE UsersCalm'
  <2>1. \A q, s \in Request : call'[q].pc # "idle" /\ call'[s].pc # "idle" => q = s
    BY <1>1, <1>4
  <2>2. ASSUME NEW q \in Request PROVE KnowsUser(call[q])'
    <3>1. CASE q = r
      BY <1>1, <1>4, <3>1
    <3>2. CASE q # r
      BY <1>1, <1>4, <3>2 DEF KnowsUser
    <3>. QED BY <3>1, <3>2
  <2>3. ASSUME NEW u \in Directory!UserId, Directory!There(u)' PROVE UsersSound(u)'
    BY <1>1, <1>4, <2>3 DEF SoundBy, UsersSound
  <2>. QED BY <1>4, <2>1, <2>2, <2>3 DEF UsersCalm
<1>5. UsersCalm'
  BY <1>4 DEF UsersCalm
<1>. QED BY <1>1, <1>3, <1>5 DEF UsersInv

\* What a request that writes no row, and accepts no link, leaves.
LEMMA UsersReads ==
  ASSUME UsersInv, NEW r \in Request, NEW c \in UserCall, UNCHANGED <<person, issued, spent, filled, chosen, rewound>>,
         \/ Directory!Begin(r, c)
         \/ call[r].pc # "idle" /\ Directory!Goes(r, c),
         Behind(c),
         calm => KnowsUser(c),
         calm => \A u \in Directory!UserId : Directory!There(u) /\ SoundBy(u, call[r]) => SoundBy(u, c)
  PROVE  UsersInv'
<1>. HIDE DEF UserCall, Directory!UserId, Directory!UserRow, Directory!Security
<1>1. /\ call' = [call EXCEPT ![r] = c] /\ calm' \in BOOLEAN
      /\ calm' => calm /\ \A q \in Request \ {r} : call[q].pc = "idle"
  BY UsersAlone
<1>2. \A u : Directory!There(u)' = Directory!There(u)
  BY DEF Directory!There
<1>3. UserRowsOK' /\ UsersApart' = UsersApart /\ Behind(c)'
  <2>1. UserRowsOK'
    BY DEF UsersInv, UserRowsOK
  <2>. QED BY <1>2, <2>1 DEF UsersApart, Behind
<1>4. calm' => KnowsUser(c)'
  <2>1. \A n : Directory!Named(n)' = Directory!Named(n)
    BY <1>2 DEF Directory!Named
  <2>. QED BY <1>1, <2>1 DEF KnowsUser
<1>5. calm' => \A u \in Directory!UserId : Directory!There(u)' => SoundBy(u, c)'
  <2>1. \A u : SoundBy(u, c)' <=> SoundBy(u, c)
    BY DEF SoundBy
  <2>. QED BY <1>1, <1>2, <2>1, UsersAnswer
<1>6. calm' => UsersApart'
  BY <1>1, <1>3 DEF UsersInv, UsersCalm
<1>7. issued =< issued'
  BY DEF UsersInv, UserRowsOK
<1>8. RowsGoOn
  BY RowsStay DEF UsersInv
<1>. QED BY <1>1, <1>3, <1>4, <1>5, <1>6, <1>7, <1>8, UsersStep

\* What an operation that has not begun leaves to be done.
LEMMA UsersReadsMore ==
  ASSUME UsersInv, NEW r \in Request, NEW c \in UserCall, UNCHANGED <<person, issued, spent, filled, chosen, rewound>>,
         \/ Directory!Begin(r, c)
         \/ call[r].pc \notin {"idle", "read", "write"} /\ Directory!Goes(r, c),
         Behind(c),
         calm => KnowsUser(c)
  PROVE  UsersInv'
<1>1. \A u : SoundBy(u, call[r]) => SoundBy(u, c)
  BY DEF SoundBy, Does, Directory!Begin, Directory!At
<1>. QED BY <1>1, UsersReads

LEMMA UsersAsk ==
  ASSUME UsersInv, NEW r \in Request,
         \/ \E e \in Email, name \in Username \cup {Directory!None}, p \in {0, 1} : Directory!Create(r, e, name, p)
         \/ \E u \in Directory!UserId :
              \/ Directory!RequestPasswordReset(r, u) \/ Directory!RecordLogin(r, u) \/ Directory!DeleteUser(r, u)
              \/ \E step \in DOMAIN Directory!Asked \ {"unlock"} : Directory!Decide(r, u, step)
              \/ \E name \in Username \cup {Directory!None} : Directory!Update(r, u, name)
              \/ \E status \in {"ACTIVE", "INACTIVE"} : Directory!UpdateStatus(r, u, status)
  PROVE  UsersInv'
<1>. HIDE DEF Directory!UserId, UserCall, Directory!None, UserSteps, Directory!Password
<1>. DEFINE Asks(c) == Directory!Begin(r, c) /\ UNCHANGED <<person, issued, spent, filled, chosen, rewound>>
<1>1. ASSUME NEW e \in Email, NEW name \in Username \cup {Directory!None}, NEW p \in {0, 1}, Directory!Create(r, e, name, p)
      PROVE  UsersInv'
  <2>1. PICK c : c = [pc |-> "insert", email |-> e, name |-> name, password |-> p, free |-> name = Directory!None]
    OBVIOUS
  <2>2. Asks(c)
    BY <1>1, <2>1 DEF Directory!Create, Directory!users
  <2>3. c \in UserCall
    BY <2>1 DEF UserCall
  <2>4. Behind(c) /\ KnowsUser(c)
    BY <2>1 DEF Behind, KnowsUser
  <2>. QED BY <2>2, <2>3, <2>4, UsersReadsMore
<1>2. ASSUME NEW u \in Directory!UserId, NEW steps \in {<<"reset">>, <<"login">>, <<"confirm">>, <<"approve">>, <<"reject">>, <<"lock">>},
             Asks(Directory!Securing(steps, u, 0))
      PROVE  UsersInv'
  <2>1. PICK c : c = [pc |-> "read", steps |-> steps, user |-> u, password |-> 0]
    OBVIOUS
  <2>2. Asks(c)
    BY <1>2, <2>1 DEF Directory!Securing
  <2>3. steps \in UserSteps /\ steps \notin PasswordSteps
    BY DEF UserSteps, PasswordSteps
  <2>4. c \in UserCall
    BY <2>1, <2>3 DEF UserCall
  <2>5. Behind(c) /\ KnowsUser(c)
    BY <2>1, <2>3 DEF Behind, KnowsUser
  <2>. QED BY <2>2, <2>4, <2>5, UsersReadsMore
<1>3. ASSUME NEW u \in Directory!UserId, Directory!RequestPasswordReset(r, u) PROVE UsersInv'
  BY <1>2, <1>3 DEF Directory!RequestPasswordReset, Directory!users
<1>4. ASSUME NEW u \in Directory!UserId, Directory!RecordLogin(r, u) PROVE UsersInv'
  BY <1>2, <1>4 DEF Directory!RecordLogin, Directory!users
<1>5. ASSUME NEW u \in Directory!UserId, Directory!DeleteUser(r, u) PROVE UsersInv'
  <2>1. PICK c : c = [pc |-> "delete", user |-> u]
    OBVIOUS
  <2>2. Asks(c)
    BY <1>5, <2>1 DEF Directory!DeleteUser, Directory!users
  <2>3. c \in UserCall
    BY <2>1 DEF UserCall
  <2>4. Behind(c) /\ KnowsUser(c)
    BY <2>1 DEF Behind, KnowsUser
  <2>. QED BY <2>2, <2>3, <2>4, UsersReadsMore
<1>6. ASSUME NEW u \in Directory!UserId, NEW name \in Username \cup {Directory!None}, Directory!Update(r, u, name) PROVE UsersInv'
  <2>1. PICK pc : pc = IF name \in {Directory!None, person[u].username} THEN "look" ELSE "name"
    OBVIOUS
  <2>2. PICK c : c = [pc |-> pc, user |-> u, name |-> name, field |-> {r}, status |-> Directory!None]
    OBVIOUS
  <2>3. Asks(c) /\ Directory!There(u)
    BY <1>6, <2>1, <2>2 DEF Directory!Update, Directory!users
  <2>4. c \in UserCall
    BY <2>1, <2>2 DEF UserCall
  <2>5. Behind(c)
    BY <2>1, <2>2 DEF Behind
  <2>6. calm => (pc = "look" /\ name # Directory!None => Directory!Named(name) \subseteq {u})
    BY <2>1, <2>3 DEF UsersInv, UsersCalm, UsersApart, Directory!Named
  <2>7. calm => KnowsUser(c)
    BY <2>1, <2>2, <2>6 DEF KnowsUser
  <2>. QED BY <2>3, <2>4, <2>5, <2>7, UsersReadsMore
<1>7. ASSUME NEW u \in Directory!UserId, NEW status \in {"ACTIVE", "INACTIVE"}, Directory!UpdateStatus(r, u, status) PROVE UsersInv'
  <2>1. PICK c : c = [pc |-> "look", user |-> u, name |-> Directory!None, field |-> {}, status |-> status]
    OBVIOUS
  <2>2. Asks(c)
    BY <1>7, <2>1 DEF Directory!UpdateStatus, Directory!users
  <2>3. c \in UserCall
    BY <2>1 DEF UserCall
  <2>4. Behind(c) /\ KnowsUser(c)
    BY <2>1 DEF Behind, KnowsUser
  <2>. QED BY <2>2, <2>3, <2>4, UsersReadsMore
<1>8. ASSUME NEW u \in Directory!UserId, NEW step \in DOMAIN Directory!Asked \ {"unlock"}, Directory!Decide(r, u, step)
      PROVE  UsersInv'
  <2>1. step \in {"confirm", "approve", "reject", "lock"}
    BY DEF Directory!Asked
  <2>2. PICK steps : steps = <<step>>
    OBVIOUS
  <2>3. Asks(Directory!Securing(steps, u, 0))
    BY <1>8, <2>2 DEF Directory!Decide, Directory!users
  <2>4. steps \in {<<"reset">>, <<"login">>, <<"confirm">>, <<"approve">>, <<"reject">>, <<"lock">>}
    BY <2>1, <2>2
  <2>. QED BY <1>2, <2>3, <2>4
<1>. QED BY <1>1, <1>3, <1>4, <1>5, <1>6, <1>7, <1>8

\* No user but u holds a token of T, and steps use it up.
LinksOf(T, u, steps) ==
  \A v \in Directory!UserId : Directory!There(v) =>
    /\ person[v].security.verification \in T => v = u /\ steps \in VerifySteps
    /\ person[v].security.reset \in T => v = u /\ steps \in ClearSteps

\* A request that asks for a password, or shows the token of a link, is to do what that asks for.
LEMMA UsersPromise ==
  ASSUME UsersInv, NEW r \in Request, NEW u \in Directory!UserId, NEW steps \in UserSteps,
         NEW p \in {0} \cup Directory!Password, Directory!Begin(r, Directory!Securing(steps, u, p)),
         UNCHANGED <<person, issued, filled, rewound>>,
         chosen' = IF steps \in PasswordSteps THEN [chosen EXCEPT ![u] = p] ELSE chosen,
         NEW T \in SUBSET (1 .. issued), spent' = spent \cup T,
         calm => LinksOf(T, u, steps)
  PROVE  UsersInv'
<1>. HIDE DEF UserCall, Directory!UserId, Directory!UserRow, Directory!Security, UserSteps, Directory!Password,
              PasswordSteps, VerifySteps, ClearSteps
<1>1. PICK c : c = [pc |-> "read", steps |-> steps, user |-> u, password |-> p]
  OBVIOUS
<1>2. Directory!Begin(r, c) /\ call[r].pc = "idle"
  BY <1>1 DEF Directory!Securing, Directory!Begin, Directory!At
<1>3. /\ call' = [call EXCEPT ![r] = c] /\ calm' \in BOOLEAN
      /\ calm' => calm /\ \A q \in Request \ {r} : call[q].pc = "idle"
  BY <1>2, UsersAlone
<1>4. c \in UserCall
  BY <1>1 DEF UserCall
<1>5. chosen' \in [Directory!UserId -> {0} \cup Directory!Password]
      /\ \A v \in Directory!UserId : chosen'[v] = IF v = u /\ steps \in PasswordSteps THEN p ELSE chosen[v]
  BY DEF UsersInv, UserRowsOK
<1>6. UserRowsOK'
  BY <1>5 DEF UsersInv, UserRowsOK
<1>7. \A v : Directory!There(v)' = Directory!There(v)
  BY DEF Directory!There
<1>8. calm' => UsersApart'
  BY <1>3, <1>7 DEF UsersInv, UsersCalm, UsersApart
<1>9. Behind(c)' /\ KnowsUser(c)'
  BY <1>1, <1>5 DEF Behind, KnowsUser
<1>10. ASSUME calm', NEW v \in Directory!UserId, Directory!There(v)' PROVE SoundBy(v, c)'
  <2>1. SoundBy(v, call[r]) /\ Directory!There(v)
    BY <1>3, <1>7, <1>10, UsersAnswer
  <2>2. /\ person[v].security.verification \notin spent /\ person[v].security.reset \notin spent
        /\ person[v].security.password = chosen[v]
    BY <1>2, <2>1 DEF SoundBy, Does
  <2>3. \A S : v = u /\ steps \in S => Does(c, v, S)
    BY <1>1 DEF Does
  <2>4. person'[v].security.verification \in spent' => Does(c, v, VerifySteps)
    BY <1>3, <1>10, <2>1, <2>2, <2>3 DEF LinksOf
  <2>5. person'[v].security.reset \in spent' => Does(c, v, ClearSteps)
    BY <1>3, <1>10, <2>1, <2>2, <2>3 DEF LinksOf
  <2>6. person'[v].security.password # chosen'[v] => Does(c, v, PasswordSteps)
    BY <1>5, <2>2, <2>3
  <2>. QED BY <2>4, <2>5, <2>6 DEF SoundBy
<1>11. RowsGoOn
  BY RowsStay DEF UsersInv
<1>12. issued =< issued'
  BY DEF UsersInv, UserRowsOK
<1>. QED BY <1>3, <1>4, <1>6, <1>8, <1>9, <1>10, <1>11, <1>12, UsersStep

LEMMA UsersChangePassword ==
  ASSUME UsersInv, NEW r \in Request, NEW u \in Directory!UserId, NEW p \in Directory!Password,
         Directory!ChangePassword(r, u, p) \/ Directory!ResetByCode(r, u, p)
  PROVE  UsersInv'
<1>. HIDE DEF Directory!UserId, Directory!Password
<1>1. {<<"password">>, <<"unlock">>} \subseteq UserSteps \cap PasswordSteps
  BY DEF UserSteps, PasswordSteps
<1>. HIDE DEF UserSteps, PasswordSteps
<1>2. PICK steps, T : steps = (IF Directory!ChangePassword(r, u, p) THEN <<"password">> ELSE <<"unlock">>) /\ T = {}
  OBVIOUS
<1>3. /\ Directory!Begin(r, Directory!Securing(steps, u, p)) /\ spent' = spent \cup T
      /\ UNCHANGED <<person, issued, filled, rewound>>
      /\ chosen' = IF steps \in PasswordSteps THEN [chosen EXCEPT ![u] = p] ELSE chosen
  BY <1>1, <1>2 DEF Directory!ChangePassword, Directory!ResetByCode
<1>4. steps \in UserSteps /\ T \in SUBSET (1 .. issued) /\ LinksOf(T, u, steps)
  BY <1>1, <1>2 DEF LinksOf
<1>. QED BY <1>3, <1>4, UsersPromise

\* A token that is shown is one of the links of the user it is found with, and of no other.
LEMMA UsersShow ==
  ASSUME UsersInv, NEW r \in Request, NEW t \in Directory!Link, NEW holders \in SUBSET Directory!UserId,
         NEW steps \in UserSteps, NEW p \in {0} \cup Directory!Password,
         Directory!Show(r, t, holders, steps, p),
         steps \in PasswordSteps <=> p # 0,
         \A u \in holders :
           /\ Directory!There(u)
           /\ \/ person[u].security.verification = t /\ steps \in VerifySteps
              \/ person[u].security.reset = t /\ steps \in ClearSteps
  PROVE  UsersInv'
<1>. HIDE DEF UserCall, Directory!UserId, Directory!UserRow, UserSteps, Directory!Password,
              PasswordSteps, VerifySteps, ClearSteps
<1>1. CASE holders = {}
  <2>1. Directory!Begin(r, Directory!Idle) /\ UNCHANGED <<person, issued, spent, filled, chosen, rewound>>
    BY <1>1 DEF Directory!Show
  <2>. QED BY <2>1, UsersShapes, UsersReadsMore
<1>2. CASE holders # {}
  <2>1. PICK u : u = CHOOSE v \in holders : TRUE
    OBVIOUS
  <2>2. u \in holders /\ u \in Directory!UserId
    BY <1>2, <2>1
  <2>3. /\ Directory!Begin(r, Directory!Securing(steps, u, p)) /\ spent' = spent \cup {t}
        /\ UNCHANGED <<person, issued, filled, rewound>> /\ chosen' = IF p = 0 THEN chosen ELSE [chosen EXCEPT ![u] = p]
    BY <1>2, <2>1 DEF Directory!Show
  <2>4. chosen' = IF steps \in PasswordSteps THEN [chosen EXCEPT ![u] = p] ELSE chosen
    BY <2>3
  <2>5. t # 0 /\ t \in 1 .. issued
    <3>1. t =< issued
      BY <2>2 DEF UsersInv, UserRowsOK
    <3>. QED BY <3>1 DEF Directory!Link, UsersInv, UserRowsOK
  <2>6. ASSUME calm, NEW v \in Directory!UserId, Directory!There(v)
        PROVE  /\ person[v].security.verification = t => v = u /\ steps \in VerifySteps
               /\ person[v].security.reset = t => v = u /\ steps \in ClearSteps
    <3>1. Directory!There(u) /\ UsersApart
      BY <2>2, <2>6 DEF UsersInv, UsersCalm
    <3>2. CASE person[u].security.verification = t /\ steps \in VerifySteps
      BY <2>2, <2>5, <2>6, <3>1, <3>2 DEF UsersApart
    <3>3. CASE person[u].security.reset = t /\ steps \in ClearSteps
      BY <2>2, <2>5, <2>6, <3>1, <3>3 DEF UsersApart
    <3>. QED BY <2>2, <3>2, <3>3
  <2>7. PICK T : T = {t}
    OBVIOUS
  <2>8. T \in SUBSET (1 .. issued) /\ spent' = spent \cup T
    BY <2>3, <2>5, <2>7
  <2>9. calm => LinksOf(T, u, steps)
    BY <2>6, <2>7 DEF LinksOf
  <2>10. /\ u \in Directory!UserId /\ T \in SUBSET (1 .. issued)
         /\ Directory!Begin(r, Directory!Securing(steps, u, p)) /\ spent' = spent \cup T
         /\ UNCHANGED <<person, issued, filled, rewound>>
    BY <2>2, <2>3, <2>8
  <2>. QED BY <2>4, <2>9, <2>10, UsersPromise
<1>. QED BY <1>1, <1>2

LEMMA UsersLinks ==
  ASSUME UsersInv, NEW r \in Request, NEW t \in Directory!Link,
         \/ Directory!VerifyEmail(r, t)
         \/ \E p \in Directory!Password : Directory!ResetPassword(r, t, p) \/ Directory!AcceptInvitation(r, t, p)
  PROVE  UsersInv'
<1>. HIDE DEF Directory!UserId, Directory!Link
<1>1. /\ {<<"verify">>, <<"password", "clear">>, <<"password", "verify", "accept">>} \subseteq UserSteps
      /\ <<"verify">> \in VerifySteps /\ <<"verify">> \notin PasswordSteps /\ <<"password", "clear">> \in ClearSteps
      /\ <<"password", "clear">> \in PasswordSteps /\ <<"password", "verify", "accept">> \in PasswordSteps
      /\ <<"password", "verify", "accept">> \in VerifySteps
  BY DEF UserSteps, PasswordSteps, VerifySteps, ClearSteps
<1>. HIDE DEF UserSteps, PasswordSteps, VerifySteps, ClearSteps
<1>2. \A p \in Directory!Password : p # 0
  BY DEF Directory!Password
<1>. HIDE DEF Directory!Password
<1>3. /\ Directory!Listed(Directory!Anyone) \subseteq Directory!Anyone
      /\ Directory!Listed(Directory!Unverified) \subseteq Directory!Anyone
      /\ \A u \in Directory!Anyone : u \in Directory!UserId /\ Directory!There(u)
  BY DEF Directory!Listed, Directory!Anyone, Directory!Unverified
<1>4. CASE Directory!VerifyEmail(r, t)
  <2>1. PICK holders : holders = {u \in Directory!Listed(Directory!Anyone) : Directory!VerifiedBy(t, u)}
    OBVIOUS
  <2>2. Directory!Show(r, t, holders, <<"verify">>, 0)
    BY <1>4, <2>1 DEF Directory!VerifyEmail
  <2>3. holders \in SUBSET Directory!UserId
        /\ \A u \in holders : Directory!There(u) /\ person[u].security.verification = t
    BY <1>3, <2>1 DEF Directory!VerifiedBy
  <2>. QED BY <1>1, <2>2, <2>3, UsersShow
<1>5. ASSUME NEW p \in Directory!Password, Directory!ResetPassword(r, t, p) PROVE UsersInv'
  <2>1. PICK holders : holders = {u \in Directory!Listed(Directory!Anyone) : Directory!ResetBy(t, u)}
    OBVIOUS
  <2>2. PICK steps : steps = <<"password", "clear">>
    OBVIOUS
  <2>3. Directory!Show(r, t, holders, steps, p)
    BY <1>5, <2>1, <2>2 DEF Directory!ResetPassword
  <2>4. holders \in SUBSET Directory!UserId
        /\ \A u \in holders : Directory!There(u) /\ person[u].security.reset = t
    BY <1>3, <2>1 DEF Directory!ResetBy
  <2>5. steps \in UserSteps /\ steps \in PasswordSteps /\ steps \in ClearSteps /\ p # 0
    BY <1>1, <1>2, <2>2
  <2>. QED BY <2>3, <2>4, <2>5, UsersShow
<1>6. ASSUME NEW p \in Directory!Password, Directory!AcceptInvitation(r, t, p) PROVE UsersInv'
  <2>1. PICK holders : holders = {u \in Directory!Listed(Directory!Unverified) : Directory!VerifiedBy(t, u)}
    OBVIOUS
  <2>2. PICK steps : steps = <<"password", "verify", "accept">>
    OBVIOUS
  <2>3. Directory!Show(r, t, holders, steps, p)
    BY <1>6, <2>1, <2>2 DEF Directory!AcceptInvitation
  <2>4. holders \in SUBSET Directory!UserId
        /\ \A u \in holders : Directory!There(u) /\ person[u].security.verification = t
    BY <1>3, <2>1 DEF Directory!VerifiedBy
  <2>5. steps \in UserSteps /\ steps \in PasswordSteps /\ steps \in VerifySteps /\ p # 0
    BY <1>1, <1>2, <2>2
  <2>. QED BY <2>3, <2>4, <2>5, UsersShow
<1>. QED BY <1>4, <1>5, <1>6

LEMMA UsersFindUsername ==
  ASSUME UsersInv, NEW r \in Request, Directory!FindUsername(r)
  PROVE  UsersInv'
<1>. HIDE DEF Directory!UserId, UserCall, Directory!None
<1>1. UNCHANGED <<person, issued, spent, filled, chosen, rewound>> /\ call[r] \in UserCall
  BY UsersShapes DEF Directory!FindUsername, Directory!users
<1>2. CASE Directory!Done(r) /\ call[r].pc \in {"insert", "name"}
  <2>1. Directory!Goes(r, Directory!Idle)
    BY <1>2 DEF Directory!Done
  <2>. QED BY <1>1, <1>2, <2>1, UsersShapes, UsersReadsMore
<1>3. CASE call[r].pc = "insert" /\ ~Directory!Done(r)
  <2>1. PICK c : c = [call[r] EXCEPT !.free = TRUE]
    OBVIOUS
  <2>2. Directory!Goes(r, c) /\ Directory!Named(call[r].name) = {}
    BY <1>3, <2>1 DEF Directory!FindUsername, Directory!At
  <2>3. c \in UserCall /\ c.pc = "insert" /\ c.name = call[r].name
    BY <1>1, <1>3, <2>1 DEF UserCall, Directory!Idle
  <2>4. Behind(c) /\ KnowsUser(c)
    BY <2>2, <2>3 DEF Behind, KnowsUser
  <2>. QED BY <1>1, <1>3, <2>2, <2>3, <2>4, UsersReadsMore
<1>4. CASE call[r].pc = "name" /\ ~Directory!Done(r)
  <2>1. PICK c : c = [call[r] EXCEPT !.pc = "look"]
    OBVIOUS
  <2>2. Directory!Goes(r, c) /\ Directory!Named(call[r].name) \subseteq {call[r].user}
    BY <1>4, <2>1 DEF Directory!FindUsername, Directory!At
  <2>3. c \in UserCall /\ c.pc = "look" /\ c.name = call[r].name /\ c.user = call[r].user
    BY <1>1, <1>4, <2>1 DEF UserCall, Directory!Idle
  <2>4. Behind(c) /\ KnowsUser(c)
    BY <2>2, <2>3 DEF Behind, KnowsUser
  <2>. QED BY <1>1, <1>4, <2>2, <2>3, <2>4, UsersReadsMore
<1>. QED BY <1>2, <1>3, <1>4 DEF Directory!FindUsername, Directory!At

LEMMA UsersReadSecurity ==
  ASSUME UsersInv, NEW r \in Request, Directory!ReadSecurity(r)
  PROVE  UsersInv'
<1>. HIDE DEF Directory!UserId, UserCall, UserSteps, Directory!Password, Directory!UserRow,
              PasswordSteps, VerifySteps, ClearSteps
<1>1. PICK u, steps, p : u = call[r].user /\ steps = call[r].steps /\ p = call[r].password
  OBVIOUS
<1>2. /\ call[r].pc = "read" /\ call[r].pc # "idle" /\ u \in Directory!UserId
      /\ steps \in UserSteps /\ p \in {0} \cup Directory!Password
      /\ UNCHANGED <<person, issued, spent, filled, chosen, rewound>>
  BY <1>1, UsersShapes DEF Directory!ReadSecurity, Directory!At, Directory!users
<1>3. CASE Directory!There(u)
  <2>1. PICK c : c = [pc |-> "write", steps |-> steps, user |-> u, password |-> p, seen |-> person[u]]
    OBVIOUS
  <2>2. Directory!Goes(r, c)
    BY <1>1, <1>3, <2>1 DEF Directory!ReadSecurity
  <2>3. person[u] \in Directory!UserRow
    BY <1>2 DEF UsersInv, UserRowsOK
  <2>4. c \in UserCall
    BY <1>2, <2>1, <2>3 DEF UserCall
  <2>5. Behind(c)
    BY <1>2, <2>1 DEF Behind, UsersInv, UserRowsOK
  <2>6. calm /\ steps \in PasswordSteps => p = chosen[u]
    BY <1>1, <1>2 DEF UsersInv, UsersCalm, KnowsUser
  <2>7. calm => KnowsUser(c)
    BY <2>1, <2>6 DEF KnowsUser
  <2>8. \A v : SoundBy(v, call[r]) => SoundBy(v, c)
    BY <1>1, <1>2, <2>1 DEF SoundBy, Does
  <2>. QED BY <1>2, <2>2, <2>4, <2>5, <2>7, <2>8, UsersReads
<1>4. CASE ~Directory!There(u)
  <2>1. Directory!Goes(r, Directory!Idle)
    BY <1>1, <1>4 DEF Directory!ReadSecurity, Directory!Done
  <2>2. \A v \in Directory!UserId : Directory!There(v) /\ SoundBy(v, call[r]) => SoundBy(v, Directory!Idle)
    BY <1>1, <1>4 DEF SoundBy, Does
  <2>. QED BY <1>2, <2>1, <2>2, UsersShapes, UsersReads
<1>. QED BY <1>3, <1>4

LEMMA UsersReadUser ==
  ASSUME UsersInv, NEW r \in Request, Directory!ReadUser(r)
  PROVE  UsersInv'
<1>. HIDE DEF Directory!UserId, UserCall, Directory!None, Directory!UserRow
<1>1. PICK u : u = call[r].user
  OBVIOUS
<1>2. /\ call[r].pc = "look" /\ u \in Directory!UserId
      /\ UNCHANGED <<person, issued, spent, filled, chosen, rewound>>
  BY <1>1, UsersShapes DEF Directory!ReadUser, Directory!At, Directory!users
<1>3. CASE Directory!There(u)
  <2>1. PICK c : c = [pc |-> "save", user |-> u, name |-> call[r].name, field |-> call[r].field,
                      status |-> call[r].status, seen |-> person[u]]
    OBVIOUS
  <2>2. Directory!Goes(r, c)
    BY <1>1, <1>3, <2>1 DEF Directory!ReadUser
  <2>3. person[u] \in Directory!UserRow /\ person[u].version \in Nat
    BY <1>2 DEF UsersInv, UserRowsOK, Directory!UserRow
  <2>4. c \in UserCall
    BY <1>2, <2>1, <2>3, UsersShapes DEF UserCall
  <2>5. Behind(c)
    BY <1>3, <2>1, <2>3 DEF Behind, Directory!There
  <2>6. calm /\ call[r].name # Directory!None => Directory!Named(call[r].name) \subseteq {u}
    BY <1>1, <1>2 DEF UsersInv, UsersCalm, KnowsUser
  <2>7. calm => KnowsUser(c)
    BY <2>1, <2>6 DEF KnowsUser
  <2>. QED BY <1>2, <2>2, <2>4, <2>5, <2>7, UsersReadsMore
<1>4. CASE ~Directory!There(u)
  <2>1. Directory!Goes(r, Directory!Idle)
    BY <1>1, <1>4 DEF Directory!ReadUser, Directory!Done
  <2>. QED BY <1>2, <2>1, UsersShapes, UsersReadsMore
<1>. QED BY <1>3, <1>4

\* The rows of the other users stay, and so does what is sound of them.
LEMMA UsersWriteRow ==
  ASSUME UsersInv, NEW r \in Request, NEW c \in UserCall, call[r].pc # "idle", Directory!Goes(r, c),
         NEW u \in Directory!UserId, NEW row \in Directory!UserRow, person' = [person EXCEPT ![u] = row],
         issued' \in issued .. MaxLinks, UNCHANGED spent,
         chosen' \in [Directory!UserId -> {0} \cup Directory!Password],
         filled' \in [Directory!UserId -> SUBSET Request],
         \A v \in Directory!UserId \ {u} : filled'[v] = filled[v] /\ chosen'[v] = chosen[v],
         rewound \subseteq rewound', u \notin rewound' => filled'[u] \subseteq row.fields,
         row.state = "unborn" => person[u].state = "unborn" /\ filled'[u] = {},
         row.security.verification =< issued' /\ row.security.reset =< issued',
         person[u].state # "unborn" /\ u \notin rewound' =>
           person[u].version =< row.version /\ (row.version = person[u].version => row.fields = person[u].fields),
         c.pc \in {"idle", "read", "accept"},
         call[r].pc \in {"read", "write"} => call[r].user = u,
         calm /\ c.pc = "read" /\ c.steps \in PasswordSteps => c.password = chosen'[c.user],
         calm => UsersApart',
         calm /\ row.state = "there" => SoundBy(u, c)'
  PROVE  UsersInv'
<1>. HIDE DEF Directory!UserId, UserCall, Directory!UserRow, PasswordSteps, VerifySteps, ClearSteps, Directory!Password
<1>1. /\ call' = [call EXCEPT ![r] = c] /\ calm' \in BOOLEAN
      /\ calm' => calm /\ \A q \in Request \ {r} : call[q].pc = "idle"
  BY UsersAlone
<1>2. /\ person' \in [Directory!UserId -> Directory!UserRow]
      /\ person'[u] = row /\ \A v \in Directory!UserId \ {u} : person'[v] = person[v]
  BY DEF UsersInv, UserRowsOK
<1>3. \A v \in Directory!UserId : person[v].security.verification \in Nat /\ person[v].security.reset \in Nat
  <2>1. ASSUME NEW v \in Directory!UserId PROVE person[v].security \in Directory!Security
    BY DEF UsersInv, UserRowsOK, Directory!UserRow
  <2>. QED BY <2>1 DEF Directory!Security, Directory!Link
<1>4. issued \in Nat /\ issued' \in Nat /\ issued =< issued'
  BY RegistryAssumption DEF UsersInv, UserRowsOK
<1>5. \A v \in Directory!UserId :
        /\ v \notin rewound' => filled'[v] \subseteq person'[v].fields
        /\ person'[v].state = "unborn" => filled'[v] = {}
        /\ person'[v].security.verification =< issued' /\ person'[v].security.reset =< issued'
  <2>1. ASSUME NEW v \in Directory!UserId \ {u}
        PROVE  /\ v \notin rewound' => filled'[v] \subseteq person'[v].fields
               /\ person'[v].state = "unborn" => filled'[v] = {}
               /\ person'[v].security.verification =< issued' /\ person'[v].security.reset =< issued'
    BY <1>2, <1>3, <1>4 DEF UsersInv, UserRowsOK
  <2>. QED BY <1>2, <2>1
<1>6. issued' \in 0 .. MaxLinks /\ spent' \subseteq 1 .. issued'
  BY <1>4, RegistryAssumption DEF UsersInv, UserRowsOK
<1>7. UserRowsOK'
  BY <1>2, <1>5, <1>6 DEF UserRowsOK
<1>8. RowsGoOn
  <2>1. \A v \in Directory!UserId : person[v].version \in Nat
    BY DEF UsersInv, UserRowsOK, Directory!UserRow
  <2>. QED BY <1>2, <2>1 DEF RowsGoOn
<1>9. Behind(c)' /\ (calm' => KnowsUser(c)')
  BY <1>1 DEF Behind, KnowsUser
<1>10. ASSUME calm', NEW v \in Directory!UserId, Directory!There(v)' PROVE SoundBy(v, c)'
  <2>1. CASE v = u
    BY <1>1, <1>2, <1>10, <2>1 DEF Directory!There
  <2>2. CASE v # u
    <3>1. Directory!There(v) /\ person'[v] = person[v] /\ chosen'[v] = chosen[v]
      BY <1>2, <1>10, <2>2 DEF Directory!There
    <3>2. SoundBy(v, call[r]) /\ \A S : ~ Does(call[r], v, S)
      BY <1>1, <1>10, <2>2, <3>1, UsersAnswer DEF Does
    <3>. QED BY <3>1, <3>2 DEF SoundBy
  <2>. QED BY <2>1, <2>2
<1>11. calm' => UsersApart'
  BY <1>1
<1>. QED BY <1>1, <1>4, <1>7, <1>8, <1>9, <1>10, <1>11, UsersStep

\* A row that takes over no link but its own, and no name but a free one, stays apart.
LEMMA UsersApartRow ==
  ASSUME UserRowsOK, UsersApart, NEW u \in Directory!UserId, NEW row \in Directory!UserRow, person' = [person EXCEPT ![u] = row],
         row.state = "there" =>
           /\ \/ row.security.verification \in {0, issued + 1}
              \/ Directory!There(u) /\ row.security.verification = person[u].security.verification
           /\ \/ row.security.reset \in {0, issued + 1}
              \/ Directory!There(u) /\ row.security.reset = person[u].security.reset
           /\ row.security.verification = row.security.reset => row.security.reset = 0
           /\ \/ row.username = Directory!None
              \/ Directory!There(u) /\ row.username = person[u].username
              \/ Directory!Named(row.username) \subseteq {u}
  PROVE  UsersApart'
<1>. HIDE DEF Directory!UserId, Directory!UserRow, Directory!None
<1>1. /\ person'[u] = row /\ \A v \in Directory!UserId \ {u} : person'[v] = person[v]
  BY DEF UserRowsOK
<1>2. \A v \in Directory!UserId :
        /\ person[v].security.verification \in Nat /\ person[v].security.reset \in Nat
        /\ person[v].security.verification =< issued /\ person[v].security.reset =< issued
  <2>1. ASSUME NEW v \in Directory!UserId PROVE person[v].security \in Directory!Security
    BY DEF UserRowsOK, Directory!UserRow
  <2>. QED BY <2>1 DEF Directory!Security, Directory!Link, UserRowsOK
<1>3. issued \in Nat
  BY RegistryAssumption DEF UserRowsOK
<1>4. \A v \in Directory!UserId \ {u} : Directory!There(v)' = Directory!There(v)
  BY <1>1 DEF Directory!There
<1>5. ASSUME NEW v \in Directory!UserId \ {u}, Directory!There(v), row.state = "there"
      PROVE  /\ row.security.verification \in {person[v].security.verification, person[v].security.reset} =>
                  row.security.verification = 0
             /\ row.security.reset \in {person[v].security.verification, person[v].security.reset} =>
                  row.security.reset = 0
             /\ row.username = person[v].username => row.username = Directory!None
  <2>1. row.security.verification \in {person[v].security.verification, person[v].security.reset} =>
          row.security.verification = 0
    BY <1>2, <1>3, <1>5 DEF UsersApart
  <2>2. row.security.reset \in {person[v].security.verification, person[v].security.reset} => row.security.reset = 0
    BY <1>2, <1>3, <1>5 DEF UsersApart
  <2>3. row.username = person[v].username => row.username = Directory!None
    BY <1>5 DEF UsersApart, Directory!Named
  <2>. QED BY <2>1, <2>2, <2>3
<1>6. ASSUME NEW v \in Directory!UserId, NEW w \in Directory!UserId, Directory!There(v)', Directory!There(w)'
      PROVE  /\ person'[v].security.verification = person'[w].security.verification =>
                  v = w \/ person'[v].security.verification = 0
             /\ person'[v].security.reset = person'[w].security.reset => v = w \/ person'[v].security.reset = 0
             /\ person'[v].security.verification = person'[w].security.reset => person'[v].security.verification = 0
             /\ person'[v].username = person'[w].username => v = w \/ person'[v].username = Directory!None
  <2>1. CASE v = u /\ w = u
    BY <1>1, <1>6, <2>1 DEF Directory!There
  <2>2. CASE v = u /\ w # u
    BY <1>1, <1>4, <1>5, <1>6, <2>2 DEF Directory!There
  <2>3. CASE v # u /\ w = u
    BY <1>1, <1>4, <1>5, <1>6, <2>3 DEF Directory!There
  <2>4. CASE v # u /\ w # u
    BY <1>1, <1>4, <1>6, <2>4 DEF UsersApart
  <2>. QED BY <2>1, <2>2, <2>3, <2>4
<1>. QED BY <1>6 DEF UsersApart

LEMMA UsersInsert ==
  ASSUME UsersInv, NEW r \in Request, Directory!Insert(r)
  PROVE  UsersInv'
<1>. HIDE DEF Directory!UserId, UserCall, UserSteps, Directory!Password, Directory!Security, Directory!UserRow,
              PasswordSteps, VerifySteps, ClearSteps, Directory!None
<1>1. PICK p, name, e : p = call[r].password /\ name = call[r].name /\ e = call[r].email
  OBVIOUS
<1>2. /\ call[r].pc = "insert" /\ call[r].free /\ p \in {0, 1} /\ name \in Username \cup {Directory!None} /\ e \in Email
  BY <1>1, UsersShapes DEF Directory!Insert, Directory!At
<1>3. CASE \E v \in Directory!UserId : Directory!There(v) /\ person[v].email = e
  <2>1. Directory!Goes(r, Directory!Idle) /\ UNCHANGED <<person, issued, spent, filled, chosen, rewound>>
    BY <1>1, <1>3 DEF Directory!Insert, Directory!Done, Directory!users
  <2>. QED BY <1>2, <2>1, UsersShapes, UsersReadsMore
<1>4. CASE ~ \E v \in Directory!UserId : Directory!There(v) /\ person[v].email = e
  <2>1. PICK unborn : unborn = {v \in Directory!UserId : person[v].state = "unborn"}
    OBVIOUS
  <2>2. PICK u : u = Directory!Min(unborn)
    OBVIOUS
  <2>3. u \in Directory!UserId /\ person[u].state = "unborn"
    <3>1. unborn # {} /\ unborn \in SUBSET Nat
      BY <2>1 DEF Directory!Insert, Directory!UserId
    <3>2. \E x \in unborn : \A y \in unborn : x =< y
      BY <3>1, LeastOf
    <3>3. u \in unborn
      BY <2>2, <3>2 DEF Directory!Min
    <3>. QED BY <2>1, <3>3
  <2>4. PICK row : row = Directory!NewUser(e, name)
    OBVIOUS
  <2>5. PICK steps : steps = IF p = 0 THEN <<"invite">> ELSE <<"password", "invite">>
    OBVIOUS
  <2>6. steps = (IF p = 0 THEN <<>> ELSE <<"password">>) \o <<"invite">>
    <3>1. <<>> \o <<"invite">> = <<"invite">> /\ <<"password">> \o <<"invite">> = <<"password", "invite">>
      BY OneAfter
    <3>. QED BY <2>5, <3>1
  <2>7. PICK c : c = [pc |-> "read", steps |-> steps, user |-> u, password |-> p]
    OBVIOUS
  <2>8. /\ person' = [person EXCEPT ![u] = row] /\ chosen' = [chosen EXCEPT ![u] = p]
        /\ Directory!Goes(r, c) /\ UNCHANGED <<issued, spent, filled, rewound>>
    BY <1>1, <1>4, <2>1, <2>2, <2>4, <2>6, <2>7 DEF Directory!Insert, Directory!Securing
  <2>9. /\ row \in Directory!UserRow /\ row.state = "there" /\ row.security.verification = 0 /\ row.security.reset = 0
        /\ row.security.password = 0 /\ row.username = name
    BY <1>2, <2>4 DEF Directory!NewUser, Directory!NoSecurity, Directory!UserRow, Directory!Security, Directory!Status
  <2>10. steps \in UserSteps /\ (p # 0 => steps \in PasswordSteps)
    BY <2>5 DEF UserSteps, PasswordSteps
  <2>11. p \in {0} \cup Directory!Password
    BY <1>2 DEF Directory!Password
  <2>12. c \in UserCall
    BY <2>3, <2>7, <2>10, <2>11 DEF UserCall
  <2>13. /\ chosen' \in [Directory!UserId -> {0} \cup Directory!Password]
         /\ chosen'[u] = p /\ \A v \in Directory!UserId \ {u} : chosen'[v] = chosen[v]
    BY <2>3, <2>8, <2>11 DEF UsersInv, UserRowsOK
  <2>14. filled' \in [Directory!UserId -> SUBSET Request] /\ filled'[u] = {} /\ issued \in 0 .. MaxLinks /\ issued \in Nat
    BY <2>3, <2>8, RegistryAssumption DEF UsersInv, UserRowsOK
  <2>15. issued' \in issued .. MaxLinks /\ 0 =< issued'
    BY <2>8, <2>14, RegistryAssumption
  <2>16. calm => UsersApart'
    <3>1. calm => UsersApart /\ (name # Directory!None => Directory!Named(name) = {})
      BY <1>1, <1>2 DEF UsersInv, UsersCalm, KnowsUser
    <3>. QED BY <2>3, <2>8, <2>9, <3>1, UsersApartRow DEF UsersInv
  <2>17. SoundBy(u, c)'
    <3>1. 0 \notin spent /\ person'[u] = row
      BY <2>3, <2>8, <2>14 DEF UsersInv, UserRowsOK
    <3>. QED BY <2>7, <2>8, <2>9, <2>10, <2>13, <3>1 DEF SoundBy, Does
  <2>18. /\ filled'[u] \subseteq row.fields /\ \A v \in Directory!UserId \ {u} : filled'[v] = filled[v]
         /\ row.security.verification =< issued' /\ row.security.reset =< issued'
    BY <2>8, <2>9, <2>14, <2>15
  <2>19. /\ call[r].pc \notin {"idle", "read", "write"} /\ c.pc = "read" /\ c.password = chosen'[c.user]
    BY <1>2, <2>7, <2>13
  <2>. QED BY <2>3, <2>8, <2>9, <2>12, <2>13, <2>14, <2>15, <2>16, <2>17, <2>18, <2>19, UsersWriteRow
<1>. QED BY <1>3, <1>4

LEMMA UsersAccept ==
  ASSUME UsersInv, NEW r \in Request, Directory!SetInvitationAccepted(r) \/ Directory!RemoveUser(r)
  PROVE  UsersInv'
<1>. HIDE DEF Directory!UserId, UserCall, UserSteps, Directory!Password, Directory!Security,
              PasswordSteps, VerifySteps, ClearSteps, Directory!None
<1>1. PICK u : u = call[r].user
  OBVIOUS
<1>2. /\ call[r].pc \in {"accept", "delete"} /\ u \in Directory!UserId
      /\ Directory!Goes(r, Directory!Idle) /\ UNCHANGED <<issued, spent, chosen, filled, rewound>>
  BY <1>1, UsersShapes DEF Directory!SetInvitationAccepted, Directory!RemoveUser, Directory!At, Directory!Done
<1>3. person[u] \in Directory!UserRow
  BY <1>2 DEF UsersInv, UserRowsOK
<1>4. PICK row : row = IF Directory!SetInvitationAccepted(r)
                       THEN [person[u] EXCEPT !.status = IF Directory!There(u) THEN "ACTIVE" ELSE person[u].status]
                       ELSE [person[u] EXCEPT !.state = "gone"]
  OBVIOUS
<1>5. person' = [person EXCEPT ![u] = row]
  BY <1>1, <1>4 DEF Directory!SetInvitationAccepted, Directory!RemoveUser
<1>6. /\ row \in Directory!UserRow /\ row.security = person[u].security /\ row.username = person[u].username
      /\ row.version = person[u].version /\ row.fields = person[u].fields /\ row.state \in {person[u].state, "gone"}
  <2>1. CASE Directory!SetInvitationAccepted(r)
    BY <1>3, <1>4, <2>1 DEF Directory!UserRow, Directory!Status
  <2>2. CASE ~Directory!SetInvitationAccepted(r)
    BY <1>3, <1>4, <2>2 DEF Directory!UserRow
  <2>. QED BY <2>1, <2>2
<1>. HIDE DEF Directory!UserRow
<1>7. /\ chosen' \in [Directory!UserId -> {0} \cup Directory!Password] /\ filled' \in [Directory!UserId -> SUBSET Request]
      /\ chosen' = chosen /\ filled' = filled /\ issued' \in issued .. MaxLinks
  BY <1>2, RegistryAssumption DEF UsersInv, UserRowsOK
<1>8. /\ u \notin rewound => filled[u] \subseteq row.fields
      /\ row.security.verification =< issued' /\ row.security.reset =< issued'
  BY <1>2, <1>6 DEF UsersInv, UserRowsOK
<1>9. /\ person[u].version =< row.version /\ (row.version = person[u].version => row.fields = person[u].fields)
      /\ row.state = "unborn" => person[u].state = "unborn" /\ filled'[u] = {}
  <2>1. person[u].version \in Nat
    BY <1>3 DEF Directory!UserRow
  <2>2. row.state = "unborn" => person[u].state = "unborn" /\ filled[u] = {}
    BY <1>2, <1>6 DEF UsersInv, UserRowsOK
  <2>. QED BY <1>6, <1>7, <2>1, <2>2
<1>10. calm => UsersApart'
  <2>1. row.state = "there" => Directory!There(u)
    BY <1>6 DEF Directory!There
  <2>2. calm => UsersApart
    BY DEF UsersInv, UsersCalm
  <2>3. UserRowsOK
    BY DEF UsersInv
  <2>4. Directory!There(u) => (row.security.verification = row.security.reset => row.security.reset = 0)
        \/ ~UsersApart
    BY <1>2, <1>6 DEF UsersApart
  <2>. QED BY <1>2, <1>5, <1>6, <2>1, <2>2, <2>3, <2>4, UsersApartRow
<1>11. Directory!Idle.pc = "idle" /\ Directory!Idle \in UserCall
  BY UsersShapes
<1>12. calm /\ row.state = "there" => SoundBy(u, Directory!Idle)'
  <2>. SUFFICES ASSUME calm, row.state = "there" PROVE SoundBy(u, Directory!Idle)'
    OBVIOUS
  <2>1. Directory!There(u)
    BY <1>6 DEF Directory!There
  <2>2. \A q \in Request \ {r} : call[q].pc = "idle"
    BY <1>2 DEF UsersInv, UsersCalm
  <2>3. SoundBy(u, call[r])
    BY <1>2, <2>1, <2>2, UsersAnswer
  <2>4. /\ person[u].security.verification \notin spent /\ person[u].security.reset \notin spent
        /\ person[u].security.password = chosen[u]
    BY <1>2, <2>3 DEF SoundBy, Does
  <2>5. person'[u] = row
    BY <1>2, <1>5 DEF UsersInv, UserRowsOK
  <2>. QED BY <1>2, <1>6, <2>4, <2>5 DEF SoundBy
<1>13. call[r].pc \notin {"idle", "read", "write"}
  BY <1>2, <1>6
<1>14. \A v \in Directory!UserId \ {u} : filled'[v] = filled[v] /\ chosen'[v] = chosen[v]
  BY <1>7
<1>. QED BY <1>2, <1>5, <1>6, <1>7, <1>8, <1>9, <1>10, <1>11, <1>12, <1>13, <1>14, UsersWriteRow

\* What each method makes of the column it has read.
LEMMA UsersSecured ==
  ASSUME NEW step \in UserMethods, NEW s \in Directory!Security,
         NEW p \in {0} \cup Directory!Password, NEW t, step \in {"invite", "reset"} => t \in Directory!Link,
         NEW k, k = Directory!Secured(step, s, p, t)
  PROVE  /\ k \in Directory!Security
         /\ k.password = IF step \in {"password", "unlock"} THEN p ELSE s.password
         /\ k.verification = IF step = "invite" THEN t ELSE IF step = "verify" THEN 0 ELSE s.verification
         /\ k.reset = IF step = "reset" THEN t ELSE IF step = "clear" THEN 0 ELSE s.reset
<1>. HIDE DEF Directory!Password, Directory!Link
<1>1. CASE step \in {"password", "unlock"}
  <2>1. k = [s EXCEPT !.password = p]
    BY <1>1 DEF Directory!Secured
  <2>. QED BY <1>1, <2>1 DEF Directory!Security
<1>2. CASE step = "invite"
  <2>1. k = [s EXCEPT !.verification = t]
    BY <1>2 DEF Directory!Secured
  <2>. QED BY <1>2, <2>1 DEF Directory!Security
<1>3. CASE step = "reset"
  <2>1. k = [s EXCEPT !.reset = t]
    BY <1>3 DEF Directory!Secured
  <2>. QED BY <1>3, <2>1 DEF Directory!Security
<1>4. CASE step = "clear"
  <2>1. k = [s EXCEPT !.reset = 0]
    BY <1>4 DEF Directory!Secured
  <2>. QED BY <1>4, <2>1 DEF Directory!Security
<1>5. CASE step = "verify"
  <2>1. k = [s EXCEPT !.verification = 0]
    BY <1>5 DEF Directory!Secured
  <2>. QED BY <1>5, <2>1 DEF Directory!Security
<1>6. CASE step \in {"login", "confirm", "approve", "reject", "lock"}
  <2>1. k = s
    BY <1>6 DEF Directory!Secured
  <2>. QED BY <1>6, <2>1
<1>. QED BY <1>1, <1>2, <1>3, <1>4, <1>5, <1>6 DEF UserMethods

\* The row as it is written, when there is one.
LEMMA UsersSecuredRow ==
  ASSUME NEW old \in Directory!UserRow, NEW was \in Directory!UserRow, NEW k \in Directory!Security, NEW step, NEW row,
         row = Directory!Rewritten(old, step, was, k)
  PROVE  /\ row \in Directory!UserRow /\ row.state = old.state /\ row.username = old.username
         /\ row.fields = old.fields /\ row.security = k
<1>. HIDE DEF Directory!Security, Directory!None, Directory!Status
<1>1. PICK status, verified, version :
        /\ status = Directory!Judged(step, was, old.status)
        /\ verified = (old.verified \/ step \in {"verify", "confirm"})
        /\ version = IF step \in DOMAIN Directory!Asked THEN was.version + 1 ELSE old.version
  OBVIOUS
<1>2. PICK x : x = [old EXCEPT !.security = k]
  OBVIOUS
<1>3. PICK y : y = [x EXCEPT !.status = status]
  OBVIOUS
<1>4. PICK z : z = [y EXCEPT !.verified = verified]
  OBVIOUS
<1>5. status \in Directory!Status
  <2>1. old.status \in Directory!Status /\ was.status \in Directory!Status
    BY DEF Directory!UserRow
  <2>2. {"PENDING_APPROVAL", "ACTIVE", "INACTIVE", "LOCKED"} \subseteq Directory!Status
    BY DEF Directory!Status
  <2>. QED BY <1>1, <2>1, <2>2 DEF Directory!Judged
<1>6. verified \in BOOLEAN /\ version \in Nat
  BY <1>1 DEF Directory!UserRow
<1>7. /\ x \in Directory!UserRow /\ x.state = old.state /\ x.username = old.username
      /\ x.fields = old.fields /\ x.version = old.version /\ x.security = k
      /\ x.status = old.status /\ x.verified = old.verified
  BY <1>2 DEF Directory!UserRow
<1>8. /\ y \in Directory!UserRow /\ y.state = old.state /\ y.username = old.username
      /\ y.fields = old.fields /\ y.version = old.version /\ y.security = k /\ y.verified = old.verified
  BY <1>3, <1>5, <1>7 DEF Directory!UserRow
<1>9. /\ z \in Directory!UserRow /\ z.state = old.state /\ z.username = old.username
      /\ z.fields = old.fields /\ z.version = old.version /\ z.security = k
  BY <1>4, <1>6, <1>8 DEF Directory!UserRow
<1>10. row = [z EXCEPT !.version = version]
  <2>1. y = [x EXCEPT !.status = Directory!Judged(step, was, @)]
    BY <1>1, <1>3, <1>7
  <2>2. z = [y EXCEPT !.verified = @ \/ step \in {"verify", "confirm"}]
    BY <1>1, <1>4, <1>8
  <2>3. row = [z EXCEPT !.version = IF step \in DOMAIN Directory!Asked THEN was.version + 1 ELSE @]
    BY <1>2, <2>1, <2>2 DEF Directory!Rewritten
  <2>. QED BY <1>1, <1>9, <2>3
<1>. QED BY <1>6, <1>9, <1>10 DEF Directory!UserRow

\* One after the other, a method writes back what is there, and what it was to change.
LEMMA UsersWriteSecurity ==
  ASSUME UsersInv, NEW r \in Request, Directory!WriteSecurity(r)
  PROVE  UsersInv'
<1>. HIDE DEF Directory!UserId, UserCall, UserSteps, Directory!Password, Directory!Security, Directory!UserRow,
              PasswordSteps, VerifySteps, ClearSteps, Directory!None, Directory!Link
<1>1. PICK u, steps, p, read, was : /\ u = call[r].user /\ steps = call[r].steps /\ p = call[r].password
                                     /\ read = call[r].seen /\ was = read.security
  OBVIOUS
<1>2. /\ call[r].pc = "write" /\ u \in Directory!UserId /\ steps \in UserSteps
      /\ p \in {0} \cup Directory!Password /\ read \in Directory!UserRow /\ was \in Directory!Security
      /\ UNCHANGED <<spent, chosen, filled>>
      /\ rewound' = IF person'[u].version < person[u].version THEN rewound \cup {u} ELSE rewound
  <2>1. /\ call[r].pc = "write" /\ u \in Directory!UserId /\ steps \in UserSteps
        /\ p \in {0} \cup Directory!Password /\ read \in Directory!UserRow /\ UNCHANGED <<spent, chosen, filled>>
        /\ rewound' = IF person'[u].version < person[u].version THEN rewound \cup {u} ELSE rewound
    BY <1>1, UsersShapes DEF Directory!WriteSecurity, Directory!At
  <2>. QED BY <1>1, <2>1 DEF Directory!UserRow
<1>3. PICK step, rest : step = Head(steps) /\ rest = Tail(steps)
  OBVIOUS
<1>4. /\ step \in UserMethods
      /\ rest \in UserSteps \cup {<<>>, <<"accept">>} /\ rest \notin PasswordSteps
      /\ (steps \in PasswordSteps) = (step \in {"password", "unlock"})
      /\ steps \in ClearSteps /\ step # "clear" => rest \in ClearSteps
      /\ steps \in VerifySteps /\ step # "verify" => rest \in VerifySteps
  BY <1>2, <1>3, StepsOf
<1>5. PICK t, k : t = issued + 1 /\ k = Directory!Secured(step, was, p, t)
  OBVIOUS
<1>6. /\ issued \in Nat /\ issued =< MaxLinks /\ MaxLinks \in Nat /\ t \in Nat /\ spent \subseteq 1 .. issued
      /\ issued' = IF step \in {"invite", "reset"} THEN t ELSE issued
      /\ step \in {"invite", "reset"} => issued < MaxLinks
  BY <1>1, <1>3, <1>5, RegistryAssumption DEF Directory!WriteSecurity, UsersInv, UserRowsOK
<1>7. step \in {"invite", "reset"} => t \in Directory!Link
  BY <1>5, <1>6 DEF Directory!Link
<1>8. /\ k \in Directory!Security
      /\ k.password = IF step \in {"password", "unlock"} THEN p ELSE was.password
      /\ k.verification = IF step = "invite" THEN t ELSE IF step = "verify" THEN 0 ELSE was.verification
      /\ k.reset = IF step = "reset" THEN t ELSE IF step = "clear" THEN 0 ELSE was.reset
  BY <1>2, <1>4, <1>5, <1>7, UsersSecured
<1>9. PICK row : row = IF Directory!There(u) THEN Directory!Rewritten(person[u], step, read, k) ELSE person[u]
  OBVIOUS
<1>10. person' = [person EXCEPT ![u] = row]
  BY <1>1, <1>3, <1>5, <1>9 DEF Directory!WriteSecurity
<1>11. person[u] \in Directory!UserRow
  BY <1>2 DEF UsersInv, UserRowsOK
<1>12. /\ row \in Directory!UserRow /\ row.state = person[u].state /\ row.username = person[u].username
       /\ row.fields = person[u].fields
       /\ row.security = IF Directory!There(u) THEN k ELSE person[u].security
  <2>1. CASE Directory!There(u)
    <3>1. PICK old : old = person[u]
      OBVIOUS
    <3>2. row = Directory!Rewritten(old, step, read, k)
      BY <1>9, <2>1, <3>1
    <3>3. old \in Directory!UserRow
      BY <1>11, <3>1
    <3>. QED BY <1>2, <1>8, <2>1, <3>1, <3>2, <3>3, UsersSecuredRow
  <2>2. CASE ~Directory!There(u)
    <3>1. row = person[u]
      BY <1>9, <2>2
    <3>. QED BY <1>11, <2>2, <3>1
  <2>. QED BY <2>1, <2>2
<1>13. PICK d : d = IF rest = <<>> THEN Directory!Idle
                    ELSE IF rest = <<"accept">> THEN [pc |-> "accept", user |-> u]
                    ELSE [pc |-> "read", steps |-> rest, user |-> u, password |-> p]
  OBVIOUS
<1>14. Directory!Goes(r, d)
  <2>1. CASE rest = <<>>
    <3>1. Directory!Done(r)
      BY <1>1, <1>3, <2>1 DEF Directory!WriteSecurity
    <3>. QED BY <1>13, <2>1, <3>1 DEF Directory!Done
  <2>2. CASE rest = <<"accept">>
    <3>1. rest # <<>>
      BY <2>2
    <3>2. Directory!Goes(r, [pc |-> "accept", user |-> call[r].user])
      BY <1>1, <1>3, <2>2, <3>1 DEF Directory!WriteSecurity
    <3>. QED BY <1>1, <1>13, <2>2, <3>1, <3>2
  <2>3. CASE rest \notin {<<>>, <<"accept">>}
    <3>1. Directory!Goes(r, Directory!Securing(rest, u, p))
      BY <1>1, <1>3, <2>3 DEF Directory!WriteSecurity
    <3>. QED BY <1>13, <2>3, <3>1 DEF Directory!Securing
  <2>. QED BY <2>1, <2>2, <2>3
<1>15. /\ Directory!Idle.pc = "idle" /\ Directory!Idle \in UserCall
       /\ \A x \in UserSteps : x # <<>> /\ x # <<"accept">>
  BY UsersShapes DEF UserSteps
<1>16. /\ d \in UserCall /\ d.pc \in {"idle", "read", "accept"}
       /\ d.pc = "read" => d.steps = rest /\ d.user = u /\ d.password = p
       /\ rest \in UserSteps => d.pc = "read"
  <2>1. CASE rest = <<>>
    BY <1>13, <1>15, <2>1
  <2>2. CASE rest = <<"accept">>
    <3>1. d = [pc |-> "accept", user |-> u]
      BY <1>13, <2>2
    <3>. QED BY <1>2, <1>15, <2>2, <3>1 DEF UserCall
  <2>3. CASE rest \in UserSteps
    <3>1. d = [pc |-> "read", steps |-> rest, user |-> u, password |-> p]
      BY <1>13, <1>15, <2>3
    <3>. QED BY <1>2, <2>3, <3>1 DEF UserCall
  <2>. QED BY <1>4, <2>1, <2>2, <2>3
<1>17. /\ person[u].security.verification \in Nat /\ person[u].security.reset \in Nat
       /\ person[u].security.verification =< issued /\ person[u].security.reset =< issued
       /\ was.verification \in Nat /\ was.reset \in Nat /\ was.verification =< issued /\ was.reset =< issued
  <2>1. \A s \in Directory!Security : s.verification \in Nat /\ s.reset \in Nat
    BY DEF Directory!Security, Directory!Link
  <2>2. person[u].security \in Directory!Security
    BY <1>11 DEF Directory!UserRow
  <2>3. Behind(call[r])
    BY DEF UsersInv
  <2>. QED BY <1>1, <1>2, <2>1, <2>2, <2>3 DEF Behind, UsersInv, UserRowsOK
<1>18. issued' \in issued .. MaxLinks /\ row.security.verification =< issued' /\ row.security.reset =< issued'
  <2>1. k.verification =< issued' /\ k.reset =< issued'
    BY <1>5, <1>6, <1>8, <1>17
  <2>. QED BY <1>5, <1>6, <1>12, <1>17, <2>1
<1>19. /\ filled' \in [Directory!UserId -> SUBSET Request] /\ (u \notin rewound' => filled'[u] \subseteq row.fields)
       /\ rewound \subseteq rewound'
       /\ chosen' \in [Directory!UserId -> {0} \cup Directory!Password]
       /\ \A v \in Directory!UserId \ {u} : filled'[v] = filled[v] /\ chosen'[v] = chosen[v]
       /\ row.state = "unborn" => person[u].state = "unborn" /\ filled'[u] = {}
       /\ u \notin rewound' => person[u].version =< row.version
  <2>1. person[u].version \in Nat /\ row.version \in Nat
    BY <1>11, <1>12 DEF Directory!UserRow
  <2>2. person'[u] = row
    BY <1>2, <1>10 DEF UsersInv, UserRowsOK
  <2>3. rewound \subseteq rewound' /\ (u \notin rewound' => person[u].version =< row.version)
    BY <1>2, <2>1, <2>2
  <2>. QED BY <1>2, <1>12, <2>3 DEF UsersInv, UserRowsOK
<1>20. calm => was = person[u].security /\ (step \in {"password", "unlock"} => p = chosen[u]) /\ UsersApart
  BY <1>1, <1>2, <1>4 DEF UsersInv, UsersCalm, KnowsUser
<1>21. calm => UsersApart'
  <2>. SUFFICES ASSUME calm PROVE UsersApart'
    OBVIOUS
  <2>1. row.state = "there" => Directory!There(u)
    BY <1>12 DEF Directory!There
  <2>2. Directory!There(u) => (person[u].security.verification = person[u].security.reset => person[u].security.verification = 0)
    BY <1>2, <1>20 DEF UsersApart
  <2>3. ASSUME Directory!There(u)
        PROVE  /\ row.security.verification \in {0, t} \/ row.security.verification = person[u].security.verification
               /\ row.security.reset \in {0, t} \/ row.security.reset = person[u].security.reset
               /\ row.security.verification = row.security.reset => row.security.reset = 0
    <3>1. /\ row.security.verification = IF step = "invite" THEN t ELSE IF step = "verify" THEN 0
                                         ELSE person[u].security.verification
          /\ row.security.reset = IF step = "reset" THEN t ELSE IF step = "clear" THEN 0 ELSE person[u].security.reset
      BY <1>8, <1>12, <1>20, <2>3
    <3>. QED BY <1>5, <1>6, <1>17, <2>2, <2>3, <3>1
  <2>4. UserRowsOK
    BY DEF UsersInv
  <2>. QED BY <1>2, <1>5, <1>10, <1>12, <1>20, <2>1, <2>3, <2>4, UsersApartRow
<1>22. calm /\ row.state = "there" => SoundBy(u, d)'
  <2>. SUFFICES ASSUME calm, row.state = "there" PROVE SoundBy(u, d)'
    OBVIOUS
  <2>1. Directory!There(u) /\ person'[u] = row /\ row.security = k /\ was = person[u].security
    BY <1>2, <1>10, <1>12, <1>20 DEF Directory!There, UsersInv, UserRowsOK
  <2>2. \A q \in Request \ {r} : call[q].pc = "idle"
    BY <1>2 DEF UsersInv, UsersCalm
  <2>3. SoundBy(u, call[r])
    BY <1>2, <2>1, <2>2, UsersAnswer
  <2>4. \A S \in {VerifySteps, ClearSteps} : rest \in S => rest \in UserSteps
    BY <1>4 DEF VerifySteps, ClearSteps
  <2>5. ASSUME k.verification \in spent PROVE Does(d, u, VerifySteps)
    <3>1. k.verification = person[u].security.verification /\ step # "verify"
      BY <1>5, <1>6, <1>8, <2>1, <2>5
    <3>2. steps \in VerifySteps
      BY <1>1, <2>3, <2>5, <3>1 DEF SoundBy, Does
    <3>. QED BY <1>4, <1>16, <2>4, <3>1, <3>2 DEF Does
  <2>6. ASSUME k.reset \in spent PROVE Does(d, u, ClearSteps)
    <3>1. k.reset = person[u].security.reset /\ step # "clear"
      BY <1>5, <1>6, <1>8, <2>1, <2>6
    <3>2. steps \in ClearSteps
      BY <1>1, <2>3, <2>6, <3>1 DEF SoundBy, Does
    <3>. QED BY <1>4, <1>16, <2>4, <3>1, <3>2 DEF Does
  <2>7. k.password = chosen[u]
    <3>1. person[u].security.password # chosen[u] => step \in {"password", "unlock"}
      BY <1>1, <1>4, <2>3 DEF SoundBy, Does
    <3>. QED BY <1>8, <1>20, <2>1, <3>1
  <2>. QED BY <1>2, <2>1, <2>5, <2>6, <2>7 DEF SoundBy, Does
<1>23. /\ call[r].pc # "idle" /\ (call[r].pc \in {"read", "write"} => call[r].user = u)
       /\ calm /\ d.pc = "read" /\ d.steps \in PasswordSteps => d.password = chosen'[d.user]
  BY <1>1, <1>2, <1>4, <1>16
<1>. QED BY <1>2, <1>10, <1>12, <1>14, <1>16, <1>18, <1>19, <1>21, <1>22, <1>23, UsersWriteRow

\* The row as an update writes it.
LEMMA UsersUpdated ==
  ASSUME NEW old \in Directory!UserRow, NEW was \in Directory!UserRow, NEW c, NEW row, row = Directory!Updated(old, c),
         c.seen = was, c.name \in Username \cup {Directory!None}, c.field \in SUBSET Request,
         c.status \in {Directory!None, "ACTIVE", "INACTIVE"}, was.version = old.version
  PROVE  /\ row \in Directory!UserRow /\ row.state = old.state /\ row.security = old.security
         /\ row.version = old.version + 1
         /\ row.username = IF c.name = Directory!None THEN old.username ELSE c.name
         /\ row.fields = IF c.field = {} THEN old.fields ELSE was.fields \cup c.field
<1>. HIDE DEF Directory!Security
<1>1. PICK version, name, fields, status :
        /\ version = was.version + 1
        /\ name = IF c.name = Directory!None THEN old.username ELSE c.name
        /\ fields = IF c.field = {} THEN old.fields ELSE was.fields \cup c.field
        /\ status = IF c.status = Directory!None THEN old.status ELSE c.status
  OBVIOUS
<1>2. /\ version \in Nat /\ version = old.version + 1 /\ name \in Username \cup {Directory!None}
      /\ fields \in SUBSET Request /\ status \in Directory!Status
  BY <1>1 DEF Directory!UserRow, Directory!Status
<1>3. PICK x : x = [old EXCEPT !.version = version]
  OBVIOUS
<1>4. PICK y : y = [x EXCEPT !.username = name]
  OBVIOUS
<1>5. PICK z : z = [y EXCEPT !.fields = fields]
  OBVIOUS
<1>. HIDE DEF Directory!None, Directory!Status
<1>6. /\ x \in Directory!UserRow /\ x.state = old.state /\ x.username = old.username
      /\ x.fields = old.fields /\ x.version = version /\ x.security = old.security /\ x.status = old.status
  BY <1>2, <1>3 DEF Directory!UserRow
<1>7. /\ y \in Directory!UserRow /\ y.state = old.state /\ y.username = name
      /\ y.fields = old.fields /\ y.version = version /\ y.security = old.security /\ y.status = old.status
  BY <1>2, <1>4, <1>6 DEF Directory!UserRow
<1>8. /\ z \in Directory!UserRow /\ z.state = old.state /\ z.username = name
      /\ z.fields = fields /\ z.version = version /\ z.security = old.security /\ z.status = old.status
  BY <1>2, <1>5, <1>7 DEF Directory!UserRow
<1>9. row = [z EXCEPT !.status = status]
  <2>1. x = [old EXCEPT !.version = c.seen.version + 1]
    BY <1>1, <1>3
  <2>2. y = [x EXCEPT !.username = IF c.name = Directory!None THEN @ ELSE c.name]
    BY <1>1, <1>4, <1>6
  <2>3. z = [y EXCEPT !.fields = IF c.field = {} THEN @ ELSE c.seen.fields \cup c.field]
    BY <1>1, <1>5, <1>7
  <2>4. row = [z EXCEPT !.status = IF c.status = Directory!None THEN @ ELSE c.status]
    BY <2>1, <2>2, <2>3 DEF Directory!Updated
  <2>. QED BY <1>1, <1>8, <2>4
<1>. QED BY <1>1, <1>2, <1>8, <1>9 DEF Directory!UserRow

\* An update is written to the row that it was made from, and its field joins the others.
LEMMA UsersSaveUser ==
  ASSUME UsersInv, NEW r \in Request, Directory!SaveUser(r)
  PROVE  UsersInv'
<1>. HIDE DEF Directory!UserId, UserCall, Directory!UserRow, Directory!None, Directory!Security,
              PasswordSteps, VerifySteps, ClearSteps, Directory!Password
<1>1. PICK u, c, was : u = call[r].user /\ c = call[r] /\ was = call[r].seen
  OBVIOUS
<1>2. /\ c.pc = "save" /\ u \in Directory!UserId /\ u = c.user /\ was = c.seen /\ was \in Directory!UserRow
      /\ c.name \in Username \cup {Directory!None} /\ c.field \in SUBSET Request
      /\ c.status \in {Directory!None, "ACTIVE", "INACTIVE"}
      /\ Directory!Goes(r, Directory!Idle) /\ UNCHANGED <<issued, spent, chosen, rewound>>
  BY <1>1, UsersShapes DEF Directory!SaveUser, Directory!At, Directory!Done
<1>3. Directory!Idle.pc = "idle" /\ Directory!Idle \in UserCall /\ Behind(Directory!Idle) /\ KnowsUser(Directory!Idle)
  BY UsersShapes
<1>4. CASE ~Directory!Unmodified(u, was)
  <2>1. UNCHANGED <<person, filled>>
    BY <1>1, <1>4 DEF Directory!SaveUser
  <2>. QED BY <1>1, <1>2, <1>3, <2>1, UsersReadsMore
<1>5. CASE Directory!Unmodified(u, was)
  <2>1. PICK old, row : old = person[u] /\ row = Directory!Updated(old, c)
    OBVIOUS
  <2>2. person' = [person EXCEPT ![u] = row] /\ filled' = [filled EXCEPT ![u] = filled[u] \cup c.field]
    BY <1>1, <1>5, <2>1 DEF Directory!SaveUser
  <2>3. old \in Directory!UserRow /\ old.version \in Nat
    BY <1>2, <2>1 DEF UsersInv, UserRowsOK, Directory!UserRow
  <2>4. Directory!There(u) /\ was.version = old.version
    BY <1>5, <2>1 DEF Directory!Unmodified
  <2>5. u \notin rewound => was.fields = old.fields
    <3>1. Behind(call[r])
      BY DEF UsersInv
    <3>. QED BY <1>1, <1>2, <2>1, <2>4, <3>1 DEF Behind
  <2>6. /\ row \in Directory!UserRow /\ row.state = old.state /\ row.security = old.security
        /\ row.version = old.version + 1
        /\ row.username = (IF c.name = Directory!None THEN old.username ELSE c.name)
        /\ row.fields = IF c.field = {} THEN old.fields ELSE was.fields \cup c.field
    BY <1>2, <2>1, <2>3, <2>4, UsersUpdated
  <2>7. /\ row.state = "there" /\ old.state = "there"
        /\ u \notin rewound => row.fields = old.fields \cup c.field
    BY <2>1, <2>4, <2>5, <2>6 DEF Directory!There
  <2>8. /\ filled' \in [Directory!UserId -> SUBSET Request] /\ (u \notin rewound => filled'[u] \subseteq row.fields)
        /\ \A v \in Directory!UserId \ {u} : filled'[v] = filled[v]
    <3>1. filled \in [Directory!UserId -> SUBSET Request] /\ (u \notin rewound => filled[u] \subseteq old.fields)
      BY <1>2, <2>1 DEF UsersInv, UserRowsOK
    <3>2. filled'[u] = filled[u] \cup c.field
      BY <1>2, <2>2, <3>1
    <3>. QED BY <1>2, <2>2, <2>7, <3>1, <3>2
  <2>9. /\ chosen' \in [Directory!UserId -> {0} \cup Directory!Password] /\ chosen' = chosen /\ issued' \in issued .. MaxLinks
    BY <1>2, RegistryAssumption DEF UsersInv, UserRowsOK
  <2>10. row.security.verification =< issued' /\ row.security.reset =< issued'
    BY <1>2, <2>1, <2>6 DEF UsersInv, UserRowsOK
  <2>11. row.version # old.version /\ old.version =< row.version
    BY <2>3, <2>6
  <2>12. calm => UsersApart'
    <3>1. calm => UsersApart /\ (c.name # Directory!None => Directory!Named(c.name) \subseteq {u})
      BY <1>1, <1>2 DEF UsersInv, UsersCalm, KnowsUser
    <3>2. calm => (row.security.verification = row.security.reset => row.security.reset = 0)
      BY <1>2, <2>1, <2>4, <2>6, <3>1 DEF UsersApart
    <3>3. \/ row.username = person[u].username
          \/ row.username = c.name /\ c.name # Directory!None
      BY <2>1, <2>6
    <3>4. calm => row.username = person[u].username \/ Directory!Named(row.username) \subseteq {u}
      BY <3>1, <3>3
    <3>5. UserRowsOK
      BY DEF UsersInv
    <3>. QED BY <1>2, <2>1, <2>2, <2>4, <2>6, <3>1, <3>2, <3>4, <3>5, UsersApartRow
  <2>13. calm => SoundBy(u, Directory!Idle)'
    <3>. SUFFICES ASSUME calm PROVE SoundBy(u, Directory!Idle)'
      OBVIOUS
    <3>1. \A q \in Request \ {r} : call[q].pc = "idle"
      BY <1>1, <1>2 DEF UsersInv, UsersCalm
    <3>2. SoundBy(u, call[r])
      BY <1>2, <2>4, <3>1, UsersAnswer
    <3>3. /\ person[u].security.verification \notin spent /\ person[u].security.reset \notin spent
          /\ person[u].security.password = chosen[u]
      BY <1>1, <1>2, <3>2 DEF SoundBy, Does
    <3>4. person'[u] = row
      BY <1>2, <2>2 DEF UsersInv, UserRowsOK
    <3>. QED BY <1>2, <2>1, <2>6, <3>3, <3>4 DEF SoundBy
  <2>14. /\ call[r].pc # "idle" /\ call[r].pc \notin {"read", "write"} /\ Directory!Idle.pc \in {"idle", "read", "accept"}
         /\ Directory!Idle.pc # "read"
         /\ row.state # "unborn"
    BY <1>1, <1>2, <1>3, <2>7
  <2>15. /\ person[u].version =< row.version /\ (row.version = person[u].version => row.fields = person[u].fields)
         /\ \A v \in Directory!UserId \ {u} : filled'[v] = filled[v] /\ chosen'[v] = chosen[v]
    BY <2>1, <2>8, <2>9, <2>11
  <2>. QED BY <1>2, <1>3, <2>2, <2>6, <2>8, <2>9, <2>10, <2>12, <2>13, <2>14, <2>15, UsersWriteRow
<1>. QED BY <1>4, <1>5

LEMMA UsersFail ==
  ASSUME UsersInv, NEW r \in Request, Directory!Fails(r), UNCHANGED Directory!users
  PROVE  UsersInv'
<1>. HIDE DEF UserCall, Directory!UserId, Directory!UserRow, Directory!Security
<1>1. /\ UNCHANGED <<person, issued, spent, filled, chosen, rewound>>
      /\ call' = [call EXCEPT ![r] = Directory!Idle] /\ calm' = FALSE
  BY DEF Directory!Fails, Directory!users
<1>2. Directory!Idle \in UserCall /\ Behind(Directory!Idle)'
  BY UsersShapes DEF Behind
<1>3. UserRowsOK' /\ issued =< issued'
  BY <1>1 DEF UsersInv, UserRowsOK
<1>4. RowsGoOn
  BY <1>1, RowsStay DEF UsersInv
<1>. QED BY <1>1, <1>2, <1>3, <1>4, UsersStep

\* What none of the rows, tokens and calls show.
LEMMA UsersStay ==
  ASSUME UsersInv, UNCHANGED <<person, issued, spent, filled, chosen, rewound, call, calm>>
  PROVE  UsersInv'
<1>1. UserRowsOK' /\ (calm => UsersApart')
  <2>1. \A u : Directory!There(u)' = Directory!There(u)
    BY DEF Directory!There
  <2>2. UserRowsOK'
    BY DEF UsersInv, UserRowsOK
  <2>3. UsersApart => UsersApart'
    BY <2>1 DEF UsersApart
  <2>. QED BY <2>2, <2>3 DEF UsersInv, UsersCalm
<1>2. \A r \in Request : Behind(call[r])'
  BY DEF UsersInv, Behind
<1>3. calm => \A r \in Request : KnowsUser(call[r])'
  <2>1. \A n : Directory!Named(n)' = Directory!Named(n)
    BY DEF Directory!Named, Directory!There
  <2>. QED BY <2>1 DEF UsersInv, UsersCalm, KnowsUser
<1>4. calm => \A u \in Directory!UserId : Directory!There(u)' => UsersSound(u)'
  BY DEF UsersInv, UsersCalm, UsersSound, Directory!There
<1>5. UsersCalm'
  BY <1>1, <1>3, <1>4 DEF UsersInv, UsersCalm
<1>. QED BY <1>1, <1>2, <1>5 DEF UsersInv

LEMMA UsersStart == Directory!UsersInit => UsersInv
<1>. SUFFICES ASSUME Directory!UsersInit PROVE UsersInv
  OBVIOUS
<1>1. PICK invited, joined :
        /\ invited = [Directory!NewUser(Directory!AnyEmail, Directory!None) EXCEPT !.security.verification = 1]
        /\ joined = [Directory!NewUser(Directory!AnyEmail, Directory!None) EXCEPT !.security.password = 1,
                                                                              !.status = "ACTIVE", !.verified = TRUE]
  OBVIOUS
<1>2. PICK first \in BOOLEAN :
        /\ person = [u \in Directory!UserId |-> IF u > 1 THEN Directory!UnbornUser ELSE IF first THEN joined ELSE invited]
        /\ chosen = [u \in Directory!UserId |-> IF u = 1 /\ first THEN 1 ELSE 0]
        /\ spent = IF first THEN {1} ELSE {}
  BY <1>1 DEF Directory!UsersInit
<1>3. /\ call = [r \in Request |-> Directory!Idle] /\ calm = TRUE
      /\ issued = 1 /\ filled = [u \in Directory!UserId |-> {}]
  BY DEF Directory!UsersInit, Directory!RequestsInit
<1>4. Directory!AnyEmail \in Email
  BY RegistryAssumption DEF Directory!AnyEmail
<1>5. 1 \in Directory!Link /\ 1 \in Directory!Password /\ 1 =< MaxLinks
  BY RegistryAssumption DEF Directory!Link, Directory!Password
<1>. HIDE DEF Directory!UserId, Directory!Link, Directory!Password, Directory!None, Directory!AnyEmail, UserCall
<1>6. PICK new : new = Directory!NewUser(Directory!AnyEmail, Directory!None)
  OBVIOUS
<1>7. /\ new \in Directory!UserRow /\ new.state = "there" /\ new.fields = {}
      /\ new.security = [password |-> 0, verification |-> 0, reset |-> 0]
  BY <1>4, <1>6 DEF Directory!NewUser, Directory!NoSecurity, Directory!UserRow, Directory!Security, Directory!Status
<1>8. /\ Directory!UnbornUser \in Directory!UserRow /\ Directory!UnbornUser.state = "unborn"
      /\ Directory!UnbornUser.fields = {} /\ Directory!UnbornUser.security = new.security
  <2>1. Directory!UnbornUser = [new EXCEPT !.state = "unborn"]
    BY <1>6 DEF Directory!UnbornUser
  <2>. QED BY <1>7, <2>1 DEF Directory!UserRow
<1>9. /\ invited \in Directory!UserRow /\ invited.state = "there" /\ invited.fields = {}
      /\ invited.security = [password |-> 0, verification |-> 1, reset |-> 0]
  <2>1. invited = [new EXCEPT !.security.verification = 1]
    BY <1>1, <1>6
  <2>. QED BY <1>5, <1>7, <2>1 DEF Directory!UserRow, Directory!Security
<1>10. /\ joined \in Directory!UserRow /\ joined.state = "there" /\ joined.fields = {}
       /\ joined.security = [password |-> 1, verification |-> 0, reset |-> 0]
  <2>1. PICK x : x = [new EXCEPT !.security.password = 1]
    OBVIOUS
  <2>2. PICK y : y = [x EXCEPT !.status = "ACTIVE"]
    OBVIOUS
  <2>3. joined = [y EXCEPT !.verified = TRUE]
    BY <1>1, <1>6, <2>1, <2>2
  <2>4. /\ x \in Directory!UserRow /\ x.state = "there" /\ x.fields = {}
        /\ x.security = [password |-> 1, verification |-> 0, reset |-> 0]
    BY <1>5, <1>7, <2>1 DEF Directory!UserRow, Directory!Security
  <2>5. y \in Directory!UserRow /\ y.state = "there" /\ y.fields = {} /\ y.security = x.security
    BY <2>2, <2>4 DEF Directory!UserRow, Directory!Status
  <2>. QED BY <2>3, <2>4, <2>5 DEF Directory!UserRow
<1>11. \A u \in Directory!UserId :
         /\ person[u] \in Directory!UserRow /\ person[u].fields = {}
         /\ person[u].security.reset = 0 /\ person[u].security.verification \in {0, 1}
         /\ Directory!There(u) =>
              /\ u = 1 /\ person[u].security.password = chosen[u]
              /\ person[u].security.verification = IF first THEN 0 ELSE 1
  <2>. SUFFICES ASSUME NEW u \in Directory!UserId
                PROVE  /\ person[u] \in Directory!UserRow /\ person[u].fields = {}
                       /\ person[u].security.reset = 0 /\ person[u].security.verification \in {0, 1}
                       /\ Directory!There(u) =>
                            /\ u = 1 /\ person[u].security.password = chosen[u]
                            /\ person[u].security.verification = IF first THEN 0 ELSE 1
    OBVIOUS
  <2>1. u \in Nat /\ u >= 1
    BY DEF Directory!UserId
  <2>2. CASE u > 1
    <3>1. person[u] = Directory!UnbornUser
      BY <1>2, <2>2
    <3>. QED BY <1>7, <1>8, <3>1 DEF Directory!There
  <2>3. CASE u = 1 /\ first
    <3>1. person[u] = joined /\ chosen[u] = 1
      BY <1>2, <2>3
    <3>. QED BY <1>10, <2>3, <3>1
  <2>4. CASE u = 1 /\ ~first
    <3>1. person[u] = invited /\ chosen[u] = 0
      BY <1>2, <2>4
    <3>. QED BY <1>9, <2>4, <3>1
  <2>. QED BY <2>1, <2>2, <2>3, <2>4
<1>12. Directory!Idle.pc = "idle" /\ Directory!Idle \in UserCall
  BY DEF Directory!Idle, UserCall
<1>13. UserRowsOK
  <2>1. person \in [Directory!UserId -> Directory!UserRow]
    <3>1. person = [u \in Directory!UserId |-> person[u]]
      BY <1>2
    <3>. QED BY <1>11, <3>1
  <2>2. chosen \in [Directory!UserId -> {0} \cup Directory!Password]
    BY <1>2, <1>5
  <2>3. issued \in 0 .. MaxLinks /\ spent \subseteq 1 .. issued
    BY <1>2, <1>3, <1>5, RegistryAssumption
  <2>4. /\ filled \in [Directory!UserId -> SUBSET Request]
        /\ \A u \in Directory!UserId : filled[u] = {}
    BY <1>3
  <2>5. \A u \in Directory!UserId : person[u].security.verification =< issued /\ person[u].security.reset =< issued
    BY <1>3, <1>11
  <2>. QED BY <2>1, <2>2, <2>3, <2>4, <2>5 DEF UserRowsOK
<1>14. \A r \in Request : call[r] \in UserCall /\ call[r].pc = "idle"
  BY <1>3, <1>12
<1>15. UsersApart
  BY <1>11 DEF UsersApart
<1>16. \A u \in Directory!UserId : Directory!There(u) => UsersSound(u)
  <2>1. 0 \notin spent /\ (1 \in spent => first)
    BY <1>2
  <2>. QED BY <1>11, <2>1 DEF UsersSound
<1>17. UsersCalm
  BY <1>14, <1>15, <1>16 DEF UsersCalm, KnowsUser
<1>18. call \in [Request -> UserCall] /\ \A r \in Request : Behind(call[r])
  BY <1>3, <1>12, <1>14 DEF Behind
<1>. QED BY <1>3, <1>13, <1>17, <1>18 DEF UsersInv

LEMMA UsersGoOn ==
  UsersInv /\ [Directory!UsersNext]_<<directory, requests>> => UsersInv'
<1>. SUFFICES ASSUME UsersInv, [Directory!UsersNext]_<<directory, requests>> PROVE UsersInv'
  OBVIOUS
<1>. HIDE DEF Directory!UserId, Directory!Password, Directory!Link, Directory!None
<1>1. ASSUME NEW t \in Directory!Link, Directory!ResetExpires(t) PROVE UsersInv'
  BY <1>1, UsersStay DEF Directory!ResetExpires, Directory!requests
<1>2. CASE UNCHANGED <<directory, requests>>
  BY <1>2, UsersStay DEF directory, requests
<1>3. ASSUME NEW r \in Request, NEW u \in Directory!UserId, NEW p \in Directory!Password,
             Directory!ChangePassword(r, u, p) \/ Directory!ResetByCode(r, u, p)
      PROVE  UsersInv'
  BY <1>3, UsersChangePassword
<1>4. ASSUME NEW r \in Request,
             \/ \E e \in Email, name \in Username \cup {Directory!None}, p \in {0, 1} : Directory!Create(r, e, name, p)
             \/ \E u \in Directory!UserId :
                  \/ Directory!RequestPasswordReset(r, u) \/ Directory!RecordLogin(r, u) \/ Directory!DeleteUser(r, u)
                  \/ \E step \in DOMAIN Directory!Asked \ {"unlock"} : Directory!Decide(r, u, step)
                  \/ \E name \in Username \cup {Directory!None} : Directory!Update(r, u, name)
                  \/ \E status \in {"ACTIVE", "INACTIVE"} : Directory!UpdateStatus(r, u, status)
      PROVE  UsersInv'
  BY <1>4, UsersAsk
<1>5. ASSUME NEW r \in Request, NEW t \in Directory!Link,
             \/ Directory!VerifyEmail(r, t)
             \/ \E p \in Directory!Password : Directory!ResetPassword(r, t, p) \/ Directory!AcceptInvitation(r, t, p)
      PROVE  UsersInv'
  BY <1>5, UsersLinks
<1>6. ASSUME NEW r \in Request,
             \/ Directory!FindUsername(r) \/ Directory!Insert(r) \/ Directory!ReadSecurity(r) \/ Directory!WriteSecurity(r)
             \/ Directory!SetInvitationAccepted(r) \/ Directory!ReadUser(r) \/ Directory!SaveUser(r) \/ Directory!RemoveUser(r)
             \/ Directory!Fails(r) /\ UNCHANGED Directory!users
      PROVE  UsersInv'
  BY <1>6, UsersFindUsername, UsersInsert, UsersReadSecurity, UsersWriteSecurity, UsersAccept, UsersReadUser,
     UsersSaveUser, UsersFail
<1>7. CASE Directory!UsersNext
  BY <1>1, <1>3, <1>4, <1>5, <1>6, <1>7 DEF Directory!UsersNext
<1>. QED BY <1>2, <1>7

LEMMA UsersCardinality ==
  ASSUME NEW S
  PROVE  Directory!Cardinality(S) = Cardinality(S)
BY DEF Directory!Cardinality, Cardinality

LEMMA UsersHold ==
  UsersInv => /\ Directory!TokensSpent /\ Directory!PasswordAsChosen /\ Directory!UsernamesDiffer /\ Directory!FieldsKept
<1>. SUFFICES ASSUME UsersInv
              PROVE  /\ Directory!TokensSpent /\ Directory!PasswordAsChosen /\ Directory!UsernamesDiffer
                     /\ Directory!FieldsKept
  OBVIOUS
<1>. HIDE DEF Directory!UserId, Directory!None
<1>1. Directory!Settled => /\ UsersApart
                           /\ \A u \in Directory!UserId : Directory!There(u) =>
                                /\ person[u].security.verification \notin spent /\ person[u].security.reset \notin spent
                                /\ person[u].security.password = chosen[u]
  BY DEF Directory!Settled, Directory!At, UsersInv, UsersCalm, UsersSound, Does
<1>2. ASSUME Directory!Settled, NEW name \in Username PROVE Directory!Cardinality(Directory!Named(name)) <= 1
  <2>1. PICK S : S = Directory!Named(name)
    OBVIOUS
  <2>2. \A u, v \in S : u = v
    BY <1>1, <1>2, <2>1, RegistryAssumption DEF UsersApart, Directory!Named
  <2>3. CASE S = {}
    BY <2>1, <2>3, UsersCardinality, FS_EmptySet
  <2>4. CASE S # {}
    <3>1. PICK u : u \in S
      BY <2>4
    <3>2. S = {u}
      BY <2>2, <3>1
    <3>3. Cardinality(S) = 1
      BY <3>2, FS_Singleton
    <3>. QED BY <2>1, <3>3, UsersCardinality
  <2>. QED BY <2>3, <2>4
<1>3. Directory!FieldsKept
  BY DEF UsersInv, UserRowsOK, Directory!FieldsKept
<1>. QED BY <1>1, <1>2, <1>3 DEF Directory!TokensSpent, Directory!PasswordAsChosen, Directory!UsernamesDiffer

\* However requests of administrators and users overlap and fail, a field that was given
\* to a user is not lost to another update, unless an approval, a rejection, a lock or a
\* reset has written the version of that user back to a lower one.  One after the other,
\* whatever links are asked for and followed meanwhile, and whatever is decided about the
\* accounts, each user has the password it last asked for, no token that was accepted is
\* good again, and no two users have one username.
THEOREM UsersCorrect == Spec => []UsersConsistent
<1>. DEFINE Inv == active = "users" => UsersInv
<1>1. Init => Inv
  BY UsersStart DEF Init
<1>2. Inv /\ [Next]_vars => Inv'
  <2>1. [Next]_vars => active' = active /\ (active = "users" => [Directory!UsersNext]_<<directory, requests>>)
    BY DEF Next, vars
  <2>. QED BY <2>1, UsersGoOn
<1>3. Inv => UsersConsistent
  BY UsersHold DEF UsersConsistent
<1>. QED BY <1>1, <1>2, <1>3, PTL DEF Spec
-----------------------------------------------------------------------------
\* The components of Estate

\* Whatever the order in which requests write the rows of parents and children back, the
\* parent, the path and the depth of a group agree and its members are counted; one after
\* the other, requests leave a group listed by the parent that it names alone, in spite of
\* moves that are refused half way.
THEOREM GroupsCorrect == Spec => []GroupsConsistent
<1>. DEFINE Inv == active = "groups" => GroupsInv
<1>1. Init => Inv
  BY GroupsStart DEF Init
<1>2. Inv /\ [Next]_vars => Inv'
  <2>1. [Next]_vars => active' = active /\ (active = "groups" => [Grouping!GroupsNext]_<<group, requests>>)
    BY DEF Next, vars
  <2>. QED BY <2>1, GroupsGoOn
<1>3. Inv => GroupsConsistent
  BY GroupsAgree DEF GroupsConsistent
<1>. QED BY <1>1, <1>2, <1>3, PTL DEF Spec

\* However updates overlap the increments that nothing waits for, a key counts the requests
\* it admitted, and a key that was revoked stays so; one after the other, requests leave the
\* key as it was asked for, although an update writes what it has read before.
THEOREM KeysCorrect == Spec => KeysConsistent
<1>. DEFINE Inv == active = "keys" => KeysInv
<1>1. Init => Inv
  BY KeysStart DEF Init
<1>2. Inv /\ [Next]_vars => Inv' /\ [active = "keys" => Keys!Withdraws]_vars
  <2>1. [Next]_vars => active' = active /\ (active = "keys" => [Keys!KeysNext]_<<keys, requests>>)
    BY DEF Next, vars
  <2>. QED BY <2>1, KeysGoOn
<1>3. Inv => (active = "keys" => Keys!UsageAccounted /\ Keys!StoredAsWanted)
  BY KeysAccount
<1>. QED BY <1>1, <1>2, <1>3, PTL DEF Spec, KeysConsistent

\* However requests overlap, fail and die half way, and whichever users are deleted, no
\* membership outlives its group; one after the other, requests leave the count that a
\* maintenance group stores between the members it shows and all that it has, together with
\* the members that were deleted as users since it was last counted.
THEOREM TeamsCorrect == Spec => []TeamsConsistent
<1>. DEFINE Inv == active = "teams" => TeamsInv
<1>1. Init => Inv
  BY TeamsStart DEF Init
<1>2. Inv /\ [Next]_vars => Inv'
  <2>1. [Next]_vars => active' = active /\ (active = "teams" => [Teams!TeamsNext]_<<teams, requests>>)
    BY DEF Next, vars
  <2>. QED BY <2>1, TeamsGoOn
<1>3. Inv => TeamsConsistent
  BY TeamsAgree DEF TeamsConsistent
<1>. QED BY <1>1, <1>2, <1>3, PTL DEF Spec

\* Whatever moves, creations and deletions overlap, the path of an asset ends in the asset
\* itself; one after the other, they leave it starting from the customer of the asset, also
\* below an asset that has moved to another customer, and leave the parent of an asset
\* there, although a move within the customer does not write it.
THEOREM AssetsCorrect == Spec => []AssetsConsistent
<1>. DEFINE Inv == active = "assets" => TreeInv
<1>1. Init => Inv
  BY TreeStart DEF Init
<1>2. Inv /\ [Next]_vars => Inv'
  <2>1. [Next]_vars => active' = active /\ (active = "assets" => [Tree!AssetsNext]_<<asset, requests>>)
    BY DEF Next, vars
  <2>. QED BY <2>1, TreeGoOn
<1>3. Inv => AssetsConsistent
  BY TreeHolds DEF AssetsConsistent
<1>. QED BY <1>1, <1>2, <1>3, PTL DEF Spec

\* Whatever moves, creations and deletions of devices and of assets overlap, a device is in
\* an asset that is there and stored with a customer that this asset has had, and what an
\* update has merged into its metadata no other update loses; one after the other, requests
\* give no external id to two devices.
THEOREM DevicesCorrect == Spec => []DevicesConsistent
<1>. DEFINE Inv == active = "devices" => FleetInv
<1>1. Init => Inv
  BY FleetStart DEF Init
<1>2. Inv /\ [Next]_vars => Inv'
  <2>1. [Next]_vars =>
          active' = active /\ (active = "devices" => [Fleet!DevicesNext]_<<asset, fleet, requests>>)
    BY DEF Next, vars
  <2>. QED BY <2>1, FleetGoOn
<1>3. Inv => DevicesConsistent
  BY FleetHolds DEF DevicesConsistent
<1>. QED BY <1>1, <1>2, <1>3, PTL DEF Spec

\* Whichever route creates and changes a central, and whatever overlaps, its asset is there,
\* and what an update has merged into its configuration is not lost to another update, to a
\* change of status or to a heartbeat.
THEOREM CentralsCorrect == Spec => []CentralsConsistent
<1>. DEFINE Inv == active = "centrals" => GatewaysInv
<1>1. Init => Inv
  BY GatewaysStart DEF Init
<1>2. Inv /\ [Next]_vars => Inv'
  <2>1. [Next]_vars =>
          active' = active /\ (active = "centrals" => [Gateways!CentralsNext]_<<asset, gateways, requests>>)
    BY DEF Next, vars
  <2>. QED BY <2>1, GatewaysGoOn
<1>3. Inv => CentralsConsistent
  BY GatewaysHold DEF CentralsConsistent
<1>. QED BY <1>1, <1>2, <1>3, PTL DEF Spec
=============================================================================
