---------------------------- MODULE EstateProofs ----------------------------
(***************************************************************************)
(* What the components of Estate keep to, for any values of the constants: *)
(* for each of them an invariant that holds initially, that its steps      *)
(* preserve, and from which its properties follow.  RegistryProofs draws   *)
(* the theorems from them.                                                 *)
(***************************************************************************)
EXTENDS Estate, FiniteSetTheorems, NaturalsInduction, SequenceTheorems, TLAPS

-----------------------------------------------------------------------------
\* Least numbers

\* A set of numbers that is not empty has a least one.
LEMMA LeastOf ==
  ASSUME NEW S \in SUBSET Nat, S # {}
  PROVE  \E x \in S : \A y \in S : x =< y
<1>1. \E x \in S : \A y \in S : ~ (y < x)
  <2>1. IsWellFoundedOn(OpToRel(<, Nat), Nat)
    BY NatLessThanWellFounded
  <2>2. PICK x \in S : \A y \in S : ~ (<<y, x>> \in OpToRel(<, Nat))
    BY <2>1, WFMin
  <2>. QED BY <2>2 DEF OpToRel
<1>. QED BY <1>1

-----------------------------------------------------------------------------
\* Customer API keys

KeysCall ==
  {Keys!Idle}
    \cup [pc : {"insertKey"}, scopes : ScopeSet, expires : BOOLEAN]
    \cup [pc : {"readKey"}, key : Keys!Key, active : {"keep", "yes", "no"}, scopes : ScopeSet \cup {{}}]
    \cup [pc : {"writeKey"}, key : Keys!Key, set : Keys!Setting, usage : Nat,
          active : {"keep", "yes", "no"}, scopes : ScopeSet \cup {{}}]
    \cup [pc : {"findKey", "dropKey", "increment"}, key : Keys!Key]

KeysTypes ==
  /\ key \in [Keys!Key -> Keys!KeyRow]
  /\ call \in [Request -> KeysCall]
  /\ wanted \in [Keys!Key -> Keys!Setting]
  /\ admitted \in [Keys!Key -> Nat] /\ lost \in [Keys!Key -> Nat]
  /\ calm \in BOOLEAN

\* The requests that a key was admitted for and whose increment is under way.
Counting(k) == {r \in Request : call[r].pc = "increment" /\ call[r].key = k}

\* The count of a key, also of one that is not made yet: nothing increments that.
UsesAdd ==
  \A k \in Keys!Key :
    /\ IsFiniteSet(Counting(k))
    /\ key[k].state = "unborn" => key[k].usage = 0 /\ Counting(k) = {}
    /\ key[k].state # "gone" => key[k].usage + lost[k] + Cardinality(Counting(k)) = admitted[k]

\* What the update c is about to store is what it was asked for in the key as it is now.
WritesMerged(c) == c.pc = "writeKey" /\ Keys!Valid(c.key) => c.set = Keys!Merged(c)

\* What is stored is what is wanted, as long as requests come one after the other.
KeysCalm ==
  calm =>
    /\ \A q, r \in Request : call[q].pc # "idle" /\ call[r].pc # "idle" => q = r
    /\ \A k \in Keys!Key : Keys!Valid(k) => key[k].set = wanted[k]
    /\ \A r \in Request : WritesMerged(call[r])

KeysInv == KeysTypes /\ UsesAdd /\ KeysCalm

LEMMA KeysShapes ==
  ASSUME KeysTypes, NEW r \in Request
  PROVE  /\ call[r] \in KeysCall
         /\ Keys!Idle.pc = "idle"
         /\ call[r].pc = "insertKey" => call[r].scopes \in ScopeSet /\ call[r].expires \in BOOLEAN
         /\ call[r].pc \in {"readKey", "writeKey", "findKey", "dropKey", "increment"} => call[r].key \in Keys!Key
         /\ call[r].pc \in {"readKey", "writeKey"} =>
              call[r].active \in {"keep", "yes", "no"} /\ call[r].scopes \in ScopeSet \cup {{}}
         /\ call[r].pc = "writeKey" => call[r].set \in Keys!Setting
<1>1. call[r] \in KeysCall
  <2>. HIDE DEF KeysCall
  <2>. QED BY DEF KeysTypes
<1>2. Keys!Idle.pc = "idle"
  BY DEF Keys!Idle
<1>. HIDE DEF Keys!Setting, Keys!Key
<1>. QED BY <1>1, <1>2 DEF KeysCall

\* How the requests that count a key change with the request that makes the step.
LEMMA CountingStep ==
  ASSUME NEW r \in Request, NEW c, call' = [call EXCEPT ![r] = c], DOMAIN call = Request, NEW k,
         IsFiniteSet(Counting(k))
  PROVE  /\ Counting(k)' = IF c.pc = "increment" /\ c.key = k THEN Counting(k) \cup {r} ELSE Counting(k) \ {r}
         /\ r \in Counting(k) <=> call[r].pc = "increment" /\ call[r].key = k
         /\ IsFiniteSet(Counting(k)')
         /\ Cardinality(Counting(k)) \in Nat /\ Cardinality(Counting(k)') \in Nat
         /\ Cardinality(Counting(k)') + (IF r \in Counting(k) THEN 1 ELSE 0)
              = Cardinality(Counting(k)) + (IF c.pc = "increment" /\ c.key = k THEN 1 ELSE 0)
<1>1. Counting(k)' = IF c.pc = "increment" /\ c.key = k THEN Counting(k) \cup {r} ELSE Counting(k) \ {r}
  <2>1. \A q \in Request : call'[q] = IF q = r THEN c ELSE call[q]
    OBVIOUS
  <2>. QED BY <2>1 DEF Counting
<1>2. r \in Counting(k) <=> call[r].pc = "increment" /\ call[r].key = k
  BY DEF Counting
<1>3. PICK S : S = Counting(k)
  OBVIOUS
<1>4. /\ IsFiniteSet(S \cup {r}) /\ IsFiniteSet(S \ {r})
      /\ Cardinality(S) \in Nat /\ Cardinality(S \cup {r}) \in Nat /\ Cardinality(S \ {r}) \in Nat
      /\ Cardinality(S \cup {r}) = IF r \in S THEN Cardinality(S) ELSE Cardinality(S) + 1
      /\ Cardinality(S \ {r}) = IF r \in S THEN Cardinality(S) - 1 ELSE Cardinality(S)
  <2>1. IsFiniteSet(S)
    BY <1>3
  <2>2. /\ IsFiniteSet(S \cup {r})
        /\ Cardinality(S \cup {r}) = IF r \in S THEN Cardinality(S) ELSE Cardinality(S) + 1
    BY <2>1, FS_AddElement
  <2>3. /\ IsFiniteSet(S \ {r})
        /\ Cardinality(S \ {r}) = IF r \in S THEN Cardinality(S) - 1 ELSE Cardinality(S)
    BY <2>1, FS_RemoveElement
  <2>. QED BY <2>1, <2>2, <2>3, FS_CardinalityType
<1>. QED BY <1>1, <1>2, <1>3, <1>4

\* What a step has to keep of the counts: each key's uses, with those under way and those
\* that failed, against the requests it was admitted for.
KeysUses(r, c) ==
  \A k \in Keys!Key :
    /\ key'[k].state = "unborn" => key[k].state = "unborn" /\ key'[k].usage = 0 /\ ~(c.pc = "increment" /\ c.key = k)
    /\ key'[k].state # "gone" => key[k].state # "gone"
    /\ key'[k].state # "gone" =>
         key'[k].usage + lost'[k] + (IF c.pc = "increment" /\ c.key = k THEN 1 ELSE 0) + admitted[k]
           = key[k].usage + lost[k] + (IF call[r].pc = "increment" /\ call[r].key = k THEN 1 ELSE 0) + admitted'[k]

\* And of what is stored and wanted, while requests come one after the other.
KeysKept(r, c) ==
  calm' =>
    /\ calm
    /\ call[r].pc # "idle" \/ \A q \in Request : call[q].pc = "idle"
    /\ \A k \in Keys!Key : key'[k].state = "there" => key'[k].set = wanted'[k]
    /\ WritesMerged(c)'

LEMMA KeysStep ==
  ASSUME KeysInv, NEW r \in Request, NEW c \in KeysCall, call' = [call EXCEPT ![r] = c],
         key' \in [Keys!Key -> Keys!KeyRow], wanted' \in [Keys!Key -> Keys!Setting],
         admitted' \in [Keys!Key -> Nat], lost' \in [Keys!Key -> Nat], calm' \in BOOLEAN,
         KeysUses(r, c), KeysKept(r, c)
  PROVE  KeysInv'
<1>. HIDE DEF KeysCall
<1>1. KeysTypes'
  BY DEF KeysInv, KeysTypes
<1>2. \A q \in Request : call'[q] = IF q = r THEN c ELSE call[q]
  BY DEF KeysInv, KeysTypes
<1>3. UsesAdd'
  <2>. SUFFICES ASSUME NEW k \in Keys!Key
                PROVE  /\ IsFiniteSet(Counting(k)')
                       /\ key'[k].state = "unborn" => key'[k].usage = 0 /\ Counting(k)' = {}
                       /\ key'[k].state # "gone" => key'[k].usage + lost'[k] + Cardinality(Counting(k)') = admitted'[k]
    BY DEF UsesAdd, Counting
  <2>1. DOMAIN call = Request /\ IsFiniteSet(Counting(k))
    BY DEF KeysInv, KeysTypes, UsesAdd
  <2>2. PICK old : old = Counting(k)
    OBVIOUS
  <2>3. PICK new : new = Counting(k)'
    OBVIOUS
  <2>4. PICK i : i = IF call[r].pc = "increment" /\ call[r].key = k THEN 1 ELSE 0
    OBVIOUS
  <2>5. PICK j : j = IF c.pc = "increment" /\ c.key = k THEN 1 ELSE 0
    OBVIOUS
  <2>6. /\ new = IF c.pc = "increment" /\ c.key = k THEN old \cup {r} ELSE old \ {r}
        /\ IsFiniteSet(new) /\ Cardinality(old) \in Nat /\ Cardinality(new) \in Nat
        /\ Cardinality(new) + i = Cardinality(old) + j
    BY <2>1, <2>2, <2>3, <2>4, <2>5, CountingStep
  <2>7. key[k].state = "unborn" => old = {}
    BY <2>2 DEF KeysInv, UsesAdd
  <2>8. key[k].state # "gone" => key[k].usage + lost[k] + Cardinality(old) = admitted[k]
    BY <2>2 DEF KeysInv, UsesAdd
  <2>9. /\ key'[k].state = "unborn" => key[k].state = "unborn" /\ key'[k].usage = 0 /\ ~(c.pc = "increment" /\ c.key = k)
        /\ key'[k].state # "gone" => key[k].state # "gone"
        /\ key'[k].state # "gone" =>
             key'[k].usage + lost'[k] + j + admitted[k] = key[k].usage + lost[k] + i + admitted'[k]
    BY <2>4, <2>5 DEF KeysUses
  <2>10. /\ key[k].usage \in Nat /\ key'[k].usage \in Nat /\ lost[k] \in Nat /\ lost'[k] \in Nat
         /\ admitted[k] \in Nat /\ admitted'[k] \in Nat /\ i \in Nat /\ j \in Nat
    BY <2>4, <2>5 DEF KeysInv, KeysTypes, Keys!KeyRow
  <2>11. ASSUME key'[k].state # "gone"
         PROVE  key'[k].usage + lost'[k] + Cardinality(new) = admitted'[k]
    <3>1. key[k].usage + lost[k] + Cardinality(old) = admitted[k]
      BY <2>8, <2>9, <2>11
    <3>2. key'[k].usage + lost'[k] + j + admitted[k] = key[k].usage + lost[k] + i + admitted'[k]
      BY <2>9, <2>11
    <3>3. Cardinality(old) \in Nat /\ Cardinality(new) \in Nat /\ Cardinality(new) + i = Cardinality(old) + j
      BY <2>6
    <3>. QED BY <3>1, <3>2, <3>3, <2>10
  <2>. QED BY <2>3, <2>6, <2>7, <2>9, <2>11
<1>4. KeysCalm'
  <2>. SUFFICES ASSUME calm'
                PROVE  KeysCalm'
    BY DEF KeysCalm
  <2>1. /\ calm
        /\ call[r].pc # "idle" \/ \A q \in Request : call[q].pc = "idle"
        /\ \A k \in Keys!Key : key'[k].state = "there" => key'[k].set = wanted'[k]
        /\ WritesMerged(c)'
    BY DEF KeysKept
  <2>2. \A q \in Request \ {r} : call'[q].pc = "idle"
    BY <1>2, <2>1 DEF KeysInv, KeysCalm
  <2>3. \A q \in Request : call'[q].pc = "writeKey" => q = r /\ call'[q] = c
    BY <1>2, <2>2
  <2>4. \A q \in Request : WritesMerged(call[q])'
    <3>. SUFFICES ASSUME NEW q \in Request
                  PROVE  WritesMerged(call[q])'
      OBVIOUS
    <3>. PICK d : d = call'[q]
      OBVIOUS
    <3>1. WritesMerged(d)'
      <4>1. CASE d.pc = "writeKey"
        BY <4>1, <2>1, <2>3
      <4>2. CASE d.pc # "writeKey"
        BY <4>2 DEF WritesMerged
      <4>. QED BY <4>1, <4>2
    <3>. QED BY <3>1 DEF WritesMerged, Keys!Valid, Keys!Merged
  <2>. QED BY <2>1, <2>2, <2>4 DEF KeysCalm, Keys!Valid
<1>. QED BY <1>1, <1>3, <1>4 DEF KeysInv

\* A step that changes the request alone.
LEMMA KeysQuiet ==
  ASSUME KeysInv, NEW r \in Request, NEW c \in KeysCall, call' = [call EXCEPT ![r] = c], UNCHANGED Keys!keys,
         c.pc # "increment", call[r].pc # "increment", calm' \in BOOLEAN,
         calm' => calm /\ (call[r].pc # "idle" \/ \A q \in Request : call[q].pc = "idle"),
         WritesMerged(c)
  PROVE  KeysInv' /\ Keys!Withdraws
<1>. HIDE DEF KeysCall
<1>1. key' = key /\ wanted' = wanted /\ admitted' = admitted /\ lost' = lost
  BY DEF Keys!keys
<1>2. KeysUses(r, c)
  <2>. SUFFICES ASSUME NEW k \in Keys!Key
                PROVE  key[k].state = "unborn" => key[k].usage = 0
    BY <1>1 DEF KeysUses
  <2>. QED BY DEF KeysInv, UsesAdd
<1>3. WritesMerged(c)'
  BY <1>1 DEF WritesMerged, Keys!Valid, Keys!Merged
<1>4. KeysKept(r, c)
  BY <1>1, <1>3 DEF KeysKept, KeysInv, KeysCalm, Keys!Valid
<1>5. KeysInv'
  BY <1>1, <1>2, <1>4, KeysStep DEF KeysInv, KeysTypes
<1>. QED BY <1>1, <1>5 DEF Keys!Withdraws

LEMMA KeysAsk ==
  ASSUME KeysInv, NEW r \in Request,
         \/ \E scopes \in ScopeSet, expires \in BOOLEAN : Keys!CreateKey(r, scopes, expires)
         \/ \E k \in Keys!Key :
              \/ \E on \in {"keep", "yes", "no"}, scopes \in ScopeSet \cup {{}} : Keys!UpdateKey(r, k, on, scopes)
              \/ Keys!RevokeKey(r, k)
  PROVE  KeysInv' /\ Keys!Withdraws
<1>1. \E c \in KeysCall : c.pc \in {"insertKey", "readKey", "findKey"} /\ Keys!Begin(r, c) /\ UNCHANGED Keys!keys
  <2>1. ASSUME NEW scopes \in ScopeSet, NEW expires \in BOOLEAN, Keys!CreateKey(r, scopes, expires)
        PROVE  \E c \in KeysCall : c.pc \in {"insertKey", "readKey", "findKey"} /\ Keys!Begin(r, c) /\ UNCHANGED Keys!keys
    <3>. PICK c : c = [pc |-> "insertKey", scopes |-> scopes, expires |-> expires]
      OBVIOUS
    <3>1. c \in KeysCall /\ c.pc = "insertKey"
      BY DEF KeysCall
    <3>2. Keys!Begin(r, c) /\ UNCHANGED Keys!keys
      BY <2>1 DEF Keys!CreateKey
    <3>. QED BY <3>1, <3>2
  <2>2. ASSUME NEW k \in Keys!Key, NEW on \in {"keep", "yes", "no"}, NEW scopes \in ScopeSet \cup {{}},
               Keys!UpdateKey(r, k, on, scopes)
        PROVE  \E c \in KeysCall : c.pc \in {"insertKey", "readKey", "findKey"} /\ Keys!Begin(r, c) /\ UNCHANGED Keys!keys
    <3>. PICK c : c = [pc |-> "readKey", key |-> k, active |-> on, scopes |-> scopes]
      OBVIOUS
    <3>1. c \in KeysCall /\ c.pc = "readKey"
      BY DEF KeysCall
    <3>2. Keys!Begin(r, c) /\ UNCHANGED Keys!keys
      BY <2>2 DEF Keys!UpdateKey
    <3>. QED BY <3>1, <3>2
  <2>3. ASSUME NEW k \in Keys!Key, Keys!RevokeKey(r, k)
        PROVE  \E c \in KeysCall : c.pc \in {"insertKey", "readKey", "findKey"} /\ Keys!Begin(r, c) /\ UNCHANGED Keys!keys
    <3>. PICK c : c = [pc |-> "findKey", key |-> k]
      OBVIOUS
    <3>1. c \in KeysCall /\ c.pc = "findKey"
      BY DEF KeysCall
    <3>2. Keys!Begin(r, c) /\ UNCHANGED Keys!keys
      BY <2>3 DEF Keys!RevokeKey
    <3>. QED BY <3>1, <3>2
  <2>. QED BY <2>1, <2>2, <2>3
<1>. HIDE DEF KeysCall
<1>2. PICK c \in KeysCall : c.pc \in {"insertKey", "readKey", "findKey"} /\ Keys!Begin(r, c) /\ UNCHANGED Keys!keys
  BY <1>1
<1>3. call[r].pc = "idle" /\ call' = [call EXCEPT ![r] = c] /\ calm' = (calm /\ \A q \in Request : call[q].pc = "idle")
  BY <1>2 DEF Keys!Begin, Keys!At
<1>4. calm' \in BOOLEAN /\ WritesMerged(c)
  BY <1>2, <1>3 DEF WritesMerged
<1>. QED BY <1>2, <1>3, <1>4, KeysQuiet

LEMMA KeysRead ==
  ASSUME KeysInv, NEW r \in Request, Keys!ReadKey(r) \/ Keys!FindKey(r) \/ Keys!KeyRequestFails(r)
  PROVE  KeysInv' /\ Keys!Withdraws
<1>. PICK d : d = call[r]
  OBVIOUS
<1>. PICK idle : idle = Keys!Idle
  OBVIOUS
<1>1. /\ d.pc = "readKey" => d.key \in Keys!Key /\ d.active \in {"keep", "yes", "no"} /\ d.scopes \in ScopeSet \cup {{}}
      /\ d.pc = "findKey" => d.key \in Keys!Key
      /\ idle.pc = "idle" /\ d \in KeysCall
  <2>. HIDE DEF KeysCall
  <2>. QED BY KeysShapes DEF KeysInv
<1>2. idle \in KeysCall
  BY DEF KeysCall
<1>3. ASSUME Keys!ReadKey(r), Keys!Valid(d.key)
      PROVE  \E c \in KeysCall : c.pc = "writeKey" /\ WritesMerged(c) /\ Keys!Goes(r, c)
  <2>. PICK set : set = Keys!Merged(d)
    OBVIOUS
  <2>. PICK c : c = [pc |-> "writeKey", key |-> d.key, set |-> set, usage |-> key[d.key].usage,
                     active |-> d.active, scopes |-> d.scopes]
    OBVIOUS
  <2>1. d.pc = "readKey" /\ Keys!Goes(r, c)
    BY <1>3 DEF Keys!ReadKey, Keys!At
  <2>2. key[d.key].set \in Keys!Setting /\ key[d.key].usage \in Nat
    BY <1>1, <2>1 DEF KeysInv, KeysTypes, Keys!KeyRow
  <2>3. ScopeSet \cup {{}} \subseteq SUBSET Keys!Scope
    BY EstateAssumption
  <2>4. set \in Keys!Setting
    <3>. HIDE DEF Keys!Scope
    <3>. QED BY <1>1, <2>1, <2>2, <2>3 DEF Keys!Merged, Keys!Setting
  <2>5. c \in KeysCall
    <3>. HIDE DEF Keys!Setting, Keys!Key
    <3>. QED BY <1>1, <2>1, <2>2, <2>4 DEF KeysCall
  <2>6. WritesMerged(c)
    BY DEF WritesMerged, Keys!Merged
  <2>. QED BY <2>1, <2>5, <2>6
<1>4. ASSUME Keys!FindKey(r), Keys!Valid(d.key)
      PROVE  \E c \in KeysCall : c.pc = "dropKey" /\ Keys!Goes(r, c)
  <2>. PICK c : c = [d EXCEPT !.pc = "dropKey"]
    OBVIOUS
  <2>1. d.pc = "findKey" /\ Keys!Goes(r, c)
    BY <1>4 DEF Keys!FindKey, Keys!At
  <2>2. c \in KeysCall /\ c.pc = "dropKey"
    BY <1>1, <2>1 DEF KeysCall, Keys!Idle
  <2>. QED BY <2>1, <2>2
<1>5. UNCHANGED Keys!keys /\ d.pc # "increment" /\ d.pc # "idle"
  BY DEF Keys!ReadKey, Keys!FindKey, Keys!KeyRequestFails, Keys!Fails, Keys!At
<1>6. \E c \in KeysCall :
        /\ c.pc # "increment" /\ WritesMerged(c) /\ call' = [call EXCEPT ![r] = c]
        /\ calm' = calm \/ calm' = FALSE
  <2>1. WritesMerged(idle)
    BY <1>1 DEF WritesMerged
  <2>2. CASE Keys!ReadKey(r) /\ Keys!Valid(d.key)
    <3>1. PICK c \in KeysCall : c.pc = "writeKey" /\ WritesMerged(c) /\ Keys!Goes(r, c)
      BY <1>3, <2>2
    <3>. QED BY <3>1 DEF Keys!Goes
  <2>3. CASE Keys!FindKey(r) /\ Keys!Valid(d.key)
    <3>1. PICK c \in KeysCall : c.pc = "dropKey" /\ Keys!Goes(r, c)
      BY <1>4, <2>3
    <3>2. WritesMerged(c)
      BY <3>1 DEF WritesMerged
    <3>. QED BY <3>1, <3>2 DEF Keys!Goes
  <2>4. CASE (Keys!ReadKey(r) \/ Keys!FindKey(r)) /\ ~Keys!Valid(d.key)
    <3>1. call' = [call EXCEPT ![r] = idle] /\ calm' = calm
      BY <2>4 DEF Keys!ReadKey, Keys!FindKey, Keys!Done, Keys!Goes
    <3>. QED BY <1>1, <1>2, <2>1, <3>1
  <2>5. CASE Keys!KeyRequestFails(r)
    <3>1. call' = [call EXCEPT ![r] = idle] /\ calm' = FALSE
      BY <2>5 DEF Keys!KeyRequestFails, Keys!Fails
    <3>. QED BY <1>1, <1>2, <2>1, <3>1
  <2>. QED BY <2>2, <2>3, <2>4, <2>5
<1>. HIDE DEF KeysCall
<1>7. calm \in BOOLEAN
  BY DEF KeysInv, KeysTypes
<1>8. PICK c \in KeysCall :
        /\ c.pc # "increment" /\ WritesMerged(c) /\ call' = [call EXCEPT ![r] = c]
        /\ calm' = calm \/ calm' = FALSE
  BY <1>6
<1>9. calm' \in BOOLEAN /\ (calm' => calm)
  <2>1. CASE calm' = calm
    BY <1>7, <2>1
  <2>2. CASE calm' = FALSE
    BY <2>2
  <2>. QED BY <1>8, <2>1, <2>2
<1>. QED BY <1>5, <1>8, <1>9, KeysQuiet

LEMMA KeysPresent ==
  ASSUME KeysInv, NEW r \in Request, NEW k \in Keys!Key, NEW required, Keys!PresentKey(r, k, required)
  PROVE  KeysInv' /\ Keys!Withdraws
<1>. PICK c : c = [pc |-> "increment", key |-> k]
  OBVIOUS
<1>1. c \in KeysCall /\ c.pc = "increment" /\ c.key = k
  BY DEF KeysCall
<1>. HIDE DEF KeysCall
<1>2. /\ key[k].state = "there" /\ UNCHANGED <<key, wanted, lost>>
      /\ call[r].pc = "idle" /\ call' = [call EXCEPT ![r] = c]
      /\ calm' = (calm /\ \A q \in Request : call[q].pc = "idle")
      /\ admitted' = [admitted EXCEPT ![k] = @ + 1]
  BY DEF Keys!PresentKey, Keys!Valid, Keys!Begin, Keys!At
<1>3. admitted' \in [Keys!Key -> Nat] /\ \A l \in Keys!Key : admitted'[l] = IF l = k THEN admitted[l] + 1 ELSE admitted[l]
  BY <1>2 DEF KeysInv, KeysTypes
<1>4. KeysUses(r, c)
  <2>. SUFFICES ASSUME NEW l \in Keys!Key
                PROVE  /\ key[l].state = "unborn" => key[l].usage = 0 /\ l # k
                       /\ key[l].usage + lost[l] + (IF l = k THEN 1 ELSE 0) + admitted[l]
                            = key[l].usage + lost[l] + 0 + admitted'[l]
    BY <1>1, <1>2 DEF KeysUses
  <2>1. key[l].usage \in Nat /\ lost[l] \in Nat /\ admitted[l] \in Nat
    BY DEF KeysInv, KeysTypes, Keys!KeyRow
  <2>. QED BY <1>2, <1>3, <2>1 DEF KeysInv, UsesAdd
<1>5. KeysKept(r, c)
  BY <1>1, <1>2 DEF KeysKept, WritesMerged, KeysInv, KeysCalm, Keys!Valid
<1>6. calm' \in BOOLEAN
  BY <1>2
<1>7. KeysInv'
  BY <1>1, <1>2, <1>3, <1>4, <1>5, <1>6, KeysStep DEF KeysInv, KeysTypes
<1>. QED BY <1>2, <1>3, <1>7 DEF Keys!Withdraws

\* A step that ends its request and changes one key, which stays where it is or goes.
LEMMA KeysStore ==
  ASSUME KeysInv, NEW r \in Request, call' = [call EXCEPT ![r] = Keys!Idle], calm' = calm, call[r].pc # "idle",
         NEW k \in Keys!Key, NEW new \in Keys!KeyRow, key' = [key EXCEPT ![k] = new], UNCHANGED <<admitted, lost>>,
         wanted' \in [Keys!Key -> Keys!Setting], \A l \in Keys!Key : l # k => wanted'[l] = wanted[l],
         call[r].pc = "increment" => call[r].key = k,
         key[k].state = "gone" => new.state = "gone",
         new.state = "unborn" => key[k].state = "unborn" /\ new.usage = 0,
         new.state # "gone" => new.usage = key[k].usage + IF call[r].pc = "increment" THEN 1 ELSE 0,
         calm => (new.state = "there" => new.set = wanted'[k])
  PROVE  KeysInv' /\ Keys!Withdraws
<1>. PICK c : c = Keys!Idle
  OBVIOUS
<1>1. c \in KeysCall /\ c.pc = "idle"
  BY DEF KeysCall, Keys!Idle
<1>. HIDE DEF KeysCall
<1>2. key' \in [Keys!Key -> Keys!KeyRow] /\ \A l \in Keys!Key : key'[l] = IF l = k THEN new ELSE key[l]
  <2>. HIDE DEF Keys!KeyRow
  <2>. QED BY DEF KeysInv, KeysTypes
<1>3. KeysUses(r, c)
  <2>. SUFFICES ASSUME NEW l \in Keys!Key
                PROVE  /\ key'[l].state = "unborn" => key[l].state = "unborn" /\ key'[l].usage = 0
                       /\ key'[l].state # "gone" => key[l].state # "gone"
                       /\ key'[l].state # "gone" =>
                            key'[l].usage + lost[l] + 0 + admitted[l]
                              = key[l].usage + lost[l] + (IF call[r].pc = "increment" /\ call[r].key = l THEN 1 ELSE 0) + admitted[l]
    BY <1>1 DEF KeysUses
  <2>1. key[l].usage \in Nat /\ lost[l] \in Nat /\ admitted[l] \in Nat /\ new.usage \in Nat
    BY DEF KeysInv, KeysTypes, Keys!KeyRow
  <2>2. CASE l = k
    BY <1>2, <2>1, <2>2
  <2>3. CASE l # k
    <3>1. key'[l] = key[l] /\ ~(call[r].pc = "increment" /\ call[r].key = l)
      BY <1>2, <2>3
    <3>2. key[l].state = "unborn" => key[l].usage = 0
      BY DEF KeysInv, UsesAdd
    <3>. QED BY <2>1, <3>1, <3>2
  <2>. QED BY <2>2, <2>3
<1>4. KeysKept(r, c)
  <2>1. calm => \A l \in Keys!Key : key[l].state = "there" => key[l].set = wanted[l]
    BY DEF KeysInv, KeysCalm, Keys!Valid
  <2>2. WritesMerged(c)'
    BY <1>1 DEF WritesMerged
  <2>. QED BY <1>2, <2>1, <2>2 DEF KeysKept
<1>5. calm' \in BOOLEAN /\ admitted' \in [Keys!Key -> Nat] /\ lost' \in [Keys!Key -> Nat]
  BY DEF KeysInv, KeysTypes
<1>6. KeysInv'
  BY <1>1, <1>2, <1>3, <1>4, <1>5, KeysStep
<1>. QED BY <1>2, <1>6 DEF Keys!Withdraws

LEMMA KeysInsert ==
  ASSUME KeysInv, NEW r \in Request, Keys!InsertKey(r)
  PROVE  KeysInv' /\ Keys!Withdraws
<1>. PICK k : k = Keys!Min(Keys!NewKeys)
  OBVIOUS
<1>. PICK d : d = call[r]
  OBVIOUS
<1>. PICK set : set = [active |-> TRUE, scopes |-> d.scopes, expires |-> d.expires]
  OBVIOUS
<1>. PICK new : new = [state |-> "there", set |-> set, usage |-> 0]
  OBVIOUS
<1>1. d.pc = "insertKey" /\ Keys!NewKeys # {} /\ key' = [key EXCEPT ![k] = new] /\ wanted' = [wanted EXCEPT ![k] = set]
      /\ call' = [call EXCEPT ![r] = Keys!Idle] /\ calm' = calm /\ UNCHANGED <<admitted, lost>>
  BY DEF Keys!InsertKey, Keys!At, Keys!Done, Keys!Goes
<1>2. k \in Keys!Key /\ key[k].state = "unborn"
  <2>1. Keys!NewKeys \in SUBSET Nat
    BY EstateAssumption DEF Keys!NewKeys, Keys!Key
  <2>2. \E x \in Keys!NewKeys : \A y \in Keys!NewKeys : x =< y
    BY <1>1, <2>1, LeastOf
  <2>3. k \in Keys!NewKeys
    BY <2>2 DEF Keys!Min
  <2>. QED BY <2>3 DEF Keys!NewKeys
<1>3. d.scopes \in ScopeSet /\ d.expires \in BOOLEAN
  BY <1>1, KeysShapes DEF KeysInv
<1>4. ScopeSet \subseteq SUBSET Keys!Scope
  BY EstateAssumption
<1>5. set \in Keys!Setting
  <2>. HIDE DEF Keys!Scope
  <2>. QED BY <1>3, <1>4 DEF Keys!Setting
<1>6. new \in Keys!KeyRow /\ new.state = "there" /\ new.usage = 0 /\ new.set = set
  <2>. HIDE DEF Keys!Setting
  <2>. QED BY <1>5 DEF Keys!KeyRow
<1>7. key[k].usage = 0
  BY <1>2 DEF KeysInv, UsesAdd
<1>8. wanted' \in [Keys!Key -> Keys!Setting] /\ wanted'[k] = set /\ \A l \in Keys!Key : l # k => wanted'[l] = wanted[l]
  <2>. HIDE DEF Keys!Setting
  <2>. QED BY <1>1, <1>2, <1>5 DEF KeysInv, KeysTypes
<1>9. /\ new.usage = key[k].usage + IF call[r].pc = "increment" THEN 1 ELSE 0
      /\ calm => (new.state = "there" => new.set = wanted'[k])
  BY <1>1, <1>6, <1>7, <1>8
<1>. QED BY <1>1, <1>2, <1>6, <1>8, <1>9, KeysStore

\* The answer of an update: the parts that it has, and the key for the rest.
Answered(c, set) ==
  [set EXCEPT !.active = IF c.active = "keep" THEN @ ELSE c.active = "yes",
              !.scopes = IF c.scopes = {} THEN @ ELSE c.scopes]

LEMMA KeysWrite ==
  ASSUME KeysInv, NEW r \in Request, Keys!WriteKey(r)
  PROVE  KeysInv' /\ Keys!Withdraws
<1>. PICK d : d = call[r]
  OBVIOUS
<1>. PICK k : k = d.key
  OBVIOUS
<1>. PICK new : new = Keys!Updated(d)
  OBVIOUS
<1>1. d.pc = "writeKey" /\ key' = [key EXCEPT ![k] = new]
      /\ call' = [call EXCEPT ![r] = Keys!Idle] /\ calm' = calm /\ UNCHANGED <<admitted, lost>>
  BY DEF Keys!WriteKey, Keys!At, Keys!Done, Keys!Goes
<1>2. k \in Keys!Key /\ d.active \in {"keep", "yes", "no"} /\ d.scopes \in ScopeSet \cup {{}} /\ d.set \in Keys!Setting
  BY <1>1, KeysShapes DEF KeysInv
<1>3. wanted[k] \in Keys!Setting /\ key[k] \in Keys!KeyRow
  <2>. HIDE DEF Keys!Setting, Keys!KeyRow
  <2>. QED BY <1>2 DEF KeysInv, KeysTypes
<1>4. ScopeSet \cup {{}} \subseteq SUBSET Keys!Scope
  BY EstateAssumption
<1>5. Answered(d, wanted[k]) \in Keys!Setting
  <2>. HIDE DEF Keys!Scope
  <2>. QED BY <1>2, <1>3, <1>4 DEF Answered, Keys!Setting
<1>6. wanted' = [wanted EXCEPT ![k] = Answered(d, wanted[k])]
  BY DEF Keys!WriteKey, Answered
<1>7. wanted' \in [Keys!Key -> Keys!Setting] /\ wanted'[k] = Answered(d, wanted[k])
      /\ \A l \in Keys!Key : l # k => wanted'[l] = wanted[l]
  <2>. HIDE DEF Keys!Setting, Answered
  <2>. QED BY <1>2, <1>5, <1>6 DEF KeysInv, KeysTypes
<1>8. /\ new \in Keys!KeyRow /\ new.state = key[k].state /\ new.usage = key[k].usage
      /\ key[k].state = "there" => new.set = d.set
  <2>. HIDE DEF Keys!Setting
  <2>. QED BY <1>2, <1>3 DEF Keys!Updated, Keys!Valid, Keys!KeyRow
<1>9. key[k].usage \in Nat /\ (key[k].state = "unborn" => key[k].usage = 0)
  BY <1>2, <1>3 DEF KeysInv, UsesAdd, Keys!KeyRow
<1>10. ASSUME calm, key[k].state = "there"
       PROVE  d.set = Answered(d, wanted[k])
  <2>1. d.set = Keys!Merged(d) /\ key[k].set = wanted[k]
    BY <1>1, <1>2, <1>10 DEF KeysInv, KeysCalm, WritesMerged, Keys!Valid
  <2>. QED BY <2>1 DEF Keys!Merged, Answered
<1>11. calm => (new.state = "there" => new.set = wanted'[k])
  BY <1>7, <1>8, <1>10
<1>12. new.state # "gone" => new.usage = key[k].usage + IF d.pc = "increment" THEN 1 ELSE 0
  BY <1>1, <1>8, <1>9
<1>13. new.state = "unborn" => key[k].state = "unborn" /\ new.usage = 0
  BY <1>8, <1>9
<1>14. key[k].state = "gone" => new.state = "gone"
  BY <1>8
<1>15. d.pc # "idle" /\ d.pc # "increment" /\ new \in Keys!KeyRow
  BY <1>1, <1>8
<1>. QED BY <1>1, <1>2, <1>7, <1>11, <1>12, <1>13, <1>14, <1>15, KeysStore

LEMMA KeysDrop ==
  ASSUME KeysInv, NEW r \in Request, Keys!DropKey(r)
  PROVE  KeysInv' /\ Keys!Withdraws
<1>. PICK k : k = call[r].key
  OBVIOUS
<1>. PICK new : new = [Keys!UnbornKey EXCEPT !.state = "gone"]
  OBVIOUS
<1>1. call[r].pc = "dropKey" /\ key' = [key EXCEPT ![k] = new]
      /\ call' = [call EXCEPT ![r] = Keys!Idle] /\ calm' = calm /\ UNCHANGED <<wanted, admitted, lost>>
  BY DEF Keys!DropKey, Keys!At, Keys!Done, Keys!Goes
<1>2. k \in Keys!Key
  BY <1>1, KeysShapes DEF KeysInv
<1>3. new \in Keys!KeyRow /\ new.state = "gone"
  BY DEF Keys!UnbornKey, Keys!KeyRow, Keys!NoSetting, Keys!Setting
<1>4. wanted' \in [Keys!Key -> Keys!Setting] /\ \A l \in Keys!Key : wanted'[l] = wanted[l]
  BY <1>1 DEF KeysInv, KeysTypes
<1>. QED BY <1>1, <1>2, <1>3, <1>4, KeysStore

LEMMA KeysIncrement ==
  ASSUME KeysInv, NEW r \in Request, Keys!IncrementUsage(r)
  PROVE  KeysInv' /\ Keys!Withdraws
<1>. PICK k : k = call[r].key
  OBVIOUS
<1>. PICK new : new = IF key[k].state = "there" THEN [key[k] EXCEPT !.usage = @ + 1] ELSE key[k]
  OBVIOUS
<1>1. call[r].pc = "increment"
      /\ call' = [call EXCEPT ![r] = Keys!Idle] /\ calm' = calm /\ UNCHANGED <<wanted, admitted, lost>>
  BY DEF Keys!IncrementUsage, Keys!At, Keys!Done, Keys!Goes
<1>2. k \in Keys!Key
  BY <1>1, KeysShapes DEF KeysInv
<1>3. key' = [key EXCEPT ![k] = new]
  BY <1>2 DEF Keys!IncrementUsage, Keys!Valid, KeysInv, KeysTypes
<1>4. key[k] \in Keys!KeyRow
  <2>. HIDE DEF Keys!KeyRow
  <2>. QED BY <1>2 DEF KeysInv, KeysTypes
<1>5. key[k].state # "unborn"
  <2>1. r \in Counting(k)
    BY <1>1 DEF Counting
  <2>. QED BY <1>2, <2>1 DEF KeysInv, UsesAdd
<1>6. /\ new \in Keys!KeyRow /\ new.state = key[k].state /\ new.set = key[k].set
      /\ new.state # "gone" => new.usage = key[k].usage + 1
  <2>. HIDE DEF Keys!Setting
  <2>. QED BY <1>4, <1>5 DEF Keys!KeyRow
<1>7. wanted' \in [Keys!Key -> Keys!Setting] /\ \A l \in Keys!Key : wanted'[l] = wanted[l]
  BY <1>1 DEF KeysInv, KeysTypes
<1>8. calm => (new.state = "there" => new.set = wanted'[k])
  BY <1>2, <1>6, <1>7 DEF KeysInv, KeysCalm, Keys!Valid
<1>. QED BY <1>1, <1>2, <1>3, <1>5, <1>6, <1>7, <1>8, KeysStore

LEMMA KeysLose ==
  ASSUME KeysInv, NEW r \in Request, Keys!LoseIncrement(r)
  PROVE  KeysInv' /\ Keys!Withdraws
<1>. PICK k : k = call[r].key
  OBVIOUS
<1>. PICK c : c = Keys!Idle
  OBVIOUS
<1>1. /\ call[r].pc = "increment" /\ call' = [call EXCEPT ![r] = c] /\ calm' = FALSE
      /\ UNCHANGED <<key, wanted, admitted>> /\ lost' = [lost EXCEPT ![k] = @ + 1]
  BY DEF Keys!LoseIncrement, Keys!Fails, Keys!At
<1>2. k \in Keys!Key
  BY <1>1, KeysShapes DEF KeysInv
<1>3. c \in KeysCall /\ c.pc = "idle"
  BY DEF KeysCall, Keys!Idle
<1>. HIDE DEF KeysCall
<1>4. lost' \in [Keys!Key -> Nat] /\ \A l \in Keys!Key : lost'[l] = IF l = k THEN lost[l] + 1 ELSE lost[l]
  BY <1>1, <1>2 DEF KeysInv, KeysTypes
<1>5. KeysUses(r, c)
  <2>. SUFFICES ASSUME NEW l \in Keys!Key
                PROVE  /\ key[l].state = "unborn" => key[l].usage = 0
                       /\ key[l].usage + lost'[l] + 0 + admitted[l]
                            = key[l].usage + lost[l] + (IF k = l THEN 1 ELSE 0) + admitted[l]
    BY <1>1, <1>3 DEF KeysUses
  <2>1. key[l].usage \in Nat /\ lost[l] \in Nat /\ admitted[l] \in Nat
    BY DEF KeysInv, KeysTypes, Keys!KeyRow
  <2>. QED BY <1>4, <2>1 DEF KeysInv, UsesAdd
<1>6. KeysKept(r, c)
  BY <1>1 DEF KeysKept
<1>7. KeysInv'
  BY <1>1, <1>3, <1>4, <1>5, <1>6, KeysStep DEF KeysInv, KeysTypes
<1>. QED BY <1>1, <1>7 DEF Keys!Withdraws

\* The behaviours of the component.
LEMMA KeysStart ==
  ASSUME Keys!KeysInit
  PROVE  KeysInv
<1>1. /\ key = [k \in Keys!Key |-> Keys!UnbornKey] /\ wanted = [k \in Keys!Key |-> Keys!NoSetting]
      /\ admitted = [k \in Keys!Key |-> 0] /\ lost = [k \in Keys!Key |-> 0]
      /\ call = [r \in Request |-> Keys!Idle] /\ calm = TRUE
  BY DEF Keys!KeysInit, Keys!RequestsInit
<1>2. Keys!UnbornKey \in Keys!KeyRow /\ Keys!UnbornKey.state = "unborn" /\ Keys!UnbornKey.usage = 0
      /\ Keys!NoSetting \in Keys!Setting
  BY DEF Keys!UnbornKey, Keys!NoSetting, Keys!KeyRow, Keys!Setting
<1>3. Keys!Idle \in KeysCall /\ Keys!Idle.pc = "idle"
  BY DEF KeysCall, Keys!Idle
<1>4. KeysTypes
  <2>. HIDE DEF KeysCall, Keys!KeyRow, Keys!Setting, Keys!NoSetting, Keys!UnbornKey, Keys!Idle
  <2>. QED BY <1>1, <1>2, <1>3 DEF KeysTypes
<1>. HIDE DEF KeysCall, Keys!NoSetting, Keys!UnbornKey, Keys!Idle
<1>5. \A k : Counting(k) = {}
  BY <1>1, <1>3 DEF Counting
<1>6. UsesAdd
  <2>1. \A k \in Keys!Key : key[k].usage = 0 /\ lost[k] = 0 /\ admitted[k] = 0
    BY <1>1, <1>2
  <2>. QED BY <1>5, <2>1, FS_EmptySet DEF UsesAdd
<1>7. KeysCalm
  BY <1>1, <1>2, <1>3 DEF KeysCalm, WritesMerged, Keys!Valid
<1>. QED BY <1>4, <1>6, <1>7 DEF KeysInv

\* A step that changes nothing that the invariant speaks of.
LEMMA KeysRest ==
  ASSUME KeysInv, UNCHANGED <<call, calm, key, wanted, admitted, lost>>
  PROVE  KeysInv'
<1>1. KeysTypes'
  BY DEF KeysInv, KeysTypes
<1>2. UsesAdd'
  BY DEF KeysInv, UsesAdd, Counting
<1>3. \A q \in Request : WritesMerged(call[q])' <=> WritesMerged(call[q])
  BY DEF WritesMerged, Keys!Valid, Keys!Merged
<1>4. KeysCalm'
  BY <1>3 DEF KeysInv, KeysCalm, Keys!Valid
<1>. QED BY <1>1, <1>2, <1>4 DEF KeysInv

LEMMA KeysGoOn ==
  ASSUME KeysInv, [Keys!KeysNext]_<<keys, requests>>
  PROVE  KeysInv' /\ Keys!Withdraws
<1>1. CASE UNCHANGED <<keys, requests>>
  <2>1. UNCHANGED <<call, calm, key, wanted, admitted, lost>>
    BY <1>1 DEF keys, requests
  <2>. QED BY <2>1, KeysRest DEF Keys!Withdraws
<1>2. CASE Keys!KeysNext
  <2>1. CASE Keys!DatesPass
    <3>1. UNCHANGED <<call, calm, key, wanted, admitted, lost>>
      BY <2>1 DEF Keys!DatesPass, Keys!requests
    <3>. QED BY <3>1, KeysRest DEF Keys!Withdraws
  <2>2. ASSUME NEW r \in Request,
               \/ \E scopes \in ScopeSet, expires \in BOOLEAN : Keys!CreateKey(r, scopes, expires)
               \/ \E k \in Keys!Key :
                    \/ \E on \in {"keep", "yes", "no"}, scopes \in ScopeSet \cup {{}} : Keys!UpdateKey(r, k, on, scopes)
                    \/ Keys!RevokeKey(r, k) \/ Keys!PresentKey(r, k, "bundles:read")
               \/ Keys!InsertKey(r) \/ Keys!ReadKey(r) \/ Keys!WriteKey(r) \/ Keys!FindKey(r) \/ Keys!DropKey(r)
               \/ Keys!IncrementUsage(r) \/ Keys!LoseIncrement(r) \/ Keys!KeyRequestFails(r)
        PROVE  KeysInv' /\ Keys!Withdraws
    BY <2>2, KeysAsk, KeysPresent, KeysRead, KeysInsert, KeysWrite, KeysDrop, KeysIncrement, KeysLose
  <2>. QED BY <1>2, <2>1, <2>2 DEF Keys!KeysNext
<1>. QED BY <1>1, <1>2

LEMMA KeysAccount ==
  ASSUME KeysInv
  PROVE  Keys!UsageAccounted /\ Keys!StoredAsWanted
<1>1. Keys!UsageAccounted
  <2>1. \A S : Keys!Cardinality(S) = Cardinality(S)
    BY DEF Keys!Cardinality, Cardinality
  <2>2. ASSUME NEW k \in Keys!Key, Keys!Valid(k)
        PROVE  key[k].usage + lost[k] + Keys!Cardinality(Counting(k)) = admitted[k]
    BY <2>1, <2>2 DEF KeysInv, UsesAdd, Keys!Valid
  <2>3. \A k : Counting(k) = {r \in Request : Keys!At(r, "increment") /\ call[r].key = k}
    BY DEF Counting, Keys!At
  <2>. QED BY <2>2, <2>3 DEF Keys!UsageAccounted
<1>2. Keys!StoredAsWanted
  BY DEF KeysInv, KeysCalm, Keys!StoredAsWanted, Keys!Settled
<1>. QED BY <1>1, <1>2

-----------------------------------------------------------------------------
\* Groups

Node == Grouping!Group \cup {Grouping!NoGroup}

PlaceOf == [parent : Node, children : SUBSET Node, path : Seq(Node), depth : Nat]

\* A row.  Nothing is said of its members.
GroupFields == {"status", "hierarchy", "members", "memberCount", "version"}

RowShape(x) ==
  /\ x = [f \in GroupFields |-> x[f]]
  /\ x.status \in {"unborn", "ACTIVE", "DELETED", "gone"}
  /\ x.hierarchy \in PlaceOf

LinkPc == {"parent", "insert", "link", "linked", "unlink", "unlinked", "save", "drop", "hide"}

Linking == [op : {"create", "move", "delete", "hide"}, group : Node, at : Node, to : Node,
            hierarchy : PlaceOf, near : PlaceOf]

\* The operations that have a statement.
LinkOps(pc) ==
  IF pc = "insert" THEN {"create"} ELSE
  IF pc = "save" THEN {"move"} ELSE
  IF pc = "drop" THEN {"delete"} ELSE
  IF pc = "hide" THEN {"hide"} ELSE
  IF pc \in {"unlink", "unlinked"} THEN {"move", "delete"} ELSE {"create", "move"}

GroupsCallOK(c) ==
  \/ c.pc = "idle"
  \/ c \in [pc : LinkPc, c : Linking] /\ c.c.op \in LinkOps(c.pc)
  \/ c.pc = "members" /\ c.group \in Grouping!Group

\* The parent, the path and the depth of a group g agree.
Agree(h, g) ==
  /\ Len(h.path) > 0 /\ h.path[Len(h.path)] = g
  /\ h.depth = Len(h.path) - 1
  /\ h.parent = IF Len(h.path) = 1 THEN Grouping!NoGroup ELSE h.path[Len(h.path) - 1]

\* What a request holds of a group agrees with it, whatever has become of the group since.
CallAgrees(c) ==
  c.pc \in LinkPc =>
    /\ c.pc \in {"parent", "insert"} \/ c.c.op = "move" => Agree(c.c.hierarchy, c.c.group)
    /\ c.pc \in {"linked", "unlinked"} => Agree(c.c.near, c.c.at)

FoundIn(G, g) == g \in Grouping!Group /\ G[g].status \in {"ACTIVE", "DELETED"}

\* The row of the group g.
RowOK(x, g) ==
  /\ RowShape(x)
  /\ x.memberCount = Len(x.members)
  /\ x.status \in {"ACTIVE", "DELETED"} => Agree(x.hierarchy, g)

RowsOK(G) == G = [g \in Grouping!Group |-> G[g]] /\ \A g \in Grouping!Group : RowOK(G[g], g)

Lists(G, p, x) == FoundIn(G, p) /\ x \in G[p].hierarchy.children

\* Every child that a group in G lists has been made, and names that group as its parent
\* unless it is in S.
Listed(G, S) ==
  \A p, x \in Grouping!Group :
    Lists(G, p, x) =>
      /\ G[x].status # "unborn"
      /\ p # x /\ FoundIn(G, x) /\ x \notin S => G[x].hierarchy.parent = p

\* The group that is listed by its new parent and does not name it yet.
Saving(c) == IF c.pc = "save" THEN {c.c.group} ELSE {}

\* Nobody else than the groups in S lists g.
ListedBy(G, g, S) == \A p \in Grouping!Group \ {g} : Lists(G, p, g) => p \in S

CreateKnows(G, pc, d) ==
  /\ pc \in {"parent", "insert"} => d.hierarchy.children = {} /\ d.at = d.to
  /\ pc = "insert" => d.hierarchy.parent = d.to
  /\ pc \in {"link", "linked"} => FoundIn(G, d.group) /\ G[d.group].hierarchy.parent = d.at

MoveKnows(G, pc, d) ==
  /\ FoundIn(G, d.group)
  /\ d.hierarchy.children \subseteq G[d.group].hierarchy.children \cup {d.group}
  /\ pc \in {"unlink", "unlinked"} => d.at = G[d.group].hierarchy.parent /\ d.hierarchy.parent = Grouping!NoGroup
  /\ pc \in {"parent", "link", "linked"} => ListedBy(G, d.group, {})
  /\ pc \in {"link", "linked"} => d.at = d.to
  /\ pc \in {"link", "linked", "save"} => d.hierarchy.parent = d.to
  /\ pc = "save" => ListedBy(G, d.group, {d.to})

\* What a request that nothing overlaps has read is what stands in the table G.
Knows(G, c) ==
  /\ Listed(G, Saving(c))
  /\ c.pc \in LinkPc =>
       /\ c.pc \in {"linked", "unlinked"} /\ FoundIn(G, c.c.at) => c.c.near = G[c.c.at].hierarchy
       /\ c.c.op = "create" => CreateKnows(G, c.pc, c.c)
       /\ c.c.op = "move" => MoveKnows(G, c.pc, c.c)

GroupsTypes ==
  /\ RowsOK(group)
  /\ call = [r \in Request |-> call[r]]
  /\ calm \in BOOLEAN
  /\ \A r \in Request : GroupsCallOK(call[r]) /\ CallAgrees(call[r])

GroupsCalm ==
  calm =>
    /\ \A q, r \in Request : call[q].pc # "idle" /\ call[r].pc # "idle" => q = r
    /\ (\A r \in Request : call[r].pc = "idle") => Listed(group, {})
    /\ \A r \in Request : call[r].pc # "idle" => Knows(group, call[r])

GroupsInv == GroupsTypes /\ GroupsCalm

-----------------------------------------------------------------------------
\* The numbers of groups; none is 0.
LEMMA NodeFacts ==
  /\ Grouping!NoGroup = 0 /\ 0 \in Node /\ Grouping!Group \subseteq Node /\ 0 \notin Grouping!Group
  /\ Grouping!Group \subseteq Nat /\ Node \subseteq Nat
BY EstateAssumption DEF Node, Grouping!Group, Grouping!NoGroup

LEMMA FoundSame ==
  \A g : Grouping!Found(g) <=> FoundIn(group, g)
BY DEF Grouping!Found, FoundIn

\* The rows that the statements write.
LEMMA RowPlaced ==
  ASSUME NEW x, RowShape(x), NEW h \in PlaceOf, NEW y, y = [x EXCEPT !.hierarchy = h]
  PROVE  /\ RowShape(y) /\ y.hierarchy = h
         /\ y.status = x.status /\ y.members = x.members /\ y.memberCount = x.memberCount
<1>. HIDE DEF PlaceOf
<1>. QED BY DEF RowShape, GroupFields

LEMMA RowMarked ==
  ASSUME NEW x, RowShape(x), NEW st \in {"unborn", "ACTIVE", "DELETED", "gone"}, NEW y, y = [x EXCEPT !.status = st]
  PROVE  /\ RowShape(y) /\ y.status = st
         /\ y.hierarchy = x.hierarchy /\ y.members = x.members /\ y.memberCount = x.memberCount
<1>. HIDE DEF PlaceOf
<1>. QED BY DEF RowShape, GroupFields

Counted(x, ms, w, n) == [x EXCEPT !.members = ms, !.version = w, !.memberCount = n]

LEMMA RowCounted ==
  ASSUME NEW x, RowShape(x), NEW ms, NEW w, NEW n, NEW y, y = Counted(x, ms, w, n)
  PROVE  /\ RowShape(y) /\ y.status = x.status /\ y.hierarchy = x.hierarchy
         /\ y.members = ms /\ y.memberCount = n
<1>. HIDE DEF PlaceOf
<1>. QED BY DEF Counted, RowShape, GroupFields

EmptyRow(st, h, v) == [status |-> st, hierarchy |-> h, members |-> <<>>, memberCount |-> 0, version |-> v]

LEMMA RowEmpty ==
  ASSUME NEW st \in {"unborn", "ACTIVE", "DELETED", "gone"}, NEW h \in PlaceOf, NEW v
  PROVE  /\ RowShape(EmptyRow(st, h, v))
         /\ EmptyRow(st, h, v).status = st /\ EmptyRow(st, h, v).hierarchy = h
         /\ EmptyRow(st, h, v).members = <<>> /\ EmptyRow(st, h, v).memberCount = 0
<1>. PICK y : y = EmptyRow(st, h, v)
  OBVIOUS
<1>1. y.status = st /\ y.hierarchy = h /\ y.members = <<>> /\ y.memberCount = 0 /\ y.version = v
  BY DEF EmptyRow
<1>2. y = [f \in GroupFields |-> y[f]]
  BY DEF GroupFields, EmptyRow
<1>. QED BY <1>1, <1>2 DEF RowShape

NewRow(h) == [Grouping!UnbornGroup EXCEPT !.status = "ACTIVE", !.hierarchy = h, !.version = 1]

LEMMA RowNew ==
  ASSUME NEW h \in PlaceOf, NEW y, y = NewRow(h)
  PROVE  /\ RowShape(y) /\ y.status = "ACTIVE" /\ y.hierarchy = h /\ y.members = <<>> /\ y.memberCount = 0
<1>. HIDE DEF PlaceOf
<1>1. y = EmptyRow("ACTIVE", h, 1)
  BY DEF NewRow, Grouping!UnbornGroup, EmptyRow
<1>. PICK z : z = EmptyRow("ACTIVE", h, 1)
  OBVIOUS
<1>2. RowShape(z) /\ z.status = "ACTIVE" /\ z.hierarchy = h /\ z.members = <<>> /\ z.memberCount = 0
  BY RowEmpty
<1>. QED BY <1>1, <1>2

\* The rows of groups that are not there.
LEMMA RowAbsent ==
  /\ RowShape(Grouping!UnbornGroup) /\ Grouping!UnbornGroup.status = "unborn"
  /\ Grouping!UnbornGroup.members = <<>> /\ Grouping!UnbornGroup.memberCount = 0
  /\ RowShape([Grouping!UnbornGroup EXCEPT !.status = "gone"])
  /\ [Grouping!UnbornGroup EXCEPT !.status = "gone"].status = "gone"
  /\ [Grouping!UnbornGroup EXCEPT !.status = "gone"].members = <<>>
  /\ [Grouping!UnbornGroup EXCEPT !.status = "gone"].memberCount = 0
<1>. PICK h : h = [parent |-> Grouping!NoGroup, children |-> {}, path |-> <<>>, depth |-> 0]
  OBVIOUS
<1>1. h \in PlaceOf
  <2>1. <<>> \in Seq(Node)
    OBVIOUS
  <2>. QED BY <2>1 DEF PlaceOf, Node
<1>. HIDE DEF PlaceOf
<1>2. Grouping!UnbornGroup = EmptyRow("unborn", h, 0)
  BY DEF Grouping!UnbornGroup, EmptyRow
<1>. PICK y : y = EmptyRow("unborn", h, 0)
  OBVIOUS
<1>3. RowShape(y) /\ y.status = "unborn" /\ y.members = <<>> /\ y.memberCount = 0
  BY <1>1, RowEmpty
<1>. PICK z : z = [y EXCEPT !.status = "gone"]
  OBVIOUS
<1>4. RowShape(z)
  BY <1>3, RowMarked
<1>5. z.status = "gone" /\ z.members = y.members /\ z.memberCount = y.memberCount
  BY <1>3, RowMarked
<1>. QED BY <1>2, <1>3, <1>4, <1>5

\* A root, a group placed below another, and a path that gets the number of a new group at its end.
LEMMA RootAgrees ==
  ASSUME NEW g \in Node
  PROVE  /\ Grouping!Root(g) \in PlaceOf /\ Agree(Grouping!Root(g), g)
         /\ Grouping!Root(g).children = {} /\ Grouping!Root(g).parent = Grouping!NoGroup
<1>1. <<g>> \in Seq(Node) /\ Len(<<g>>) = 1 /\ <<g>>[1] = g
  OBVIOUS
<1>. QED BY <1>1, NodeFacts DEF Grouping!Root, PlaceOf, Agree

LEMMA AgreeRest ==
  ASSUME NEW h \in PlaceOf, NEW children \in SUBSET Node, NEW k, k = [h EXCEPT !.children = children]
  PROVE  /\ k \in PlaceOf /\ k.children = children /\ k.parent = h.parent
         /\ \A g : Agree(h, g) => Agree(k, g)
BY DEF PlaceOf, Agree

\* What requests carry.
LEMMA LinkingFields ==
  ASSUME NEW c \in Linking
  PROVE  /\ c.group \in Node /\ c.at \in Node /\ c.to \in Node /\ c.hierarchy \in PlaceOf /\ c.near \in PlaceOf
         /\ c.op \in {"create", "move", "delete", "hide"}
<1>. HIDE DEF PlaceOf, Node
<1>. QED BY DEF Linking

LEMMA PlacedAgrees ==
  ASSUME NEW c \in Linking, NEW h \in PlaceOf, Agree(h, c.to), NEW k, k = Grouping!Placed(c, h)
  PROVE  k \in PlaceOf /\ Agree(k, c.group) /\ k.parent = c.to /\ k.children = c.hierarchy.children
<1>1. /\ h.path \in Seq(Node) /\ Len(h.path) > 0 /\ h.path[Len(h.path)] = c.to /\ h.depth = Len(h.path) - 1
      /\ h.depth \in Nat
  BY DEF Agree, PlaceOf
<1>2. c.hierarchy \in PlaceOf /\ c.to \in Node /\ c.group \in Node
  BY LinkingFields
<1>. PICK path : path = Append(h.path, c.group)
  OBVIOUS
<1>. PICK o : o = c.hierarchy
  OBVIOUS
<1>. PICK to, depth : to = c.to /\ depth = h.depth + 1
  OBVIOUS
<1>3. path \in Seq(Node) /\ Len(path) = Len(h.path) + 1 /\ path[Len(path)] = c.group /\ path[Len(path) - 1] = c.to
  BY <1>1, <1>2
<1>4. k = [o EXCEPT !.parent = to, !.path = path, !.depth = depth]
  BY DEF Grouping!Placed
<1>5. depth \in Nat
  BY <1>1
<1>6. k \in PlaceOf /\ k.parent = to /\ k.path = path /\ k.depth = depth /\ k.children = o.children
  <2>. HIDE DEF Node
  <2>. QED BY <1>2, <1>3, <1>4, <1>5 DEF PlaceOf
<1>7. Len(h.path) \in Nat
  BY <1>1
<1>. QED BY <1>1, <1>3, <1>6, <1>7 DEF Agree

LEMMA NewAgrees ==
  ASSUME NEW h \in PlaceOf, NEW e, Agree(h, e), NEW g \in Grouping!Group,
         NEW k, k = [h EXCEPT !.path = Append(Grouping!Front(@), g)]
  PROVE  k \in PlaceOf /\ Agree(k, g) /\ k.parent = h.parent /\ k.children = h.children
<1>1. h.path \in Seq(Node) /\ Len(h.path) > 0 /\ Len(h.path) \in Nat
  BY DEF Agree, PlaceOf
<1>. PICK front : front = Grouping!Front(h.path)
  OBVIOUS
<1>2. front \in Seq(Node) /\ Len(front) = Len(h.path) - 1 /\ \A i \in 1 .. Len(h.path) - 1 : front[i] = h.path[i]
  <2>1. front = SubSeq(h.path, 1, Len(h.path) - 1)
    BY DEF Grouping!Front
  <2>. QED BY <1>1, <2>1
<1>. PICK path : path = Append(front, g)
  OBVIOUS
<1>3. path \in Seq(Node) /\ Len(path) = Len(h.path) /\ path[Len(path)] = g
      /\ (Len(path) # 1 => path[Len(path) - 1] = h.path[Len(h.path) - 1])
  BY <1>1, <1>2, NodeFacts
<1>4. k = [h EXCEPT !.path = path]
  OBVIOUS
<1>5. k \in PlaceOf /\ k.path = path /\ k.parent = h.parent /\ k.depth = h.depth /\ k.children = h.children
  <2>. HIDE DEF Node
  <2>. QED BY <1>3, <1>4 DEF PlaceOf
<1>. QED BY <1>3, <1>5 DEF Agree

\* A row that is replaced.
Replaced(G, g, y) == [G EXCEPT ![g] = y]

LEMMA RowReplaced ==
  ASSUME NEW G, RowsOK(G), NEW g \in Grouping!Group, NEW y, RowOK(y, g)
  PROVE  /\ RowsOK(Replaced(G, g, y))
         /\ \A x \in Grouping!Group : Replaced(G, g, y)[x] = IF x = g THEN y ELSE G[x]
BY DEF RowsOK, Replaced

\* A place is written if its group is there.
LEMMA StoredRows ==
  ASSUME RowsOK(group), NEW g, NEW h \in PlaceOf, Agree(h, g), NEW H, H = Grouping!Stored(g, h)
  PROVE  /\ RowsOK(H)
         /\ \A x \in Grouping!Group :
              /\ H[x].status = group[x].status
              /\ H[x].hierarchy = IF x = g /\ FoundIn(group, g) THEN h ELSE group[x].hierarchy
         /\ \A x : FoundIn(H, x) <=> FoundIn(group, x)
<1>1. CASE ~FoundIn(group, g)
  BY <1>1, FoundSame DEF Grouping!Stored
<1>2. CASE FoundIn(group, g)
  <2>. PICK y : y = [group[g] EXCEPT !.hierarchy = h]
    OBVIOUS
  <2>1. g \in Grouping!Group /\ RowOK(group[g], g)
    BY <1>2 DEF FoundIn, RowsOK
  <2>2. RowShape(y)
    BY <2>1, RowPlaced DEF RowOK
  <2>3. y.hierarchy = h /\ y.status = group[g].status /\ y.members = group[g].members
        /\ y.memberCount = group[g].memberCount
    BY <2>1, RowPlaced DEF RowOK
  <2>4. RowOK(y, g)
    BY <2>1, <2>2, <2>3 DEF RowOK
  <2>5. RowsOK(H) /\ \A x \in Grouping!Group : H[x] = IF x = g THEN y ELSE group[x]
    <3>1. H = Replaced(group, g, y)
      BY <1>2, FoundSame DEF Grouping!Stored, Replaced
    <3>. QED BY <2>1, <2>4, <3>1, RowReplaced
  <2>6. \A x \in Grouping!Group :
              /\ H[x].status = group[x].status
              /\ H[x].hierarchy = IF x = g THEN h ELSE group[x].hierarchy
    BY <2>3, <2>5
  <2>. QED BY <1>2, <2>5, <2>6 DEF FoundIn
<1>. QED BY <1>1, <1>2

LEMMA StepOK ==
  ASSUME NEW d \in Linking, NEW pc \in LinkPc, d.op \in LinkOps(pc)
  PROVE  /\ GroupsCallOK(Grouping!Step(d, pc))
         /\ Grouping!Step(d, pc).pc = pc /\ Grouping!Step(d, pc).c = d
<1>. HIDE DEF Linking, LinkPc, LinkOps
<1>1. Grouping!Step(d, pc).pc = pc /\ Grouping!Step(d, pc).c = d /\ Grouping!Step(d, pc) \in [pc : LinkPc, c : Linking]
  BY DEF Grouping!Step
<1>. QED BY <1>1 DEF GroupsCallOK

LEMMA CallFields ==
  ASSUME NEW c, GroupsCallOK(c)
  PROVE  /\ c.pc \in LinkPc => c.c \in Linking /\ c.c.op \in LinkOps(c.pc)
         /\ c.pc = "members" => c.group \in Grouping!Group
<1>. HIDE DEF Linking, LinkOps
<1>1. "idle" \notin LinkPc /\ "members" \notin LinkPc
  BY DEF LinkPc
<1>. HIDE DEF LinkPc
<1>. QED BY <1>1 DEF GroupsCallOK

\* What a step has to show: of its request and of the table, and that the request knows the
\* table, if none overlaps it.
LEMMA GroupsStep ==
  ASSUME GroupsInv, NEW r \in Request, NEW c, call' = [call EXCEPT ![r] = c],
         GroupsCallOK(c), CallAgrees(c), RowsOK(group'), calm' \in BOOLEAN,
         calm' => /\ calm
                  /\ call[r].pc # "idle" \/ \A q \in Request : call[q].pc = "idle"
                  /\ Knows(group', c)
  PROVE  GroupsInv'
<1>1. call' = [q \in Request |-> call'[q]] /\ \A q \in Request : call'[q] = IF q = r THEN c ELSE call[q]
  BY DEF GroupsInv, GroupsTypes
<1>2. GroupsTypes'
  BY <1>1 DEF GroupsInv, GroupsTypes
<1>3. GroupsCalm'
  <2>. SUFFICES ASSUME calm'
                PROVE  /\ \A p, q \in Request : call'[p].pc # "idle" /\ call'[q].pc # "idle" => p = q
                       /\ (\A q \in Request : call'[q].pc = "idle") => Listed(group', {})
                       /\ \A q \in Request : call'[q].pc # "idle" => Knows(group', call'[q])
    BY DEF GroupsCalm
  <2>1. \A q \in Request : q # r => call[q].pc = "idle" /\ call'[q].pc = "idle"
    BY <1>1 DEF GroupsInv, GroupsCalm
  <2>2. c.pc = "idle" => Listed(group', {})
    BY DEF Knows, Saving
  <2>. QED BY <1>1, <2>1, <2>2
<1>. QED BY <1>2, <1>3 DEF GroupsInv

\* A request begins.
LEMMA GroupsBegin ==
  ASSUME GroupsInv, NEW r \in Request, NEW c, Grouping!Begin(r, c), UNCHANGED group,
         GroupsCallOK(c), CallAgrees(c), Listed(group, {}) => Knows(group, c)
  PROVE  GroupsInv'
<1>1. call' = [call EXCEPT ![r] = c] /\ calm' = (calm /\ \A q \in Request : call[q].pc = "idle")
  BY DEF Grouping!Begin, Grouping!At
<1>2. calm' \in BOOLEAN
  BY <1>1 DEF GroupsInv, GroupsTypes
<1>3. calm' => calm /\ (\A q \in Request : call[q].pc = "idle") /\ Listed(group, {})
  BY <1>1 DEF GroupsInv, GroupsCalm
<1>. QED BY <1>1, <1>2, <1>3, GroupsStep DEF GroupsInv, GroupsTypes

\* A request goes on.
LEMMA GroupsGoes ==
  ASSUME GroupsInv, NEW r \in Request, call[r].pc # "idle", NEW c, Grouping!Goes(r, c), RowsOK(group'),
         GroupsCallOK(c), CallAgrees(c), Knows(group, call[r]) => Knows(group', c)
  PROVE  GroupsInv'
<1>1. call' = [call EXCEPT ![r] = c] /\ calm' = calm
  BY DEF Grouping!Goes
<1>2. calm => Knows(group, call[r])
  BY DEF GroupsInv, GroupsCalm
<1>. QED BY <1>1, <1>2, GroupsStep DEF GroupsInv, GroupsTypes

LEMMA LinksOK ==
  ASSUME NEW op \in {"create", "move", "delete", "hide"}, NEW g \in Node, NEW at \in Node, NEW to \in Node,
         NEW h \in PlaceOf, NEW d, d = Grouping!Links(op, g, at, to, h)
  PROVE  /\ d \in Linking
         /\ d.op = op /\ d.group = g /\ d.at = at /\ d.to = to /\ d.hierarchy = h
<1>. HIDE DEF PlaceOf, Node
<1>. QED BY DEF Grouping!Links, Linking

\* A group that is found.
LEMMA GroupsRow ==
  ASSUME GroupsInv, NEW g, Grouping!Found(g)
  PROVE  /\ g \in Grouping!Group /\ g \in Node /\ FoundIn(group, g)
         /\ group[g].hierarchy \in PlaceOf /\ Agree(group[g].hierarchy, g)
         /\ group[g].hierarchy.parent \in Node /\ group[g].hierarchy.children \in SUBSET Node
<1>1. g \in Grouping!Group /\ FoundIn(group, g) /\ RowOK(group[g], g)
  BY FoundSame DEF FoundIn, GroupsInv, GroupsTypes, RowsOK
<1>2. group[g].hierarchy \in PlaceOf /\ Agree(group[g].hierarchy, g)
  BY <1>1 DEF RowOK, RowShape, FoundIn
<1>3. group[g].hierarchy.parent \in Node /\ group[g].hierarchy.children \in SUBSET Node
  BY <1>2 DEF PlaceOf
<1>. QED BY <1>1, <1>2, <1>3, NodeFacts

\* The requests.
LEMMA GroupsCreate ==
  ASSUME GroupsInv, NEW r \in Request, NEW to \in Node, Grouping!CreateGroup(r, to)
  PROVE  GroupsInv'
<1>h. PICK h : h = Grouping!Root(Grouping!NoGroup)
  OBVIOUS
<1>d. PICK d : d = Grouping!Links("create", Grouping!NoGroup, to, to, h)
  OBVIOUS
<1>pc. PICK pc : pc = IF to = Grouping!NoGroup THEN "insert" ELSE "parent"
  OBVIOUS
<1>c. PICK c : c = Grouping!Step(d, pc)
  OBVIOUS
<1>1. Grouping!Begin(r, c) /\ UNCHANGED group
  BY <1>h, <1>d, <1>pc, <1>c DEF Grouping!CreateGroup
<1>2. h \in PlaceOf /\ Agree(h, Grouping!NoGroup) /\ h.children = {} /\ h.parent = Grouping!NoGroup
  BY <1>h, RootAgrees, NodeFacts
<1>3. d \in Linking /\ d.op = "create" /\ d.group = Grouping!NoGroup /\ d.at = to /\ d.to = to /\ d.hierarchy = h
  BY <1>2, <1>d, LinksOK, NodeFacts
<1>4. pc \in LinkPc /\ d.op \in LinkOps(pc) /\ pc \in {"insert", "parent"}
  BY <1>3, <1>pc DEF LinkPc, LinkOps
<1>5. c.pc = pc /\ c.c = d
  BY <1>3, <1>4, <1>c, StepOK
<1>6. GroupsCallOK(c)
  BY <1>3, <1>4, <1>c, StepOK
<1>7. CallAgrees(c)
  BY <1>2, <1>3, <1>4, <1>5 DEF CallAgrees
<1>8. CreateKnows(group, pc, d)
  BY <1>2, <1>3, <1>4, <1>pc DEF CreateKnows
<1>9. Listed(group, {}) => Knows(group, c)
  BY <1>3, <1>4, <1>5, <1>8 DEF Knows, Saving
<1>. QED BY <1>1, <1>6, <1>7, <1>9, GroupsBegin

LEMMA GroupsMove ==
  ASSUME GroupsInv, NEW r \in Request, NEW g \in Grouping!Group, NEW to \in Node, Grouping!MoveGroup(r, g, to)
  PROVE  GroupsInv'
<1>old. PICK old : old = group[g].hierarchy
  OBVIOUS
<1>root. PICK root : root = Grouping!Root(g)
  OBVIOUS
<1>h. PICK h : h = [root EXCEPT !.children = old.children]
  OBVIOUS
<1>d. PICK d : d = Grouping!Links("move", g, old.parent, to, h)
  OBVIOUS
<1>pc. PICK pc : pc = IF old.parent # Grouping!NoGroup THEN "unlink" ELSE IF to = Grouping!NoGroup THEN "save" ELSE "parent"
  OBVIOUS
<1>c. PICK c : c = Grouping!Step(d, pc)
  OBVIOUS
<1>1. Grouping!Found(g) /\ Grouping!Begin(r, c) /\ UNCHANGED group
  BY <1>old, <1>root, <1>h, <1>d, <1>pc, <1>c DEF Grouping!MoveGroup
<1>2. FoundIn(group, g) /\ old.parent \in Node /\ old.children \in SUBSET Node /\ g \in Node
  BY <1>1, <1>old, GroupsRow
<1>3. h \in PlaceOf /\ Agree(h, g) /\ h.children = old.children /\ h.parent = Grouping!NoGroup
  <2>1. root \in PlaceOf /\ Agree(root, g) /\ root.parent = Grouping!NoGroup
    BY <1>2, <1>root, RootAgrees
  <2>. QED BY <1>2, <1>h, <2>1, AgreeRest
<1>4. d \in Linking /\ d.op = "move" /\ d.group = g /\ d.at = old.parent /\ d.to = to /\ d.hierarchy = h
  BY <1>2, <1>3, <1>d, LinksOK
<1>5. /\ pc \in LinkPc /\ d.op \in LinkOps(pc) /\ pc \in {"unlink", "save", "parent"}
      /\ pc = "save" => to = Grouping!NoGroup
      /\ pc # "unlink" => old.parent = Grouping!NoGroup
  BY <1>4, <1>pc DEF LinkPc, LinkOps
<1>6. c.pc = pc /\ c.c = d
  BY <1>4, <1>5, <1>c, StepOK
<1>7. GroupsCallOK(c)
  BY <1>4, <1>5, <1>c, StepOK
<1>8. CallAgrees(c)
  BY <1>3, <1>4, <1>5, <1>6 DEF CallAgrees
<1>9. ASSUME Listed(group, {})
      PROVE  Knows(group, c)
  <2>1. \A p \in Grouping!Group \ {g} : Lists(group, p, g) => old.parent = p
    BY <1>2, <1>9, <1>old DEF Listed
  <2>2. old.parent = Grouping!NoGroup => ListedBy(group, g, {})
    BY <2>1, NodeFacts DEF ListedBy
  <2>3. ListedBy(group, g, {}) => ListedBy(group, g, {to})
    BY DEF ListedBy
  <2>4. MoveKnows(group, pc, d)
    <3>1. /\ d.hierarchy.children \subseteq group[d.group].hierarchy.children \cup {d.group}
          /\ d.hierarchy.parent = Grouping!NoGroup /\ d.at = group[d.group].hierarchy.parent
      BY <1>3, <1>4, <1>old
    <3>2. pc # "unlink" => ListedBy(group, d.group, {}) /\ ListedBy(group, d.group, {d.to})
      BY <1>4, <1>5, <2>2, <2>3
    <3>. QED BY <1>2, <1>4, <1>5, <3>1, <3>2 DEF MoveKnows
  <2>5. Listed(group, Saving(c))
    BY <1>9 DEF Listed
  <2>. QED BY <1>4, <1>5, <1>6, <2>4, <2>5 DEF Knows
<1>. QED BY <1>1, <1>7, <1>8, <1>9, GroupsBegin

LEMMA GroupsDelete ==
  ASSUME GroupsInv, NEW r \in Request, NEW g \in Grouping!Group, Grouping!DeleteGroup(r, g)
  PROVE  GroupsInv'
<1>h. PICK h : h = group[g].hierarchy
  OBVIOUS
<1>d. PICK d : d = Grouping!Links("delete", g, h.parent, Grouping!NoGroup, h)
  OBVIOUS
<1>pc. PICK pc : pc = IF h.parent = Grouping!NoGroup THEN "drop" ELSE "unlink"
  OBVIOUS
<1>c. PICK c : c = Grouping!Step(d, pc)
  OBVIOUS
<1>1. Grouping!Found(g) /\ Grouping!Begin(r, c) /\ UNCHANGED group
  BY <1>h, <1>d, <1>pc, <1>c DEF Grouping!DeleteGroup
<1>2. h \in PlaceOf /\ h.parent \in Node /\ g \in Node
  BY <1>1, <1>h, GroupsRow
<1>3. d \in Linking /\ d.op = "delete"
  <2>1. Grouping!NoGroup \in Node
    BY NodeFacts
  <2>. QED BY <1>2, <1>d, <2>1, LinksOK
<1>4. pc \in LinkPc /\ d.op \in LinkOps(pc) /\ pc \in {"drop", "unlink"}
  BY <1>3, <1>pc DEF LinkPc, LinkOps
<1>5. c.pc = pc /\ c.c = d
  BY <1>3, <1>4, <1>c, StepOK
<1>6. GroupsCallOK(c)
  BY <1>3, <1>4, <1>c, StepOK
<1>7. CallAgrees(c)
  BY <1>3, <1>4, <1>5 DEF CallAgrees
<1>8. Listed(group, {}) => Knows(group, c)
  BY <1>3, <1>4, <1>5 DEF Knows, Saving
<1>. QED BY <1>1, <1>6, <1>7, <1>8, GroupsBegin

LEMMA GroupsHide ==
  ASSUME GroupsInv, NEW r \in Request, NEW g \in Grouping!Group, Grouping!SoftDeleteGroup(r, g)
  PROVE  GroupsInv'
<1>. PICK h : h = Grouping!Root(g)
  OBVIOUS
<1>. PICK d : d = Grouping!Links("hide", g, Grouping!NoGroup, Grouping!NoGroup, h)
  OBVIOUS
<1>. PICK c : c = Grouping!Step(d, "hide")
  OBVIOUS
<1>1. Grouping!Begin(r, c) /\ UNCHANGED group
  BY DEF Grouping!SoftDeleteGroup
<1>2. h \in PlaceOf
  BY RootAgrees, NodeFacts
<1>3. d \in Linking /\ d.op = "hide"
  BY <1>2, LinksOK, NodeFacts
<1>4. "hide" \in LinkPc /\ d.op \in LinkOps("hide")
  BY <1>3 DEF LinkPc, LinkOps
<1>5. c.pc = "hide" /\ c.c = d
  BY <1>3, <1>4, StepOK
<1>6. GroupsCallOK(c)
  BY <1>3, <1>4, StepOK
<1>7. CallAgrees(c)
  BY <1>3, <1>4, <1>5 DEF CallAgrees
<1>8. Listed(group, {}) => Knows(group, c)
  BY <1>3, <1>4, <1>5 DEF Knows, Saving
<1>. QED BY <1>1, <1>6, <1>7, <1>8, GroupsBegin

LEMMA GroupsMembers ==
  ASSUME GroupsInv, NEW r \in Request, NEW g \in Grouping!Group, NEW ms, Grouping!Members(r, g, ms)
  PROVE  GroupsInv'
<1>. PICK v : v = group[g].version
  OBVIOUS
<1>. PICK c : c = [pc |-> "members", group |-> g, members |-> ms, version |-> v]
  OBVIOUS
<1>1. Grouping!Begin(r, c) /\ UNCHANGED group
  BY DEF Grouping!Members
<1>2. c.pc = "members" /\ c.group = g /\ "members" \notin LinkPc
  BY DEF LinkPc
<1>3. GroupsCallOK(c)
  BY <1>2 DEF GroupsCallOK
<1>4. CallAgrees(c)
  BY <1>2 DEF CallAgrees
<1>5. Listed(group, {}) => Knows(group, c)
  BY <1>2 DEF Knows, Saving
<1>. QED BY <1>1, <1>3, <1>4, <1>5, GroupsBegin

\* A request ends.
LEMMA GroupsDone ==
  ASSUME GroupsInv, NEW r \in Request, call[r].pc # "idle", Grouping!Done(r), RowsOK(group'),
         Knows(group, call[r]) => Listed(group', {})
  PROVE  GroupsInv'
<1>. PICK c : c = Grouping!Idle
  OBVIOUS
<1>1. c.pc = "idle" /\ "idle" \notin LinkPc /\ Grouping!Goes(r, c)
  BY DEF Grouping!Idle, LinkPc, Grouping!Done
<1>2. GroupsCallOK(c)
  BY <1>1 DEF GroupsCallOK
<1>3. CallAgrees(c)
  BY <1>1 DEF CallAgrees
<1>4. Knows(group, call[r]) => Knows(group', c)
  BY <1>1 DEF Knows, Saving
<1>. QED BY <1>1, <1>2, <1>3, <1>4, GroupsGoes

PutBelow(c, h) == [c EXCEPT !.hierarchy = h, !.at = c.to]

IsPutBelow(d, c, h) ==
  d \in Linking /\ d.op = c.op /\ d.group = c.group /\ d.at = c.to /\ d.to = c.to /\ d.hierarchy = h

LEMMA LinkPlaced ==
  ASSUME NEW c \in Linking, NEW h \in PlaceOf
  PROVE  IsPutBelow(PutBelow(c, h), c, h)
<1>. HIDE DEF PlaceOf, Node
<1>1. PutBelow(c, h) \in Linking
  BY DEF Linking, PutBelow
<1>. QED BY <1>1 DEF Linking, PutBelow, IsPutBelow

Nearing(c, h) == [c EXCEPT !.near = h]

IsNearing(d, c, h) ==
  /\ d \in Linking /\ d.op = c.op /\ d.group = c.group /\ d.at = c.at /\ d.to = c.to
  /\ d.hierarchy = c.hierarchy /\ d.near = h

LEMMA LinkNear ==
  ASSUME NEW c \in Linking, NEW h \in PlaceOf
  PROVE  IsNearing(Nearing(c, h), c, h)
<1>. HIDE DEF PlaceOf, Node
<1>1. Nearing(c, h) \in Linking
  BY DEF Linking, Nearing
<1>. QED BY <1>1 DEF Linking, Nearing, IsNearing

Making(c, g) == [c EXCEPT !.group = g]

IsMaking(d, c, g) == d \in Linking /\ d.op = c.op /\ d.group = g /\ d.at = c.at /\ d.to = c.to

LEMMA LinkMade ==
  ASSUME NEW c \in Linking, NEW g \in Node
  PROVE  IsMaking(Making(c, g), c, g)
<1>. HIDE DEF PlaceOf, Node
<1>1. Making(c, g) \in Linking
  BY DEF Linking, Making
<1>. QED BY <1>1 DEF Linking, Making, IsMaking

\* A call agrees when the places that its statement uses do.
LEMMA StepAgrees ==
  ASSUME NEW e, NEW pc, NEW d, e.pc = pc, e.c = d, Agree(d.hierarchy, d.group),
         pc \in {"linked", "unlinked"} => Agree(d.near, d.at)
  PROVE  CallAgrees(e)
BY DEF CallAgrees

\* What holds of the request that takes the statement pc.
LEMMA GroupsAt ==
  ASSUME GroupsInv, NEW r \in Request, NEW pc \in LinkPc, Grouping!At(r, pc)
  PROVE  /\ call[r].pc = pc /\ pc # "idle" /\ call[r].c \in Linking /\ call[r].c.op \in LinkOps(pc)
         /\ RowsOK(group)
<1>1. call[r].pc = pc /\ GroupsCallOK(call[r])
  BY DEF Grouping!At, GroupsInv, GroupsTypes
<1>2. call[r].c \in Linking /\ call[r].c.op \in LinkOps(pc)
  BY <1>1, CallFields
<1>. QED BY <1>1, <1>2 DEF LinkPc, GroupsInv, GroupsTypes

\* The statements.
LEMMA GroupsReadParent ==
  ASSUME GroupsInv, NEW r \in Request, Grouping!ReadParent(r)
  PROVE  GroupsInv'
<1>. PICK s : s = call[r]
  OBVIOUS
<1>. PICK c : c = s.c
  OBVIOUS
<1>h. PICK h : h = group[c.to].hierarchy
  OBVIOUS
<1>k. PICK k : k = Grouping!Placed(c, h)
  OBVIOUS
<1>d. PICK d : d = PutBelow(c, k)
  OBVIOUS
<1>pc. PICK pc : pc = IF c.op = "move" THEN "link" ELSE "insert"
  OBVIOUS
<1>e. PICK e : e = Grouping!Step(d, pc)
  OBVIOUS
<1>1. Grouping!At(r, "parent") /\ UNCHANGED group
  BY DEF Grouping!ReadParent
<1>2. s.pc = "parent" /\ c \in Linking /\ c.op \in {"create", "move"} /\ RowsOK(group)
  <2>1. "parent" \in LinkPc /\ LinkOps("parent") = {"create", "move"}
    BY DEF LinkPc, LinkOps
  <2>. QED BY <1>1, <2>1, GroupsAt
<1>3. CASE Grouping!Done(r)
  <2>1. Knows(group, s) => Listed(group, {})
    BY <1>2 DEF Knows, Saving
  <2>. QED BY <1>1, <1>2, <1>3, <2>1, GroupsDone
<1>4. CASE Grouping!Found(c.to) /\ Grouping!Goes(r, e)
  <2>1. h \in PlaceOf /\ Agree(h, c.to)
    BY <1>4, <1>h, GroupsRow
  <2>2. k \in PlaceOf /\ Agree(k, c.group) /\ k.parent = c.to /\ k.children = c.hierarchy.children
    BY <1>2, <1>k, <2>1, PlacedAgrees
  <2>put. IsPutBelow(d, c, k)
    BY <1>2, <1>d, <2>2, LinkPlaced
  <2>3. d \in Linking /\ d.op = c.op /\ d.group = c.group /\ d.at = c.to /\ d.to = c.to /\ d.hierarchy = k
    BY <2>put DEF IsPutBelow
  <2>4. pc \in LinkPc /\ d.op \in LinkOps(pc) /\ pc \notin {"linked", "unlinked", "save"}
        /\ (c.op = "move" => pc = "link") /\ (c.op = "create" => pc = "insert")
    BY <1>2, <1>pc, <2>3 DEF LinkPc, LinkOps
  <2>5. e.pc = pc /\ e.c = d
    BY <1>e, <2>3, <2>4, StepOK
  <2>6. GroupsCallOK(e)
    BY <1>e, <2>3, <2>4, StepOK
  <2>7. CallAgrees(e)
    <3>1. Agree(d.hierarchy, d.group)
      BY <2>2, <2>3
    <3>. QED BY <2>4, <2>5, <3>1, StepAgrees
  <2>8. ASSUME Knows(group, s)
        PROVE  Knows(group, e)
    <3>1. "parent" \in LinkPc
      BY DEF LinkPc
    <3>2. Listed(group, Saving(e))
      BY <1>2, <2>4, <2>5, <2>8 DEF Knows, Saving
    <3>3. ASSUME c.op = "create"
          PROVE  CreateKnows(group, pc, d)
      <4>1. CreateKnows(group, "parent", c)
        BY <1>2, <2>8, <3>1, <3>3 DEF Knows
      <4>2. c.hierarchy.children = {}
        BY <4>1 DEF CreateKnows
      <4>3. d.hierarchy.children = {} /\ d.hierarchy.parent = d.to /\ d.at = d.to /\ pc = "insert"
        BY <2>2, <2>3, <2>4, <3>3, <4>2
      <4>. QED BY <4>3 DEF CreateKnows
    <3>4. ASSUME c.op = "move"
          PROVE  MoveKnows(group, pc, d)
      <4>1. MoveKnows(group, "parent", c)
        BY <1>2, <2>8, <3>1, <3>4 DEF Knows
      <4>2. /\ FoundIn(group, c.group) /\ ListedBy(group, c.group, {})
            /\ c.hierarchy.children \subseteq group[c.group].hierarchy.children \cup {c.group}
        BY <4>1 DEF MoveKnows
      <4>3. d.hierarchy.children = c.hierarchy.children /\ d.hierarchy.parent = d.to /\ d.at = d.to /\ pc = "link"
        BY <2>2, <2>3, <2>4, <3>4
      <4>. QED BY <2>3, <4>2, <4>3 DEF MoveKnows
    <3>. QED BY <2>3, <2>4, <2>5, <3>2, <3>3, <3>4 DEF Knows
  <2>. QED BY <1>1, <1>2, <1>4, <2>6, <2>7, <2>8, GroupsGoes
<1>5. Grouping!Done(r) \/ (Grouping!Found(c.to) /\ Grouping!Goes(r, e))
  BY <1>h, <1>k, <1>d, <1>pc, <1>e DEF Grouping!ReadParent, PutBelow
<1>. QED BY <1>3, <1>4, <1>5

\* Where a request goes on, once a parent's list is as it should be: at saving a move,
\* or it is done with.
LEMMA GroupsAfterLink ==
  ASSUME GroupsInv, NEW r \in Request, NEW pc \in {"link", "linked"}, Grouping!At(r, pc),
         Grouping!AfterLink(r, call[r].c), RowsOK(group'),
         Knows(group, call[r]) =>
           /\ call[r].c.op = "create" => Listed(group', {})
           /\ call[r].c.op = "move" =>
                /\ Listed(group', {call[r].c.group}) /\ FoundIn(group', call[r].c.group)
                /\ call[r].c.hierarchy.children \subseteq group'[call[r].c.group].hierarchy.children \cup {call[r].c.group}
                /\ ListedBy(group', call[r].c.group, {call[r].c.to})
  PROVE  GroupsInv'
<1>. PICK s : s = call[r]
  OBVIOUS
<1>. PICK c : c = s.c
  OBVIOUS
<1>. PICK e : e = Grouping!Step(c, "save")
  OBVIOUS
<1>1. s.pc = pc /\ s.pc # "idle" /\ c \in Linking /\ c.op \in {"create", "move"} /\ pc \in LinkPc
  <2>1. pc \in LinkPc /\ LinkOps(pc) = {"create", "move"}
    BY DEF LinkPc, LinkOps
  <2>. QED BY <2>1, GroupsAt
<1>2. CASE c.op = "create"
  <2>1. Grouping!Done(r)
    BY <1>2 DEF Grouping!AfterLink
  <2>. QED BY <1>1, <1>2, <2>1, GroupsDone
<1>3. CASE c.op = "move"
  <2>1. Grouping!Goes(r, e)
    BY <1>3 DEF Grouping!AfterLink
  <2>2. "save" \in LinkPc /\ c.op \in LinkOps("save")
    BY <1>3 DEF LinkPc, LinkOps
  <2>3. e.pc = "save" /\ e.c = c
    BY <1>1, <2>2, StepOK
  <2>4. GroupsCallOK(e)
    BY <1>1, <2>2, StepOK
  <2>5. CallAgrees(s)
    BY DEF GroupsInv, GroupsTypes
  <2>6. CallAgrees(e)
    BY <1>1, <1>3, <2>3, <2>5 DEF CallAgrees
  <2>7. ASSUME Knows(group, s)
        PROVE  Knows(group', e)
    <3>1. c.hierarchy.parent = c.to
      BY <1>1, <1>3, <2>7 DEF Knows, MoveKnows
    <3>2. MoveKnows(group', "save", c)
      BY <1>3, <2>7, <3>1 DEF MoveKnows
    <3>3. Listed(group', Saving(e))
      BY <1>3, <2>3, <2>7 DEF Saving
    <3>. QED BY <1>3, <2>3, <3>2, <3>3 DEF Knows
  <2>. QED BY <1>1, <2>1, <2>4, <2>6, <2>7, GroupsGoes
<1>. QED BY <1>1, <1>2, <1>3

LEMMA GroupsAfterUnlink ==
  ASSUME GroupsInv, NEW r \in Request, NEW pc \in {"unlink", "unlinked"}, Grouping!At(r, pc),
         Grouping!AfterUnlink(r, call[r].c), RowsOK(group'),
         Knows(group, call[r]) =>
           /\ Listed(group', {})
           /\ call[r].c.op = "move" =>
                /\ FoundIn(group', call[r].c.group)
                /\ call[r].c.hierarchy.children \subseteq group'[call[r].c.group].hierarchy.children \cup {call[r].c.group}
                /\ ListedBy(group', call[r].c.group, {})
  PROVE  GroupsInv'
<1>. PICK s : s = call[r]
  OBVIOUS
<1>. PICK c : c = s.c
  OBVIOUS
<1>next. PICK next : next = IF c.op = "delete" THEN "drop" ELSE IF c.to = Grouping!NoGroup THEN "save" ELSE "parent"
  OBVIOUS
<1>e. PICK e : e = Grouping!Step(c, next)
  OBVIOUS
<1>1. s.pc = pc /\ s.pc # "idle" /\ c \in Linking /\ c.op \in {"delete", "move"} /\ pc \in LinkPc
  <2>1. pc \in LinkPc /\ LinkOps(pc) = {"delete", "move"}
    BY DEF LinkPc, LinkOps
  <2>. QED BY <2>1, GroupsAt
<1>2. Grouping!Goes(r, e)
  BY <1>next, <1>e DEF Grouping!AfterUnlink
<1>3. next \in LinkPc /\ c.op \in LinkOps(next) /\ next \notin {"linked", "unlinked"}
      /\ (c.op = "move" => next \in {"save", "parent"}) /\ (c.op = "delete" => next = "drop") /\ (next = "save" => c.to = Grouping!NoGroup)
  BY <1>1, <1>next DEF LinkPc, LinkOps
<1>4. e.pc = next /\ e.c = c
  BY <1>1, <1>3, <1>e, StepOK
<1>5. GroupsCallOK(e)
  BY <1>1, <1>3, <1>e, StepOK
<1>6. CallAgrees(s)
  BY DEF GroupsInv, GroupsTypes
<1>7. CallAgrees(e)
  <2>1. c.op = "move" => Agree(c.hierarchy, c.group)
    BY <1>1, <1>6 DEF CallAgrees
  <2>. QED BY <1>1, <1>3, <1>4, <2>1 DEF CallAgrees
<1>8. ASSUME Knows(group, s)
      PROVE  Knows(group', e)
  <2>1. Listed(group', Saving(e))
    BY <1>8 DEF Listed
  <2>2. ASSUME c.op = "move"
        PROVE  MoveKnows(group', next, c)
    <3>1. c.hierarchy.parent = Grouping!NoGroup
      BY <1>1, <1>8, <2>2 DEF Knows, MoveKnows
    <3>2. ListedBy(group', c.group, {}) /\ ListedBy(group', c.group, {c.to})
      BY <1>8, <2>2 DEF ListedBy
    <3>. QED BY <1>3, <1>8, <2>2, <3>1, <3>2 DEF MoveKnows
  <2>. QED BY <1>1, <1>3, <1>4, <2>1, <2>2 DEF Knows
<1>. QED BY <1>1, <1>2, <1>5, <1>7, <1>8, GroupsGoes

LEMMA GroupsReadLink ==
  ASSUME GroupsInv, NEW r \in Request, Grouping!ReadLink(r)
  PROVE  GroupsInv'
<1>. PICK s : s = call[r]
  OBVIOUS
<1>. PICK c : c = s.c
  OBVIOUS
<1>h. PICK h : h = group[c.at].hierarchy
  OBVIOUS
<1>d. PICK d : d = Nearing(c, h)
  OBVIOUS
<1>e. PICK e : e = Grouping!Step(d, "linked")
  OBVIOUS
<1>1. Grouping!At(r, "link") /\ UNCHANGED group
  BY DEF Grouping!ReadLink
<1>2. s.pc = "link" /\ c \in Linking /\ c.op \in {"create", "move"} /\ RowsOK(group)
  <2>1. "link" \in LinkPc /\ LinkOps("link") = {"create", "move"}
    BY DEF LinkPc, LinkOps
  <2>. QED BY <1>1, <2>1, GroupsAt
<1>3. "link" \in LinkPc /\ "linked" \in LinkPc /\ c.op \in LinkOps("linked")
  BY <1>2 DEF LinkPc, LinkOps
<1>4. CASE Grouping!AfterLink(r, c)
  <2>1. ASSUME Knows(group, s)
        PROVE  /\ c.op = "create" => Listed(group, {})
               /\ c.op = "move" => /\ Listed(group, {c.group}) /\ FoundIn(group, c.group)
                                   /\ c.hierarchy.children \subseteq group[c.group].hierarchy.children \cup {c.group}
                                   /\ ListedBy(group, c.group, {c.to})
    <3>1. Listed(group, {}) /\ Listed(group, {c.group})
      BY <1>2, <2>1 DEF Knows, Saving, Listed
    <3>2. c.op = "move" => MoveKnows(group, "link", c)
      BY <1>2, <1>3, <2>1 DEF Knows
    <3>. QED BY <3>1, <3>2 DEF MoveKnows, ListedBy
  <2>2. RowsOK(group')
    BY <1>1, <1>2
  <2>. QED BY <1>1, <1>4, <2>1, <2>2, GroupsAfterLink
<1>5. CASE Grouping!Found(c.at) /\ Grouping!Goes(r, e)
  <2>1. h \in PlaceOf /\ Agree(h, c.at)
    BY <1>5, <1>h, GroupsRow
  <2>near. IsNearing(d, c, h)
    BY <1>2, <1>d, <2>1, LinkNear
  <2>2. /\ d \in Linking /\ d.op = c.op /\ d.group = c.group /\ d.at = c.at /\ d.to = c.to
        /\ d.hierarchy = c.hierarchy /\ d.near = h
    BY <2>near DEF IsNearing
  <2>3. e.pc = "linked" /\ e.c = d
    BY <1>3, <1>e, <2>2, StepOK
  <2>4. GroupsCallOK(e)
    BY <1>3, <1>e, <2>2, StepOK
  <2>5. CallAgrees(s)
    BY DEF GroupsInv, GroupsTypes
  <2>6. CallAgrees(e)
    <3>1. c.op = "move" => Agree(c.hierarchy, c.group)
      BY <1>2, <1>3, <2>5 DEF CallAgrees
    <3>2. Agree(d.near, d.at) /\ (d.op = "move" => Agree(d.hierarchy, d.group))
      BY <2>1, <2>2, <3>1
    <3>. QED BY <2>3, <3>2 DEF CallAgrees
  <2>7. ASSUME Knows(group, s)
        PROVE  Knows(group, e)
    <3>1. Listed(group, Saving(e))
      BY <1>2, <2>3, <2>7 DEF Knows, Saving
    <3>2. c.op = "create" => CreateKnows(group, "linked", d)
      <4>1. c.op = "create" => CreateKnows(group, "link", c)
        BY <1>2, <1>3, <2>7 DEF Knows
      <4>. QED BY <2>2, <4>1 DEF CreateKnows
    <3>3. c.op = "move" => MoveKnows(group, "linked", d)
      <4>1. c.op = "move" => MoveKnows(group, "link", c)
        BY <1>2, <1>3, <2>7 DEF Knows
      <4>. QED BY <2>2, <4>1 DEF MoveKnows
    <3>4. d.near = group[d.at].hierarchy /\ (d.op = "create" => c.op = "create") /\ (d.op = "move" => c.op = "move")
      BY <1>h, <2>2
    <3>. QED BY <2>3, <3>1, <3>2, <3>3, <3>4 DEF Knows
  <2>. QED BY <1>1, <1>2, <1>5, <2>4, <2>6, <2>7, GroupsGoes
<1>6. Grouping!AfterLink(r, c) \/ (Grouping!Found(c.at) /\ Grouping!Goes(r, e))
  BY <1>h, <1>d, <1>e DEF Grouping!ReadLink, Nearing
<1>. QED BY <1>4, <1>5, <1>6

LEMMA GroupsReadUnlink ==
  ASSUME GroupsInv, NEW r \in Request, Grouping!ReadUnlink(r)
  PROVE  GroupsInv'
<1>. PICK s : s = call[r]
  OBVIOUS
<1>. PICK c : c = s.c
  OBVIOUS
<1>h. PICK h : h = group[c.at].hierarchy
  OBVIOUS
<1>d. PICK d : d = Nearing(c, h)
  OBVIOUS
<1>e. PICK e : e = Grouping!Step(d, "unlinked")
  OBVIOUS
<1>1. Grouping!At(r, "unlink") /\ UNCHANGED group
  BY DEF Grouping!ReadUnlink
<1>2. s.pc = "unlink" /\ c \in Linking /\ c.op \in {"delete", "move"} /\ RowsOK(group)
  <2>1. "unlink" \in LinkPc /\ LinkOps("unlink") = {"delete", "move"}
    BY DEF LinkPc, LinkOps
  <2>. QED BY <1>1, <2>1, GroupsAt
<1>3. "unlink" \in LinkPc /\ "unlinked" \in LinkPc /\ c.op \in LinkOps("unlinked")
  BY <1>2 DEF LinkPc, LinkOps
<1>4. CASE ~Grouping!Found(c.at) /\ Grouping!AfterUnlink(r, c)
  <2>1. ASSUME Knows(group, s)
        PROVE  /\ Listed(group, {})
               /\ c.op = "move" => /\ FoundIn(group, c.group)
                                   /\ c.hierarchy.children \subseteq group[c.group].hierarchy.children \cup {c.group}
                                   /\ ListedBy(group, c.group, {})
    <3>1. Listed(group, {})
      BY <1>2, <2>1 DEF Knows, Saving
    <3>2. c.op = "move" => MoveKnows(group, "unlink", c)
      BY <1>2, <1>3, <2>1 DEF Knows
    <3>3. c.op = "move" => ListedBy(group, c.group, {})
      BY <1>4, <3>1, <3>2, FoundSame DEF MoveKnows, ListedBy, Listed, Lists, FoundIn
    <3>. QED BY <3>1, <3>2, <3>3 DEF MoveKnows
  <2>2. RowsOK(group')
    BY <1>1, <1>2
  <2>. QED BY <1>1, <1>4, <2>1, <2>2, GroupsAfterUnlink
<1>5. CASE Grouping!Found(c.at) /\ Grouping!Goes(r, e)
  <2>1. h \in PlaceOf /\ Agree(h, c.at)
    BY <1>5, <1>h, GroupsRow
  <2>near. IsNearing(d, c, h)
    BY <1>2, <1>d, <2>1, LinkNear
  <2>2. /\ d \in Linking /\ d.op = c.op /\ d.group = c.group /\ d.at = c.at /\ d.to = c.to
        /\ d.hierarchy = c.hierarchy /\ d.near = h
    BY <2>near DEF IsNearing
  <2>3. e.pc = "unlinked" /\ e.c = d
    BY <1>3, <1>e, <2>2, StepOK
  <2>4. GroupsCallOK(e)
    BY <1>3, <1>e, <2>2, StepOK
  <2>5. CallAgrees(s)
    BY DEF GroupsInv, GroupsTypes
  <2>6. CallAgrees(e)
    <3>1. c.op = "move" => Agree(c.hierarchy, c.group)
      BY <1>2, <1>3, <2>5 DEF CallAgrees
    <3>2. Agree(d.near, d.at) /\ (d.op = "move" => Agree(d.hierarchy, d.group))
      BY <2>1, <2>2, <3>1
    <3>. QED BY <2>3, <3>2 DEF CallAgrees
  <2>7. ASSUME Knows(group, s)
        PROVE  Knows(group, e)
    <3>1. Listed(group, Saving(e))
      BY <1>2, <2>3, <2>7 DEF Knows, Saving
    <3>2. c.op = "move" => MoveKnows(group, "unlinked", d)
      <4>1. c.op = "move" => MoveKnows(group, "unlink", c)
        BY <1>2, <1>3, <2>7 DEF Knows
      <4>. QED BY <2>2, <4>1 DEF MoveKnows
    <3>3. d.near = group[d.at].hierarchy /\ d.op # "create" /\ (d.op = "move" => c.op = "move")
      BY <1>2, <1>h, <2>2
    <3>. QED BY <2>3, <3>1, <3>2, <3>3 DEF Knows
  <2>. QED BY <1>1, <1>2, <1>5, <2>4, <2>6, <2>7, GroupsGoes
<1>6. (~Grouping!Found(c.at) /\ Grouping!AfterUnlink(r, c)) \/ (Grouping!Found(c.at) /\ Grouping!Goes(r, e))
  BY <1>h, <1>d, <1>e DEF Grouping!ReadUnlink, Nearing
<1>. QED BY <1>4, <1>5, <1>6

LEMMA GroupsInsert ==
  ASSUME GroupsInv, NEW r \in Request, Grouping!InsertGroup(r)
  PROVE  GroupsInv'
<1>. PICK s : s = call[r]
  OBVIOUS
<1>. PICK c : c = s.c
  OBVIOUS
<1>g. PICK g : g = Grouping!Min(Grouping!Unborns)
  OBVIOUS
<1>o. PICK o : o = c.hierarchy
  OBVIOUS
<1>h. PICK h : h = [o EXCEPT !.path = Append(Grouping!Front(@), g)]
  OBVIOUS
<1>y. PICK y : y = NewRow(h)
  OBVIOUS
<1>. PICK G : G = group
  OBVIOUS
<1>H. PICK H : H = Replaced(G, g, y)
  OBVIOUS
<1>d. PICK d : d = Making(c, g)
  OBVIOUS
<1>e. PICK e : e = Grouping!Step(d, "link")
  OBVIOUS
<1>1. Grouping!At(r, "insert") /\ group' = H /\ Grouping!Unborns # {}
      /\ \/ Grouping!Done(r) \/ (c.to # Grouping!NoGroup /\ Grouping!Goes(r, e))
  BY <1>g, <1>o, <1>h, <1>y, <1>H, <1>d, <1>e DEF Grouping!InsertGroup, Replaced, Making, NewRow
<1>2. s.pc = "insert" /\ c \in Linking /\ c.op = "create" /\ RowsOK(G)
  <2>1. "insert" \in LinkPc /\ LinkOps("insert") = {"create"}
    BY DEF LinkPc, LinkOps
  <2>. QED BY <1>1, <2>1, GroupsAt
<1>3. g \in Grouping!Group /\ G[g].status = "unborn"
  <2>1. Grouping!Unborns \in SUBSET Nat
    BY NodeFacts DEF Grouping!Unborns
  <2>2. \E x \in Grouping!Unborns : \A z \in Grouping!Unborns : x =< z
    BY <1>1, <2>1, LeastOf
  <2>3. g \in Grouping!Unborns
    BY <1>g, <2>2 DEF Grouping!Min
  <2>. QED BY <2>3 DEF Grouping!Unborns
<1>4. o \in PlaceOf /\ Agree(o, c.group)
  <2>1. CallAgrees(s)
    BY DEF GroupsInv, GroupsTypes
  <2>2. "insert" \in LinkPc
    BY DEF LinkPc
  <2>. QED BY <1>2, <1>o, <2>1, <2>2, LinkingFields DEF CallAgrees
<1>5. h \in PlaceOf /\ Agree(h, g) /\ h.parent = o.parent /\ h.children = o.children
  BY <1>3, <1>4, <1>h, NewAgrees
<1>6. RowShape(y)
  BY <1>5, <1>y, RowNew
<1>7. y.status = "ACTIVE" /\ y.hierarchy = h /\ y.members = <<>> /\ y.memberCount = 0
  BY <1>5, <1>y, RowNew
<1>8. RowOK(y, g)
  BY <1>5, <1>6, <1>7 DEF RowOK
<1>rows. RowsOK(H)
  BY <1>2, <1>3, <1>8, <1>H, RowReplaced
<1>others. \A x \in Grouping!Group : H[x] = IF x = g THEN y ELSE G[x]
  BY <1>2, <1>3, <1>8, <1>H, RowReplaced
<1>10. ASSUME Knows(G, s)
       PROVE  Listed(H, {}) /\ CreateKnows(H, "link", d)
  <2>1. "insert" \in LinkPc
    BY DEF LinkPc
  <2>2. Listed(G, {})
    BY <1>2, <1>10 DEF Knows, Saving
  <2>3. o.children = {} /\ o.parent = c.to /\ c.at = c.to
    BY <1>2, <1>10, <1>o, <2>1 DEF Knows, CreateKnows
  <2>4. \A x \in Grouping!Group : FoundIn(H, x) <=> x = g \/ FoundIn(G, x)
    BY <1>3, <1>7, <1>rows, <1>others DEF FoundIn
  <2>places. \A x \in Grouping!Group : H[x].hierarchy = IF x = g THEN h ELSE G[x].hierarchy
    BY <1>7, <1>rows, <1>others
  <2>5. Listed(H, {})
    <3>. SUFFICES ASSUME NEW p \in Grouping!Group, NEW x \in Grouping!Group, Lists(H, p, x)
                  PROVE  /\ H[x].status # "unborn"
                         /\ p # x /\ FoundIn(H, x) /\ x \notin {} => H[x].hierarchy.parent = p
      BY DEF Listed
    <3>1. p # g /\ Lists(G, p, x)
      BY <1>3, <1>5, <2>3, <2>4, <2>places DEF Lists
    <3>2. G[x].status # "unborn" /\ x # g
      BY <1>3, <2>2, <3>1 DEF Listed
    <3>3. H[x] = G[x] /\ (FoundIn(H, x) <=> FoundIn(G, x))
      BY <1>others, <2>4, <3>2
    <3>. QED BY <2>2, <3>1, <3>2, <3>3 DEF Listed
  <2>6. FoundIn(H, g) /\ H[g].hierarchy.parent = c.at
    BY <1>3, <1>5, <2>3, <2>4, <2>places
  <2>7. d.group = g /\ d.at = c.at
    BY <1>2, <1>3, <1>d, LinkMade, NodeFacts DEF IsMaking
  <2>. QED BY <2>5, <2>6, <2>7 DEF CreateKnows
<1>11. CASE Grouping!Done(r)
  BY <1>1, <1>2, <1>rows, <1>others, <1>10, <1>11, GroupsDone
<1>12. CASE Grouping!Goes(r, e)
  <2>1. d \in Linking /\ d.op = "create"
    BY <1>2, <1>3, <1>d, LinkMade, NodeFacts DEF IsMaking
  <2>2. "link" \in LinkPc /\ d.op \in LinkOps("link")
    BY <2>1 DEF LinkPc, LinkOps
  <2>3. e.pc = "link" /\ e.c = d
    BY <1>e, <2>1, <2>2, StepOK
  <2>4. GroupsCallOK(e)
    BY <1>e, <2>1, <2>2, StepOK
  <2>5. CallAgrees(e)
    BY <2>1, <2>3 DEF CallAgrees
  <2>6. Knows(G, s) => Knows(H, e)
    BY <1>10, <2>1, <2>3 DEF Knows, Saving
  <2>. QED BY <1>1, <1>2, <1>rows, <1>others, <1>12, <2>4, <2>5, <2>6, GroupsGoes
<1>. QED BY <1>1, <1>11, <1>12

\* A step that neither makes nor moves a group, and hides none.
LEMMA ListedKept ==
  ASSUME NEW G, NEW H, Listed(G, {}),
         \A x \in Grouping!Group : H[x].hierarchy = G[x].hierarchy /\ (G[x].status # "unborn" => H[x].status # "unborn"),
         \A x : FoundIn(H, x) => FoundIn(G, x)
  PROVE  Listed(H, {})
BY DEF Listed, Lists

Relisted(c, children) == [c.near EXCEPT !.children = children]

SameStatus(G, H) ==
  (\A x : FoundIn(H, x) <=> FoundIn(G, x)) /\ \A x \in Grouping!Group : H[x].status = G[x].status

OnlyList(G, H, p, children) ==
  \A x \in Grouping!Group :
    /\ H[x].hierarchy.parent = G[x].hierarchy.parent
    /\ H[x].hierarchy.children = IF x = p /\ FoundIn(G, x) THEN children ELSE G[x].hierarchy.children

\* A parent's list is stored as it was read, but for one child.
LEMMA ListStored ==
  ASSUME GroupsInv, NEW r \in Request, NEW pc \in {"linked", "unlinked"}, Grouping!At(r, pc),
         NEW children \in SUBSET Node, NEW H,
         H = Grouping!Stored(call[r].c.at, Relisted(call[r].c, children))
  PROVE  /\ RowsOK(H)
         /\ SameStatus(group, H)
         /\ Knows(group, call[r]) => OnlyList(group, H, call[r].c.at, children)
<1>. PICK s : s = call[r]
  OBVIOUS
<1>. PICK c : c = s.c
  OBVIOUS
<1>. PICK h : h = c.near
  OBVIOUS
<1>. PICK k : k = Relisted(c, children)
  OBVIOUS
<1>1. pc \in LinkPc
  BY DEF LinkPc
<1>2. s.pc = pc /\ c \in Linking /\ RowsOK(group)
  BY <1>1, GroupsAt
<1>3. h \in PlaceOf /\ Agree(h, c.at)
  <2>1. CallAgrees(s)
    BY DEF GroupsInv, GroupsTypes
  <2>. QED BY <1>1, <1>2, <2>1, LinkingFields DEF CallAgrees
<1>4. k \in PlaceOf /\ Agree(k, c.at) /\ k.children = children /\ k.parent = h.parent
  BY <1>3, AgreeRest DEF Relisted
<1>5. RowsOK(H)
  BY <1>2, <1>4, StoredRows
<1>6. /\ \A x : FoundIn(H, x) <=> FoundIn(group, x)
      /\ \A x \in Grouping!Group :
           /\ H[x].status = group[x].status
           /\ H[x].hierarchy = IF x = c.at /\ FoundIn(group, c.at) THEN k ELSE group[x].hierarchy
  BY <1>2, <1>4, StoredRows
<1>7. ASSUME Knows(group, s), FoundIn(group, c.at)
      PROVE  h = group[c.at].hierarchy
  BY <1>1, <1>2, <1>7 DEF Knows
<1>8. SameStatus(group, H)
  BY <1>6 DEF SameStatus
<1>9. Knows(group, s) => OnlyList(group, H, c.at, children)
  BY <1>4, <1>6, <1>7 DEF OnlyList
<1>. QED BY <1>5, <1>8, <1>9

LEMMA GroupsAdd ==
  ASSUME GroupsInv, NEW r \in Request, Grouping!AddChildToParent(r)
  PROVE  GroupsInv'
<1>. PICK s : s = call[r]
  OBVIOUS
<1>. PICK c : c = s.c
  OBVIOUS
<1>children. PICK children : children = c.near.children \cup {c.group}
  OBVIOUS
<1>. PICK G : G = group
  OBVIOUS
<1>H. PICK H : H = Grouping!Stored(c.at, Relisted(c, children))
  OBVIOUS
<1>1. Grouping!At(r, "linked") /\ group' = H /\ Grouping!AfterLink(r, c)
  BY <1>children, <1>H DEF Grouping!AddChildToParent, Relisted
<1>2. s.pc = "linked" /\ "linked" \in LinkPc /\ c \in Linking /\ c.op \in {"create", "move"}
  <2>1. "linked" \in LinkPc /\ LinkOps("linked") = {"create", "move"}
    BY DEF LinkPc, LinkOps
  <2>. QED BY <1>1, <2>1, GroupsAt
<1>3. children \in SUBSET Node
  <2>1. c.near \in PlaceOf /\ c.group \in Node
    BY <1>2, LinkingFields
  <2>2. c.near.children \in SUBSET Node
    BY <2>1 DEF PlaceOf
  <2>. QED BY <1>children, <2>1, <2>2
<1>4. RowsOK(H)
  BY <1>1, <1>3, <1>H, ListStored
<1>5. SameStatus(G, H)
  BY <1>1, <1>3, <1>H, ListStored
<1>6. ASSUME Knows(G, s)
      PROVE  /\ c.op = "create" => Listed(H, {})
             /\ c.op = "move" => /\ Listed(H, {c.group}) /\ FoundIn(H, c.group)
                                 /\ c.hierarchy.children \subseteq H[c.group].hierarchy.children \cup {c.group}
                                 /\ ListedBy(H, c.group, {c.to})
  <2>list. OnlyList(G, H, c.at, children)
    BY <1>1, <1>3, <1>6, <1>H, ListStored
  <2>1. Listed(G, {})
    BY <1>2, <1>6 DEF Knows, Saving
  <2>2. FoundIn(G, c.at) => children = G[c.at].hierarchy.children \cup {c.group}
    BY <1>2, <1>6, <1>children DEF Knows
  <2>3. ASSUME NEW p \in Grouping!Group, NEW x, Lists(H, p, x)
        PROVE  Lists(G, p, x) \/ (x = c.group /\ p = c.at)
    <3>1. FoundIn(G, p) /\ x \in H[p].hierarchy.children
      BY <1>5, <2>3 DEF Lists, SameStatus
    <3>2. H[p].hierarchy.children = IF p = c.at /\ FoundIn(G, p) THEN children ELSE G[p].hierarchy.children
      BY <2>list DEF OnlyList
    <3>3. p = c.at => children = G[p].hierarchy.children \cup {c.group}
      BY <2>2, <3>1
    <3>4. x \in G[p].hierarchy.children \/ (x = c.group /\ p = c.at)
      BY <3>1, <3>2, <3>3
    <3>. QED BY <3>1, <3>4 DEF Lists
  <2>4. c.op = "create" => CreateKnows(G, "linked", c)
    BY <1>2, <1>6 DEF Knows
  <2>5. c.op = "move" => MoveKnows(G, "linked", c)
    BY <1>2, <1>6 DEF Knows
  <2>6. FoundIn(G, c.group)
    BY <1>2, <2>4, <2>5 DEF CreateKnows, MoveKnows
  <2>7. Listed(H, {c.group})
    <3>. SUFFICES ASSUME NEW p \in Grouping!Group, NEW x \in Grouping!Group, Lists(H, p, x)
                  PROVE  /\ H[x].status # "unborn"
                         /\ p # x /\ FoundIn(H, x) /\ x \notin {c.group} => H[x].hierarchy.parent = p
      BY DEF Listed
    <3>1. /\ H[x].status = G[x].status /\ (FoundIn(H, x) <=> FoundIn(G, x))
          /\ H[x].hierarchy.parent = G[x].hierarchy.parent
      BY <1>5, <2>list DEF SameStatus, OnlyList
    <3>2. CASE Lists(G, p, x)
      BY <2>1, <3>1, <3>2 DEF Listed
    <3>3. CASE x = c.group
      BY <2>6, <3>1, <3>3 DEF FoundIn
    <3>. QED BY <2>3, <3>2, <3>3
  <2>8. CASE c.op = "create"
    <3>1. G[c.group].hierarchy.parent = c.at
      BY <2>4, <2>8 DEF CreateKnows
    <3>2. Listed(H, {})
      <4>. SUFFICES ASSUME NEW p \in Grouping!Group, NEW x \in Grouping!Group, Lists(H, p, x)
                    PROVE  /\ H[x].status # "unborn"
                           /\ p # x /\ FoundIn(H, x) /\ x \notin {} => H[x].hierarchy.parent = p
        BY DEF Listed
      <4>1. /\ H[x].status = G[x].status /\ (FoundIn(H, x) <=> FoundIn(G, x))
            /\ H[x].hierarchy.parent = G[x].hierarchy.parent
        BY <1>5, <2>list DEF SameStatus, OnlyList
      <4>2. CASE Lists(G, p, x)
        BY <2>1, <4>1, <4>2 DEF Listed
      <4>3. CASE x = c.group /\ p = c.at
        BY <2>6, <3>1, <4>1, <4>3 DEF FoundIn
      <4>. QED BY <2>3, <4>2, <4>3
    <3>. QED BY <2>8, <3>2
  <2>9. CASE c.op = "move"
    <3>1. /\ c.hierarchy.children \subseteq G[c.group].hierarchy.children \cup {c.group} /\ c.at = c.to
          /\ ListedBy(G, c.group, {})
      BY <2>5, <2>9 DEF MoveKnows
    <3>2. c.group \in Grouping!Group
      BY <2>6 DEF FoundIn
    <3>3. ListedBy(H, c.group, {c.to})
      BY <2>3, <3>1, <3>2 DEF ListedBy
    <3>4. c.hierarchy.children \subseteq H[c.group].hierarchy.children \cup {c.group}
      BY <2>list, <2>2, <3>1, <3>2 DEF OnlyList
    <3>. QED BY <1>5, <2>6, <2>7, <2>9, <3>3, <3>4 DEF SameStatus
  <2>. QED BY <1>2, <2>8, <2>9
<1>. QED BY <1>1, <1>4, <1>6, GroupsAfterLink

LEMMA GroupsRemove ==
  ASSUME GroupsInv, NEW r \in Request, Grouping!RemoveChildFromParent(r)
  PROVE  GroupsInv'
<1>. PICK s : s = call[r]
  OBVIOUS
<1>. PICK c : c = s.c
  OBVIOUS
<1>children. PICK children : children = c.near.children \ {c.group}
  OBVIOUS
<1>. PICK G : G = group
  OBVIOUS
<1>H. PICK H : H = Grouping!Stored(c.at, Relisted(c, children))
  OBVIOUS
<1>1. Grouping!At(r, "unlinked") /\ group' = H /\ Grouping!AfterUnlink(r, c)
  BY <1>children, <1>H DEF Grouping!RemoveChildFromParent, Relisted
<1>2. s.pc = "unlinked" /\ "unlinked" \in LinkPc /\ c \in Linking /\ c.op \in {"delete", "move"}
  <2>1. "unlinked" \in LinkPc /\ LinkOps("unlinked") = {"delete", "move"}
    BY DEF LinkPc, LinkOps
  <2>. QED BY <1>1, <2>1, GroupsAt
<1>3. children \in SUBSET Node
  <2>1. c.near \in PlaceOf
    BY <1>2, LinkingFields
  <2>2. c.near.children \in SUBSET Node
    BY <2>1 DEF PlaceOf
  <2>. QED BY <1>children, <2>2
<1>4. RowsOK(H)
  BY <1>1, <1>3, <1>H, ListStored
<1>5. SameStatus(G, H)
  BY <1>1, <1>3, <1>H, ListStored
<1>6. ASSUME Knows(G, s)
      PROVE  /\ Listed(H, {})
             /\ c.op = "move" => /\ FoundIn(H, c.group)
                                 /\ c.hierarchy.children \subseteq H[c.group].hierarchy.children \cup {c.group}
                                 /\ ListedBy(H, c.group, {})
  <2>list. OnlyList(G, H, c.at, children)
    BY <1>1, <1>3, <1>6, <1>H, ListStored
  <2>1. Listed(G, {})
    BY <1>2, <1>6 DEF Knows, Saving
  <2>2. FoundIn(G, c.at) => children = G[c.at].hierarchy.children \ {c.group}
    BY <1>2, <1>6, <1>children DEF Knows
  <2>3. ASSUME NEW p \in Grouping!Group, NEW x, Lists(H, p, x)
        PROVE  Lists(G, p, x) /\ ~ (x = c.group /\ p = c.at)
    <3>1. FoundIn(G, p) /\ x \in H[p].hierarchy.children
      BY <1>5, <2>3 DEF Lists, SameStatus
    <3>2. H[p].hierarchy.children = IF p = c.at /\ FoundIn(G, p) THEN children ELSE G[p].hierarchy.children
      BY <2>list DEF OnlyList
    <3>3. p = c.at => children = G[p].hierarchy.children \ {c.group}
      BY <2>2, <3>1
    <3>4. x \in G[p].hierarchy.children /\ ~ (x = c.group /\ p = c.at)
      BY <3>1, <3>2, <3>3
    <3>. QED BY <3>1, <3>4 DEF Lists
  <2>4. Listed(H, {})
    <3>. SUFFICES ASSUME NEW p \in Grouping!Group, NEW x \in Grouping!Group, Lists(H, p, x)
                  PROVE  /\ H[x].status # "unborn"
                         /\ p # x /\ FoundIn(H, x) /\ x \notin {} => H[x].hierarchy.parent = p
      BY DEF Listed
    <3>1. /\ H[x].status = G[x].status /\ (FoundIn(H, x) <=> FoundIn(G, x))
          /\ H[x].hierarchy.parent = G[x].hierarchy.parent
      BY <1>5, <2>list DEF SameStatus, OnlyList
    <3>2. Lists(G, p, x)
      BY <2>3
    <3>3. G[x].status # "unborn" /\ (p # x /\ FoundIn(G, x) => G[x].hierarchy.parent = p)
      BY <2>1, <3>2 DEF Listed
    <3>. QED BY <3>1, <3>3
  <2>5. CASE c.op = "move"
    <3>1. /\ c.hierarchy.children \subseteq G[c.group].hierarchy.children \cup {c.group}
          /\ FoundIn(G, c.group) /\ c.at = G[c.group].hierarchy.parent
      BY <1>2, <1>6, <2>5 DEF Knows, MoveKnows
    <3>2. c.group \in Grouping!Group
      BY <3>1 DEF FoundIn
    <3>3. ListedBy(H, c.group, {})
      <4>. SUFFICES ASSUME NEW p \in Grouping!Group \ {c.group}, Lists(H, p, c.group)
                    PROVE  FALSE
        BY DEF ListedBy
      <4>1. Lists(G, p, c.group) /\ p # c.at
        BY <2>3
      <4>2. p \in Grouping!Group /\ p # c.group /\ FoundIn(G, c.group)
        BY <3>1
      <4>3. G[c.group].hierarchy.parent = p
        BY <2>1, <3>2, <4>1, <4>2 DEF Listed
      <4>. QED BY <3>1, <4>1, <4>3
    <3>4. c.hierarchy.children \subseteq H[c.group].hierarchy.children \cup {c.group}
      <4>g. PICK g : g = c.group
        OBVIOUS
      <4>now. PICK now : now = H[g].hierarchy.children
        OBVIOUS
      <4>was. PICK was : was = G[g].hierarchy.children
        OBVIOUS
      <4>1. now = IF g = c.at /\ FoundIn(G, g) THEN children ELSE was
        BY <2>list, <3>2, <4>g, <4>now, <4>was DEF OnlyList
      <4>2. FoundIn(G, g)
        BY <3>1, <4>g
      <4>3. g = c.at => children = was \ {g}
        BY <2>2, <4>2, <4>g, <4>was
      <4>4. now = was \/ now = was \ {g}
        BY <4>1, <4>2, <4>3
      <4>5. c.hierarchy.children \subseteq was \cup {g}
        BY <3>1, <4>g, <4>was
      <4>6. c.hierarchy.children \subseteq now \cup {g}
        BY <4>4, <4>5
      <4>. QED BY <4>6, <4>g, <4>now
    <3>. QED BY <1>5, <2>4, <3>1, <3>3, <3>4 DEF SameStatus
  <2>. QED BY <2>4, <2>5
<1>. QED BY <1>1, <1>4, <1>6, GroupsAfterUnlink

LEMMA GroupsSave ==
  ASSUME GroupsInv, NEW r \in Request, Grouping!SaveMove(r)
  PROVE  GroupsInv'
<1>. PICK s : s = call[r]
  OBVIOUS
<1>. PICK c : c = s.c
  OBVIOUS
<1>h. PICK h : h = c.hierarchy
  OBVIOUS
<1>. PICK G : G = group
  OBVIOUS
<1>H. PICK H : H = Grouping!Stored(c.group, h)
  OBVIOUS
<1>1. Grouping!At(r, "save") /\ group' = H /\ Grouping!Done(r)
  BY <1>h, <1>H DEF Grouping!SaveMove
<1>2. s.pc = "save" /\ "save" \in LinkPc /\ c \in Linking /\ c.op = "move" /\ RowsOK(G)
  <2>1. "save" \in LinkPc /\ LinkOps("save") = {"move"}
    BY DEF LinkPc, LinkOps
  <2>. QED BY <1>1, <2>1, GroupsAt
<1>3. h \in PlaceOf /\ Agree(h, c.group)
  <2>1. CallAgrees(s)
    BY DEF GroupsInv, GroupsTypes
  <2>. QED BY <1>2, <1>h, <2>1, LinkingFields DEF CallAgrees
<1>4. RowsOK(H)
  BY <1>2, <1>3, <1>H, StoredRows
<1>5. /\ \A x : FoundIn(H, x) <=> FoundIn(G, x)
      /\ \A x \in Grouping!Group :
           /\ H[x].status = G[x].status
           /\ H[x].hierarchy = IF x = c.group /\ FoundIn(G, c.group) THEN h ELSE G[x].hierarchy
  BY <1>2, <1>3, <1>H, StoredRows
<1>6. ASSUME Knows(G, s)
      PROVE  Listed(H, {})
  <2>1. Listed(G, {c.group})
    BY <1>2, <1>6 DEF Knows, Saving
  <2>2. /\ FoundIn(G, c.group) /\ h.children \subseteq G[c.group].hierarchy.children \cup {c.group}
        /\ h.parent = c.to /\ ListedBy(G, c.group, {c.to})
    BY <1>2, <1>6, <1>h DEF Knows, MoveKnows
  <2>. SUFFICES ASSUME NEW p \in Grouping!Group, NEW x \in Grouping!Group, Lists(H, p, x)
                PROVE  /\ H[x].status # "unborn"
                       /\ p # x /\ FoundIn(H, x) /\ x \notin {} => H[x].hierarchy.parent = p
    BY DEF Listed
  <2>3. CASE x = c.group
    <3>1. p # x => Lists(G, p, x)
      BY <1>5, <2>3 DEF Lists
    <3>2. p # x => p = c.to
      BY <2>2, <2>3, <3>1 DEF ListedBy
    <3>. QED BY <1>5, <2>2, <2>3, <3>2 DEF FoundIn
  <2>4. CASE x # c.group
    <3>1. Lists(G, p, x)
      BY <1>5, <2>2, <2>4 DEF Lists
    <3>. QED BY <1>5, <2>1, <2>4, <3>1 DEF Listed
  <2>. QED BY <2>3, <2>4
<1>. QED BY <1>1, <1>2, <1>4, <1>6, GroupsDone

LEMMA GroupsDrop ==
  ASSUME GroupsInv, NEW r \in Request, Grouping!DropGroup(r)
  PROVE  GroupsInv'
<1>. PICK s : s = call[r]
  OBVIOUS
<1>. PICK g : g = s.c.group
  OBVIOUS
<1>y. PICK y : y = [Grouping!UnbornGroup EXCEPT !.status = "gone"]
  OBVIOUS
<1>. PICK G : G = group
  OBVIOUS
<1>H. PICK H : H = Replaced(G, g, y)
  OBVIOUS
<1>1. Grouping!At(r, "drop") /\ group' = H /\ Grouping!Done(r)
  BY <1>y, <1>H DEF Grouping!DropGroup, Replaced
<1>2. s.pc = "drop" /\ RowsOK(G)
  <2>1. "drop" \in LinkPc
    BY DEF LinkPc
  <2>. QED BY <1>1, <2>1, GroupsAt
<1>3. RowShape(y)
  BY <1>y, RowAbsent
<1>4. y.status = "gone" /\ y.members = <<>> /\ y.memberCount = 0
  BY <1>y, RowAbsent
<1>5. RowOK(y, g)
  BY <1>3, <1>4 DEF RowOK
<1>6. RowsOK(H) /\ \A x \in Grouping!Group : H[x] = IF x = g THEN y ELSE G[x]
  <2>1. CASE g \in Grouping!Group
    BY <1>2, <1>5, <1>H, <2>1, RowReplaced
  <2>2. CASE g \notin Grouping!Group
    BY <1>2, <1>H, <2>2 DEF RowsOK, Replaced
  <2>. QED BY <2>1, <2>2
<1>7. ASSUME Knows(G, s)
      PROVE  Listed(H, {})
  <2>1. Listed(G, {})
    BY <1>2, <1>7 DEF Knows, Saving
  <2>. SUFFICES ASSUME NEW p \in Grouping!Group, NEW x \in Grouping!Group, Lists(H, p, x)
                PROVE  /\ H[x].status # "unborn"
                       /\ p # x /\ FoundIn(H, x) /\ x \notin {} => H[x].hierarchy.parent = p
    BY DEF Listed
  <2>2. Lists(G, p, x)
    BY <1>4, <1>6 DEF Lists, FoundIn
  <2>3. CASE x = g
    BY <1>4, <1>6, <2>3 DEF FoundIn
  <2>4. CASE x # g
    BY <1>6, <2>1, <2>2, <2>4 DEF Listed, FoundIn
  <2>. QED BY <2>3, <2>4
<1>. QED BY <1>1, <1>2, <1>6, <1>7, GroupsDone

\* One row is stored with its place and its list, and the group is found as before.
Kept(G, g, y) == FoundIn(G, g) /\ RowOK(y, g) /\ y.status \in {"ACTIVE", "DELETED"} /\ y.hierarchy = G[g].hierarchy

LEMMA RowKept ==
  ASSUME NEW G, RowsOK(G), NEW g \in Grouping!Group, NEW y, Kept(G, g, y)
  PROVE  RowsOK(Replaced(G, g, y)) /\ (Listed(G, {}) => Listed(Replaced(G, g, y), {}))
<1>. PICK H : H = Replaced(G, g, y)
  OBVIOUS
<1>1. RowsOK(H) /\ \A x \in Grouping!Group : H[x] = IF x = g THEN y ELSE G[x]
  BY RowReplaced DEF Kept
<1>2. \A x \in Grouping!Group : H[x].hierarchy = G[x].hierarchy /\ (G[x].status # "unborn" => H[x].status # "unborn")
  BY <1>1 DEF Kept
<1>3. \A x : FoundIn(H, x) => FoundIn(G, x)
  BY <1>1 DEF FoundIn, Kept
<1>. QED BY <1>1, <1>2, <1>3, ListedKept

LEMMA GroupsMark ==
  ASSUME GroupsInv, NEW r \in Request, Grouping!HideGroup(r)
  PROVE  GroupsInv'
<1>. PICK s : s = call[r]
  OBVIOUS
<1>. PICK g : g = s.c.group
  OBVIOUS
<1>. PICK G : G = group
  OBVIOUS
<1>. PICK y : y = [G[g] EXCEPT !.status = "DELETED"]
  OBVIOUS
<1>. PICK H : H = group'
  OBVIOUS
<1>1. Grouping!At(r, "hide") /\ H = (IF Grouping!Found(g) THEN Replaced(G, g, y) ELSE G) /\ Grouping!Done(r)
  BY DEF Grouping!HideGroup, Replaced
<1>2. s.pc = "hide" /\ RowsOK(G)
  <2>1. "hide" \in LinkPc
    BY DEF LinkPc
  <2>. QED BY <1>1, <2>1, GroupsAt
<1>3. Knows(G, s) => Listed(G, {})
  BY <1>2 DEF Knows, Saving
<1>4. RowsOK(H) /\ (Listed(G, {}) => Listed(H, {}))
  <2>1. CASE ~Grouping!Found(g)
    BY <1>1, <1>2, <2>1
  <2>2. CASE Grouping!Found(g)
    <3>1. g \in Grouping!Group /\ FoundIn(G, g)
      BY <2>2, FoundSame DEF FoundIn
    <3>2. RowOK(G[g], g)
      BY <1>2, <3>1 DEF RowsOK
    <3>3. RowShape(y)
      BY <3>2, RowMarked DEF RowOK
    <3>4. y.status = "DELETED" /\ y.hierarchy = G[g].hierarchy /\ y.members = G[g].members
          /\ y.memberCount = G[g].memberCount
      BY <3>2, RowMarked DEF RowOK
    <3>5. RowOK(y, g) /\ y.status \in {"ACTIVE", "DELETED"}
      BY <3>1, <3>2, <3>3, <3>4 DEF RowOK, FoundIn
    <3>6. H = Replaced(G, g, y)
      BY <1>1, <2>2
    <3>7. Kept(G, g, y)
      BY <3>1, <3>4, <3>5 DEF Kept
    <3>. QED BY <1>2, <3>1, <3>6, <3>7, RowKept
  <2>. QED BY <2>1, <2>2
<1>. QED BY <1>1, <1>2, <1>3, <1>4, GroupsDone

LEMMA GroupsSaveMembers ==
  ASSUME GroupsInv, NEW r \in Request, Grouping!SaveMembers(r)
  PROVE  GroupsInv'
<1>. PICK c : c = call[r]
  OBVIOUS
<1>. PICK g : g = c.group
  OBVIOUS
<1>. PICK ms, v, n : ms = c.members /\ v = c.version + 1 /\ n = Len(ms)
  OBVIOUS
<1>. PICK G : G = group
  OBVIOUS
<1>. PICK y : y = Counted(G[g], ms, v, n)
  OBVIOUS
<1>. PICK H : H = group'
  OBVIOUS
<1>1. c.pc = "members" /\ Grouping!Done(r)
  BY DEF Grouping!SaveMembers, Grouping!At
<1>2. g \in Grouping!Group /\ RowsOK(G)
  <2>1. GroupsCallOK(c)
    BY DEF GroupsInv, GroupsTypes
  <2>. QED BY <1>1, <2>1, CallFields DEF GroupsInv, GroupsTypes
<1>3. H = IF Grouping!Found(g) THEN Replaced(G, g, y) ELSE G
  <2>1. CASE ~Grouping!Found(g)
    BY <2>1 DEF Grouping!SaveMembers
  <2>2. CASE Grouping!Found(g)
    <3>1. H = [G EXCEPT ![g].members = ms, ![g].version = v, ![g].memberCount = n]
      BY <2>2 DEF Grouping!SaveMembers
    <3>2. G = [x \in Grouping!Group |-> G[x]]
      BY <1>2 DEF RowsOK
    <3>. QED BY <1>2, <2>2, <3>1, <3>2 DEF Replaced, Counted
  <2>. QED BY <2>1, <2>2
<1>4. Knows(G, c) => Listed(G, {})
  BY <1>1 DEF Knows, Saving
<1>5. RowsOK(H) /\ (Listed(G, {}) => Listed(H, {}))
  <2>1. CASE ~Grouping!Found(g)
    BY <1>2, <1>3, <2>1
  <2>2. CASE Grouping!Found(g)
    <3>1. FoundIn(G, g)
      BY <2>2, FoundSame
    <3>2. RowOK(G[g], g)
      BY <1>2 DEF RowsOK
    <3>3. RowShape(y)
      BY <3>2, RowCounted DEF RowOK
    <3>4. y.status = G[g].status /\ y.hierarchy = G[g].hierarchy /\ y.members = ms /\ y.memberCount = n
      BY <3>2, RowCounted DEF RowOK
    <3>5. RowOK(y, g) /\ y.status \in {"ACTIVE", "DELETED"}
      BY <3>1, <3>2, <3>3, <3>4 DEF RowOK, FoundIn
    <3>6. H = Replaced(G, g, y)
      BY <1>3, <2>2
    <3>7. Kept(G, g, y)
      BY <3>1, <3>4, <3>5 DEF Kept
    <3>. QED BY <1>2, <3>1, <3>6, <3>7, RowKept
  <2>. QED BY <2>1, <2>2
<1>. QED BY <1>1, <1>4, <1>5, GroupsDone

LEMMA GroupsFail ==
  ASSUME GroupsInv, NEW r \in Request, Grouping!Fails(r), UNCHANGED group
  PROVE  GroupsInv'
<1>. PICK c : c = Grouping!Idle
  OBVIOUS
<1>1. c.pc = "idle" /\ "idle" \notin LinkPc /\ call' = [call EXCEPT ![r] = c] /\ calm' = FALSE
  BY DEF Grouping!Idle, LinkPc, Grouping!Fails
<1>2. GroupsCallOK(c)
  BY <1>1 DEF GroupsCallOK
<1>3. CallAgrees(c)
  BY <1>1 DEF CallAgrees
<1>4. RowsOK(group')
  BY DEF GroupsInv, GroupsTypes
<1>. QED BY <1>1, <1>2, <1>3, <1>4, GroupsStep

\* The behaviours of the component.
LEMMA GroupsStart ==
  ASSUME Grouping!GroupsInit
  PROVE  GroupsInv
<1>1. /\ group = [g \in Grouping!Group |-> Grouping!UnbornGroup]
      /\ call = [r \in Request |-> Grouping!Idle] /\ calm = TRUE
  BY DEF Grouping!GroupsInit, Grouping!RequestsInit
<1>2. RowShape(Grouping!UnbornGroup)
  BY RowAbsent
<1>3. Grouping!UnbornGroup.status = "unborn" /\ Grouping!UnbornGroup.members = <<>> /\ Grouping!UnbornGroup.memberCount = 0
  BY RowAbsent
<1>4. Grouping!Idle.pc = "idle" /\ "idle" \notin LinkPc
  BY DEF Grouping!Idle, LinkPc
<1>. HIDE DEF Grouping!UnbornGroup, Grouping!Idle
<1>5. \A g : RowOK(Grouping!UnbornGroup, g)
  BY <1>2, <1>3 DEF RowOK
<1>6. RowsOK(group)
  BY <1>1, <1>5 DEF RowsOK
<1>7. GroupsCallOK(Grouping!Idle) /\ CallAgrees(Grouping!Idle)
  BY <1>4 DEF GroupsCallOK, CallAgrees
<1>8. GroupsTypes
  BY <1>1, <1>6, <1>7 DEF GroupsTypes
<1>9. Listed(group, {})
  BY <1>1, <1>3 DEF Listed, Lists, FoundIn
<1>10. GroupsCalm
  BY <1>1, <1>4, <1>9 DEF GroupsCalm
<1>. QED BY <1>8, <1>10 DEF GroupsInv

LEMMA GroupsGoOn ==
  ASSUME GroupsInv, [Grouping!GroupsNext]_<<group, requests>>
  PROVE  GroupsInv'
<1>1. CASE UNCHANGED <<group, requests>>
  <2>1. UNCHANGED <<group, call, calm>>
    BY <1>1 DEF requests
  <2>. QED BY <2>1 DEF GroupsInv, GroupsTypes, GroupsCalm
<1>2. CASE Grouping!GroupsNext
  <2>. SUFFICES ASSUME NEW r \in Request,
                  \/ \E to \in Node : Grouping!CreateGroup(r, to)
                  \/ \E g \in Grouping!Group :
                       \/ \E to \in Node : Grouping!MoveGroup(r, g, to)
                       \/ Grouping!DeleteGroup(r, g) \/ Grouping!SoftDeleteGroup(r, g)
                       \/ \E ms : Grouping!Members(r, g, ms)
                  \/ Grouping!ReadParent(r) \/ Grouping!InsertGroup(r)
                  \/ Grouping!ReadLink(r) \/ Grouping!ReadUnlink(r)
                  \/ Grouping!AddChildToParent(r) \/ Grouping!RemoveChildFromParent(r)
                  \/ Grouping!SaveMove(r) \/ Grouping!DropGroup(r) \/ Grouping!HideGroup(r) \/ Grouping!SaveMembers(r)
                  \/ Grouping!Fails(r) /\ UNCHANGED group
                PROVE  GroupsInv'
    BY <1>2 DEF Grouping!GroupsNext, Grouping!AddMembers, Grouping!RemoveMembers, Node
  <2>. QED BY GroupsCreate, GroupsMove, GroupsDelete, GroupsHide, GroupsMembers, GroupsReadParent, GroupsInsert,
              GroupsReadLink, GroupsReadUnlink, GroupsAdd, GroupsRemove, GroupsSave, GroupsDrop, GroupsMark,
              GroupsSaveMembers, GroupsFail
<1>. QED BY <1>1, <1>2

LEMMA GroupsAgree ==
  ASSUME GroupsInv
  PROVE  Grouping!HierarchyAgrees /\ Grouping!LinksAgree /\ Grouping!CountIsMembers
<1>1. \A g \in Grouping!Group : RowOK(group[g], g)
  BY DEF GroupsInv, GroupsTypes, RowsOK
<1>2. Grouping!HierarchyAgrees
  <2>. SUFFICES ASSUME NEW g \in Grouping!Group, Grouping!Found(g), NEW h, h = group[g].hierarchy
                PROVE  /\ Grouping!Last(h.path) = g /\ h.depth = Len(h.path) - 1
                       /\ h.parent = IF Len(h.path) = 1 THEN Grouping!NoGroup ELSE h.path[Len(h.path) - 1]
    BY DEF Grouping!HierarchyAgrees
  <2>1. Agree(h, g)
    BY GroupsRow
  <2>. QED BY <2>1 DEF Agree, Grouping!Last
<1>3. Grouping!CountIsMembers
  BY <1>1 DEF RowOK, Grouping!CountIsMembers
<1>4. Grouping!LinksAgree
  <2>. SUFFICES ASSUME Grouping!Settled, NEW p \in Grouping!Group, NEW g \in Grouping!Group, p # g,
                       Grouping!Found(p), Grouping!Found(g), g \in group[p].hierarchy.children
                PROVE  group[g].hierarchy.parent = p
    BY DEF Grouping!LinksAgree
  <2>1. Listed(group, {})
    BY DEF Grouping!Settled, Grouping!At, GroupsInv, GroupsCalm
  <2>. QED BY <2>1, FoundSame DEF Listed, Lists
<1>. QED BY <1>2, <1>3, <1>4


-----------------------------------------------------------------------------
\* Maintenance groups

TeamsCall ==
  {Teams!Idle}
    \cup [pc : {"insertTeam"}]
    \cup [pc : {"members", "drop", "count"}, team : Teams!Team]
    \cup [pc : {"team", "membership"}, team : Teams!Team, users : SUBSET User, single : BOOLEAN]
    \cup [pc : {"remove"}, team : Teams!Team, users : SUBSET User]
    \cup [pc : {"insertMember"}, team : Teams!Team, users : SUBSET User, single : BOOLEAN, user : User]
    \cup [pc : {"store"}, team : Teams!Team, count : Nat]

\* The rows: a group that is not there has no members, and one not yet there counts none.
TeamRowsOK ==
  /\ team \in [Teams!Team -> Teams!TeamRow]
  /\ membership \in [Teams!Team \X User -> Teams!MembershipState]
  /\ left \in [Teams!Team -> SUBSET User]
  /\ Teams!MembersHaveGroup
  /\ \A g \in Teams!Team : team[g].state = "unborn" => team[g].memberCount = 0

\* The count n lies between the current members of g and those it may have counted.
CountFits(n, g) == Cardinality(Teams!Current(g)) =< n /\ n =< Cardinality(Teams!Counted(g))

\* What a request that nothing overlaps has read is so.
KnowsTeam(c) ==
  /\ c.pc \in {"team", "membership"} /\ c.single => \E u : c.users \subseteq {u}
  /\ c.pc \in {"team", "membership", "insertMember"} => c.users \subseteq enrolled
  /\ c.pc = "membership" => Teams!Stands(c.team) /\ (c.single => CountFits(team[c.team].memberCount, c.team))
  /\ c.pc = "insertMember" =>
       Teams!Stands(c.team) /\ c.user \in enrolled \ Teams!Rows(c.team) /\ (c.single => c.users = {})
  /\ c.pc = "store" => CountFits(c.count, c.team)

\* The statements before which the stored count may be behind.
Uncounted == {"membership", "insertMember", "remove", "count", "drop", "store"}

TeamsCalm ==
  calm =>
    /\ \A q, r \in Request : call[q].pc # "idle" /\ call[r].pc # "idle" => q = r
    /\ \A r \in Request : KnowsTeam(call[r])
    /\ \A g \in Teams!Team : Teams!Stands(g) =>
         CountFits(team[g].memberCount, g) \/ \E r \in Request : call[r].pc \in Uncounted /\ call[r].team = g

TeamsInv == TeamRowsOK /\ call \in [Request -> TeamsCall] /\ calm \in BOOLEAN /\ TeamsCalm

\* The members of g, and who may have been counted as one, stay.
MembersStay(g) ==
  Teams!Rows(g)' = Teams!Rows(g) /\ Teams!Current(g)' = Teams!Current(g) /\ Teams!Counted(g)' = Teams!Counted(g)

LEMMA TeamsSizes ==
  ASSUME TeamRowsOK, NEW g \in Teams!Team
  PROVE  /\ IsFiniteSet(Teams!Current(g)) /\ IsFiniteSet(Teams!Counted(g))
         /\ Cardinality(Teams!Current(g)) \in Nat /\ Cardinality(Teams!Counted(g)) \in Nat
         /\ Teams!Current(g) \subseteq Teams!Counted(g)
         /\ Cardinality(Teams!Current(g)) =< Cardinality(Teams!Counted(g))
<1>. HIDE DEF Teams!Team
<1>1. Teams!Current(g) \subseteq Teams!Counted(g) /\ Teams!Counted(g) \subseteq User
  BY DEF Teams!Current, Teams!Rows, Teams!Counted, TeamRowsOK
<1>2. IsFiniteSet(Teams!Current(g)) /\ IsFiniteSet(Teams!Counted(g))
  BY <1>1, FS_Subset, EstateAssumption
<1>. QED BY <1>1, <1>2, FS_Subset, FS_CardinalityType

LEMMA TeamsCardinality ==
  ASSUME NEW S
  PROVE  Teams!Cardinality(S) = Cardinality(S)
BY DEF Teams!Cardinality, Cardinality

LEMMA TeamsShapes ==
  ASSUME TeamsInv, NEW r \in Request
  PROVE  /\ call[r] \in TeamsCall
         /\ Teams!Idle.pc = "idle"
         /\ call[r].pc \in Uncounted \cup {"members", "team"} => call[r].team \in Teams!Team
         /\ call[r].pc \in {"team", "membership", "insertMember"} =>
              call[r].users \in SUBSET User /\ call[r].single \in BOOLEAN
         /\ call[r].pc = "remove" => call[r].users \in SUBSET User
         /\ call[r].pc = "insertMember" => call[r].user \in User
         /\ call[r].pc = "store" => call[r].count \in Nat
<1>1. call[r] \in TeamsCall
  <2>. HIDE DEF TeamsCall
  <2>. QED BY DEF TeamsInv
<1>2. Teams!Idle.pc = "idle"
  BY DEF Teams!Idle
<1>. HIDE DEF Teams!Team
<1>. QED BY <1>1, <1>2 DEF TeamsCall, Uncounted

\* A request that makes a statement is alone, if none have overlapped.
LEMMA TeamsAlone ==
  ASSUME TeamsInv, NEW r \in Request, NEW c,
         \/ Teams!Begin(r, c)
         \/ call[r].pc # "idle" /\ Teams!Goes(r, c)
  PROVE  /\ call' = [call EXCEPT ![r] = c] /\ calm' \in BOOLEAN
         /\ calm' => calm /\ \A q \in Request \ {r} : call[q].pc = "idle"
<1>1. CASE Teams!Begin(r, c)
  BY <1>1 DEF Teams!Begin, Teams!At, TeamsInv
<1>2. CASE call[r].pc # "idle" /\ Teams!Goes(r, c)
  <2>1. calm' = calm /\ call' = [call EXCEPT ![r] = c]
    BY <1>2 DEF Teams!Goes
  <2>2. calm => \A q \in Request \ {r} : call[q].pc = "idle"
    BY <1>2 DEF TeamsInv, TeamsCalm
  <2>. QED BY <2>1, <2>2 DEF TeamsInv
<1>. QED BY <1>1, <1>2

\* What a statement about the group t leaves to the others.
LEMMA TeamsStep ==
  ASSUME TeamsInv, NEW r \in Request, NEW c \in TeamsCall, call' = [call EXCEPT ![r] = c], calm' \in BOOLEAN,
         calm' => calm /\ \A q \in Request \ {r} : call[q].pc = "idle",
         TeamRowsOK', NEW t,
         \A g \in Teams!Team \ {t} :
           team'[g] = team[g] /\ MembersStay(g),
         call[r].pc \in Uncounted => call[r].team = t,
         calm' => KnowsTeam(c)',
         calm' /\ t \in Teams!Team /\ Teams!Stands(t)' =>
           CountFits(team[t].memberCount, t)' \/ (c.pc \in Uncounted /\ c.team = t)
  PROVE  TeamsInv'
<1>. HIDE DEF TeamsCall, Teams!Team
<1>1. call' \in [Request -> TeamsCall] /\ \A q \in Request : call'[q] = IF q = r THEN c ELSE call[q]
  BY DEF TeamsInv
<1>2. ASSUME calm' PROVE TeamsCalm'
  <2>1. \A q, s \in Request : call'[q].pc # "idle" /\ call'[s].pc # "idle" => q = s
    BY <1>1, <1>2
  <2>2. ASSUME NEW q \in Request PROVE KnowsTeam(call[q])'
    <3>1. CASE q = r
      BY <1>1, <1>2, <3>1 DEF KnowsTeam, CountFits, Teams!Stands, Teams!Rows, Teams!Current, Teams!Counted
    <3>2. CASE q # r
      BY <1>1, <1>2, <3>2 DEF KnowsTeam
    <3>. QED BY <3>1, <3>2
  <2>3. ASSUME NEW g \in Teams!Team, Teams!Stands(g)', g # t
        PROVE  CountFits(team[g].memberCount, g)'
    <3>1. Teams!Stands(g) /\ team'[g] = team[g]
      BY <2>3 DEF Teams!Stands
    <3>2. ~ \E q \in Request : call[q].pc \in Uncounted /\ call[q].team = g
      BY <1>2, <2>3 DEF Uncounted
    <3>3. CountFits(team[g].memberCount, g)
      BY <1>2, <3>1, <3>2 DEF TeamsInv, TeamsCalm
    <3>. QED BY <2>3, <3>1, <3>3 DEF CountFits, MembersStay
  <2>4. ASSUME NEW g \in Teams!Team, Teams!Stands(g)'
        PROVE  CountFits(team[g].memberCount, g)' \/ \E q \in Request : call'[q].pc \in Uncounted /\ call'[q].team = g
    <3>1. CASE g = t
      BY <1>1, <1>2, <2>4, <3>1
    <3>2. CASE g # t
      BY <2>3, <2>4, <3>2
    <3>. QED BY <3>1, <3>2
  <2>. QED BY <2>1, <2>2, <2>4 DEF TeamsCalm
<1>3. TeamsCalm'
  BY <1>2 DEF TeamsCalm
<1>. QED BY <1>1, <1>3 DEF TeamsInv

\* What a statement that changes no row leaves.
LEMMA TeamsReads ==
  ASSUME TeamsInv, NEW r \in Request, NEW c \in TeamsCall, UNCHANGED <<team, membership, enrolled, left>>,
         \/ Teams!Begin(r, c)
         \/ call[r].pc # "idle" /\ Teams!Goes(r, c),
         calm => KnowsTeam(c),
         calm /\ call[r].pc \in Uncounted /\ Teams!Stands(call[r].team) =>
           \/ CountFits(team[call[r].team].memberCount, call[r].team)
           \/ c.pc \in Uncounted /\ c.team = call[r].team
  PROVE  TeamsInv'
<1>. HIDE DEF TeamsCall, Teams!Team
<1>1. /\ call' = [call EXCEPT ![r] = c] /\ calm' \in BOOLEAN
      /\ calm' => calm /\ \A q \in Request \ {r} : call[q].pc = "idle"
  BY TeamsAlone
<1>2. TeamRowsOK'
  BY DEF TeamsInv, TeamRowsOK, Teams!MembersHaveGroup, Teams!Rows, Teams!Stands
<1>3. PICK t : t = IF call[r].pc \in Uncounted THEN call[r].team ELSE 0
  OBVIOUS
<1>4. \A g : team'[g] = team[g] /\ MembersStay(g) /\ Teams!Stands(g)' = Teams!Stands(g)
  BY DEF Teams!Rows, Teams!Current, Teams!Counted, Teams!Stands, MembersStay
<1>5. KnowsTeam(c)' = KnowsTeam(c)
  BY <1>4 DEF KnowsTeam, CountFits, MembersStay
<1>6. CASE call[r].pc \in Uncounted
  <2>1. t = call[r].team
    BY <1>3, <1>6
  <2>2. calm' /\ t \in Teams!Team /\ Teams!Stands(t)' =>
          CountFits(team[t].memberCount, t)' \/ (c.pc \in Uncounted /\ c.team = t)
    BY <1>1, <1>4, <1>6, <2>1 DEF CountFits, MembersStay
  <2>. QED BY <1>1, <1>2, <1>4, <1>5, <2>1, <2>2, TeamsStep
<1>7. CASE call[r].pc \notin Uncounted
  <2>1. t \notin Teams!Team
    BY <1>3, <1>7, EstateAssumption DEF Teams!Team
  <2>. QED BY <1>1, <1>2, <1>4, <1>5, <1>7, <2>1, TeamsStep
<1>. QED BY <1>6, <1>7

LEMMA TeamsAsk ==
  ASSUME TeamsInv, NEW r \in Request,
         \/ Teams!CreateGroup(r)
         \/ \E g \in Teams!Team :
              \/ Teams!DeleteGroup(r, g)
              \/ \E u \in User : Teams!AddMember(r, g, u) \/ Teams!RemoveMember(r, g, u)
              \/ \E users \in SUBSET User \ {{}} : Teams!AddMembers(r, g, users) \/ Teams!RemoveMembers(r, g, users)
  PROVE  TeamsInv'
<1>. DEFINE Asked(c) ==
       /\ Teams!Begin(r, c) /\ UNCHANGED <<team, membership, enrolled, left>>
       /\ \/ c = [pc |-> "insertTeam"]
          \/ \E g \in Teams!Team : c = [pc |-> "members", team |-> g]
          \/ \E g \in Teams!Team, users \in SUBSET User :
               \/ users \subseteq enrolled /\ c = [pc |-> "team", team |-> g, users |-> users, single |-> FALSE]
               \/ c = [pc |-> "remove", team |-> g, users |-> users]
          \/ \E g \in Teams!Team, u \in enrolled \cap User : c = [pc |-> "team", team |-> g, users |-> {u}, single |-> TRUE]
<1>1. \E c : Asked(c)
  <2>. HIDE DEF Teams!Team
  <2>1. CASE Teams!CreateGroup(r)
    BY <2>1 DEF Teams!CreateGroup, Teams!TeamReads, Teams!staff
  <2>2. ASSUME NEW g \in Teams!Team, Teams!DeleteGroup(r, g) PROVE \E c : Asked(c)
    BY <2>2 DEF Teams!DeleteGroup, Teams!TeamReads, Teams!staff
  <2>3. ASSUME NEW g \in Teams!Team, NEW u \in User, Teams!AddMember(r, g, u) PROVE \E c : Asked(c)
    BY <2>3 DEF Teams!AddMember, Teams!Add, Teams!TeamReads, Teams!staff
  <2>4. ASSUME NEW g \in Teams!Team, NEW u \in User, Teams!RemoveMember(r, g, u) PROVE \E c : Asked(c)
    BY <2>4 DEF Teams!RemoveMember, Teams!TeamReads, Teams!staff
  <2>5. ASSUME NEW g \in Teams!Team, NEW users \in SUBSET User, Teams!AddMembers(r, g, users) PROVE \E c : Asked(c)
    BY <2>5 DEF Teams!AddMembers, Teams!Add, Teams!TeamReads, Teams!staff
  <2>6. ASSUME NEW g \in Teams!Team, NEW users \in SUBSET User, Teams!RemoveMembers(r, g, users) PROVE \E c : Asked(c)
    BY <2>6 DEF Teams!RemoveMembers, Teams!TeamReads, Teams!staff
  <2>. QED BY <2>1, <2>2, <2>3, <2>4, <2>5, <2>6
<1>2. PICK c : Asked(c)
  BY <1>1
<1>3. c \in TeamsCall
  <2>. HIDE DEF Teams!Team
  <2>1. CASE c = [pc |-> "insertTeam"]
    BY <2>1 DEF TeamsCall
  <2>2. ASSUME NEW g \in Teams!Team, c = [pc |-> "members", team |-> g] PROVE c \in TeamsCall
    BY <2>2 DEF TeamsCall
  <2>3. ASSUME NEW g \in Teams!Team, NEW users \in SUBSET User, NEW single \in BOOLEAN,
               c = [pc |-> "team", team |-> g, users |-> users, single |-> single]
        PROVE  c \in TeamsCall
    BY <2>3 DEF TeamsCall
  <2>4. ASSUME NEW g \in Teams!Team, NEW users \in SUBSET User, c = [pc |-> "remove", team |-> g, users |-> users]
        PROVE  c \in TeamsCall
    BY <2>4 DEF TeamsCall
  <2>. QED BY <1>2, <2>1, <2>2, <2>3, <2>4
<1>4. KnowsTeam(c) /\ call[r].pc \notin Uncounted
  BY <1>2 DEF KnowsTeam, Uncounted, Teams!Begin, Teams!At
<1>. QED BY <1>2, <1>3, <1>4, TeamsReads

LEMMA TeamsReadGroup ==
  ASSUME TeamsInv, NEW r \in Request, Teams!ReadGroup(r)
  PROVE  TeamsInv'
<1>. HIDE DEF TeamsCall, Teams!Team
<1>1. /\ call[r].pc = "team" /\ call[r] \in TeamsCall /\ call[r].pc \notin Uncounted
      /\ UNCHANGED <<team, membership, enrolled, left>> /\ call[r].team \in Teams!Team
  BY TeamsShapes DEF Teams!ReadGroup, Teams!At, Teams!TeamReads, Teams!staff, Uncounted
<1>2. CASE Teams!Stands(call[r].team)
  <2>1. PICK c : c = [call[r] EXCEPT !.pc = "membership"]
    OBVIOUS
  <2>2. Teams!Goes(r, c)
    BY <1>2, <2>1 DEF Teams!ReadGroup
  <2>3. c \in TeamsCall /\ c.pc = "membership" /\ c.team = call[r].team /\ c.users = call[r].users /\ c.single = call[r].single
    BY <1>1, <2>1 DEF TeamsCall, Teams!Idle
  <2>4. calm => CountFits(team[c.team].memberCount, c.team)
    <3>1. calm => ~ \E q \in Request : call[q].pc \in Uncounted
      BY <1>1 DEF TeamsInv, TeamsCalm, Uncounted
    <3>. QED BY <1>1, <1>2, <2>3, <3>1 DEF TeamsInv, TeamsCalm
  <2>5. calm => KnowsTeam(c)
    BY <1>1, <1>2, <2>3, <2>4 DEF TeamsInv, TeamsCalm, KnowsTeam
  <2>. QED BY <1>1, <2>2, <2>3, <2>5, TeamsReads
<1>3. CASE ~Teams!Stands(call[r].team)
  <2>1. Teams!Goes(r, Teams!Idle)
    BY <1>3 DEF Teams!ReadGroup, Teams!Done
  <2>2. Teams!Idle \in TeamsCall /\ KnowsTeam(Teams!Idle)
    BY TeamsShapes DEF TeamsCall, KnowsTeam
  <2>. QED BY <1>1, <2>1, <2>2, TeamsReads
<1>. QED BY <1>2, <1>3

LEMMA TeamsGetMembership ==
  ASSUME TeamsInv, NEW r \in Request, NEW u \in User, Teams!GetMembership(r, u)
  PROVE  TeamsInv'
<1>. HIDE DEF TeamsCall, Teams!Team
<1>1. PICK g : g = call[r].team
  OBVIOUS
<1>2. /\ call[r].pc = "membership" /\ call[r] \in TeamsCall /\ call[r].pc # "idle"
      /\ UNCHANGED <<team, membership, enrolled, left>> /\ g \in Teams!Team /\ u \in call[r].users
      /\ call[r].users \in SUBSET User /\ call[r].single \in BOOLEAN
  BY <1>1, TeamsShapes DEF Teams!GetMembership, Teams!At, Teams!TeamReads, Teams!staff, Uncounted
<1>3. calm => /\ Teams!Stands(g) /\ (call[r].single => CountFits(team[g].memberCount, g))
              /\ call[r].single => call[r].users = {u}
              /\ call[r].users \subseteq enrolled
  BY <1>1, <1>2 DEF TeamsInv, TeamsCalm, KnowsTeam
<1>4. CASE u \notin Teams!Rows(g)
  <2>1. PICK c : c = [pc |-> "insertMember", team |-> g, users |-> call[r].users \ {u}, single |-> call[r].single, user |-> u]
    OBVIOUS
  <2>2. Teams!Goes(r, c)
    BY <1>1, <1>4, <2>1 DEF Teams!GetMembership
  <2>3. c \in TeamsCall
    BY <1>2, <2>1 DEF TeamsCall
  <2>4. calm => KnowsTeam(c)
    BY <1>2, <1>3, <1>4, <2>1 DEF KnowsTeam
  <2>5. c.pc \in Uncounted /\ c.team = g
    BY <2>1 DEF Uncounted
  <2>. QED BY <1>1, <1>2, <2>2, <2>3, <2>4, <2>5, TeamsReads
<1>5. CASE u \in Teams!Rows(g) /\ call[r].single
  <2>1. Teams!Goes(r, Teams!Idle)
    BY <1>1, <1>5 DEF Teams!GetMembership, Teams!Done
  <2>2. Teams!Idle \in TeamsCall /\ KnowsTeam(Teams!Idle)
    BY TeamsShapes DEF TeamsCall, KnowsTeam
  <2>. QED BY <1>1, <1>2, <1>3, <1>5, <2>1, <2>2, TeamsReads
<1>6. CASE u \in Teams!Rows(g) /\ ~call[r].single /\ call[r].users = {u}
  <2>1. PICK c : c = [pc |-> "count", team |-> g]
    OBVIOUS
  <2>2. Teams!Goes(r, c)
    BY <1>1, <1>6, <2>1 DEF Teams!GetMembership, Teams!Counting
  <2>3. c \in TeamsCall
    BY <1>2, <2>1 DEF TeamsCall
  <2>4. KnowsTeam(c) /\ c.pc \in Uncounted /\ c.team = g
    BY <2>1 DEF KnowsTeam, Uncounted
  <2>. QED BY <1>1, <1>2, <2>2, <2>3, <2>4, TeamsReads
<1>7. CASE u \in Teams!Rows(g) /\ ~call[r].single /\ call[r].users # {u}
  <2>1. PICK c : c = [call[r] EXCEPT !.users = @ \ {u}]
    OBVIOUS
  <2>2. Teams!Goes(r, c)
    BY <1>1, <1>7, <2>1 DEF Teams!GetMembership
  <2>3. /\ c \in TeamsCall /\ c.pc = "membership" /\ c.team = g /\ c.single = call[r].single
        /\ c.users \subseteq call[r].users
    BY <1>1, <1>2, <2>1 DEF TeamsCall, Teams!Idle
  <2>4. calm => KnowsTeam(c)
    BY <1>3, <1>7, <2>3 DEF KnowsTeam
  <2>5. c.pc \in Uncounted
    BY <2>3 DEF Uncounted
  <2>. QED BY <1>1, <1>2, <2>2, <2>3, <2>4, <2>5, TeamsReads
<1>. QED BY <1>4, <1>5, <1>6, <1>7

LEMMA TeamsMembers ==
  ASSUME TeamRowsOK, NEW t \in Teams!Team, UNCHANGED <<team, left>>,
         membership' \in [Teams!Team \X User -> Teams!MembershipState],
         \A g \in Teams!Team \ {t}, u \in User : membership'[g, u] = membership[g, u],
         Teams!Stands(t) \/ Teams!Rows(t)' \subseteq Teams!Rows(t)
  PROVE  /\ TeamRowsOK'
         /\ \A g \in Teams!Team \ {t} :
              team'[g] = team[g] /\ MembersStay(g)
<1>. HIDE DEF Teams!Team, Teams!MembershipState
<1>1. \A g \in Teams!Team \ {t} : MembersStay(g)
  BY DEF Teams!Rows, Teams!Current, Teams!Counted, MembersStay
<1>2. \A g : Teams!Stands(g)' = Teams!Stands(g)
  BY DEF Teams!Stands
<1>3. Teams!MembersHaveGroup'
  BY <1>1, <1>2 DEF TeamRowsOK, Teams!MembersHaveGroup, MembersStay
<1>. QED BY <1>1, <1>3 DEF TeamRowsOK

LEMMA TeamsInsertMember ==
  ASSUME TeamsInv, NEW r \in Request, Teams!InsertMember(r)
  PROVE  TeamsInv'
<1>. HIDE DEF TeamsCall, Teams!Team
<1>1. PICK g : g = call[r].team
  OBVIOUS
<1>2. /\ call[r].pc = "insertMember" /\ call[r] \in TeamsCall /\ call[r].pc \in Uncounted
      /\ UNCHANGED <<team, enrolled, left>> /\ g \in Teams!Team
      /\ call[r].users \in SUBSET User /\ call[r].single \in BOOLEAN /\ call[r].user \in User
  BY <1>1, TeamsShapes DEF Teams!InsertMember, Teams!staff, Teams!At, Uncounted
<1>3. calm => /\ Teams!Stands(g) /\ call[r].user \in enrolled \ Teams!Rows(g)
              /\ call[r].single => call[r].users = {}
              /\ call[r].users \subseteq enrolled
  BY <1>1, <1>2 DEF TeamsInv, TeamsCalm, KnowsTeam
<1>4. CASE call[r].user \in Teams!Rows(g) \/ call[r].user \notin enrolled \/ ~Teams!Stands(g)
  <2>1. Teams!Goes(r, Teams!Idle) /\ UNCHANGED membership
    BY <1>1, <1>4 DEF Teams!InsertMember, Teams!Done
  <2>2. Teams!Idle \in TeamsCall /\ KnowsTeam(Teams!Idle)
    BY TeamsShapes DEF TeamsCall, KnowsTeam
  <2>. QED BY <1>2, <1>3, <1>4, <2>1, <2>2, TeamsReads
<1>5. CASE call[r].user \in enrolled \ Teams!Rows(g) /\ Teams!Stands(g)
  <2>1. membership' = [membership EXCEPT ![<<g, call[r].user>>] = "current"]
    BY <1>1, <1>5 DEF Teams!InsertMember
  <2>2. membership' \in [Teams!Team \X User -> Teams!MembershipState]
    BY <2>1 DEF TeamsInv, TeamRowsOK, Teams!MembershipState
  <2>3. \A h \in Teams!Team \ {g}, u \in User : membership'[h, u] = membership[h, u]
    BY <2>1 DEF TeamsInv, TeamRowsOK
  <2>4. /\ TeamRowsOK'
        /\ \A h \in Teams!Team \ {g} :
             team'[h] = team[h] /\ MembersStay(h)
    BY <1>2, <1>5, <2>2, <2>3, TeamsMembers DEF TeamsInv
  <2>5. PICK c : c = IF call[r].users = {} THEN [pc |-> "count", team |-> g]
                     ELSE [pc |-> "membership", team |-> g, users |-> call[r].users, single |-> call[r].single]
    OBVIOUS
  <2>6. Teams!Goes(r, c)
    BY <1>1, <1>5, <2>5 DEF Teams!InsertMember, Teams!Counting
  <2>7. c \in TeamsCall
    <3>1. CASE call[r].users = {}
      BY <1>2, <2>5, <3>1 DEF TeamsCall
    <3>2. CASE call[r].users # {}
      BY <1>2, <2>5, <3>2 DEF TeamsCall
    <3>. QED BY <3>1, <3>2
  <2>8. Teams!Stands(g)'
    BY <1>2, <1>5 DEF Teams!Stands
  <2>9. calm => KnowsTeam(c)'
    <3>1. CASE call[r].users = {}
      BY <2>5, <3>1 DEF KnowsTeam
    <3>2. CASE call[r].users # {}
      BY <1>2, <1>3, <2>5, <2>8, <3>2 DEF KnowsTeam
    <3>. QED BY <3>1, <3>2
  <2>10. c.pc \in Uncounted /\ c.team = g
    BY <2>5 DEF Uncounted
  <2>11. /\ call' = [call EXCEPT ![r] = c] /\ calm' \in BOOLEAN
         /\ calm' => calm /\ \A q \in Request \ {r} : call[q].pc = "idle"
    BY <1>2, <2>6, TeamsAlone
  <2>. QED BY <1>1, <2>4, <2>7, <2>9, <2>10, <2>11, TeamsStep
<1>. QED BY <1>4, <1>5

LEMMA TeamsRemove ==
  ASSUME TeamsInv, NEW r \in Request, NEW u \in User, Teams!DeleteMembership(r, u)
  PROVE  TeamsInv'
<1>. HIDE DEF TeamsCall, Teams!Team
<1>1. PICK g : g = call[r].team
  OBVIOUS
<1>2. /\ call[r].pc = "remove" /\ call[r] \in TeamsCall /\ call[r].pc # "idle"
      /\ UNCHANGED <<team, enrolled, left>> /\ g \in Teams!Team /\ call[r].users \in SUBSET User
  BY <1>1, TeamsShapes DEF Teams!DeleteMembership, Teams!staff, Teams!At, Uncounted
<1>3. membership' = [membership EXCEPT ![<<g, u>>] = "none"]
  BY <1>1 DEF Teams!DeleteMembership
<1>4. membership' \in [Teams!Team \X User -> Teams!MembershipState]
  BY <1>3 DEF TeamsInv, TeamRowsOK, Teams!MembershipState
<1>5. \A h \in Teams!Team \ {g}, v \in User : membership'[h, v] = membership[h, v]
  BY <1>3 DEF TeamsInv, TeamRowsOK
<1>6. Teams!Rows(g)' \subseteq Teams!Rows(g)
  BY <1>2, <1>3 DEF TeamsInv, TeamRowsOK, Teams!Rows
<1>7. /\ TeamRowsOK'
      /\ \A h \in Teams!Team \ {g} :
           team'[h] = team[h] /\ MembersStay(h)
  BY <1>2, <1>4, <1>5, <1>6, TeamsMembers DEF TeamsInv
<1>8. PICK c : c = IF call[r].users = {u} THEN [pc |-> "count", team |-> g]
                   ELSE [call[r] EXCEPT !.users = @ \ {u}]
  OBVIOUS
<1>9. Teams!Goes(r, c)
  BY <1>1, <1>8 DEF Teams!DeleteMembership, Teams!Counting
<1>10. c \in TeamsCall /\ c.pc \in {"count", "remove"} /\ c.team = g
  <2>1. CASE call[r].users = {u}
    BY <1>2, <1>8, <2>1 DEF TeamsCall
  <2>2. CASE call[r].users # {u}
    BY <1>1, <1>2, <1>8, <2>2 DEF TeamsCall, Teams!Idle
  <2>. QED BY <2>1, <2>2
<1>11. KnowsTeam(c)' /\ c.pc \in Uncounted
  BY <1>10 DEF KnowsTeam, Uncounted
<1>12. /\ call' = [call EXCEPT ![r] = c] /\ calm' \in BOOLEAN
       /\ calm' => calm /\ \A q \in Request \ {r} : call[q].pc = "idle"
  BY <1>2, <1>9, TeamsAlone
<1>. QED BY <1>1, <1>7, <1>10, <1>11, <1>12, TeamsStep

LEMMA TeamsDropMembers ==
  ASSUME TeamsInv, NEW r \in Request, Teams!DropMembers(r)
  PROVE  TeamsInv'
<1>. HIDE DEF TeamsCall, Teams!Team
<1>1. PICK g : g = call[r].team
  OBVIOUS
<1>2. /\ call[r].pc = "members" /\ call[r] \in TeamsCall /\ call[r].pc \notin Uncounted
      /\ UNCHANGED <<team, enrolled, left>> /\ g \in Teams!Team
  BY <1>1, TeamsShapes DEF Teams!DropMembers, Teams!staff, Teams!At, Uncounted
<1>3. membership' = [k \in Teams!Team \X User |-> IF k[1] = g THEN "none" ELSE membership[k]]
  BY <1>1 DEF Teams!DropMembers
<1>4. membership' \in [Teams!Team \X User -> Teams!MembershipState]
  BY <1>3 DEF TeamsInv, TeamRowsOK, Teams!MembershipState
<1>5. \A h \in Teams!Team \ {g}, v \in User : membership'[h, v] = membership[h, v]
  BY <1>3 DEF TeamsInv, TeamRowsOK
<1>6. Teams!Rows(g)' \subseteq Teams!Rows(g)
  BY <1>2, <1>3 DEF Teams!Rows
<1>7. /\ TeamRowsOK'
      /\ \A h \in Teams!Team \ {g} :
           team'[h] = team[h] /\ MembersStay(h)
  BY <1>2, <1>4, <1>5, <1>6, TeamsMembers DEF TeamsInv
<1>8. PICK c : c = [call[r] EXCEPT !.pc = "drop"]
  OBVIOUS
<1>9. Teams!Goes(r, c)
  BY <1>8 DEF Teams!DropMembers
<1>10. c \in TeamsCall /\ c.pc = "drop" /\ c.team = g
  BY <1>1, <1>2, <1>8 DEF TeamsCall, Teams!Idle
<1>11. KnowsTeam(c)' /\ c.pc \in Uncounted
  BY <1>10 DEF KnowsTeam, Uncounted
<1>12. call[r].pc # "idle"
  BY <1>2
<1>13. /\ call' = [call EXCEPT ![r] = c] /\ calm' \in BOOLEAN
       /\ calm' => calm /\ \A q \in Request \ {r} : call[q].pc = "idle"
  BY <1>12, <1>9, TeamsAlone
<1>. QED BY <1>2, <1>7, <1>10, <1>11, <1>13, TeamsStep

LEMMA TeamsDrop ==
  ASSUME TeamsInv, NEW r \in Request, Teams!DropGroup(r)
  PROVE  TeamsInv'
<1>. HIDE DEF TeamsCall, Teams!Team
<1>1. PICK g : g = call[r].team
  OBVIOUS
<1>2. call[r].pc = "drop" /\ call[r].pc # "idle" /\ g \in Teams!Team
  BY <1>1, TeamsShapes DEF Teams!DropGroup, Teams!At, Uncounted
<1>3. /\ team' = [team EXCEPT ![g] = [state |-> "gone", memberCount |-> 0]]
      /\ membership' = [k \in Teams!Team \X User |-> IF k[1] = g THEN "none" ELSE membership[k]]
      /\ Teams!Goes(r, Teams!Idle) /\ UNCHANGED <<enrolled, left>>
  BY <1>1 DEF Teams!DropGroup, Teams!Cascade, Teams!Done, Teams!staff
<1>4. team' \in [Teams!Team -> Teams!TeamRow]
  BY <1>3 DEF TeamsInv, TeamRowsOK, Teams!TeamRow
<1>5. membership' \in [Teams!Team \X User -> Teams!MembershipState]
  BY <1>3 DEF TeamsInv, TeamRowsOK, Teams!MembershipState
<1>6. \A h \in Teams!Team \ {g} :
        team'[h] = team[h] /\ MembersStay(h)
  <2>1. \A h \in Teams!Team \ {g}, v \in User : membership'[h, v] = membership[h, v]
    BY <1>3
  <2>. QED BY <1>3, <2>1 DEF Teams!Rows, Teams!Current, Teams!Counted, MembersStay, TeamsInv, TeamRowsOK
<1>7. Teams!Rows(g)' = {} /\ team'[g] = [state |-> "gone", memberCount |-> 0]
  BY <1>2, <1>3 DEF Teams!Rows, TeamsInv, TeamRowsOK
<1>8. TeamRowsOK'
  <2>1. Teams!MembersHaveGroup'
    BY <1>6, <1>7 DEF TeamsInv, TeamRowsOK, Teams!MembersHaveGroup, Teams!Stands, MembersStay
  <2>2. \A h \in Teams!Team : team'[h].state = "unborn" => team'[h].memberCount = 0
    BY <1>6, <1>7 DEF TeamsInv, TeamRowsOK
  <2>. QED BY <1>3, <1>4, <1>5, <2>1, <2>2 DEF TeamsInv, TeamRowsOK
<1>9. ~Teams!Stands(g)'
  BY <1>7 DEF Teams!Stands
<1>10. Teams!Idle \in TeamsCall /\ KnowsTeam(Teams!Idle)'
  BY TeamsShapes DEF TeamsCall, KnowsTeam
<1>11. /\ call' = [call EXCEPT ![r] = Teams!Idle] /\ calm' \in BOOLEAN
       /\ calm' => calm /\ \A q \in Request \ {r} : call[q].pc = "idle"
  BY <1>2, <1>3, TeamsAlone
<1>. QED BY <1>1, <1>6, <1>8, <1>9, <1>10, <1>11, TeamsStep

LEMMA TeamsInsertGroup ==
  ASSUME TeamsInv, NEW r \in Request, Teams!InsertGroup(r)
  PROVE  TeamsInv'
<1>. HIDE DEF TeamsCall
<1>1. call[r].pc = "insertTeam" /\ call[r].pc # "idle" /\ call[r].pc \notin Uncounted
  BY DEF Teams!InsertGroup, Teams!At, Uncounted
<1>2. UNCHANGED <<membership, enrolled, left>> /\ Teams!Goes(r, Teams!Idle)
  BY DEF Teams!InsertGroup, Teams!Done, Teams!staff
<1>3. Teams!Idle \in TeamsCall /\ KnowsTeam(Teams!Idle) /\ KnowsTeam(Teams!Idle)'
  BY TeamsShapes DEF TeamsCall, KnowsTeam
<1>4. CASE Teams!NewTeams = {}
  <2>1. UNCHANGED team
    BY <1>4 DEF Teams!InsertGroup
  <2>. QED BY <1>1, <1>2, <1>3, <2>1, TeamsReads
<1>5. CASE Teams!NewTeams # {}
  <2>1. Teams!NewTeams \in SUBSET Nat /\ Teams!NewTeams \subseteq Teams!Team
    BY EstateAssumption DEF Teams!NewTeams, Teams!Team
  <2>2. PICK g : g = Teams!Min(Teams!NewTeams)
    OBVIOUS
  <2>3. g \in Teams!NewTeams
    BY <1>5, <2>1, <2>2, LeastOf DEF Teams!Min
  <2>. HIDE DEF Teams!Team
  <2>4. team' = [team EXCEPT ![g].state = "there"]
    BY <1>5, <2>2 DEF Teams!InsertGroup
  <2>5. g \in Teams!Team /\ team[g] = [state |-> "unborn", memberCount |-> 0]
    BY <2>1, <2>3 DEF TeamsInv, TeamRowsOK, Teams!NewTeams, Teams!TeamRow
  <2>6. /\ team' \in [Teams!Team -> Teams!TeamRow]
        /\ team'[g] = [state |-> "there", memberCount |-> 0]
        /\ \A h \in Teams!Team \ {g} : team'[h] = team[h]
    BY <2>4, <2>5 DEF TeamsInv, TeamRowsOK, Teams!TeamRow
  <2>7. \A h : MembersStay(h)
    BY <1>2 DEF Teams!Rows, Teams!Current, Teams!Counted, MembersStay
  <2>8. TeamRowsOK'
    BY <1>2, <2>5, <2>6, <2>7 DEF TeamsInv, TeamRowsOK, Teams!MembersHaveGroup, Teams!Stands, MembersStay
  <2>9. CountFits(team[g].memberCount, g)'
    <3>1. Teams!Rows(g) = {}
      BY <2>5 DEF TeamsInv, TeamRowsOK, Teams!MembersHaveGroup, Teams!Stands
    <3>2. Teams!Current(g)' = {}
      BY <2>7, <3>1 DEF Teams!Current, Teams!Rows, MembersStay
    <3>3. Cardinality(Teams!Counted(g)') \in Nat
      BY <2>5, <2>7, TeamsSizes DEF TeamsInv, MembersStay
    <3>. QED BY <2>6, <3>2, <3>3, FS_EmptySet DEF CountFits
  <2>10. /\ call' = [call EXCEPT ![r] = Teams!Idle] /\ calm' \in BOOLEAN
         /\ calm' => calm /\ \A q \in Request \ {r} : call[q].pc = "idle"
    BY <1>1, <1>2, TeamsAlone
  <2>. QED BY <1>1, <1>3, <2>6, <2>7, <2>8, <2>9, <2>10, TeamsStep
<1>. QED BY <1>4, <1>5

LEMMA TeamsCount ==
  ASSUME TeamsInv, NEW r \in Request, Teams!CountMembers(r)
  PROVE  TeamsInv'
<1>. HIDE DEF TeamsCall, Teams!Team
<1>1. PICK g : g = call[r].team
  OBVIOUS
<1>2. call[r].pc = "count" /\ call[r].pc # "idle" /\ UNCHANGED <<team, membership>> /\ g \in Teams!Team
  BY <1>1, TeamsShapes DEF Teams!CountMembers, Teams!At, Uncounted
<1>3. left' = [left EXCEPT ![g] = {}]
  BY <1>1 DEF Teams!CountMembers
<1>4. PICK n : n = Cardinality(Teams!Current(g))
  OBVIOUS
<1>5. PICK c : c = [pc |-> "store", team |-> g, count |-> n]
  OBVIOUS
<1>6. Teams!Goes(r, c)
  BY <1>1, <1>4, <1>5, TeamsCardinality DEF Teams!CountMembers
<1>7. n \in Nat
  BY <1>2, <1>4, TeamsSizes DEF TeamsInv
<1>8. c \in TeamsCall
  BY <1>2, <1>5, <1>7 DEF TeamsCall
<1>9. left' \in [Teams!Team -> SUBSET User] /\ \A h \in Teams!Team \ {g} : left'[h] = left[h]
  BY <1>2, <1>3 DEF TeamsInv, TeamRowsOK
<1>10. \A h : Teams!Rows(h)' = Teams!Rows(h) /\ Teams!Current(h)' = Teams!Current(h)
  BY <1>2 DEF Teams!Rows, Teams!Current
<1>11. \A h \in Teams!Team \ {g} : team'[h] = team[h] /\ MembersStay(h)
  BY <1>2, <1>9, <1>10 DEF MembersStay, Teams!Counted
<1>12. TeamRowsOK'
  BY <1>2, <1>9, <1>10 DEF TeamsInv, TeamRowsOK, Teams!MembersHaveGroup, Teams!Stands
<1>13. CountFits(n, g)'
  <2>1. PICK S : S = Teams!Counted(g)'
    OBVIOUS
  <2>2. Teams!Current(g) \subseteq S /\ S \subseteq User
    BY <1>2, <1>10, <1>12, <2>1 DEF Teams!Counted, Teams!Rows, Teams!Current, TeamRowsOK
  <2>3. IsFiniteSet(S) /\ n =< Cardinality(S)
    BY <1>4, <2>2, FS_Subset, EstateAssumption
  <2>. QED BY <1>4, <1>7, <1>10, <2>1, <2>3 DEF CountFits
<1>14. KnowsTeam(c)' /\ c.pc \in Uncounted /\ c.team = g
  BY <1>5, <1>13 DEF KnowsTeam, Uncounted
<1>15. /\ call' = [call EXCEPT ![r] = c] /\ calm' \in BOOLEAN
       /\ calm' => calm /\ \A q \in Request \ {r} : call[q].pc = "idle"
  BY <1>2, <1>6, TeamsAlone
<1>. QED BY <1>1, <1>8, <1>11, <1>12, <1>14, <1>15, TeamsStep

LEMMA TeamsStore ==
  ASSUME TeamsInv, NEW r \in Request, Teams!StoreCount(r)
  PROVE  TeamsInv'
<1>. HIDE DEF TeamsCall, Teams!Team
<1>1. PICK g : g = call[r].team
  OBVIOUS
<1>2. PICK n : n = call[r].count
  OBVIOUS
<1>3. /\ call[r].pc = "store" /\ call[r].pc # "idle" /\ g \in Teams!Team /\ n \in Nat
      /\ UNCHANGED <<membership, enrolled, left>> /\ Teams!Goes(r, Teams!Idle)
  BY <1>1, <1>2, TeamsShapes DEF Teams!StoreCount, Teams!staff, Teams!At, Teams!Done, Uncounted
<1>4. calm => CountFits(n, g)
  BY <1>1, <1>2, <1>3 DEF TeamsInv, TeamsCalm, KnowsTeam
<1>5. team' = IF Teams!Stands(g) THEN [team EXCEPT ![g].memberCount = n] ELSE team
  BY <1>1, <1>2 DEF Teams!StoreCount
<1>6. /\ team' \in [Teams!Team -> Teams!TeamRow]
      /\ \A h \in Teams!Team : team'[h].state = team[h].state
      /\ \A h \in Teams!Team \ {g} : team'[h] = team[h]
      /\ Teams!Stands(g) => team'[g].memberCount = n
      /\ ~Teams!Stands(g) => team'[g] = team[g]
  <2>1. CASE Teams!Stands(g)
    BY <1>3, <1>5, <2>1 DEF TeamsInv, TeamRowsOK, Teams!TeamRow
  <2>2. CASE ~Teams!Stands(g)
    BY <1>5, <2>2 DEF TeamsInv, TeamRowsOK
  <2>. QED BY <2>1, <2>2
<1>7. \A h : MembersStay(h)
  BY <1>3 DEF Teams!Rows, Teams!Current, Teams!Counted, MembersStay
<1>8. TeamRowsOK'
  <2>1. \A h \in Teams!Team : team'[h].state = "unborn" => team'[h].memberCount = 0
    BY <1>3, <1>6 DEF TeamsInv, TeamRowsOK, Teams!Stands
  <2>2. Teams!MembersHaveGroup'
    BY <1>6, <1>7 DEF TeamsInv, TeamRowsOK, Teams!MembersHaveGroup, Teams!Stands, MembersStay
  <2>. QED BY <1>3, <1>6, <2>1, <2>2 DEF TeamsInv, TeamRowsOK
<1>9. calm' /\ Teams!Stands(g)' => CountFits(team[g].memberCount, g)'
  <2>1. calm' = calm /\ Teams!Stands(g)' = Teams!Stands(g)
    BY <1>3, <1>6 DEF Teams!Goes, Teams!Stands
  <2>. QED BY <1>3, <1>4, <1>6, <1>7, <2>1 DEF CountFits, MembersStay
<1>10. Teams!Idle \in TeamsCall /\ KnowsTeam(Teams!Idle)'
  BY TeamsShapes DEF TeamsCall, KnowsTeam
<1>11. /\ call' = [call EXCEPT ![r] = Teams!Idle] /\ calm' \in BOOLEAN
       /\ calm' => calm /\ \A q \in Request \ {r} : call[q].pc = "idle"
  BY <1>3, TeamsAlone
<1>. QED BY <1>1, <1>6, <1>7, <1>8, <1>9, <1>10, <1>11, TeamsStep

\* Expiry takes a member out of the count, and leaves the row.
LEMMA TeamsExpire ==
  ASSUME TeamsInv, NEW g \in Teams!Team, NEW u \in User, Teams!Expire(g, u)
  PROVE  TeamsInv'
<1>. HIDE DEF TeamsCall, Teams!Team
<1>1. membership' = [membership EXCEPT ![<<g, u>>] = "expired"] /\ UNCHANGED <<team, enrolled, left, call, calm>>
  BY DEF Teams!Expire, Teams!requests, Teams!staff
<1>2. membership' \in [Teams!Team \X User -> Teams!MembershipState]
  BY <1>1 DEF TeamsInv, TeamRowsOK, Teams!MembershipState
<1>3. u \in Teams!Rows(g)
  BY DEF Teams!Expire, Teams!Current, Teams!Rows
<1>4. \A h \in Teams!Team : /\ Teams!Rows(h)' = Teams!Rows(h) /\ Teams!Current(h)' \subseteq Teams!Current(h)
                           /\ Teams!Counted(h)' = Teams!Counted(h)
  <2>1. \A h \in Teams!Team : Teams!Rows(h)' = Teams!Rows(h) /\ Teams!Current(h)' \subseteq Teams!Current(h)
    BY <1>1, <1>3 DEF Teams!Rows, Teams!Current, TeamsInv, TeamRowsOK
  <2>. QED BY <1>1, <2>1 DEF Teams!Counted
<1>5. TeamRowsOK'
  BY <1>1, <1>2, <1>4 DEF TeamsInv, TeamRowsOK, Teams!MembersHaveGroup, Teams!Stands
<1>6. ASSUME NEW n \in Nat, NEW h \in Teams!Team, CountFits(n, h) PROVE CountFits(n, h)'
  <2>1. PICK S : S = Teams!Current(h)
    OBVIOUS
  <2>2. PICK T : T = Teams!Current(h)'
    OBVIOUS
  <2>3. T \subseteq S /\ IsFiniteSet(S)
    BY <1>4, <2>1, <2>2, TeamsSizes DEF TeamsInv
  <2>4. IsFiniteSet(T) /\ Cardinality(T) =< Cardinality(S) /\ Cardinality(T) \in Nat /\ Cardinality(S) \in Nat
    BY <2>3, FS_Subset, FS_CardinalityType
  <2>5. Cardinality(S) =< n /\ n =< Cardinality(Teams!Counted(h))
    BY <1>6, <2>1 DEF CountFits
  <2>. QED BY <1>4, <2>2, <2>4, <2>5 DEF CountFits
<1>7. \A h \in Teams!Team : team[h].memberCount \in Nat
  BY DEF TeamsInv, TeamRowsOK, Teams!TeamRow
<1>8. ASSUME NEW q \in Request, KnowsTeam(call[q]) PROVE KnowsTeam(call[q])'
  BY <1>1, <1>4, <1>6, <1>7, <1>8, TeamsShapes DEF KnowsTeam, Teams!Stands, Uncounted
<1>9. TeamsCalm'
  <2>1. ASSUME calm PROVE TeamsCalm'
    <3>1. \A q \in Request : KnowsTeam(call[q])'
      BY <1>8, <2>1 DEF TeamsInv, TeamsCalm
    <3>2. ASSUME NEW h \in Teams!Team, Teams!Stands(h)'
          PROVE  CountFits(team[h].memberCount, h)' \/ \E q \in Request : call[q].pc \in Uncounted /\ call[q].team = h
      <4>1. Teams!Stands(h)
        BY <1>1, <3>2 DEF Teams!Stands
      <4>2. CASE CountFits(team[h].memberCount, h)
        <5>1. PICK n : n = team[h].memberCount
          OBVIOUS
        <5>2. CountFits(n, h)'
          BY <1>6, <1>7, <4>2, <5>1
        <5>. QED BY <1>1, <5>1, <5>2
      <4>3. CASE ~CountFits(team[h].memberCount, h)
        BY <2>1, <4>1, <4>3 DEF TeamsInv, TeamsCalm
      <4>. QED BY <4>2, <4>3
    <3>3. \A q, s \in Request : call[q].pc # "idle" /\ call[s].pc # "idle" => q = s
      BY <2>1 DEF TeamsInv, TeamsCalm
    <3>. QED BY <1>1, <3>1, <3>2, <3>3 DEF TeamsCalm
  <2>. QED BY <1>1, <2>1 DEF TeamsCalm
<1>. QED BY <1>1, <1>5, <1>9 DEF TeamsInv

\* The deletion of a user takes its rows away, and leaves whom a count may have counted.
LEMMA TeamsDeleteUser ==
  ASSUME TeamsInv, NEW u \in User, Teams!DeleteUser(u)
  PROVE  TeamsInv'
<1>. HIDE DEF TeamsCall, Teams!Team
<1>1. /\ membership' = [k \in Teams!Team \X User |-> IF k[2] = u THEN "none" ELSE membership[k]]
      /\ left' = [g \in Teams!Team |-> IF u \in Teams!Rows(g) THEN left[g] \cup {u} ELSE left[g]]
      /\ calm' = (calm /\ \A r \in Request : call[r].pc = "idle")
      /\ UNCHANGED <<team, call>>
  BY DEF Teams!DeleteUser, Teams!At
<1>2. calm' \in BOOLEAN /\ (calm' => calm /\ \A r \in Request : call[r].pc = "idle")
  BY <1>1
<1>3. membership' \in [Teams!Team \X User -> Teams!MembershipState] /\ left' \in [Teams!Team -> SUBSET User]
  BY <1>1 DEF TeamsInv, TeamRowsOK, Teams!MembershipState
<1>4. ASSUME NEW h \in Teams!Team
      PROVE  /\ Teams!Rows(h)' = Teams!Rows(h) \ {u} /\ Teams!Current(h)' \subseteq Teams!Current(h)
             /\ Teams!Counted(h)' = Teams!Counted(h)
  <2>1. \A v \in User : membership'[h, v] = IF v = u THEN "none" ELSE membership[h, v]
    BY <1>1
  <2>2. Teams!Rows(h)' = Teams!Rows(h) \ {u} /\ Teams!Current(h)' \subseteq Teams!Current(h)
    BY <2>1 DEF Teams!Rows, Teams!Current
  <2>3. left'[h] = IF u \in Teams!Rows(h) THEN left[h] \cup {u} ELSE left[h]
    BY <1>1
  <2>. QED BY <2>2, <2>3 DEF Teams!Counted
<1>5. TeamRowsOK'
  BY <1>1, <1>3, <1>4 DEF TeamsInv, TeamRowsOK, Teams!MembersHaveGroup, Teams!Stands
<1>6. ASSUME calm', NEW h \in Teams!Team, Teams!Stands(h)' PROVE CountFits(team[h].memberCount, h)'
  <2>1. CountFits(team[h].memberCount, h)
    BY <1>1, <1>2, <1>6 DEF TeamsInv, TeamsCalm, Uncounted, Teams!Stands
  <2>2. PICK S : S = Teams!Current(h)
    OBVIOUS
  <2>3. PICK T : T = Teams!Current(h)'
    OBVIOUS
  <2>4. T \subseteq S /\ IsFiniteSet(S)
    BY <1>4, <2>2, <2>3, TeamsSizes DEF TeamsInv
  <2>5. Cardinality(T) =< Cardinality(S) /\ Cardinality(T) \in Nat /\ Cardinality(S) \in Nat
    BY <2>4, FS_Subset, FS_CardinalityType
  <2>6. PICK n : n = team[h].memberCount
    OBVIOUS
  <2>7. n \in Nat
    BY <2>6 DEF TeamsInv, TeamRowsOK, Teams!TeamRow
  <2>8. Cardinality(S) =< n /\ n =< Cardinality(Teams!Counted(h))
    BY <2>1, <2>2, <2>6 DEF CountFits
  <2>. QED BY <1>1, <1>4, <2>3, <2>5, <2>6, <2>7, <2>8 DEF CountFits
<1>7. TeamsCalm'
  <2>1. ASSUME calm', NEW q \in Request PROVE KnowsTeam(call[q])'
    BY <1>1, <1>2, <2>1 DEF KnowsTeam
  <2>. QED BY <1>1, <1>2, <1>6, <2>1 DEF TeamsCalm
<1>. QED BY <1>1, <1>2, <1>5, <1>7 DEF TeamsInv

LEMMA TeamsFail ==
  ASSUME TeamsInv, NEW r \in Request, Teams!Fails(r), UNCHANGED <<team, membership, enrolled, left>>
  PROVE  TeamsInv'
<1>1. ~calm' /\ calm' \in BOOLEAN /\ call' = [call EXCEPT ![r] = Teams!Idle]
  BY DEF Teams!Fails
<1>2. Teams!Idle \in TeamsCall
  BY DEF TeamsCall
<1>. HIDE DEF TeamsCall
<1>3. call' \in [Request -> TeamsCall]
  BY <1>1, <1>2 DEF TeamsInv
<1>4. TeamRowsOK'
  BY DEF TeamsInv, TeamRowsOK, Teams!MembersHaveGroup, Teams!Rows, Teams!Stands
<1>. QED BY <1>1, <1>3, <1>4 DEF TeamsInv, TeamsCalm

LEMMA TeamsStart ==
  ASSUME Teams!TeamsInit
  PROVE  TeamsInv
<1>1. /\ team = [g \in Teams!Team |-> [state |-> "unborn", memberCount |-> 0]]
      /\ membership = [k \in Teams!Team \X User |-> "none"]
      /\ call = [r \in Request |-> Teams!Idle] /\ calm = TRUE
      /\ left = [g \in Teams!Team |-> {}]
  BY DEF Teams!TeamsInit, Teams!RequestsInit
<1>2. Teams!Idle \in TeamsCall /\ Teams!Idle.pc = "idle"
  BY DEF TeamsCall, Teams!Idle
<1>. HIDE DEF TeamsCall, Teams!Team
<1>3. TeamRowsOK
  BY <1>1 DEF TeamRowsOK, Teams!TeamRow, Teams!MembershipState, Teams!MembersHaveGroup, Teams!Rows
<1>4. TeamsCalm
  BY <1>1, <1>2 DEF TeamsCalm, KnowsTeam, Teams!Stands
<1>. QED BY <1>1, <1>2, <1>3, <1>4 DEF TeamsInv

LEMMA TeamsGoOn ==
  ASSUME TeamsInv, [Teams!TeamsNext]_<<teams, requests>>
  PROVE  TeamsInv'
<1>1. CASE UNCHANGED <<teams, requests>>
  <2>1. UNCHANGED <<team, membership, enrolled, left, call, calm>>
    BY <1>1 DEF teams, requests
  <2>2. TeamRowsOK'
    BY <2>1 DEF TeamsInv, TeamRowsOK, Teams!MembersHaveGroup, Teams!Rows, Teams!Stands
  <2>3. TeamsCalm'
    BY <2>1 DEF TeamsInv, TeamsCalm, KnowsTeam, CountFits, Teams!Stands, Teams!Rows, Teams!Current, Teams!Counted
  <2>. QED BY <2>1, <2>2, <2>3 DEF TeamsInv
<1>2. CASE Teams!TeamsNext
  <2>1. ASSUME NEW g \in Teams!Team, NEW u \in User, Teams!Expire(g, u)
        PROVE  TeamsInv'
    BY <2>1, TeamsExpire
  <2>2. ASSUME NEW r \in Request,
               \/ Teams!CreateGroup(r)
               \/ \E g \in Teams!Team :
                    \/ Teams!DeleteGroup(r, g)
                    \/ \E u \in User : Teams!AddMember(r, g, u) \/ Teams!RemoveMember(r, g, u)
                    \/ \E users \in SUBSET User \ {{}} : Teams!AddMembers(r, g, users) \/ Teams!RemoveMembers(r, g, users)
               \/ Teams!InsertGroup(r) \/ Teams!DropMembers(r) \/ Teams!DropGroup(r) \/ Teams!ReadGroup(r)
               \/ \E u \in User : Teams!GetMembership(r, u) \/ Teams!DeleteMembership(r, u)
               \/ Teams!InsertMember(r) \/ Teams!CountMembers(r) \/ Teams!StoreCount(r)
               \/ Teams!Fails(r) /\ UNCHANGED <<team, membership, enrolled, left>>
        PROVE  TeamsInv'
    BY <2>2, TeamsAsk, TeamsInsertGroup, TeamsDropMembers, TeamsDrop, TeamsReadGroup, TeamsGetMembership,
       TeamsRemove, TeamsInsertMember, TeamsCount, TeamsStore, TeamsFail
  <2>3. ASSUME NEW u \in User, Teams!DeleteUser(u)
        PROVE  TeamsInv'
    BY <2>3, TeamsDeleteUser
  <2>. QED BY <1>2, <2>1, <2>2, <2>3 DEF Teams!TeamsNext, Teams!TeamReads, Teams!staff
<1>. QED BY <1>1, <1>2

LEMMA TeamsAgree ==
  ASSUME TeamsInv
  PROVE  Teams!CountBetween /\ Teams!MembersHaveGroup
<1>1. Teams!MembersHaveGroup
  BY DEF TeamsInv, TeamRowsOK
<1>2. Teams!CountBetween
  <2>. SUFFICES ASSUME Teams!Settled, NEW g \in Teams!Team, Teams!Stands(g)
                PROVE  /\ Teams!Cardinality(Teams!Current(g)) <= team[g].memberCount
                       /\ team[g].memberCount <= Teams!Cardinality(Teams!Counted(g))
    BY DEF Teams!CountBetween
  <2>1. CountFits(team[g].memberCount, g)
    BY DEF Teams!Settled, Teams!At, TeamsInv, TeamsCalm, Uncounted
  <2>. QED BY <2>1, TeamsCardinality DEF CountFits
<1>. QED BY <1>1, <1>2

-----------------------------------------------------------------------------
\* The asset tree

AssetPath == Seq(AssetOwner \cup Tree!Asset)

PathTo(p, a) == p \in AssetPath /\ Len(p) > 1 /\ p[Len(p)] = a

\* The rows: the path of an asset ends in the asset, below something.
TreeRows ==
  /\ asset \in [Tree!Asset -> Tree!AssetRow]
  /\ \A a \in Tree!Asset : Tree!There(a) => PathTo(asset[a].path, a)

Birth == [pc : {"assetParent", "insertAsset"}, customer : AssetOwner, parent : Tree!Asset \cup {Tree!NoAsset},
          above : AssetPath \ {<<>>}, depth : Int]
Search == [pc : {"children"}, asset : Tree!Asset, looks : {1, 2}]
Removal == [pc : {"dropAsset"}, asset : Tree!Asset]
Wish == [pc : {"moved"}, asset : Tree!Asset, parent : Tree!Asset \cup {Tree!NoAsset}, customer : AssetOwner]
Climb == [pc : {"newParent"}, asset : Tree!Asset, parent : Tree!Asset \cup {Tree!NoAsset}, customer : AssetOwner,
          from : Tree!AssetRow]
Shift == [pc : {"customer", "path", "below"}, asset : Tree!Asset, parent : Tree!Asset \cup {Tree!NoAsset},
          customer : AssetOwner, from : Tree!AssetRow, to : AssetPath, depth : Int]
Survey == [pc : {"select"}, asset : Tree!Asset, customer : AssetOwner, from : Tree!AssetRow, to : AssetPath,
           depth : Int, path : AssetPath]
Descent == [pc : {"descend", "descendCustomer"}, customer : AssetOwner, from : Tree!AssetRow, to : AssetPath,
            depth : Int, found : SUBSET [id : Tree!Asset, path : AssetPath, depth : Int]]

TreeCall == {Tree!Idle} \cup Birth \cup Search \cup Removal \cup Wish \cup Climb \cup Shift \cup Survey \cup Descent

\* The paths that a request carries end in the assets they are for.
PathsFit(c) ==
  /\ c.pc = "newParent" => PathTo(c.from.path, c.asset)
  /\ c.pc \in {"customer", "path", "below", "select"} => PathTo(c.from.path, c.asset) /\ PathTo(c.to, c.asset)
  /\ c.pc \in {"descend", "descendCustomer"} =>
       /\ \E a \in Tree!Asset : PathTo(c.from.path, a) /\ PathTo(c.to, a)
       /\ IsFiniteSet(c.found) /\ c.found # {} /\ \A d \in c.found : PathTo(d.path, d.id)

Standing(p) == p = Tree!NoAsset \/ Tree!There(p)

\* What a request that nothing overlaps has read is so, and what it will write fits.
KnowsTree(c) ==
  /\ c.pc = "insertAsset" => Head(c.above) = c.customer /\ Standing(c.parent)
  /\ c.pc = "newParent" => c.from = asset[c.asset]
  /\ c.pc = "customer" => Standing(c.parent)
  /\ c.pc \in {"customer", "path", "below", "select", "descend", "descendCustomer"} => Head(c.to) = c.customer
  /\ c.pc = "path" /\ Tree!There(c.asset) => asset[c.asset].customer = c.customer
  /\ c.pc = "below" /\ Tree!There(c.asset) => asset[c.asset].path = c.to
  /\ c.pc = "select" => c.path = c.to
  /\ c.pc \in {"descend", "descendCustomer"} =>
       \A d \in c.found : Head(d.path) = c.customer /\ (Tree!There(d.id) => asset[d.id].customer = c.customer)
  /\ c.pc = "dropAsset" => Tree!Children(c.asset) = {}

\* The path of an asset starts from its customer.
Named(a) == Tree!There(a) => Head(asset[a].path) = asset[a].customer

TreeCalm ==
  calm =>
    /\ \A q, r \in Request : call[q].pc # "idle" /\ call[r].pc # "idle" => q = r
    /\ \A r \in Request : KnowsTree(call[r])
    /\ \A a \in Tree!Asset : Tree!There(a) => Standing(asset[a].parent)
    /\ \A a \in Tree!Asset : Named(a) \/ \E r \in Request : call[r].pc = "path" /\ call[r].asset = a

TreeInv ==
  /\ TreeRows
  /\ call \in [Request -> TreeCall] /\ \A r \in Request : PathsFit(call[r])
  /\ calm \in BOOLEAN
  /\ TreeCalm

LEMMA TreeShape ==
  ASSUME NEW c \in TreeCall
  PROVE  /\ c.pc \in {"assetParent", "insertAsset"} => c \in Birth
         /\ c.pc = "children" => c \in Search
         /\ c.pc = "dropAsset" => c \in Removal
         /\ c.pc = "moved" => c \in Wish
         /\ c.pc = "newParent" => c \in Climb
         /\ c.pc \in {"customer", "path", "below"} => c \in Shift
         /\ c.pc = "select" => c \in Survey
         /\ c.pc \in {"descend", "descendCustomer"} => c \in Descent
<1>. HIDE DEF Tree!AssetRow, Tree!Asset, AssetPath
<1>1. c = Tree!Idle => c.pc = "idle"
  BY DEF Tree!Idle
<1>2. c \in Birth => c.pc \in {"assetParent", "insertAsset"}
  BY DEF Birth
<1>3. c \in Search => c.pc = "children"
  BY DEF Search
<1>4. c \in Removal => c.pc = "dropAsset"
  BY DEF Removal
<1>5. c \in Wish => c.pc = "moved"
  BY DEF Wish
<1>6. c \in Climb => c.pc = "newParent"
  BY DEF Climb
<1>7. c \in Shift => c.pc \in {"customer", "path", "below"}
  BY DEF Shift
<1>8. c \in Survey => c.pc = "select"
  BY DEF Survey
<1>9. c \in Descent => c.pc \in {"descend", "descendCustomer"}
  BY DEF Descent
<1>. HIDE DEF Birth, Search, Removal, Wish, Climb, Shift, Survey, Descent
<1>. QED BY <1>1, <1>2, <1>3, <1>4, <1>5, <1>6, <1>7, <1>8, <1>9 DEF TreeCall

LEMMA TreeShapes ==
  ASSUME TreeInv, NEW r \in Request
  PROVE  call[r] \in TreeCall /\ Tree!Idle.pc = "idle" /\ Tree!Idle \in TreeCall
         /\ PathsFit(Tree!Idle) /\ KnowsTree(Tree!Idle)
<1>1. Tree!Idle.pc = "idle" /\ Tree!Idle \in TreeCall
  BY DEF Tree!Idle, TreeCall
<1>. HIDE DEF TreeCall
<1>. QED BY <1>1 DEF TreeInv, PathsFit, KnowsTree

LEMMA TreeAlone ==
  ASSUME TreeInv, NEW r \in Request, NEW c,
         \/ Tree!Begin(r, c)
         \/ call[r].pc # "idle" /\ Tree!Goes(r, c)
  PROVE  /\ call' = [call EXCEPT ![r] = c] /\ calm' \in BOOLEAN
         /\ calm' => calm /\ \A q \in Request \ {r} : call[q].pc = "idle"
<1>1. CASE Tree!Begin(r, c)
  BY <1>1 DEF Tree!Begin, Tree!At, TreeInv
<1>2. CASE call[r].pc # "idle" /\ Tree!Goes(r, c)
  <2>1. calm' = calm /\ call' = [call EXCEPT ![r] = c]
    BY <1>2 DEF Tree!Goes
  <2>2. calm => \A q \in Request \ {r} : call[q].pc = "idle"
    BY <1>2 DEF TreeInv, TreeCalm
  <2>. QED BY <2>1, <2>2 DEF TreeInv
<1>. QED BY <1>1, <1>2

LEMMA TreeStep ==
  ASSUME TreeInv, NEW r \in Request, NEW c \in TreeCall, call' = [call EXCEPT ![r] = c], calm' \in BOOLEAN,
         calm' => calm /\ \A q \in Request \ {r} : call[q].pc = "idle",
         TreeRows', PathsFit(c),
         calm' => /\ KnowsTree(c)'
                  /\ \A a \in Tree!Asset : Tree!There(a)' => Standing(asset[a].parent)'
                  /\ \A a \in Tree!Asset : Named(a)' \/ (c.pc = "path" /\ c.asset = a)
  PROVE  TreeInv'
<1>. HIDE DEF TreeCall, Tree!Asset
<1>1. call' \in [Request -> TreeCall] /\ \A q \in Request : call'[q] = IF q = r THEN c ELSE call[q]
  BY DEF TreeInv
<1>2. \A q \in Request : PathsFit(call'[q])
  BY <1>1 DEF TreeInv
<1>3. ASSUME calm' PROVE TreeCalm'
  <2>1. \A q, s \in Request : call'[q].pc # "idle" /\ call'[s].pc # "idle" => q = s
    BY <1>1, <1>3
  <2>2. ASSUME NEW q \in Request PROVE KnowsTree(call[q])'
    <3>1. CASE q = r
      <4>1. call'[q] = c
        BY <1>1, <3>1
      <4>. QED BY <1>3, <4>1 DEF KnowsTree, Tree!There, Standing, Tree!Children
    <3>2. CASE q # r
      <4>1. call'[q].pc = "idle"
        BY <1>1, <1>3, <3>2
      <4>. QED BY <4>1 DEF KnowsTree
    <3>. QED BY <3>1, <3>2
  <2>3. \A a \in Tree!Asset : Named(a)' \/ \E q \in Request : call'[q].pc = "path" /\ call'[q].asset = a
    BY <1>1, <1>3
  <2>. QED BY <1>3, <2>1, <2>2, <2>3 DEF TreeCalm
<1>4. TreeCalm'
  BY <1>3 DEF TreeCalm
<1>. QED BY <1>1, <1>2, <1>4 DEF TreeInv

\* What a statement that changes no row leaves.
LEMMA TreeReads ==
  ASSUME TreeInv, NEW r \in Request, NEW c \in TreeCall, UNCHANGED asset,
         \/ Tree!Begin(r, c)
         \/ call[r].pc # "idle" /\ Tree!Goes(r, c),
         PathsFit(c), calm => KnowsTree(c), call[r].pc # "path"
  PROVE  TreeInv'
<1>. HIDE DEF TreeCall, Tree!Asset
<1>1. /\ call' = [call EXCEPT ![r] = c] /\ calm' \in BOOLEAN
      /\ calm' => calm /\ \A q \in Request \ {r} : call[q].pc = "idle"
  BY TreeAlone
<1>2. \A a : Tree!There(a)' = Tree!There(a) /\ Named(a)' = Named(a) /\ Standing(a)' = Standing(a)
  BY DEF Tree!There, Named, Standing
<1>3. TreeRows'
  BY <1>2 DEF TreeInv, TreeRows
<1>4. KnowsTree(c)' = KnowsTree(c)
  BY <1>2 DEF KnowsTree, Standing, Tree!There, Tree!Children
<1>5. ASSUME calm' PROVE \A a \in Tree!Asset : (Tree!There(a) => Standing(asset[a].parent)) /\ Named(a)
  BY <1>1, <1>5 DEF TreeInv, TreeCalm
<1>6. \A a \in Tree!Asset : Standing(asset[a].parent)' = Standing(asset[a].parent)
  BY DEF Standing, Tree!There
<1>. QED BY <1>1, <1>2, <1>3, <1>4, <1>5, <1>6, TreeStep

LEMMA TreeCreate ==
  ASSUME TreeInv, NEW r \in Request, NEW o \in AssetOwner, NEW p \in Tree!Asset \cup {Tree!NoAsset}, Tree!CreateAsset(r, o, p)
  PROVE  TreeInv'
<1>. HIDE DEF TreeCall, Tree!Asset, Tree!NoAsset
<1>1. PICK c : c = [pc |-> IF p = Tree!NoAsset THEN "insertAsset" ELSE "assetParent", customer |-> o, parent |-> p,
                    above |-> <<o>>, depth |-> 0]
  OBVIOUS
<1>2. Tree!Begin(r, c) /\ UNCHANGED asset /\ call[r].pc # "path"
  BY <1>1 DEF Tree!CreateAsset, Tree!Begin, Tree!At
<1>3. <<o>> \in AssetPath \ {<<>>} /\ Head(<<o>>) = o
  BY DEF AssetPath
<1>4. c.pc \in {"assetParent", "insertAsset"} /\ c \in Birth
  BY <1>1, <1>3 DEF Birth
<1>5. c \in TreeCall
  BY <1>4 DEF TreeCall
<1>6. PathsFit(c) /\ KnowsTree(c)
  BY <1>1, <1>3 DEF PathsFit, KnowsTree, Standing
<1>. QED BY <1>2, <1>5, <1>6, TreeReads

LEMMA TreeMove ==
  ASSUME TreeInv, NEW r \in Request, NEW a \in Tree!Asset, NEW p \in Tree!Asset \cup {Tree!NoAsset}, NEW o \in AssetOwner,
         Tree!MoveAsset(r, a, p, o)
  PROVE  TreeInv'
<1>. HIDE DEF TreeCall, Tree!Asset, Tree!NoAsset
<1>1. PICK c : c = [pc |-> "moved", asset |-> a, parent |-> p, customer |-> o]
  OBVIOUS
<1>2. Tree!Begin(r, c) /\ UNCHANGED asset /\ call[r].pc # "path"
  BY <1>1 DEF Tree!MoveAsset, Tree!Begin, Tree!At
<1>3. c \in Wish
  BY <1>1 DEF Wish
<1>4. c \in TreeCall
  BY <1>3 DEF TreeCall
<1>5. PathsFit(c) /\ KnowsTree(c)
  BY <1>1 DEF PathsFit, KnowsTree
<1>. QED BY <1>2, <1>4, <1>5, TreeReads

LEMMA TreeDelete ==
  ASSUME TreeInv, NEW r \in Request, NEW a \in Tree!Asset, Tree!DeleteAsset(r, a)
  PROVE  TreeInv'
<1>. HIDE DEF TreeCall, Tree!Asset
<1>1. PICK c : c = [pc |-> "children", asset |-> a, looks |-> 2]
  OBVIOUS
<1>2. Tree!Begin(r, c) /\ UNCHANGED asset /\ call[r].pc # "path"
  BY <1>1 DEF Tree!DeleteAsset, Tree!Begin, Tree!At
<1>3. c \in Search
  BY <1>1 DEF Search
<1>4. c \in TreeCall
  BY <1>3 DEF TreeCall
<1>5. PathsFit(c) /\ KnowsTree(c)
  BY <1>1 DEF PathsFit, KnowsTree
<1>. QED BY <1>2, <1>4, <1>5, TreeReads

\* A statement after which the request is over, and nothing has changed.
LEMMA TreeDone ==
  ASSUME TreeInv, NEW r \in Request, call[r].pc \notin {"idle", "path"}, Tree!Done(r), UNCHANGED asset
  PROVE  TreeInv'
<1>1. Tree!Goes(r, Tree!Idle)
  BY DEF Tree!Done
<1>. QED BY <1>1, TreeShapes, TreeReads

LEMMA TreeReadParent ==
  ASSUME TreeInv, NEW r \in Request, Tree!ReadAssetParent(r)
  PROVE  TreeInv'
<1>. HIDE DEF TreeCall, Tree!Asset, Tree!NoAsset
<1>1. PICK p : p = call[r].parent
  OBVIOUS
<1>2. call[r].pc = "assetParent" /\ call[r].pc \notin {"idle", "path"} /\ call[r] \in Birth /\ UNCHANGED asset
  BY TreeShapes, TreeShape DEF Tree!ReadAssetParent, Tree!At
<1>3. CASE Tree!FitsBelow(p, call[r].customer)
  <2>1. PICK c : c = [call[r] EXCEPT !.pc = "insertAsset", !.above = asset[p].path, !.depth = asset[p].depth + 1]
    OBVIOUS
  <2>2. Tree!Goes(r, c)
    BY <1>1, <1>3, <2>1 DEF Tree!ReadAssetParent
  <2>3. p \in Tree!Asset /\ Tree!There(p) /\ PathTo(asset[p].path, p) /\ asset[p].depth \in Int
        /\ asset[p].customer = call[r].customer
    BY <1>3 DEF Tree!FitsBelow, Tree!There, TreeInv, TreeRows, Tree!AssetRow
  <2>4. asset[p].path \in AssetPath \ {<<>>}
    BY <2>3 DEF PathTo
  <2>a. PICK path : path = asset[p].path
    OBVIOUS
  <2>b. PICK depth : depth = asset[p].depth + 1
    OBVIOUS
  <2>c. c = [pc |-> "insertAsset", customer |-> call[r].customer, parent |-> p, above |-> path, depth |-> depth]
    BY <1>1, <1>2, <2>1, <2>a, <2>b DEF Birth
  <2>5. c \in Birth /\ c.pc = "insertAsset" /\ c.above = asset[p].path /\ c.customer = call[r].customer /\ c.parent = p
    <3>1. depth \in Int /\ path \in AssetPath \ {<<>>}
      BY <2>3, <2>4, <2>a, <2>b
    <3>2. call[r].customer \in AssetOwner /\ p \in Tree!Asset
      BY <1>2, <2>3 DEF Birth
    <3>3. c \in Birth
      BY <2>c, <3>1, <3>2 DEF Birth
    <3>. QED BY <2>a, <2>c, <3>3
  <2>6. c \in TreeCall
    BY <2>5 DEF TreeCall
  <2>7. calm => Named(p)
    BY <1>2 DEF TreeInv, TreeCalm, Named, Tree!There
  <2>8. calm => Head(asset[p].path) = asset[p].customer
    BY <2>3, <2>7 DEF Named
  <2>9. PathsFit(c) /\ (calm => KnowsTree(c))
    BY <2>3, <2>5, <2>8 DEF PathsFit, KnowsTree, Standing
  <2>. QED BY <1>2, <2>2, <2>6, <2>9, TreeReads
<1>4. CASE ~Tree!FitsBelow(p, call[r].customer)
  <2>1. Tree!Done(r)
    BY <1>1, <1>4 DEF Tree!ReadAssetParent
  <2>. QED BY <1>2, <2>1, TreeDone
<1>. QED BY <1>3, <1>4

LEMMA TreeLook ==
  ASSUME TreeInv, NEW r \in Request, Tree!LookForChildren(r)
  PROVE  TreeInv'
<1>. HIDE DEF TreeCall, Tree!Asset
<1>1. PICK a : a = call[r].asset
  OBVIOUS
<1>2. /\ call[r].pc = "children" /\ call[r].pc \notin {"idle", "path"} /\ call[r] \in Search /\ UNCHANGED asset
      /\ a \in Tree!Asset
  BY <1>1, TreeShapes, TreeShape DEF Tree!LookForChildren, Tree!At, Search
<1>3. CASE Tree!Children(a) # {}
  <2>1. Tree!Done(r)
    BY <1>1, <1>3 DEF Tree!LookForChildren
  <2>. QED BY <1>2, <2>1, TreeDone
<1>4. CASE Tree!Children(a) = {} /\ call[r].looks = 1
  <2>1. PICK c : c = [pc |-> "dropAsset", asset |-> a]
    OBVIOUS
  <2>2. Tree!Goes(r, c)
    BY <1>1, <1>4, <2>1 DEF Tree!LookForChildren
  <2>3. c \in Removal
    BY <1>2, <2>1 DEF Removal
  <2>4. c \in TreeCall
    BY <2>3 DEF TreeCall
  <2>5. PathsFit(c) /\ KnowsTree(c)
    BY <1>4, <2>1 DEF PathsFit, KnowsTree
  <2>. QED BY <1>2, <2>2, <2>4, <2>5, TreeReads
<1>5. CASE Tree!Children(a) = {} /\ call[r].looks # 1
  <2>1. PICK c : c = [call[r] EXCEPT !.looks = 1]
    OBVIOUS
  <2>2. Tree!Goes(r, c)
    BY <1>1, <1>5, <2>1 DEF Tree!LookForChildren
  <2>3. c \in Search /\ c.pc = "children"
    BY <1>2, <2>1 DEF Search
  <2>4. c \in TreeCall
    BY <2>3 DEF TreeCall
  <2>5. PathsFit(c) /\ KnowsTree(c)
    BY <2>3 DEF PathsFit, KnowsTree
  <2>. QED BY <1>2, <2>2, <2>4, <2>5, TreeReads
<1>. QED BY <1>3, <1>4, <1>5

\* Appending the asset to the path of what it is put below.
LEMMA PathBelow ==
  ASSUME NEW above \in AssetPath \ {<<>>}, NEW a \in Tree!Asset
  PROVE  PathTo(Append(above, a), a) /\ Head(Append(above, a)) = Head(above)
<1>. HIDE DEF Tree!Asset
<1>. QED BY DEF PathTo, AssetPath

\* What a move has read of the asset and of its new parent.
LEMMA TreePlacing ==
  ASSUME TreeInv, NEW r \in Request, UNCHANGED asset, call[r].pc \in {"moved", "newParent"},
         NEW from \in Tree!AssetRow, NEW above \in AssetPath \ {<<>>}, NEW depth \in Int,
         Tree!Placing(r, call[r], from, above, depth),
         PathTo(from.path, call[r].asset),
         calm => /\ from = asset[call[r].asset] /\ Head(above) = call[r].customer
                 /\ Standing(call[r].parent)
  PROVE  TreeInv'
<1>. HIDE DEF TreeCall, Tree!Asset, Tree!NoAsset, Tree!AssetRow
<1>1. PICK to : to = Append(above, call[r].asset)
  OBVIOUS
<1>2. PICK c : c = [pc |-> IF call[r].customer = from.customer THEN "path" ELSE "customer", asset |-> call[r].asset,
                    parent |-> call[r].parent, customer |-> call[r].customer, from |-> from, to |-> to,
                    depth |-> depth]
  OBVIOUS
<1>3. Tree!Goes(r, c)
  BY <1>1, <1>2 DEF Tree!Placing
<1>4. /\ call[r].asset \in Tree!Asset /\ call[r].parent \in Tree!Asset \cup {Tree!NoAsset}
      /\ call[r].customer \in AssetOwner
  BY TreeShapes, TreeShape DEF Wish, Climb
<1>5. PathTo(to, call[r].asset) /\ Head(to) = Head(above)
  BY <1>1, <1>4, PathBelow
<1>6. to \in AssetPath
  BY <1>5 DEF PathTo
<1>7. c \in Shift
  BY <1>2, <1>4, <1>6 DEF Shift
<1>8. c \in TreeCall
  BY <1>7 DEF TreeCall
<1>9. PathsFit(c)
  BY <1>2, <1>5 DEF PathsFit
<1>10. calm => KnowsTree(c)
  BY <1>2, <1>5 DEF KnowsTree
<1>11. call[r].pc \notin {"idle", "path"}
  OBVIOUS
<1>. QED BY <1>3, <1>8, <1>9, <1>10, <1>11, TreeReads

LEMMA TreeReadMoved ==
  ASSUME TreeInv, NEW r \in Request, Tree!ReadMoved(r)
  PROVE  TreeInv'
<1>. HIDE DEF TreeCall, Tree!Asset, Tree!AssetRow
<1>1. PICK a : a = call[r].asset
  OBVIOUS
<1>2. /\ call[r].pc = "moved" /\ call[r].pc \notin {"idle", "path"} /\ call[r] \in Wish /\ UNCHANGED asset
      /\ a \in Tree!Asset /\ call[r].customer \in AssetOwner /\ call[r].parent \in Tree!Asset \cup {Tree!NoAsset}
  BY <1>1, TreeShapes, TreeShape DEF Tree!ReadMoved, Tree!At, Wish
<1>3. CASE ~Tree!There(a)
  <2>1. Tree!Done(r)
    BY <1>1, <1>3 DEF Tree!ReadMoved
  <2>. QED BY <1>2, <2>1, TreeDone
<1>4. Tree!There(a) => PathTo(asset[a].path, a) /\ asset[a] \in Tree!AssetRow
  BY <1>2 DEF TreeInv, TreeRows
<1>5. CASE Tree!There(a) /\ call[r].parent = Tree!NoAsset
  <2>1. PICK o : o = call[r].customer
    OBVIOUS
  <2>a. PICK above : above = <<o>>
    OBVIOUS
  <2>2. Tree!Placing(r, call[r], asset[a], above, 0)
    BY <1>1, <1>5, <2>1, <2>a DEF Tree!ReadMoved
  <2>3. above \in AssetPath \ {<<>>} /\ Head(above) = o /\ 0 \in Int
    BY <1>2, <2>1, <2>a DEF AssetPath
  <2>4. Standing(call[r].parent)
    BY <1>5 DEF Standing
  <2>. QED BY <1>1, <1>2, <1>4, <1>5, <2>1, <2>2, <2>3, <2>4, TreePlacing
<1>6. CASE Tree!There(a) /\ call[r].parent # Tree!NoAsset
  <2>1. PICK c : c = [pc |-> "newParent", asset |-> a, parent |-> call[r].parent, customer |-> call[r].customer,
                      from |-> asset[a]]
    OBVIOUS
  <2>2. Tree!Goes(r, c)
    BY <1>1, <1>6, <2>1 DEF Tree!ReadMoved
  <2>3. c \in Climb
    BY <1>2, <1>4, <1>6, <2>1 DEF Climb
  <2>4. c \in TreeCall
    BY <2>3 DEF TreeCall
  <2>5. PathsFit(c) /\ KnowsTree(c)
    BY <1>4, <1>6, <2>1 DEF PathsFit, KnowsTree
  <2>. QED BY <1>2, <2>2, <2>4, <2>5, TreeReads
<1>. QED BY <1>3, <1>5, <1>6

LEMMA TreeReadNewParent ==
  ASSUME TreeInv, NEW r \in Request, Tree!ReadNewParent(r)
  PROVE  TreeInv'
<1>. HIDE DEF TreeCall, Tree!Asset, Tree!AssetRow, Tree!NoAsset
<1>1. PICK p : p = call[r].parent
  OBVIOUS
<1>2. PICK from : from = call[r].from
  OBVIOUS
<1>3. /\ call[r].pc = "newParent" /\ call[r].pc \notin {"idle", "path"} /\ call[r] \in Climb /\ UNCHANGED asset
      /\ from \in Tree!AssetRow
  BY <1>2, TreeShapes, TreeShape DEF Tree!ReadNewParent, Tree!At, Climb
<1>4. CASE Tree!FitsBelow(p, call[r].customer) /\ ~Tree!IsPrefix(from.path, asset[p].path)
  <2>1. Tree!Placing(r, call[r], from, asset[p].path, asset[p].depth + 1)
    BY <1>1, <1>2, <1>4 DEF Tree!ReadNewParent
  <2>2. p \in Tree!Asset /\ Tree!There(p) /\ PathTo(asset[p].path, p) /\ asset[p].depth \in Int
        /\ asset[p].customer = call[r].customer
    BY <1>4 DEF Tree!FitsBelow, Tree!There, TreeInv, TreeRows, Tree!AssetRow
  <2>3. asset[p].path \in AssetPath \ {<<>>} /\ asset[p].depth + 1 \in Int
    BY <2>2 DEF PathTo
  <2>4. calm => Named(p)
    BY <1>3, <2>2 DEF TreeInv, TreeCalm
  <2>5. calm => Head(asset[p].path) = call[r].customer
    BY <2>2, <2>4 DEF Named
  <2>6. PathTo(from.path, call[r].asset)
    BY <1>2, <1>3 DEF TreeInv, PathsFit
  <2>7. calm => from = asset[call[r].asset]
    BY <1>2, <1>3 DEF TreeInv, TreeCalm, KnowsTree
  <2>8. Standing(call[r].parent)
    BY <1>1, <2>2 DEF Standing
  <2>. QED BY <1>3, <2>1, <2>3, <2>5, <2>6, <2>7, <2>8, TreePlacing
<1>5. CASE ~(Tree!FitsBelow(p, call[r].customer) /\ ~Tree!IsPrefix(from.path, asset[p].path))
  <2>1. Tree!Done(r)
    BY <1>1, <1>2, <1>5 DEF Tree!ReadNewParent
  <2>. QED BY <1>3, <2>1, TreeDone
<1>. QED BY <1>4, <1>5

\* The next of the descendants that were found: by depth, then by number.
Earlier(x, y) == x.depth < y.depth \/ (x.depth = y.depth /\ x.id < y.id)

LEMMA FirstFound ==
  ASSUME NEW S, IsFiniteSet(S), S # {}, \A x \in S : x.depth \in Int /\ x.id \in Int
  PROVE  \E x \in S : \A y \in S : x.depth < y.depth \/ (x.depth = y.depth /\ x.id =< y.id)
<1>. DEFINE Ahead(x) == {y \in S : Earlier(y, x)}
           Sizes == {Cardinality(Ahead(x)) : x \in S}
<1>1. \A x \in S : IsFiniteSet(Ahead(x)) /\ Cardinality(Ahead(x)) \in Nat
  <2>. SUFFICES ASSUME NEW x \in S PROVE IsFiniteSet(Ahead(x)) /\ Cardinality(Ahead(x)) \in Nat
    OBVIOUS
  <2>1. Ahead(x) \subseteq S
    OBVIOUS
  <2>. HIDE DEF Ahead
  <2>2. IsFiniteSet(Ahead(x))
    BY <2>1, FS_Subset
  <2>. QED BY <2>2, FS_CardinalityType
<1>2. Sizes \in SUBSET Nat /\ Sizes # {}
  BY <1>1
<1>3. PICK n \in Sizes : \A m \in Sizes : n =< m
  <2>. HIDE DEF Sizes
  <2>. QED BY <1>2, LeastOf
<1>4. PICK x \in S : n = Cardinality(Ahead(x))
  OBVIOUS
<1>5. ASSUME NEW y \in S, Earlier(y, x) PROVE FALSE
  <2>1. Ahead(y) \subseteq Ahead(x) /\ y \in Ahead(x) /\ y \notin Ahead(y)
    BY <1>5 DEF Earlier
  <2>2. n =< Cardinality(Ahead(y))
    BY <1>3
  <2>. HIDE DEF Ahead
  <2>3. Cardinality(Ahead(y)) =< n /\ Cardinality(Ahead(x)) # Cardinality(Ahead(y))
    BY <1>1, <1>4, <2>1, FS_Subset
  <2>4. n \in Nat /\ Cardinality(Ahead(y)) \in Nat
    BY <1>1, <1>4
  <2>. QED BY <1>4, <2>2, <2>3, <2>4
<1>. QED BY <1>5 DEF Earlier

LEMMA PrefixHead ==
  ASSUME NEW s \in AssetPath, NEW t \in AssetPath, Len(s) > 0, Tree!IsPrefix(s, t)
  PROVE  Head(t) = Head(s)
<1>. DEFINE Name == AssetOwner \cup Tree!Asset
<1>. HIDE DEF Name
<1>1. s \in Seq(Name) /\ t \in Seq(Name)
  BY DEF AssetPath, Name
<1>2. Len(s) =< Len(t) /\ SubSeq(s, 1, Len(s)) = SubSeq(t, 1, Len(s))
  BY DEF Tree!IsPrefix
<1>3. SubSeq(s, 1, Len(s))[1] = s[1] /\ SubSeq(t, 1, Len(s))[1] = t[1]
  BY <1>1, <1>2
<1>. QED BY <1>1, <1>2, <1>3

LEMMA PathReplaced ==
  ASSUME NEW a \in Tree!Asset, NEW b \in Tree!Asset, NEW old, NEW new, NEW p, PathTo(old, a), PathTo(new, a), PathTo(p, b)
  PROVE  /\ PathTo(Tree!Replace(p, old, new), b)
         /\ Head(Tree!Replace(p, old, new)) \in {Head(new), Head(p)}
<1>1. PICK q : q = Tree!Replace(p, old, new)
  OBVIOUS
<1>2. CASE ~Tree!IsPrefix(old, p)
  BY <1>1, <1>2 DEF Tree!Replace
<1>3. CASE Tree!IsPrefix(old, p)
  <2>. DEFINE Name == AssetOwner \cup Tree!Asset
  <2>1. old \in Seq(Name) /\ new \in Seq(Name) /\ p \in Seq(Name) /\ AssetPath = Seq(Name)
        /\ Len(old) > 1 /\ Len(new) > 1 /\ Len(p) > 1 /\ old[Len(old)] = a /\ new[Len(new)] = a /\ p[Len(p)] = b
    BY DEF PathTo, AssetPath
  <2>. HIDE DEF Name, Tree!Asset
  <2>2. Len(old) =< Len(p) /\ SubSeq(old, 1, Len(old)) = SubSeq(p, 1, Len(old))
    BY <1>3 DEF Tree!IsPrefix
  <2>3. PICK rest : rest = SubSeq(p, Len(old) + 1, Len(p))
    OBVIOUS
  <2>4. q = new \o rest
    BY <1>1, <1>3, <2>3 DEF Tree!Replace
  <2>5. rest \in Seq(Name) /\ Len(rest) = Len(p) - Len(old)
    BY <2>1, <2>2, <2>3
  <2>6. q \in Seq(Name) /\ Len(q) = Len(new) + Len(rest) /\ q[1] = new[1] /\ Head(q) = Head(new)
    <3>1. new \o rest \in Seq(Name) /\ Len(new \o rest) = Len(new) + Len(rest)
      BY <2>1, <2>5, ConcatProperties
    <3>2. (new \o rest)[1] = new[1]
      BY <2>1, <2>5, ConcatProperties
    <3>3. q \in Seq(Name) /\ Len(q) > 0 /\ Head(q) = q[1] /\ Head(new) = new[1]
      BY <2>1, <2>4, <2>5, <3>1
    <3>. QED BY <2>4, <3>1, <3>2, <3>3
  <2>7. q[Len(q)] = b
    <3>1. CASE Len(p) = Len(old)
      <4>1. SubSeq(old, 1, Len(old))[Len(old)] = old[Len(old)] /\ SubSeq(p, 1, Len(old))[Len(old)] = p[Len(old)]
        BY <2>1, <2>2
      <4>2. a = b
        BY <2>1, <2>2, <3>1, <4>1
      <4>3. q[Len(new)] = new[Len(new)]
        BY <2>1, <2>4, <2>5
      <4>. QED BY <2>1, <2>5, <2>6, <3>1, <4>2, <4>3
    <3>2. CASE Len(p) # Len(old)
      <4>1. Len(rest) > 0 /\ rest[Len(rest)] = p[Len(p)]
        <5>1. \A i \in 1 .. Len(rest) : rest[i] = p[i + Len(old)]
          BY <2>1, <2>2, <2>3, <2>5
        <5>2. Len(rest) \in Nat /\ Len(rest) > 0 /\ Len(rest) + Len(old) = Len(p)
          BY <2>1, <2>2, <2>5, <3>2
        <5>. QED BY <5>1, <5>2
      <4>2. q[Len(new) + Len(rest)] = rest[Len(rest)]
        BY <2>1, <2>4, <2>5, <4>1
      <4>. QED BY <2>1, <2>6, <4>1, <4>2
    <3>. QED BY <3>1, <3>2
  <2>8. Len(q) > 1
    BY <2>1, <2>2, <2>5, <2>6
  <2>. QED BY <1>1, <2>1, <2>6, <2>7, <2>8 DEF PathTo
<1>. QED BY <1>2, <1>3

\* A statement that writes the row of an asset, if there is one.
LEMMA TreeWrite ==
  ASSUME TreeRows, NEW a \in Tree!Asset, NEW row, asset' = Tree!Set(a, row),
         Tree!There(a) => row \in Tree!AssetRow /\ row.state = "there" /\ PathTo(row.path, a)
  PROVE  /\ TreeRows'
         /\ \A b : Tree!There(b)' = Tree!There(b)
         /\ \A b \in Tree!Asset : asset'[b] = IF b = a /\ Tree!There(a) THEN row ELSE asset[b]
<1>. HIDE DEF Tree!AssetRow, Tree!Asset
<1>1. /\ asset' \in [Tree!Asset -> Tree!AssetRow]
      /\ \A b \in Tree!Asset : asset'[b] = IF b = a /\ Tree!There(a) THEN row ELSE asset[b]
  BY DEF TreeRows, Tree!Set
<1>2. ASSUME NEW b PROVE Tree!There(b)' = Tree!There(b)
  BY <1>1 DEF Tree!There
<1>. QED BY <1>1, <1>2 DEF TreeRows

LEMMA TreeInsert ==
  ASSUME TreeInv, NEW r \in Request, Tree!InsertAsset(r)
  PROVE  TreeInv'
<1>1. call[r].pc = "insertAsset" /\ call[r].pc \notin {"idle", "path"} /\ Tree!NewAssets # {}
      /\ call[r] \in Birth /\ Tree!Goes(r, Tree!Idle)
  BY TreeShapes, TreeShape DEF Tree!InsertAsset, Tree!At, Tree!Done
<1>2. Tree!NewAssets \in SUBSET Nat /\ Tree!NewAssets \subseteq Tree!Asset
  BY EstateAssumption DEF Tree!NewAssets, Tree!Asset
<1>3. PICK a : a = Tree!Min(Tree!NewAssets)
  OBVIOUS
<1>4. a \in Tree!NewAssets
  BY <1>1, <1>2, <1>3, LeastOf DEF Tree!Min
<1>5. a \in Tree!Asset /\ ~Tree!There(a)
  BY <1>2, <1>4 DEF Tree!NewAssets, Tree!There
<1>. HIDE DEF TreeCall, Tree!Asset, Tree!AssetRow, Tree!NoAsset
<1>6. PICK path : path = Append(call[r].above, a)
  OBVIOUS
<1>7. PICK row : row = [state |-> "there", customer |-> call[r].customer, parent |-> call[r].parent, path |-> path,
                        depth |-> call[r].depth]
  OBVIOUS
<1>8. asset' = [asset EXCEPT ![a] = row]
  BY <1>3, <1>6, <1>7 DEF Tree!InsertAsset
<1>9. /\ call[r].customer \in AssetOwner /\ call[r].parent \in Tree!Asset \cup {Tree!NoAsset}
      /\ call[r].above \in AssetPath \ {<<>>} /\ call[r].depth \in Int
  BY <1>1 DEF Birth
<1>10. PathTo(path, a) /\ Head(path) = Head(call[r].above)
  BY <1>5, <1>6, <1>9, PathBelow
<1>11. row \in Tree!AssetRow
  <2>1. path \in Seq(AssetOwner \cup Tree!Asset)
    BY <1>10 DEF PathTo, AssetPath
  <2>. QED BY <1>7, <1>9, <2>1 DEF Tree!AssetRow
<1>12. /\ asset' \in [Tree!Asset -> Tree!AssetRow]
       /\ \A b \in Tree!Asset : asset'[b] = IF b = a THEN row ELSE asset[b]
  BY <1>8, <1>11 DEF TreeInv, TreeRows
<1>13. \A b : Tree!There(b)' <=> Tree!There(b) \/ b = a
  BY <1>5, <1>7, <1>12 DEF Tree!There
<1>14. TreeRows'
  BY <1>7, <1>10, <1>12, <1>13 DEF TreeInv, TreeRows
<1>15. /\ call' = [call EXCEPT ![r] = Tree!Idle] /\ calm' \in BOOLEAN
       /\ calm' => calm /\ \A q \in Request \ {r} : call[q].pc = "idle"
  BY <1>1, TreeAlone
<1>16. ASSUME calm'
       PROVE  /\ KnowsTree(Tree!Idle)'
              /\ \A b \in Tree!Asset : Tree!There(b)' => Standing(asset[b].parent)'
              /\ \A b \in Tree!Asset : Named(b)'
  <2>1. Head(call[r].above) = call[r].customer /\ Standing(call[r].parent)
    BY <1>1, <1>15, <1>16 DEF TreeInv, TreeCalm, KnowsTree
  <2>2. \A b \in Tree!Asset : (Tree!There(b) => Standing(asset[b].parent)) /\ Named(b)
    BY <1>1, <1>15, <1>16 DEF TreeInv, TreeCalm
  <2>3. KnowsTree(Tree!Idle)'
    BY TreeShapes DEF KnowsTree
  <2>4. ASSUME NEW b \in Tree!Asset, Tree!There(b)' PROVE Standing(asset[b].parent)' /\ Named(b)'
    <3>1. CASE b = a
      BY <1>7, <1>10, <1>12, <1>13, <2>1, <3>1 DEF Standing, Named
    <3>2. CASE b # a
      BY <1>12, <1>13, <2>2, <2>4, <3>2 DEF Standing, Named
    <3>. QED BY <3>1, <3>2
  <2>. QED BY <2>3, <2>4 DEF Named
<1>. QED BY <1>14, <1>15, <1>16, TreeShapes, TreeStep

LEMMA TreeDrop ==
  ASSUME TreeInv, NEW r \in Request, Tree!DropAsset(r, {})
  PROVE  TreeInv'
<1>. HIDE DEF TreeCall, Tree!Asset, Tree!AssetRow, Tree!NoAsset
<1>1. PICK a : a = call[r].asset
  OBVIOUS
<1>2. call[r].pc = "dropAsset" /\ call[r].pc \notin {"idle", "path"} /\ a \in Tree!Asset /\ Tree!Goes(r, Tree!Idle)
  BY <1>1, TreeShapes, TreeShape DEF Tree!DropAsset, Tree!At, Tree!Done, Removal
<1>3. PICK row : row = [Tree!UnbornAsset EXCEPT !.state = "gone"]
  OBVIOUS
<1>4. asset' = [asset EXCEPT ![a] = row]
  BY <1>1, <1>3 DEF Tree!DropAsset
<1>5. row \in Tree!AssetRow /\ row.state = "gone"
  <2>1. PICK none : none = <<>>
    OBVIOUS
  <2>2. PICK o : o = CHOOSE c \in AssetOwner : TRUE
    OBVIOUS
  <2>3. none \in Seq(AssetOwner \cup Tree!Asset) /\ o \in AssetOwner
    BY <2>1, <2>2, EstateAssumption
  <2>4. row = [state |-> "gone", customer |-> o, parent |-> Tree!NoAsset, path |-> none, depth |-> 0]
    BY <1>3, <2>1, <2>2 DEF Tree!UnbornAsset
  <2>. QED BY <2>3, <2>4 DEF Tree!AssetRow
<1>6. /\ asset' \in [Tree!Asset -> Tree!AssetRow]
      /\ \A b \in Tree!Asset : asset'[b] = IF b = a THEN row ELSE asset[b]
  BY <1>4, <1>5 DEF TreeInv, TreeRows
<1>7. \A b : Tree!There(b)' <=> Tree!There(b) /\ b # a
  BY <1>5, <1>6 DEF Tree!There
<1>8. TreeRows'
  BY <1>6, <1>7 DEF TreeInv, TreeRows
<1>9. /\ call' = [call EXCEPT ![r] = Tree!Idle] /\ calm' \in BOOLEAN
      /\ calm' => calm /\ \A q \in Request \ {r} : call[q].pc = "idle"
  BY <1>2, TreeAlone
<1>10. ASSUME calm'
       PROVE  /\ KnowsTree(Tree!Idle)'
              /\ \A b \in Tree!Asset : Tree!There(b)' => Standing(asset[b].parent)'
              /\ \A b \in Tree!Asset : Named(b)'
  <2>1. Tree!Children(a) = {}
    BY <1>1, <1>2, <1>9, <1>10 DEF TreeInv, TreeCalm, KnowsTree
  <2>2. \A b \in Tree!Asset : (Tree!There(b) => Standing(asset[b].parent)) /\ Named(b)
    BY <1>2, <1>9, <1>10 DEF TreeInv, TreeCalm
  <2>3. KnowsTree(Tree!Idle)'
    BY TreeShapes DEF KnowsTree
  <2>4. ASSUME NEW b \in Tree!Asset, Tree!There(b)' PROVE Standing(asset[b].parent)' /\ Named(b)'
    <3>1. Tree!There(b) /\ b # a /\ asset'[b] = asset[b]
      BY <1>6, <1>7, <2>4
    <3>2. asset[b].parent # a
      BY <2>1, <3>1 DEF Tree!Children
    <3>. QED BY <1>7, <2>2, <2>4, <3>1, <3>2 DEF Standing, Named
  <2>. QED BY <2>3, <2>4 DEF Named
<1>. QED BY <1>8, <1>9, <1>10, TreeShapes, TreeStep

LEMMA TreeSaveCustomer ==
  ASSUME TreeInv, NEW r \in Request, Tree!SaveCustomer(r)
  PROVE  TreeInv'
<1>. HIDE DEF TreeCall, Tree!Asset, Tree!AssetRow, Tree!NoAsset
<1>1. PICK a : a = call[r].asset
  OBVIOUS
<1>2. /\ call[r].pc = "customer" /\ call[r].pc \notin {"idle", "path"} /\ call[r] \in Shift /\ a \in Tree!Asset
      /\ call[r].customer \in AssetOwner /\ call[r].parent \in Tree!Asset \cup {Tree!NoAsset}
  BY <1>1, TreeShapes, TreeShape DEF Tree!SaveCustomer, Tree!At, Shift
<1>3. PICK row : row = [asset[a] EXCEPT !.customer = call[r].customer, !.parent = call[r].parent]
  OBVIOUS
<1>4. PICK c : c = [call[r] EXCEPT !.pc = "path"]
  OBVIOUS
<1>5. asset' = Tree!Set(a, row) /\ Tree!Goes(r, c)
  BY <1>1, <1>3, <1>4 DEF Tree!SaveCustomer
<1>6. asset[a] \in Tree!AssetRow
  BY <1>2 DEF TreeInv, TreeRows
<1>7. /\ row \in Tree!AssetRow /\ row.state = asset[a].state /\ row.path = asset[a].path
      /\ row.customer = call[r].customer /\ row.parent = call[r].parent
  BY <1>2, <1>3, <1>6 DEF Tree!AssetRow
<1>8. /\ TreeRows'
      /\ \A b : Tree!There(b)' = Tree!There(b)
      /\ \A b \in Tree!Asset : asset'[b] = IF b = a /\ Tree!There(a) THEN row ELSE asset[b]
  <2>1. Tree!There(a) => row.state = "there" /\ PathTo(row.path, a)
    BY <1>7 DEF Tree!There, TreeInv, TreeRows
  <2>. QED BY <1>2, <1>5, <1>7, <2>1, TreeWrite DEF TreeInv
<1>9. /\ c \in Shift /\ c.pc = "path" /\ c.asset = a /\ c.to = call[r].to /\ c.from = call[r].from
      /\ c.customer = call[r].customer
  BY <1>1, <1>2, <1>4 DEF Shift
<1>10. c \in TreeCall
  BY <1>9 DEF TreeCall
<1>11. PathsFit(c)
  BY <1>1, <1>2, <1>9 DEF TreeInv, PathsFit
<1>12. /\ call' = [call EXCEPT ![r] = c] /\ calm' \in BOOLEAN
       /\ calm' => calm /\ \A q \in Request \ {r} : call[q].pc = "idle"
  BY <1>2, <1>5, TreeAlone
<1>13. ASSUME calm'
       PROVE  /\ KnowsTree(c)'
              /\ \A b \in Tree!Asset : Tree!There(b)' => Standing(asset[b].parent)'
              /\ \A b \in Tree!Asset : Named(b)' \/ (c.pc = "path" /\ c.asset = b)
  <2>1. Standing(call[r].parent) /\ Head(call[r].to) = call[r].customer
    BY <1>2, <1>12, <1>13 DEF TreeInv, TreeCalm, KnowsTree
  <2>2. \A b \in Tree!Asset : (Tree!There(b) => Standing(asset[b].parent)) /\ Named(b)
    BY <1>2, <1>12, <1>13 DEF TreeInv, TreeCalm
  <2>3. KnowsTree(c)'
    BY <1>2, <1>7, <1>8, <1>9, <2>1 DEF KnowsTree
  <2>4. ASSUME NEW b \in Tree!Asset, Tree!There(b)' PROVE Standing(asset[b].parent)'
    BY <1>7, <1>8, <2>1, <2>2, <2>4 DEF Standing
  <2>5. \A b \in Tree!Asset : b # a => Named(b)'
    BY <1>8, <2>2 DEF Named
  <2>. QED BY <1>9, <2>3, <2>4, <2>5
<1>. QED BY <1>8, <1>10, <1>11, <1>12, <1>13, TreeStep

LEMMA TreeSavePath ==
  ASSUME TreeInv, NEW r \in Request, Tree!SavePath(r)
  PROVE  TreeInv'
<1>. HIDE DEF TreeCall, Tree!Asset, Tree!AssetRow, Tree!NoAsset
<1>1. PICK a : a = call[r].asset
  OBVIOUS
<1>2. /\ call[r].pc = "path" /\ call[r].pc # "idle" /\ call[r] \in Shift /\ a \in Tree!Asset
      /\ call[r].depth \in Int
  BY <1>1, TreeShapes, TreeShape DEF Tree!SavePath, Tree!At, Shift
<1>3. PICK row : row = [asset[a] EXCEPT !.path = call[r].to, !.depth = call[r].depth]
  OBVIOUS
<1>4. PICK c : c = [call[r] EXCEPT !.pc = "below"]
  OBVIOUS
<1>5. asset' = Tree!Set(a, row) /\ Tree!Goes(r, c)
  BY <1>1, <1>3, <1>4 DEF Tree!SavePath
<1>6. asset[a] \in Tree!AssetRow /\ PathTo(call[r].to, a) /\ PathTo(call[r].from.path, a)
  BY <1>1, <1>2 DEF TreeInv, TreeRows, PathsFit
<1>7. /\ row \in Tree!AssetRow /\ row.state = asset[a].state /\ row.path = call[r].to
      /\ row.customer = asset[a].customer /\ row.parent = asset[a].parent
  <2>1. call[r].to \in Seq(AssetOwner \cup Tree!Asset)
    BY <1>6 DEF PathTo, AssetPath
  <2>. QED BY <1>2, <1>3, <1>6, <2>1 DEF Tree!AssetRow
<1>8. /\ TreeRows'
      /\ \A b : Tree!There(b)' = Tree!There(b)
      /\ \A b \in Tree!Asset : asset'[b] = IF b = a /\ Tree!There(a) THEN row ELSE asset[b]
  <2>1. Tree!There(a) => row.state = "there" /\ PathTo(row.path, a)
    BY <1>6, <1>7 DEF Tree!There
  <2>. QED BY <1>2, <1>5, <1>7, <2>1, TreeWrite DEF TreeInv
<1>9. /\ c \in Shift /\ c.pc = "below" /\ c.asset = a /\ c.to = call[r].to /\ c.from = call[r].from
      /\ c.customer = call[r].customer
  BY <1>1, <1>2, <1>4 DEF Shift
<1>10. c \in TreeCall
  BY <1>9 DEF TreeCall
<1>11. PathsFit(c)
  BY <1>6, <1>9 DEF PathsFit
<1>12. /\ call' = [call EXCEPT ![r] = c] /\ calm' \in BOOLEAN
       /\ calm' => calm /\ \A q \in Request \ {r} : call[q].pc = "idle"
  BY <1>2, <1>5, TreeAlone
<1>13. ASSUME calm'
       PROVE  /\ KnowsTree(c)'
              /\ \A b \in Tree!Asset : Tree!There(b)' => Standing(asset[b].parent)'
              /\ \A b \in Tree!Asset : Named(b)'
  <2>1. Head(call[r].to) = call[r].customer /\ (Tree!There(a) => asset[a].customer = call[r].customer)
    BY <1>1, <1>2, <1>12, <1>13 DEF TreeInv, TreeCalm, KnowsTree
  <2>2. \A b \in Tree!Asset : (Tree!There(b) => Standing(asset[b].parent)) /\ (b # a => Named(b))
    BY <1>1, <1>12, <1>13 DEF TreeInv, TreeCalm
  <2>3. KnowsTree(c)'
    BY <1>2, <1>7, <1>8, <1>9, <2>1 DEF KnowsTree
  <2>4. ASSUME NEW b \in Tree!Asset, Tree!There(b)' PROVE Standing(asset[b].parent)'
    BY <1>7, <1>8, <2>2, <2>4 DEF Standing
  <2>5. \A b \in Tree!Asset : Named(b)'
    BY <1>7, <1>8, <2>1, <2>2 DEF Named
  <2>. QED BY <2>3, <2>4, <2>5
<1>. QED BY <1>8, <1>10, <1>11, <1>12, <1>13, TreeStep

LEMMA TreeReadBelow ==
  ASSUME TreeInv, NEW r \in Request, Tree!ReadBelow(r)
  PROVE  TreeInv'
<1>. HIDE DEF TreeCall, Tree!Asset, Tree!AssetRow, Tree!NoAsset
<1>1. PICK a : a = call[r].asset
  OBVIOUS
<1>2. /\ call[r].pc = "below" /\ call[r].pc \notin {"idle", "path"} /\ call[r] \in Shift /\ a \in Tree!Asset
      /\ call[r].customer \in AssetOwner /\ call[r].from \in Tree!AssetRow /\ call[r].to \in AssetPath
      /\ call[r].depth \in Int /\ UNCHANGED asset
  BY <1>1, TreeShapes, TreeShape DEF Tree!ReadBelow, Tree!At, Shift
<1>3. CASE Tree!There(a)
  <2>1. PICK path : path = asset[a].path
    OBVIOUS
  <2>2. PICK c : c = [pc |-> "select", asset |-> a, customer |-> call[r].customer, from |-> call[r].from,
                      to |-> call[r].to, depth |-> call[r].depth, path |-> path]
    OBVIOUS
  <2>3. Tree!Goes(r, c)
    BY <1>1, <1>3, <2>1, <2>2 DEF Tree!ReadBelow
  <2>4. path \in AssetPath
    BY <1>2, <1>3, <2>1 DEF TreeInv, TreeRows, PathTo
  <2>5. c \in Survey
    BY <1>2, <2>2, <2>4 DEF Survey
  <2>6. c \in TreeCall
    BY <2>5 DEF TreeCall
  <2>7. PathTo(call[r].from.path, a) /\ PathTo(call[r].to, a)
    BY <1>1, <1>2 DEF TreeInv, PathsFit
  <2>8. calm => Head(call[r].to) = call[r].customer /\ path = call[r].to
    BY <1>1, <1>2, <1>3, <2>1 DEF TreeInv, TreeCalm, KnowsTree
  <2>9. PathsFit(c)
    BY <2>2, <2>7 DEF PathsFit
  <2>10. calm => KnowsTree(c)
    BY <2>2, <2>8 DEF KnowsTree
  <2>. QED BY <1>2, <2>3, <2>6, <2>9, <2>10, TreeReads
<1>4. CASE ~Tree!There(a)
  <2>1. Tree!Done(r)
    BY <1>1, <1>4 DEF Tree!ReadBelow
  <2>. QED BY <1>2, <2>1, TreeDone
<1>. QED BY <1>3, <1>4

LEMMA TreeSelect ==
  ASSUME TreeInv, NEW r \in Request, Tree!SelectBelow(r)
  PROVE  TreeInv'
<1>. HIDE DEF TreeCall, Tree!AssetRow, Tree!NoAsset
<1>. DEFINE As(b) == [id |-> b, path |-> asset[b].path, depth |-> asset[b].depth]
<1>1. PICK S : S = Tree!Descendants(call[r].path)
  OBVIOUS
<1>2. PICK found : found = {As(b) : b \in S}
  OBVIOUS
<1>3. /\ call[r].pc = "select" /\ call[r].pc \notin {"idle", "path"} /\ call[r] \in Survey
      /\ call[r].asset \in Tree!Asset /\ call[r].path \in AssetPath
      /\ call[r].customer \in AssetOwner /\ call[r].from \in Tree!AssetRow /\ call[r].to \in AssetPath
      /\ call[r].depth \in Int /\ UNCHANGED asset
  BY TreeShapes, TreeShape DEF Tree!SelectBelow, Tree!At, Survey
<1>4. IsFiniteSet(S)
  <2>1. S \subseteq 1 .. MaxAssets
    BY <1>1 DEF Tree!Descendants, Tree!Asset
  <2>2. IsFiniteSet(1 .. MaxAssets)
    BY FS_Interval, EstateAssumption
  <2>. QED BY <2>1, <2>2, FS_Subset
<1>. HIDE DEF Tree!Asset
<1>5. \A b \in S : /\ b \in Tree!Asset /\ Tree!There(b) /\ Tree!IsPrefix(call[r].path, asset[b].path)
                   /\ PathTo(asset[b].path, b) /\ asset[b] \in Tree!AssetRow
  BY <1>1 DEF Tree!Descendants, Tree!IsStrictPrefix, TreeInv, TreeRows
<1>6. IsFiniteSet(found)
  <2>1. [b \in S |-> As(b)] \in Surjection(S, found)
    BY <1>2 DEF Surjection
  <2>. QED BY <1>4, <2>1, FS_Surjection
<1>7. \A d \in found : /\ d.id \in S /\ d.path = asset[d.id].path /\ d.depth = asset[d.id].depth /\ d = As(d.id)
  BY <1>2
<1>8. CASE found = {}
  <2>1. Tree!Done(r)
    BY <1>1, <1>2, <1>8 DEF Tree!SelectBelow
  <2>. QED BY <1>3, <2>1, TreeDone
<1>9. CASE found # {}
  <2>1. PICK c : c = [pc |-> "descend", customer |-> call[r].customer, from |-> call[r].from, to |-> call[r].to,
                      depth |-> call[r].depth, found |-> found]
    OBVIOUS
  <2>2. Tree!Goes(r, c)
    BY <1>1, <1>2, <1>9, <2>1 DEF Tree!SelectBelow
  <2>3. found \subseteq [id : Tree!Asset, path : AssetPath, depth : Int]
    <3>1. \A b \in S : asset[b].path \in AssetPath /\ asset[b].depth \in Int
      BY <1>5 DEF PathTo, Tree!AssetRow
    <3>. QED BY <1>5, <1>7, <3>1
  <2>4. c \in Descent
    BY <1>3, <2>1, <2>3 DEF Descent
  <2>5. c \in TreeCall
    BY <2>4 DEF TreeCall
  <2>6. PathTo(call[r].from.path, call[r].asset) /\ PathTo(call[r].to, call[r].asset)
    BY <1>3 DEF TreeInv, PathsFit
  <2>7. \A d \in found : PathTo(d.path, d.id)
    BY <1>5, <1>7
  <2>8. PathsFit(c)
    BY <1>3, <1>6, <1>9, <2>1, <2>6, <2>7 DEF PathsFit
  <2>9. ASSUME calm PROVE KnowsTree(c)
    <3>1. Head(call[r].to) = call[r].customer /\ call[r].path = call[r].to
      BY <1>3, <2>9 DEF TreeInv, TreeCalm, KnowsTree
    <3>2. \A b \in S : Head(asset[b].path) = call[r].customer
      <4>. SUFFICES ASSUME NEW b \in S PROVE Head(asset[b].path) = call[r].customer
        OBVIOUS
      <4>1. Len(call[r].path) > 0 /\ asset[b].path \in AssetPath
        BY <1>5, <2>6, <3>1 DEF PathTo
      <4>2. Head(asset[b].path) = Head(call[r].path)
        BY <1>3, <1>5, <4>1, PrefixHead
      <4>. QED BY <3>1, <4>2
    <3>3. \A b \in S : asset[b].customer = Head(asset[b].path)
      BY <1>3, <1>5, <2>9 DEF TreeInv, TreeCalm, Named
    <3>4. \A d \in found : Head(d.path) = call[r].customer /\ asset[d.id].customer = call[r].customer
      BY <1>7, <3>2, <3>3
    <3>. QED BY <2>1, <3>1, <3>4 DEF KnowsTree
  <2>. QED BY <1>3, <2>2, <2>5, <2>8, <2>9, TreeReads
<1>. QED BY <1>8, <1>9

\* The descendant whose turn it is.
NextFound(S) == CHOOSE x \in S : \A y \in S : x.depth < y.depth \/ (x.depth = y.depth /\ x.id <= y.id)

LEMMA NextIsFound ==
  ASSUME NEW c \in Descent, PathsFit(c)
  PROVE  /\ NextFound(c.found) \in c.found
         /\ NextFound(c.found).id \in Tree!Asset /\ NextFound(c.found).path \in AssetPath
         /\ NextFound(c.found).depth \in Int
<1>. HIDE DEF Tree!AssetRow
<1>1. PICK S : S = c.found
  OBVIOUS
<1>2. S \subseteq [id : Tree!Asset, path : AssetPath, depth : Int]
  <2>. HIDE DEF Tree!Asset
  <2>. QED BY <1>1 DEF Descent
<1>3. IsFiniteSet(S) /\ S # {}
  <2>1. c.pc \in {"descend", "descendCustomer"}
    BY DEF Descent
  <2>. QED BY <1>1, <2>1 DEF PathsFit
<1>4. \A x \in S : x.depth \in Int /\ x.id \in Int
  BY <1>2, EstateAssumption DEF Tree!Asset
<1>5. NextFound(S) \in S
  <2>1. \E x \in S : \A y \in S : x.depth < y.depth \/ (x.depth = y.depth /\ x.id =< y.id)
    BY <1>3, <1>4, FirstFound
  <2>. QED BY <2>1 DEF NextFound
<1>. HIDE DEF NextFound, Tree!Asset
<1>. QED BY <1>1, <1>2, <1>5

LEMMA TreeDescend ==
  ASSUME TreeInv, NEW r \in Request, Tree!SaveDescendant(r)
  PROVE  TreeInv'
<1>. HIDE DEF TreeCall, Tree!Asset, Tree!AssetRow, Tree!NoAsset
<1>1. PICK d : d = NextFound(call[r].found)
  OBVIOUS
<1>2. /\ call[r].pc = "descend" /\ call[r].pc \notin {"idle", "path"} /\ call[r] \in Descent /\ PathsFit(call[r])
      /\ call[r].from \in Tree!AssetRow /\ call[r].to \in AssetPath /\ call[r].depth \in Int
      /\ call[r].found \in SUBSET [id : Tree!Asset, path : AssetPath, depth : Int]
  BY TreeShapes, TreeShape DEF Tree!SaveDescendant, Tree!At, Descent, TreeInv
<1>3. d \in call[r].found /\ d.id \in Tree!Asset /\ d.path \in AssetPath /\ d.depth \in Int
  BY <1>1, <1>2, NextIsFound
<1>4. PICK a : a = d.id
  OBVIOUS
<1>5. PICK path : path = Tree!Replace(d.path, call[r].from.path, call[r].to)
  OBVIOUS
<1>6. PICK depth : depth = d.depth + call[r].depth - call[r].from.depth
  OBVIOUS
<1>7. PICK row : row = [asset[a] EXCEPT !.path = path, !.depth = depth]
  OBVIOUS
<1>8. PICK rest : rest = call[r].found \ {d}
  OBVIOUS
<1>9. PICK c : c = IF call[r].customer # call[r].from.customer
                     THEN [call[r] EXCEPT !.pc = "descendCustomer", !.found = {d} \cup rest]
                   ELSE IF rest = {} THEN Tree!Idle ELSE [call[r] EXCEPT !.found = rest]
  BY Zenon
<1>10. asset' = Tree!Set(a, row)
  BY <1>1, <1>4, <1>5, <1>6, <1>7 DEF Tree!SaveDescendant, NextFound
<1>11. Tree!Goes(r, c)
  BY <1>1, <1>8, <1>9 DEF Tree!SaveDescendant, NextFound, Tree!Done
<1>12. PathTo(path, a) /\ Head(path) \in {Head(call[r].to), Head(d.path)}
  <2>1. PICK b \in Tree!Asset : PathTo(call[r].from.path, b) /\ PathTo(call[r].to, b)
    BY <1>2 DEF PathsFit
  <2>2. PathTo(d.path, a)
    BY <1>2, <1>3, <1>4 DEF PathsFit
  <2>. QED BY <1>3, <1>4, <1>5, <2>1, <2>2, PathReplaced
<1>13. asset[a] \in Tree!AssetRow /\ depth \in Int
  <2>1. call[r].from.depth \in Int
    BY <1>2 DEF Tree!AssetRow
  <2>. QED BY <1>2, <1>3, <1>4, <1>6, <2>1 DEF TreeInv, TreeRows
<1>14. /\ row \in Tree!AssetRow /\ row.state = asset[a].state /\ row.path = path
       /\ row.customer = asset[a].customer /\ row.parent = asset[a].parent
  <2>1. path \in Seq(AssetOwner \cup Tree!Asset)
    BY <1>12 DEF PathTo, AssetPath
  <2>. QED BY <1>7, <1>13, <2>1 DEF Tree!AssetRow
<1>15. /\ TreeRows'
       /\ \A b : Tree!There(b)' = Tree!There(b)
       /\ \A b \in Tree!Asset : asset'[b] = IF b = a /\ Tree!There(a) THEN row ELSE asset[b]
  <2>1. Tree!There(a) => row.state = "there" /\ PathTo(row.path, a)
    BY <1>12, <1>14 DEF Tree!There
  <2>. QED BY <1>3, <1>4, <1>10, <1>14, <2>1, TreeWrite DEF TreeInv
<1>16. /\ rest \subseteq call[r].found /\ {d} \cup rest = call[r].found /\ IsFiniteSet(rest)
       /\ rest \in SUBSET [id : Tree!Asset, path : AssetPath, depth : Int]
  <2>1. IsFiniteSet(call[r].found)
    BY <1>2 DEF PathsFit
  <2>2. rest \subseteq call[r].found
    BY <1>8
  <2>3. IsFiniteSet(rest)
    BY <2>1, <2>2, FS_Subset
  <2>. QED BY <1>2, <1>3, <1>8, <2>2, <2>3
<1>17. /\ c \in TreeCall /\ PathsFit(c) /\ c.pc # "path"
       /\ \/ c = Tree!Idle
          \/ /\ c.pc \in {"descend", "descendCustomer"} /\ c.found \subseteq call[r].found
             /\ c.customer = call[r].customer /\ c.to = call[r].to
  <2>1. CASE c = Tree!Idle
    BY <2>1, TreeShapes
  <2>2. CASE call[r].customer # call[r].from.customer
    <3>1. c = [call[r] EXCEPT !.pc = "descendCustomer", !.found = call[r].found]
      BY <1>9, <1>16, <2>2
    <3>2. /\ c \in Descent /\ c.pc = "descendCustomer" /\ c.found = call[r].found /\ c.customer = call[r].customer
          /\ c.to = call[r].to /\ c.from = call[r].from
      BY <1>2, <3>1 DEF Descent
    <3>3. c \in TreeCall
      BY <3>2 DEF TreeCall
    <3>4. PathsFit(c)
      BY <1>2, <3>2 DEF PathsFit
    <3>. QED BY <3>2, <3>3, <3>4
  <2>3. CASE call[r].customer = call[r].from.customer /\ rest # {}
    <3>1. c = [call[r] EXCEPT !.found = rest]
      BY <1>9, <2>3
    <3>2. /\ c \in Descent /\ c.pc = "descend" /\ c.found = rest /\ c.customer = call[r].customer
          /\ c.to = call[r].to /\ c.from = call[r].from
      BY <1>2, <1>16, <3>1 DEF Descent
    <3>3. c \in TreeCall
      BY <3>2 DEF TreeCall
    <3>4. PathsFit(c)
      BY <1>2, <1>16, <2>3, <3>2 DEF PathsFit
    <3>. QED BY <1>16, <3>2, <3>3, <3>4
  <2>. QED BY <1>9, <2>1, <2>2, <2>3
<1>18. /\ call' = [call EXCEPT ![r] = c] /\ calm' \in BOOLEAN
       /\ calm' => calm /\ \A q \in Request \ {r} : call[q].pc = "idle"
  BY <1>2, <1>11, TreeAlone
<1>19. ASSUME calm'
       PROVE  /\ KnowsTree(c)'
              /\ \A b \in Tree!Asset : Tree!There(b)' => Standing(asset[b].parent)'
              /\ \A b \in Tree!Asset : Named(b)'
  <2>1. /\ Head(call[r].to) = call[r].customer
        /\ \A x \in call[r].found :
             Head(x.path) = call[r].customer /\ (Tree!There(x.id) => asset[x.id].customer = call[r].customer)
    BY <1>2, <1>18, <1>19 DEF TreeInv, TreeCalm, KnowsTree
  <2>2. \A b \in Tree!Asset : (Tree!There(b) => Standing(asset[b].parent)) /\ Named(b)
    BY <1>2, <1>18, <1>19 DEF TreeInv, TreeCalm
  <2>3. Head(path) = call[r].customer /\ (Tree!There(a) => asset[a].customer = call[r].customer)
    BY <1>3, <1>4, <1>12, <2>1
  <2>4. \A b \in Tree!Asset : asset'[b].customer = asset[b].customer /\ asset'[b].parent = asset[b].parent
    BY <1>14, <1>15
  <2>5. KnowsTree(c)'
    <3>1. CASE c = Tree!Idle
      BY <3>1, TreeShapes DEF KnowsTree
    <3>2. CASE c # Tree!Idle
      <4>1. \A x \in c.found : x.id \in Tree!Asset
        BY <1>2, <1>17, <3>2
      <4>. QED BY <1>15, <1>17, <2>1, <2>4, <3>2, <4>1 DEF KnowsTree
    <3>. QED BY <3>1, <3>2
  <2>6. \A b \in Tree!Asset : Tree!There(b)' => Standing(asset[b].parent)'
    BY <1>15, <2>2, <2>4 DEF Standing
  <2>7. \A b \in Tree!Asset : Named(b)'
    BY <1>14, <1>15, <2>2, <2>3 DEF Named
  <2>. QED BY <2>5, <2>6, <2>7
<1>. QED BY <1>15, <1>17, <1>18, <1>19, TreeStep

LEMMA TreeDescendCustomer ==
  ASSUME TreeInv, NEW r \in Request, Tree!SaveDescendantCustomer(r)
  PROVE  TreeInv'
<1>. HIDE DEF TreeCall, Tree!Asset, Tree!AssetRow, Tree!NoAsset
<1>1. PICK d : d = NextFound(call[r].found)
  OBVIOUS
<1>2. /\ call[r].pc = "descendCustomer" /\ call[r].pc \notin {"idle", "path"} /\ call[r] \in Descent
      /\ PathsFit(call[r]) /\ call[r].customer \in AssetOwner
      /\ call[r].found \in SUBSET [id : Tree!Asset, path : AssetPath, depth : Int]
  BY TreeShapes, TreeShape DEF Tree!SaveDescendantCustomer, Tree!At, Descent, TreeInv
<1>3. d \in call[r].found /\ d.id \in Tree!Asset
  BY <1>1, <1>2, NextIsFound
<1>4. PICK a : a = d.id
  OBVIOUS
<1>5. PICK row : row = [asset[a] EXCEPT !.customer = call[r].customer]
  OBVIOUS
<1>6. PICK rest : rest = call[r].found \ {d}
  OBVIOUS
<1>7. PICK c : c = IF rest = {} THEN Tree!Idle ELSE [call[r] EXCEPT !.pc = "descend", !.found = rest]
  OBVIOUS
<1>8. asset' = Tree!Set(a, row)
  BY <1>1, <1>4, <1>5 DEF Tree!SaveDescendantCustomer, NextFound
<1>9. Tree!Goes(r, c)
  BY <1>1, <1>6, <1>7 DEF Tree!SaveDescendantCustomer, NextFound, Tree!Done
<1>10. asset[a] \in Tree!AssetRow
  BY <1>3, <1>4 DEF TreeInv, TreeRows
<1>11. /\ row \in Tree!AssetRow /\ row.state = asset[a].state /\ row.path = asset[a].path
       /\ row.customer = call[r].customer /\ row.parent = asset[a].parent
  BY <1>2, <1>5, <1>10 DEF Tree!AssetRow
<1>12. /\ TreeRows'
       /\ \A b : Tree!There(b)' = Tree!There(b)
       /\ \A b \in Tree!Asset : asset'[b] = IF b = a /\ Tree!There(a) THEN row ELSE asset[b]
  <2>1. Tree!There(a) => row.state = "there" /\ PathTo(row.path, a)
    BY <1>3, <1>4, <1>11 DEF Tree!There, TreeInv, TreeRows
  <2>. QED BY <1>3, <1>4, <1>8, <1>11, <2>1, TreeWrite DEF TreeInv
<1>13. rest \subseteq call[r].found /\ IsFiniteSet(rest) /\ rest \in SUBSET [id : Tree!Asset, path : AssetPath, depth : Int]
  <2>1. IsFiniteSet(call[r].found)
    BY <1>2 DEF PathsFit
  <2>2. rest \subseteq call[r].found
    BY <1>6
  <2>3. IsFiniteSet(rest)
    BY <2>1, <2>2, FS_Subset
  <2>. QED BY <1>2, <2>2, <2>3
<1>14. /\ c \in TreeCall /\ PathsFit(c) /\ c.pc # "path"
       /\ \/ c = Tree!Idle
          \/ /\ c.pc = "descend" /\ c.found \subseteq call[r].found
             /\ c.customer = call[r].customer /\ c.to = call[r].to
  <2>1. CASE rest = {}
    BY <1>7, <2>1, TreeShapes
  <2>2. CASE rest # {}
    <3>1. c = [call[r] EXCEPT !.pc = "descend", !.found = rest]
      BY <1>7, <2>2
    <3>2. /\ c \in Descent /\ c.pc = "descend" /\ c.found = rest /\ c.customer = call[r].customer
          /\ c.to = call[r].to /\ c.from = call[r].from
      BY <1>2, <1>13, <3>1 DEF Descent
    <3>3. c \in TreeCall
      BY <3>2 DEF TreeCall
    <3>4. PathsFit(c)
      BY <1>2, <1>13, <2>2, <3>2 DEF PathsFit
    <3>. QED BY <1>13, <3>2, <3>3, <3>4
  <2>. QED BY <2>1, <2>2
<1>15. /\ call' = [call EXCEPT ![r] = c] /\ calm' \in BOOLEAN
       /\ calm' => calm /\ \A q \in Request \ {r} : call[q].pc = "idle"
  BY <1>2, <1>9, TreeAlone
<1>16. ASSUME calm'
       PROVE  /\ KnowsTree(c)'
              /\ \A b \in Tree!Asset : Tree!There(b)' => Standing(asset[b].parent)'
              /\ \A b \in Tree!Asset : Named(b)'
  <2>1. /\ Head(call[r].to) = call[r].customer
        /\ \A x \in call[r].found :
             Head(x.path) = call[r].customer /\ (Tree!There(x.id) => asset[x.id].customer = call[r].customer)
    BY <1>2, <1>15, <1>16 DEF TreeInv, TreeCalm, KnowsTree
  <2>2. \A b \in Tree!Asset : (Tree!There(b) => Standing(asset[b].parent)) /\ Named(b)
    BY <1>2, <1>15, <1>16 DEF TreeInv, TreeCalm
  <2>3. Tree!There(a) => asset[a].customer = call[r].customer
    BY <1>3, <1>4, <2>1
  <2>4. \A b \in Tree!Asset : /\ asset'[b].parent = asset[b].parent /\ asset'[b].path = asset[b].path
                            /\ asset'[b].customer = asset[b].customer
    BY <1>11, <1>12, <2>3
  <2>5. KnowsTree(c)'
    <3>1. CASE c = Tree!Idle
      BY <3>1, TreeShapes DEF KnowsTree
    <3>2. CASE c # Tree!Idle
      <4>1. \A x \in c.found : x.id \in Tree!Asset
        BY <1>2, <1>14, <3>2
      <4>. QED BY <1>12, <1>14, <2>1, <2>4, <3>2, <4>1 DEF KnowsTree
    <3>. QED BY <3>1, <3>2
  <2>6. \A b \in Tree!Asset : Tree!There(b)' => Standing(asset[b].parent)'
    BY <1>12, <2>2, <2>4 DEF Standing
  <2>7. \A b \in Tree!Asset : Named(b)'
    BY <1>12, <2>2, <2>4 DEF Named
  <2>. QED BY <2>5, <2>6, <2>7
<1>. QED BY <1>12, <1>14, <1>15, <1>16, TreeStep

LEMMA TreeFail ==
  ASSUME TreeInv, NEW r \in Request, Tree!Fails(r), UNCHANGED asset
  PROVE  TreeInv'
<1>. HIDE DEF TreeCall
<1>1. ~calm' /\ calm' \in BOOLEAN /\ call' = [call EXCEPT ![r] = Tree!Idle]
  BY DEF Tree!Fails
<1>2. /\ call' \in [Request -> TreeCall]
      /\ \A q \in Request : call'[q] = IF q = r THEN Tree!Idle ELSE call[q]
  BY <1>1, TreeShapes DEF TreeInv
<1>3. \A q \in Request : PathsFit(call'[q])
  BY <1>2, TreeShapes DEF TreeInv
<1>4. TreeRows'
  BY DEF TreeInv, TreeRows, Tree!There
<1>. QED BY <1>1, <1>2, <1>3, <1>4 DEF TreeInv, TreeCalm

LEMMA TreeStart ==
  ASSUME Tree!AssetsInit
  PROVE  TreeInv
<1>1. /\ asset = [a \in Tree!Asset |-> IF a = 1 THEN Tree!FirstAsset ELSE Tree!UnbornAsset]
      /\ call = [r \in Request |-> Tree!Idle] /\ calm = TRUE
  BY DEF Tree!AssetsInit, Tree!RequestsInit
<1>2. PICK none : none = <<>>
  OBVIOUS
<1>3. PICK o : o = CHOOSE c \in AssetOwner : TRUE
  OBVIOUS
<1>4. PICK first : first = <<o, 1>>
  OBVIOUS
<1>5. /\ Tree!UnbornAsset = [state |-> "unborn", customer |-> o, parent |-> Tree!NoAsset, path |-> none, depth |-> 0]
      /\ Tree!FirstAsset = [state |-> "there", customer |-> o, parent |-> Tree!NoAsset, path |-> first, depth |-> 0]
  <2>1. PICK u : u = Tree!UnbornAsset
    OBVIOUS
  <2>2. u = [state |-> "unborn", customer |-> o, parent |-> Tree!NoAsset, path |-> none, depth |-> 0]
    BY <1>2, <1>3, <2>1 DEF Tree!UnbornAsset
  <2>3. Tree!FirstAsset = [u EXCEPT !.state = "there", !.path = first]
    <3>1. Tree!FirstAsset = [u EXCEPT !.state = "there", !.path = <<u.customer, 1>>]
      BY <2>1, Zenon DEF Tree!FirstAsset
    <3>2. <<u.customer, 1>> = first
      BY <1>4, <2>2
    <3>. QED BY <3>1, <3>2
  <2>4. Tree!FirstAsset = [state |-> "there", customer |-> o, parent |-> Tree!NoAsset, path |-> first, depth |-> 0]
    BY <2>2, <2>3
  <2>. QED BY <2>1, <2>2, <2>4
<1>. HIDE DEF Tree!UnbornAsset, Tree!FirstAsset
<1>6. none \in Seq(AssetOwner \cup Tree!Asset) /\ o \in AssetOwner
  BY <1>2, <1>3, EstateAssumption
<1>7. 1 \in Tree!Asset =>
        /\ first \in Seq(AssetOwner \cup Tree!Asset) /\ Len(first) = 2 /\ Head(first) = o /\ first[2] = 1
  <2>. HIDE DEF Tree!Asset
  <2>. QED BY <1>4, <1>6
<1>8. Tree!Idle \in TreeCall /\ Tree!Idle.pc = "idle" /\ PathsFit(Tree!Idle) /\ KnowsTree(Tree!Idle)
  BY DEF TreeCall, Tree!Idle, PathsFit, KnowsTree
<1>. HIDE DEF TreeCall, Tree!Asset
<1>9. asset \in [Tree!Asset -> Tree!AssetRow]
  BY <1>1, <1>5, <1>6, <1>7 DEF Tree!AssetRow
<1>10. \A a \in Tree!Asset : Tree!There(a) => a = 1 /\ asset[a] = Tree!FirstAsset
  BY <1>1, <1>5 DEF Tree!There
<1>11. TreeRows
  BY <1>5, <1>7, <1>9, <1>10 DEF TreeRows, PathTo, AssetPath
<1>12. TreeCalm
  <2>1. \A a \in Tree!Asset : (Tree!There(a) => Standing(asset[a].parent)) /\ Named(a)
    BY <1>5, <1>7, <1>10 DEF Standing, Named
  <2>. QED BY <1>1, <1>8, <2>1 DEF TreeCalm
<1>. QED BY <1>1, <1>8, <1>11, <1>12 DEF TreeInv

LEMMA TreeGoOn ==
  ASSUME TreeInv, [Tree!AssetsNext]_<<asset, requests>>
  PROVE  TreeInv'
<1>. HIDE DEF TreeCall
<1>1. CASE UNCHANGED <<asset, requests>>
  <2>1. UNCHANGED <<asset, call, calm>>
    BY <1>1 DEF requests
  <2>. QED BY <2>1 DEF TreeInv, TreeRows, TreeCalm, KnowsTree, Standing, Named, Tree!There, Tree!Children
<1>2. CASE Tree!AssetsNext
  <2>. SUFFICES ASSUME NEW r \in Request,
                  \/ \E c \in AssetOwner, p \in Tree!Asset \cup {Tree!NoAsset} :
                       \/ Tree!CreateAsset(r, c, p)
                       \/ \E a \in Tree!Asset : Tree!MoveAsset(r, a, p, c)
                  \/ \E a \in Tree!Asset : Tree!DeleteAsset(r, a)
                  \/ Tree!ReadAssetParent(r) \/ Tree!InsertAsset(r) \/ Tree!LookForChildren(r)
                  \/ Tree!DropAsset(r, {})
                  \/ Tree!ReadMoved(r) \/ Tree!ReadNewParent(r) \/ Tree!SaveCustomer(r) \/ Tree!SavePath(r)
                  \/ Tree!ReadBelow(r) \/ Tree!SelectBelow(r) \/ Tree!SaveDescendant(r)
                  \/ Tree!SaveDescendantCustomer(r)
                  \/ Tree!Fails(r) /\ UNCHANGED asset
                PROVE  TreeInv'
    BY <1>2 DEF Tree!AssetsNext, Tree!AssetSteps
  <2>. QED BY TreeCreate, TreeMove, TreeDelete, TreeReadParent, TreeInsert, TreeLook, TreeDrop, TreeReadMoved,
              TreeReadNewParent, TreeSaveCustomer, TreeSavePath, TreeReadBelow, TreeSelect, TreeDescend,
              TreeDescendCustomer, TreeFail
<1>. QED BY <1>1, <1>2

LEMMA TreeHolds ==
  ASSUME TreeInv
  PROVE  Tree!PathNamesCustomer /\ Tree!ParentsExist /\ Tree!PathEndsInSelf
<1>1. Tree!PathEndsInSelf
  BY DEF TreeInv, TreeRows, Tree!PathEndsInSelf, PathTo, Tree!Last
<1>2. ASSUME Tree!Settled, NEW a \in Tree!Asset, Tree!There(a)
      PROVE  Head(asset[a].path) = asset[a].customer
             /\ asset[a].parent \in {Tree!NoAsset} \cup {b \in Tree!Asset : Tree!There(b)}
  <2>1. Named(a) /\ Standing(asset[a].parent)
    BY <1>2 DEF Tree!Settled, Tree!At, TreeInv, TreeCalm
  <2>. QED BY <1>2, <2>1 DEF Named, Standing, Tree!There
<1>. QED BY <1>1, <1>2 DEF Tree!PathNamesCustomer, Tree!ParentsExist

-----------------------------------------------------------------------------
\* Devices, and the assets around them

AssetPc == {"assetParent", "insertAsset", "children", "dropAsset", "moved", "newParent", "customer", "path", "below",
            "select", "descend", "descendCustomer"}

IsAsset(x) == x = [state |-> x.state, customer |-> x.customer, parent |-> x.parent, path |-> x.path, depth |-> x.depth]

AssetRowsOK(S) == asset = [a \in S |-> asset[a]] /\ \A a \in S : IsAsset(asset[a])

\* The request r makes a statement about assets, and goes on with one or ends.
AssetRequest(r, c) ==
  /\ call[r].pc \in AssetPc \cup {"idle"} /\ c.pc \in AssetPc \cup {"idle"} /\ "pc" \in DOMAIN c
  /\ call' = [call EXCEPT ![r] = c]
  /\ \/ calm' = calm /\ call[r].pc # "idle"
     \/ calm' = (calm /\ \A q \in Request : call[q].pc = "idle")

\* The rows a statement about assets writes: one, or none; those in used stay.
AssetWrite(S, used) ==
  \/ UNCHANGED asset
  \/ \E a, row :
       /\ asset' = [asset EXCEPT ![a] = row] /\ IsAsset(row)
       /\ a \in S /\ a \in used /\ asset[a].state = "there" => row.state = "there"

\* A row written over the one that was read.
LEMMA SetAsset ==
  ASSUME NEW S, AssetRowsOK(S), NEW a \in S, NEW row,
         \/ \E o : row = [asset[a] EXCEPT !.customer = o]
         \/ \E o, p : row = [asset[a] EXCEPT !.customer = o, !.parent = p]
         \/ \E p, n : row = [asset[a] EXCEPT !.path = p, !.depth = n]
  PROVE  IsAsset(row) /\ row.state = asset[a].state
<1>1. PICK x : x = asset[a]
  OBVIOUS
<1>2. x = [state |-> x.state, customer |-> x.customer, parent |-> x.parent, path |-> x.path, depth |-> x.depth]
  BY <1>1 DEF AssetRowsOK, IsAsset
<1>3. ASSUME NEW o, row = [x EXCEPT !.customer = o] PROVE IsAsset(row) /\ row.state = x.state
  BY <1>2, <1>3 DEF IsAsset
<1>4. ASSUME NEW o, NEW p, row = [x EXCEPT !.customer = o, !.parent = p] PROVE IsAsset(row) /\ row.state = x.state
  BY <1>2, <1>4 DEF IsAsset
<1>5. ASSUME NEW p, NEW n, row = [x EXCEPT !.path = p, !.depth = n] PROVE IsAsset(row) /\ row.state = x.state
  BY <1>2, <1>5 DEF IsAsset
<1>. QED BY <1>1, <1>3, <1>4, <1>5

LEMMA AssetsWritten ==
  ASSUME NEW S, NEW used, AssetRowsOK(S), AssetWrite(S, used)
  PROVE  /\ AssetRowsOK(S)'
         /\ \A a \in S \cap used : asset[a].state = "there" => asset'[a].state = "there"
<1>1. CASE UNCHANGED asset
  BY <1>1 DEF AssetRowsOK
<1>2. ASSUME NEW b, NEW row, asset' = [asset EXCEPT ![b] = row], IsAsset(row),
             b \in S /\ b \in used /\ asset[b].state = "there" => row.state = "there"
      PROVE  /\ AssetRowsOK(S)'
             /\ \A a \in S \cap used : asset[a].state = "there" => asset'[a].state = "there"
  <2>1. \A a \in S : asset'[a] = IF a = b THEN row ELSE asset[a]
    BY <1>2 DEF AssetRowsOK
  <2>2. \A a \in S : IsAsset(asset'[a])
    BY <1>2, <2>1 DEF AssetRowsOK
  <2>3. asset' = [a \in S |-> asset'[a]]
    BY <1>2 DEF AssetRowsOK
  <2>4. AssetRowsOK(S)'
    BY <2>2, <2>3 DEF AssetRowsOK
  <2>. QED BY <1>2, <2>1, <2>4
<1>. QED BY <1>1, <1>2 DEF AssetWrite

LEMMA FleetReadSteps ==
  ASSUME NEW r \in Request, "pc" \in DOMAIN call[r],
         \/ \E c \in AssetOwner, p \in Fleet!Asset \cup {Fleet!NoAsset} :
              \/ Fleet!CreateAsset(r, c, p)
              \/ \E a \in Fleet!Asset : Fleet!MoveAsset(r, a, p, c)
         \/ \E a \in Fleet!Asset : Fleet!DeleteAsset(r, a)
         \/ Fleet!ReadAssetParent(r) \/ Fleet!LookForChildren(r) \/ Fleet!ReadMoved(r) \/ Fleet!ReadNewParent(r)
         \/ Fleet!ReadBelow(r) \/ Fleet!SelectBelow(r)
  PROVE  UNCHANGED asset /\ \E c : AssetRequest(r, c)
<1>. HIDE DEF Fleet!Asset, Fleet!NoAsset
<1>1. ASSUME NEW c, c.pc \in AssetPc, "pc" \in DOMAIN c, Fleet!Begin(r, c)
      PROVE  AssetRequest(r, c)
  BY <1>1 DEF Fleet!Begin, Fleet!At, AssetRequest
<1>2. ASSUME NEW c, c.pc \in AssetPc \cup {"idle"}, "pc" \in DOMAIN c, Fleet!Goes(r, c), call[r].pc \in AssetPc
      PROVE  AssetRequest(r, c)
  BY <1>2 DEF Fleet!Goes, AssetRequest, AssetPc
<1>3. ASSUME Fleet!Done(r), call[r].pc \in AssetPc
      PROVE  \E c : AssetRequest(r, c)
  BY <1>2, <1>3 DEF Fleet!Done, Fleet!Idle
<1>4. ASSUME NEW o, NEW p, Fleet!CreateAsset(r, o, p)
      PROVE  UNCHANGED asset /\ \E c : AssetRequest(r, c)
  <2>1. PICK c : c = [pc |-> IF p = Fleet!NoAsset THEN "insertAsset" ELSE "assetParent", customer |-> o, parent |-> p,
                      above |-> <<o>>, depth |-> 0]
    OBVIOUS
  <2>2. Fleet!Begin(r, c) /\ UNCHANGED asset
    BY <1>4, <2>1 DEF Fleet!CreateAsset
  <2>3. c.pc \in AssetPc /\ "pc" \in DOMAIN c
    BY <2>1 DEF AssetPc
  <2>. QED BY <1>1, <2>2, <2>3
<1>5. ASSUME NEW a, NEW p, NEW o, Fleet!MoveAsset(r, a, p, o)
      PROVE  UNCHANGED asset /\ \E c : AssetRequest(r, c)
  <2>1. PICK c : c = [pc |-> "moved", asset |-> a, parent |-> p, customer |-> o]
    OBVIOUS
  <2>2. Fleet!Begin(r, c) /\ UNCHANGED asset
    BY <1>5, <2>1 DEF Fleet!MoveAsset
  <2>3. c.pc \in AssetPc /\ "pc" \in DOMAIN c
    BY <2>1 DEF AssetPc
  <2>. QED BY <1>1, <2>2, <2>3
<1>6. ASSUME NEW a, Fleet!DeleteAsset(r, a)
      PROVE  UNCHANGED asset /\ \E c : AssetRequest(r, c)
  <2>1. PICK c : c = [pc |-> "children", asset |-> a, looks |-> 2]
    OBVIOUS
  <2>2. Fleet!Begin(r, c) /\ UNCHANGED asset
    BY <1>6, <2>1 DEF Fleet!DeleteAsset
  <2>3. c.pc \in AssetPc /\ "pc" \in DOMAIN c
    BY <2>1 DEF AssetPc
  <2>. QED BY <1>1, <2>2, <2>3
<1>7. CASE Fleet!ReadAssetParent(r)
  <2>1. UNCHANGED asset /\ call[r].pc = "assetParent"
    BY <1>7 DEF Fleet!ReadAssetParent, Fleet!At
  <2>2. PICK p : p = call[r].parent
    OBVIOUS
  <2>3. PICK c : c = [call[r] EXCEPT !.pc = "insertAsset", !.above = asset[p].path, !.depth = asset[p].depth + 1]
    OBVIOUS
  <2>4. Fleet!Goes(r, c) \/ Fleet!Done(r)
    BY <1>7, <2>2, <2>3 DEF Fleet!ReadAssetParent
  <2>5. c.pc = "insertAsset" /\ "pc" \in DOMAIN c
    BY <2>3
  <2>. QED BY <1>2, <1>3, <2>1, <2>4, <2>5 DEF AssetPc
<1>8. CASE Fleet!LookForChildren(r)
  <2>1. UNCHANGED asset /\ call[r].pc = "children"
    BY <1>8 DEF Fleet!LookForChildren, Fleet!At
  <2>2. \/ Fleet!Done(r) \/ Fleet!Goes(r, [pc |-> "dropAsset", asset |-> call[r].asset])
        \/ Fleet!Goes(r, [call[r] EXCEPT !.looks = 1])
    BY <1>8 DEF Fleet!LookForChildren
  <2>3. [call[r] EXCEPT !.looks = 1].pc = "children" /\ "pc" \in DOMAIN [call[r] EXCEPT !.looks = 1]
    BY <2>1
  <2>4. CASE Fleet!Goes(r, [call[r] EXCEPT !.looks = 1])
    BY <1>2, <2>1, <2>3, <2>4 DEF AssetPc
  <2>5. CASE Fleet!Goes(r, [pc |-> "dropAsset", asset |-> call[r].asset])
    BY <1>2, <2>1, <2>5 DEF AssetPc
  <2>6. CASE Fleet!Done(r)
    BY <1>3, <2>1, <2>6 DEF AssetPc
  <2>. QED BY <2>2, <2>4, <2>5, <2>6
<1>9. ASSUME NEW from, NEW above, NEW depth, Fleet!Placing(r, call[r], from, above, depth), call[r].pc \in AssetPc
      PROVE  \E c : AssetRequest(r, c)
  <2>1. PICK c : c = [pc |-> IF call[r].customer = from.customer THEN "path" ELSE "customer", asset |-> call[r].asset,
                      parent |-> call[r].parent, customer |-> call[r].customer, from |-> from,
                      to |-> Append(above, call[r].asset), depth |-> depth]
    OBVIOUS
  <2>2. Fleet!Goes(r, c)
    BY <1>9, <2>1 DEF Fleet!Placing
  <2>3. c.pc \in AssetPc /\ "pc" \in DOMAIN c
    BY <2>1 DEF AssetPc
  <2>. QED BY <1>2, <1>9, <2>2, <2>3
<1>10. CASE Fleet!ReadMoved(r)
  <2>1. UNCHANGED asset /\ call[r].pc = "moved"
    BY <1>10 DEF Fleet!ReadMoved, Fleet!At
  <2>2. PICK c : c = [pc |-> "newParent", asset |-> call[r].asset, parent |-> call[r].parent,
                      customer |-> call[r].customer, from |-> asset[call[r].asset]]
    OBVIOUS
  <2>3. \/ Fleet!Done(r) \/ Fleet!Placing(r, call[r], asset[call[r].asset], <<call[r].customer>>, 0)
        \/ Fleet!Goes(r, c)
    BY <1>10, <2>2 DEF Fleet!ReadMoved
  <2>4. c.pc \in AssetPc /\ "pc" \in DOMAIN c /\ call[r].pc \in AssetPc
    BY <2>1, <2>2 DEF AssetPc
  <2>. QED BY <1>2, <1>3, <1>9, <2>1, <2>3, <2>4
<1>11. CASE Fleet!ReadNewParent(r)
  <2>1. UNCHANGED asset /\ call[r].pc = "newParent"
    BY <1>11 DEF Fleet!ReadNewParent, Fleet!At
  <2>2. PICK p : p = asset[call[r].parent]
    OBVIOUS
  <2>3. Fleet!Done(r) \/ Fleet!Placing(r, call[r], call[r].from, p.path, p.depth + 1)
    BY <1>11, <2>2 DEF Fleet!ReadNewParent
  <2>4. call[r].pc \in AssetPc
    BY <2>1 DEF AssetPc
  <2>. QED BY <1>3, <1>9, <2>1, <2>3, <2>4
<1>12. CASE Fleet!ReadBelow(r)
  <2>1. UNCHANGED asset /\ call[r].pc = "below"
    BY <1>12 DEF Fleet!ReadBelow, Fleet!At
  <2>2. PICK c : c = [pc |-> "select", asset |-> call[r].asset, customer |-> call[r].customer, from |-> call[r].from,
                      to |-> call[r].to, depth |-> call[r].depth, path |-> asset[call[r].asset].path]
    OBVIOUS
  <2>3. Fleet!Done(r) \/ Fleet!Goes(r, c)
    BY <1>12, <2>2 DEF Fleet!ReadBelow
  <2>4. c.pc \in AssetPc /\ "pc" \in DOMAIN c /\ call[r].pc \in AssetPc
    BY <2>1, <2>2 DEF AssetPc
  <2>. QED BY <1>2, <1>3, <2>1, <2>3, <2>4
<1>13. CASE Fleet!SelectBelow(r)
  <2>1. UNCHANGED asset /\ call[r].pc = "select"
    BY <1>13 DEF Fleet!SelectBelow, Fleet!At
  <2>2. PICK found :
          found = {[id |-> b, path |-> asset[b].path, depth |-> asset[b].depth] : b \in Fleet!Descendants(call[r].path)}
    OBVIOUS
  <2>3. PICK c : c = [pc |-> "descend", customer |-> call[r].customer, from |-> call[r].from, to |-> call[r].to,
                      depth |-> call[r].depth, found |-> found]
    OBVIOUS
  <2>4. Fleet!Done(r) \/ Fleet!Goes(r, c)
    BY <1>13, <2>2, <2>3 DEF Fleet!SelectBelow
  <2>5. c.pc \in AssetPc /\ "pc" \in DOMAIN c /\ call[r].pc \in AssetPc
    BY <2>1, <2>3 DEF AssetPc
  <2>. QED BY <1>2, <1>3, <2>1, <2>4, <2>5
<1>. QED BY <1>4, <1>5, <1>6, <1>7, <1>8, <1>10, <1>11, <1>12, <1>13

LEMMA FleetWriteSteps ==
  ASSUME NEW r \in Request, "pc" \in DOMAIN call[r], NEW used, AssetRowsOK(Fleet!Asset),
         \/ Fleet!InsertAsset(r) \/ Fleet!DropAsset(r, used) \/ Fleet!SaveCustomer(r) \/ Fleet!SavePath(r)
         \/ Fleet!SaveDescendant(r) \/ Fleet!SaveDescendantCustomer(r)
  PROVE  AssetWrite(Fleet!Asset, used) /\ \E c : AssetRequest(r, c)
<1>. HIDE DEF Fleet!Asset, Fleet!NoAsset
<1>1. ASSUME NEW c, c.pc \in AssetPc \cup {"idle"}, "pc" \in DOMAIN c, Fleet!Goes(r, c), call[r].pc \in AssetPc
      PROVE  AssetRequest(r, c)
  BY <1>1 DEF Fleet!Goes, AssetRequest, AssetPc
<1>2. ASSUME Fleet!Done(r), call[r].pc \in AssetPc
      PROVE  \E c : AssetRequest(r, c)
  BY <1>1, <1>2 DEF Fleet!Done, Fleet!Idle
<1>3. ASSUME NEW a, NEW row, asset' = Fleet!Set(a, row), a \in Fleet!Asset => IsAsset(row) /\ row.state = asset[a].state
      PROVE  AssetWrite(Fleet!Asset, used)
  <2>1. CASE ~Fleet!There(a)
    BY <1>3, <2>1 DEF Fleet!Set, AssetWrite
  <2>2. CASE Fleet!There(a)
    <3>1. asset' = [asset EXCEPT ![a] = row] /\ a \in Fleet!Asset /\ asset[a].state = "there"
      BY <1>3, <2>2 DEF Fleet!Set, Fleet!There
    <3>. QED BY <1>3, <3>1 DEF AssetWrite
  <2>. QED BY <2>1, <2>2
<1>4. CASE Fleet!InsertAsset(r)
  <2>1. call[r].pc = "insertAsset" /\ Fleet!Done(r)
    BY <1>4 DEF Fleet!InsertAsset, Fleet!At
  <2>2. PICK a : a = Fleet!Min(Fleet!NewAssets)
    OBVIOUS
  <2>3. PICK path : path = Fleet!Append(call[r].above, a)
    OBVIOUS
  <2>4. PICK row : row = [state |-> "there", customer |-> call[r].customer, parent |-> call[r].parent,
                          path |-> path, depth |-> call[r].depth]
    OBVIOUS
  <2>5. asset' = [asset EXCEPT ![a] = row]
    BY <1>4, <2>2, <2>3, <2>4 DEF Fleet!InsertAsset
  <2>6. IsAsset(row) /\ row.state = "there"
    BY <2>4 DEF IsAsset
  <2>7. AssetWrite(Fleet!Asset, used)
    BY <2>5, <2>6 DEF AssetWrite
  <2>. QED BY <1>2, <2>1, <2>7 DEF AssetPc
<1>5. CASE Fleet!DropAsset(r, used)
  <2>1. call[r].pc = "dropAsset" /\ Fleet!Done(r)
    BY <1>5 DEF Fleet!DropAsset, Fleet!At
  <2>2. PICK a : a = call[r].asset
    OBVIOUS
  <2>3. PICK row : row = [Fleet!UnbornAsset EXCEPT !.state = "gone"]
    OBVIOUS
  <2>4. asset' = IF a \in used THEN asset ELSE [asset EXCEPT ![a] = row]
    BY <1>5, <2>2, <2>3 DEF Fleet!DropAsset
  <2>5. IsAsset(row)
    BY <2>3 DEF IsAsset, Fleet!UnbornAsset
  <2>6. AssetWrite(Fleet!Asset, used)
    BY <2>4, <2>5 DEF AssetWrite
  <2>. QED BY <1>2, <2>1, <2>6 DEF AssetPc
<1>6. CASE Fleet!SaveCustomer(r)
  <2>1. PICK c : c = [call[r] EXCEPT !.pc = "path"]
    OBVIOUS
  <2>2. call[r].pc = "customer" /\ Fleet!Goes(r, c)
    BY <1>6, <2>1 DEF Fleet!SaveCustomer, Fleet!At
  <2>3. c.pc = "path" /\ "pc" \in DOMAIN c
    BY <2>1
  <2>4. PICK a : a = call[r].asset
    OBVIOUS
  <2>5. PICK row : row = [asset[a] EXCEPT !.customer = call[r].customer, !.parent = call[r].parent]
    OBVIOUS
  <2>6. asset' = Fleet!Set(a, row)
    BY <1>6, <2>4, <2>5 DEF Fleet!SaveCustomer
  <2>7. a \in Fleet!Asset => IsAsset(row) /\ row.state = asset[a].state
    BY <2>5, SetAsset
  <2>. QED BY <1>1, <1>3, <2>2, <2>3, <2>6, <2>7 DEF AssetPc
<1>7. CASE Fleet!SavePath(r)
  <2>1. PICK c : c = [call[r] EXCEPT !.pc = "below"]
    OBVIOUS
  <2>2. call[r].pc = "path" /\ Fleet!Goes(r, c)
    BY <1>7, <2>1 DEF Fleet!SavePath, Fleet!At
  <2>3. c.pc = "below" /\ "pc" \in DOMAIN c
    BY <2>1
  <2>4. PICK a : a = call[r].asset
    OBVIOUS
  <2>5. PICK row : row = [asset[a] EXCEPT !.path = call[r].to, !.depth = call[r].depth]
    OBVIOUS
  <2>6. asset' = Fleet!Set(a, row)
    BY <1>7, <2>4, <2>5 DEF Fleet!SavePath
  <2>7. a \in Fleet!Asset => IsAsset(row) /\ row.state = asset[a].state
    BY <2>5, SetAsset
  <2>. QED BY <1>1, <1>3, <2>2, <2>3, <2>6, <2>7 DEF AssetPc
<1>8. CASE Fleet!SaveDescendant(r)
  <2>. DEFINE D == CHOOSE x \in call[r].found :
                     \A y \in call[r].found : x.depth < y.depth \/ (x.depth = y.depth /\ x.id <= y.id)
  <2>1. PICK d, rest : d = D /\ rest = call[r].found \ {D}
    OBVIOUS
  <2>2. call[r].pc = "descend"
    BY <1>8 DEF Fleet!SaveDescendant, Fleet!At
  <2>3. PICK p, n : p = Fleet!Replace(d.path, call[r].from.path, call[r].to)
                    /\ n = d.depth + call[r].depth - call[r].from.depth
    OBVIOUS
  <2>4. PICK row : row = [asset[d.id] EXCEPT !.path = p, !.depth = n]
    OBVIOUS
  <2>5. asset' = Fleet!Set(d.id, row)
    BY <1>8, <2>1, <2>3, <2>4 DEF Fleet!SaveDescendant
  <2>6. d.id \in Fleet!Asset => IsAsset(row) /\ row.state = asset[d.id].state
    BY <2>4, SetAsset
  <2>7. PICK c, e : c = [call[r] EXCEPT !.pc = "descendCustomer", !.found = {d} \cup rest]
                    /\ e = [call[r] EXCEPT !.found = rest]
    OBVIOUS
  <2>8. Fleet!Goes(r, c) \/ Fleet!Done(r) \/ Fleet!Goes(r, e)
    BY <1>8, <2>1, <2>7 DEF Fleet!SaveDescendant
  <2>9. c.pc = "descendCustomer" /\ "pc" \in DOMAIN c /\ e.pc = "descend" /\ "pc" \in DOMAIN e
    BY <2>2, <2>7
  <2>10. AssetWrite(Fleet!Asset, used)
    BY <1>3, <2>5, <2>6
  <2>. QED BY <1>1, <1>2, <2>2, <2>8, <2>9, <2>10 DEF AssetPc
<1>9. CASE Fleet!SaveDescendantCustomer(r)
  <2>. DEFINE D == CHOOSE x \in call[r].found :
                     \A y \in call[r].found : x.depth < y.depth \/ (x.depth = y.depth /\ x.id <= y.id)
  <2>1. PICK d, rest : d = D /\ rest = call[r].found \ {D}
    OBVIOUS
  <2>2. call[r].pc = "descendCustomer"
    BY <1>9 DEF Fleet!SaveDescendantCustomer, Fleet!At
  <2>3. PICK row : row = [asset[d.id] EXCEPT !.customer = call[r].customer]
    OBVIOUS
  <2>4. asset' = Fleet!Set(d.id, row)
    BY <1>9, <2>1, <2>3 DEF Fleet!SaveDescendantCustomer
  <2>5. d.id \in Fleet!Asset => IsAsset(row) /\ row.state = asset[d.id].state
    BY <2>3, SetAsset
  <2>6. PICK c : c = [call[r] EXCEPT !.pc = "descend", !.found = rest]
    OBVIOUS
  <2>7. Fleet!Goes(r, c) \/ Fleet!Done(r)
    BY <1>9, <2>1, <2>6 DEF Fleet!SaveDescendantCustomer
  <2>8. c.pc = "descend" /\ "pc" \in DOMAIN c
    BY <2>6
  <2>9. AssetWrite(Fleet!Asset, used)
    BY <1>3, <2>4, <2>5
  <2>. QED BY <1>1, <1>2, <2>2, <2>7, <2>8, <2>9 DEF AssetPc
<1>. QED BY <1>4, <1>5, <1>6, <1>7, <1>8, <1>9

LEMMA FleetAssetSteps ==
  ASSUME NEW r \in Request, "pc" \in DOMAIN call[r], NEW used, AssetRowsOK(Fleet!Asset), Fleet!AssetSteps(r, used)
  PROVE  AssetWrite(Fleet!Asset, used) /\ \E c : AssetRequest(r, c)
<1>1. CASE \/ \E c \in AssetOwner, p \in Fleet!Asset \cup {Fleet!NoAsset} :
                \/ Fleet!CreateAsset(r, c, p)
                \/ \E a \in Fleet!Asset : Fleet!MoveAsset(r, a, p, c)
           \/ \E a \in Fleet!Asset : Fleet!DeleteAsset(r, a)
           \/ Fleet!ReadAssetParent(r) \/ Fleet!LookForChildren(r) \/ Fleet!ReadMoved(r) \/ Fleet!ReadNewParent(r)
           \/ Fleet!ReadBelow(r) \/ Fleet!SelectBelow(r)
  BY <1>1, FleetReadSteps DEF AssetWrite
<1>2. CASE \/ Fleet!InsertAsset(r) \/ Fleet!DropAsset(r, used) \/ Fleet!SaveCustomer(r) \/ Fleet!SavePath(r)
           \/ Fleet!SaveDescendant(r) \/ Fleet!SaveDescendantCustomer(r)
  BY <1>2, FleetWriteSteps
<1>. QED BY <1>1, <1>2 DEF Fleet!AssetSteps

-----------------------------------------------------------------------------
\* The invariant of devices

IsDevice(x) == x = [state |-> x.state, asset |-> x.asset, customer |-> x.customer, external |-> x.external,
                    metadata |-> x.metadata, version |-> x.version]

DeviceOK(d) ==
  LET x == device[d] IN
  /\ IsDevice(x) /\ x.version \in Nat
  /\ x.state = "unborn" => merged[d] = {}
  /\ x.state = "there" =>
       /\ x.asset \in Fleet!Asset /\ asset[x.asset].state = "there"
       /\ <<x.asset, x.customer>> \in owners
       /\ merged[d] \subseteq x.metadata

FleetRows ==
  /\ AssetRowsOK(Fleet!Asset)
  /\ \A a \in Fleet!Asset : asset[a].state = "there" => <<a, asset[a].customer>> \in owners
  /\ device = [d \in Fleet!Device |-> device[d]] /\ merged = [d \in Fleet!Device |-> merged[d]]
  /\ \A d \in Fleet!Device : DeviceOK(d)

\* What an update has read of a device that still is of the version it read.
SeenDevice(c) ==
  LET x == device[c.device] IN
  /\ c.version \in Nat /\ x.state # "unborn"
  /\ x.state = "there" => c.version =< x.version /\ (c.version = x.version => c.metadata = x.metadata)

FleetCall(c) ==
  /\ "pc" \in DOMAIN c
  /\ c.pc = "external" =>
       /\ {"device", "external"} \subseteq DOMAIN c
       /\ \/ c.device \in Fleet!Device
          \/ c.device = 0 /\ {"asset", "customer"} \subseteq DOMAIN c /\ <<c.asset, c.customer>> \in owners
  /\ c.pc \in {"readDevice", "writeDevice", "dropDevice", "newAsset", "moveDevice"} => c.device \in Fleet!Device
  /\ c.pc \in {"insertDevice", "moveDevice"} => <<c.asset, c.customer>> \in owners
  /\ c.pc = "writeDevice" => SeenDevice(c)

Holds(d, e) == device[d].state = "there" /\ device[d].external = e

NoTwoHold == \A e \in ExternalId : \A x, y \in Fleet!Device : Holds(x, e) /\ Holds(y, e) => x = y

\* The external id that a request is about to write is nobody else's.
FreeFor(c) == c.external \in ExternalId =>
  /\ c.pc = "insertDevice" => \A x \in Fleet!Device : ~Holds(x, c.external)
  /\ c.pc \in {"readDevice", "writeDevice"} => \A x \in Fleet!Device : Holds(x, c.external) => x = c.device

FleetCalm == calm =>
  /\ \A q, r \in Request : call[q].pc # "idle" /\ call[r].pc # "idle" => q = r
  /\ NoTwoHold
  /\ \A r \in Request : FreeFor(call[r])

FleetInv ==
  /\ FleetRows
  /\ call = [r \in Request |-> call[r]] /\ calm \in BOOLEAN
  /\ \A r \in Request : FleetCall(call[r])
  /\ FleetCalm

\* A request that overlaps another, or that fails, ends the calm.
CalmStep(r) == calm' \in BOOLEAN /\ (calm' => calm /\ (call[r].pc = "idle" => \A q \in Request : call[q].pc = "idle"))

\* Rows of devices are not used again, and versions count what changes the metadata.
Ages == \A d \in Fleet!Device : device[d].state # "unborn" =>
  /\ device'[d].state # "unborn"
  /\ device'[d].state = "there" =>
       /\ device[d].state = "there" /\ device'[d].version \in Nat /\ device[d].version =< device'[d].version
       /\ device[d].version = device'[d].version => device[d].metadata = device'[d].metadata

LEMMA FleetCallStays ==
  ASSUME NEW c, FleetCall(c), owners \subseteq owners', Ages, \A d \in Fleet!Device : DeviceOK(d)
  PROVE  FleetCall(c)'
<1>1. ASSUME c.pc = "writeDevice"
      PROVE  SeenDevice(c)'
  <2>1. PICK d \in Fleet!Device : d = c.device
    BY <1>1 DEF FleetCall
  <2>2. c.version \in Nat /\ device[d].state # "unborn"
        /\ (device[d].state = "there" =>
              c.version =< device[d].version /\ (c.version = device[d].version => c.metadata = device[d].metadata))
    BY <1>1, <2>1 DEF FleetCall, SeenDevice
  <2>3. device[d].version \in Nat
    BY <2>1 DEF DeviceOK
  <2>4. device'[d].state # "unborn"
        /\ (device'[d].state = "there" =>
              c.version =< device'[d].version /\ (c.version = device'[d].version => c.metadata = device'[d].metadata))
    BY <2>1, <2>2, <2>3 DEF Ages
  <2>. QED BY <2>1, <2>2, <2>4 DEF SeenDevice
<1>. QED BY <1>1 DEF FleetCall

\* A step of r, after which it is about to make the statement of c.
LEMMA FleetStep ==
  ASSUME FleetInv, NEW r \in Request, NEW c, call' = [call EXCEPT ![r] = c], owners \subseteq owners', Ages,
         FleetRows', FleetCall(c)', CalmStep(r), calm' => NoTwoHold' /\ FreeFor(c)'
  PROVE  FleetInv'
<1>1. call' = [q \in Request |-> call'[q]] /\ \A q \in Request : call'[q] = IF q = r THEN c ELSE call[q]
  BY DEF FleetInv
<1>2. ASSUME NEW q \in Request
      PROVE  FleetCall(call[q])'
  <2>1. PICK e : e = IF q = r THEN c ELSE call[q]
    OBVIOUS
  <2>2. FleetCall(e)'
    <3>1. CASE q = r
      BY <2>1, <3>1
    <3>2. CASE q # r
      <4>1. FleetCall(e)
        BY <2>1, <3>2 DEF FleetInv
      <4>2. \A d \in Fleet!Device : DeviceOK(d)
        BY DEF FleetInv, FleetRows
      <4>. QED BY <4>1, <4>2, FleetCallStays
    <3>. QED BY <3>1, <3>2
  <2>3. e = call'[q]
    BY <1>1, <2>1
  <2>. QED BY <2>2, <2>3 DEF FleetCall, SeenDevice
<1>3. calm' \in BOOLEAN
  BY DEF CalmStep
<1>4. ASSUME calm', NEW q \in Request, q # r
      PROVE  call'[q].pc = "idle"
  BY <1>1, <1>4 DEF CalmStep, FleetInv, FleetCalm
<1>5. ASSUME calm', NEW q \in Request
      PROVE  FreeFor(call[q])'
  <2>1. CASE q = r
    <3>1. c = call'[q]
      BY <1>1, <2>1
    <3>. QED BY <1>5, <3>1 DEF FreeFor, Holds
  <2>2. CASE q # r
    <3>1. PICK e : e = call'[q]
      OBVIOUS
    <3>2. e.pc = "idle"
      BY <1>4, <1>5, <2>2, <3>1
    <3>. QED BY <3>1, <3>2 DEF FreeFor
  <2>. QED BY <2>1, <2>2
<1>6. FleetCalm'
  BY <1>4, <1>5 DEF FleetCalm
<1>7. \A q \in Request : FleetCall(call[q])'
  BY <1>2
<1>8. FleetRows'
  OBVIOUS
<1>. HIDE DEF FleetRows, FleetCall, FleetCalm
<1>. QED BY <1>1, <1>7, <1>3, <1>6, <1>8 DEF FleetInv

\* A step that writes nothing.
LEMMA FleetReads ==
  ASSUME FleetInv, NEW r \in Request, NEW c, call' = [call EXCEPT ![r] = c],
         UNCHANGED <<asset, device, owners, merged>>, FleetCall(c), CalmStep(r), calm' => FreeFor(c)
  PROVE  FleetInv'
<1>1. Ages
  <2>1. device' = device /\ \A d \in Fleet!Device : device[d].version \in Nat
    BY DEF FleetInv, FleetRows, DeviceOK
  <2>. QED BY <2>1 DEF Ages
<1>2. FleetRows'
  BY DEF FleetInv, FleetRows, DeviceOK, AssetRowsOK
<1>3. FleetCall(c)'
  BY DEF FleetCall, SeenDevice
<1>4. calm' => NoTwoHold' /\ FreeFor(c)'
  BY DEF CalmStep, FleetInv, FleetCalm, NoTwoHold, FreeFor, Holds
<1>. QED BY <1>1, <1>2, <1>3, <1>4, FleetStep

-----------------------------------------------------------------------------
\* Steps of devices

LEMMA CalmSteps ==
  ASSUME calm \in BOOLEAN, NEW r \in Request
  PROVE  /\ \A c : Fleet!Begin(r, c) => call[r].pc = "idle" /\ call' = [call EXCEPT ![r] = c] /\ CalmStep(r)
         /\ \A c : call[r].pc # "idle" /\ Fleet!Goes(r, c) => call' = [call EXCEPT ![r] = c] /\ CalmStep(r)
         /\ call[r].pc # "idle" /\ Fleet!Done(r) => call' = [call EXCEPT ![r] = Fleet!Idle] /\ CalmStep(r)
         /\ Fleet!Fails(r) => call' = [call EXCEPT ![r] = Fleet!Idle] /\ CalmStep(r)
         /\ \A c : AssetRequest(r, c) => call' = [call EXCEPT ![r] = c] /\ CalmStep(r)
<1>1. ASSUME NEW c, Fleet!Begin(r, c)
      PROVE  call[r].pc = "idle" /\ call' = [call EXCEPT ![r] = c] /\ CalmStep(r)
  <2>1. calm' = (calm /\ \A q \in Request : call[q].pc = "idle") /\ call[r].pc = "idle"
        /\ call' = [call EXCEPT ![r] = c]
    BY <1>1 DEF Fleet!Begin, Fleet!At
  <2>2. CASE calm'
    BY <2>1, <2>2 DEF CalmStep
  <2>3. CASE ~calm'
    BY <2>1, <2>3 DEF CalmStep
  <2>. QED BY <2>1, <2>2, <2>3
<1>2. ASSUME NEW c, call[r].pc # "idle", Fleet!Goes(r, c)
      PROVE  call' = [call EXCEPT ![r] = c] /\ CalmStep(r)
  BY <1>2 DEF Fleet!Goes, CalmStep
<1>3. ASSUME call[r].pc # "idle", Fleet!Done(r)
      PROVE  call' = [call EXCEPT ![r] = Fleet!Idle] /\ CalmStep(r)
  BY <1>2, <1>3 DEF Fleet!Done
<1>4. ASSUME Fleet!Fails(r)
      PROVE  call' = [call EXCEPT ![r] = Fleet!Idle] /\ CalmStep(r)
  BY <1>4 DEF Fleet!Fails, CalmStep
<1>5. ASSUME NEW c, AssetRequest(r, c)
      PROVE  call' = [call EXCEPT ![r] = c] /\ CalmStep(r)
  <2>1. call' = [call EXCEPT ![r] = c]
        /\ \/ calm' = calm /\ call[r].pc # "idle"
           \/ calm' = (calm /\ \A q \in Request : call[q].pc = "idle")
    BY <1>5 DEF AssetRequest
  <2>2. CASE calm' = calm /\ call[r].pc # "idle"
    BY <2>1, <2>2 DEF CalmStep
  <2>3. CASE calm' = (calm /\ \A q \in Request : call[q].pc = "idle")
    <3>1. CASE \A q \in Request : call[q].pc = "idle"
      <4>1. calm' = calm
        BY <2>3, <3>1
      <4>. QED BY <2>1, <4>1, <3>1 DEF CalmStep
    <3>2. CASE ~ \A q \in Request : call[q].pc = "idle"
      <4>1. calm' = FALSE
        BY <2>3, <3>2
      <4>. QED BY <2>1, <4>1 DEF CalmStep
    <3>. QED BY <3>1, <3>2
  <2>. QED BY <2>1, <2>2, <2>3
<1>. QED BY <1>1, <1>2, <1>3, <1>4, <1>5

LEMMA FleetIdle ==
  FleetCall(Fleet!Idle) /\ FreeFor(Fleet!Idle) /\ FleetCall(Fleet!Idle)' /\ FreeFor(Fleet!Idle)'
<1>1. PICK c : c = Fleet!Idle
  OBVIOUS
<1>2. "pc" \in DOMAIN c /\ c.pc = "idle"
  BY <1>1 DEF Fleet!Idle
<1>3. FleetCall(c) /\ FleetCall(c)'
  BY <1>2 DEF FleetCall
<1>4. FreeFor(c) /\ FreeFor(c)'
  BY <1>2 DEF FreeFor
<1>. QED BY <1>1, <1>3, <1>4

\* Whatever is written about assets, devices keep the asset they are in, and a customer
\* that it has had.
LEMMA FleetAssets ==
  ASSUME FleetInv, NEW r \in Request, Fleet!AssetSteps(r, Fleet!InUse),
         owners' = owners \cup {<<a, asset'[a].customer>> : a \in {x \in Fleet!Asset : Fleet!There(x)'}},
         UNCHANGED <<device, merged>>
  PROVE  FleetInv'
<1>1. PICK used : used = Fleet!InUse
  OBVIOUS
<1>2. AssetWrite(Fleet!Asset, used) /\ \E c : AssetRequest(r, c)
  <2>1. "pc" \in DOMAIN call[r] /\ AssetRowsOK(Fleet!Asset) /\ Fleet!AssetSteps(r, used)
    BY <1>1 DEF FleetInv, FleetRows, FleetCall
  <2>. QED BY <2>1, FleetAssetSteps
<1>3. PICK c : AssetRequest(r, c)
  BY <1>2
<1>4. call' = [call EXCEPT ![r] = c] /\ CalmStep(r)
  BY <1>3, CalmSteps DEF FleetInv
<1>5. "pc" \in DOMAIN c /\ c.pc \in AssetPc \cup {"idle"}
  BY <1>3 DEF AssetRequest
<1>6. FleetCall(c)' /\ FreeFor(c)'
  BY <1>5 DEF FleetCall, FreeFor, AssetPc
<1>7. AssetRowsOK(Fleet!Asset)' /\ \A a \in Fleet!Asset \cap used : asset[a].state = "there" => asset'[a].state = "there"
  BY <1>2, AssetsWritten DEF FleetInv, FleetRows
<1>8. owners \subseteq owners'
      /\ \A a \in Fleet!Asset : asset'[a].state = "there" => <<a, asset'[a].customer>> \in owners'
  BY DEF Fleet!There
<1>9. Ages
  <2>1. device' = device /\ \A d \in Fleet!Device : device[d].version \in Nat
    BY DEF FleetInv, FleetRows, DeviceOK
  <2>. QED BY <2>1 DEF Ages
<1>10. ASSUME NEW d \in Fleet!Device
       PROVE  DeviceOK(d)'
  <2>1. DeviceOK(d)
    BY DEF FleetInv, FleetRows
  <2>2. ASSUME device[d].state = "there"
        PROVE  asset'[device[d].asset].state = "there" /\ <<device[d].asset, device[d].customer>> \in owners'
    <3>1. device[d].asset \in Fleet!Asset \cap used
      BY <1>1, <2>1, <2>2 DEF DeviceOK, Fleet!InUse, Fleet!Installed
    <3>. QED BY <1>7, <1>8, <2>1, <2>2, <3>1 DEF DeviceOK
  <2>. QED BY <2>1, <2>2 DEF DeviceOK
<1>11. FleetRows'
  BY <1>7, <1>8, <1>10 DEF FleetRows, FleetInv
<1>12. calm' => NoTwoHold'
  BY <1>4 DEF CalmStep, FleetInv, FleetCalm, NoTwoHold, Holds
<1>. QED BY <1>4, <1>6, <1>8, <1>9, <1>11, <1>12, FleetStep

-----------------------------------------------------------------------------
\* Requests about devices, and what they read

LEMMA FleetEnds ==
  ASSUME FleetInv, NEW r \in Request, UNCHANGED <<asset, device, owners, merged>>,
         Fleet!Fails(r) \/ (call[r].pc # "idle" /\ Fleet!Done(r))
  PROVE  FleetInv'
<1>1. PICK c : c = Fleet!Idle
  OBVIOUS
<1>2. call' = [call EXCEPT ![r] = c] /\ CalmStep(r)
  BY <1>1, CalmSteps DEF FleetInv
<1>3. FleetCall(c) /\ FreeFor(c)
  BY <1>1, FleetIdle
<1>. QED BY <1>2, <1>3, FleetReads

LEMMA FleetRequests ==
  ASSUME FleetInv, NEW r \in Request,
         \/ \E a \in Fleet!Asset, e \in ExternalId \cup {Fleet!NoId} : Fleet!CreateDevice(r, a, e)
         \/ \E d \in Fleet!Device :
              \/ \E e \in ExternalId \cup {Fleet!NoId} : Fleet!UpdateDevice(r, d, e)
              \/ \E a \in Fleet!Asset : Fleet!MoveDevice(r, d, a)
              \/ Fleet!DeleteDevice(r, d)
  PROVE  FleetInv'
<1>. DEFINE Same == UNCHANGED <<asset, device, owners, merged>>
<1>1. Fleet!Reads => Same
  BY DEF Fleet!Reads, Fleet!deviceTables
<1>2. ASSUME NEW c, Fleet!Begin(r, c), Same, FleetCall(c), calm' => FreeFor(c)
      PROVE  FleetInv'
  <2>1. call' = [call EXCEPT ![r] = c] /\ CalmStep(r)
    BY <1>2, CalmSteps DEF FleetInv
  <2>. QED BY <1>2, <2>1, FleetReads
<1>3. ASSUME NEW a \in Fleet!Asset, NEW e \in ExternalId \cup {Fleet!NoId}, Fleet!CreateDevice(r, a, e)
      PROVE  FleetInv'
  <2>1. PICK o : o = asset[a].customer
    OBVIOUS
  <2>2. PICK c : c = [pc |-> IF e = Fleet!NoId THEN "insertDevice" ELSE "external", device |-> 0, asset |-> a,
                      customer |-> o, external |-> e]
    OBVIOUS
  <2>3. Fleet!Begin(r, c) /\ Same /\ asset[a].state = "there"
    BY <1>1, <1>3, <2>1, <2>2 DEF Fleet!CreateDevice, Fleet!NoAsset, Fleet!There
  <2>4. <<a, o>> \in owners
    BY <2>1, <2>3 DEF FleetInv, FleetRows
  <2>5. FleetCall(c)
    BY <2>2, <2>4 DEF FleetCall
  <2>6. FreeFor(c)
    BY <2>2, EstateAssumption DEF FreeFor
  <2>. QED BY <1>2, <2>3, <2>5, <2>6
<1>4. ASSUME NEW d \in Fleet!Device, NEW e \in ExternalId \cup {Fleet!NoId}, Fleet!UpdateDevice(r, d, e)
      PROVE  FleetInv'
  <2>1. PICK c : c = [pc |-> IF e \in {Fleet!NoId, device[d].external} THEN "readDevice" ELSE "external",
                      device |-> d, external |-> e]
    OBVIOUS
  <2>2. Fleet!Begin(r, c) /\ Same /\ device[d].state = "there"
    BY <1>1, <1>4, <2>1 DEF Fleet!UpdateDevice, Fleet!Installed
  <2>3. FleetCall(c)
    BY <2>1 DEF FleetCall
  <2>4. calm' => NoTwoHold
    BY <2>2, CalmSteps DEF FleetInv, FleetCalm, CalmStep
  <2>5. c.external = e /\ c.device = d /\ c.pc # "insertDevice" /\ (c.pc \in {"readDevice", "writeDevice"} => e \in {Fleet!NoId, device[d].external})
    BY <2>1
  <2>6. calm' => FreeFor(c)
    BY <2>2, <2>4, <2>5, EstateAssumption DEF FreeFor, NoTwoHold, Holds
  <2>. QED BY <1>2, <2>2, <2>3, <2>6
<1>5. ASSUME NEW d \in Fleet!Device, NEW a \in Fleet!Asset, Fleet!MoveDevice(r, d, a)
      PROVE  FleetInv'
  <2>1. PICK c : c = [pc |-> "newAsset", device |-> d, asset |-> a]
    OBVIOUS
  <2>2. Fleet!Begin(r, c) /\ Same
    BY <1>1, <1>5, <2>1 DEF Fleet!MoveDevice
  <2>3. FleetCall(c) /\ FreeFor(c)
    BY <2>1 DEF FleetCall, FreeFor
  <2>. QED BY <1>2, <2>2, <2>3
<1>6. ASSUME NEW d \in Fleet!Device, Fleet!DeleteDevice(r, d)
      PROVE  FleetInv'
  <2>1. PICK c : c = [pc |-> "dropDevice", device |-> d]
    OBVIOUS
  <2>2. Fleet!Begin(r, c) /\ Same
    BY <1>1, <1>6, <2>1 DEF Fleet!DeleteDevice
  <2>3. FleetCall(c) /\ FreeFor(c)
    BY <2>1 DEF FleetCall, FreeFor
  <2>. QED BY <1>2, <2>2, <2>3
<1>. QED BY <1>3, <1>4, <1>5, <1>6

LEMMA FleetReading ==
  ASSUME FleetInv, NEW r \in Request,
         Fleet!LookForExternal(r) \/ Fleet!ReadDevice(r) \/ Fleet!ReadNewAsset(r)
  PROVE  FleetInv'
<1>. DEFINE Same == UNCHANGED <<asset, device, owners, merged>>
<1>1. Fleet!Reads => Same
  BY DEF Fleet!Reads, Fleet!deviceTables
<1>2. PICK s : s = call[r]
  OBVIOUS
<1>3. ASSUME NEW c, s.pc # "idle", Fleet!Goes(r, c), Same, FleetCall(c), calm' => FreeFor(c)
      PROVE  FleetInv'
  <2>1. call' = [call EXCEPT ![r] = c] /\ CalmStep(r)
    BY <1>2, <1>3, CalmSteps DEF FleetInv
  <2>. QED BY <1>3, <2>1, FleetReads
<1>4. FleetCall(s)
  BY <1>2 DEF FleetInv
<1>5. CASE Fleet!LookForExternal(r)
  <2>1. s.pc = "external" /\ Same
    BY <1>1, <1>2, <1>5 DEF Fleet!LookForExternal, Fleet!At
  <2>2. PICK c : c = [s EXCEPT !.pc = IF s.device = 0 THEN "insertDevice" ELSE "readDevice"]
    OBVIOUS
  <2>3. Fleet!Done(r) \/ (Fleet!Goes(r, c) /\ Fleet!Holders(s.external) \ {s.device} = {})
    BY <1>2, <1>5, <2>2 DEF Fleet!LookForExternal, Fleet!NoAsset
  <2>4. /\ {"pc", "device", "external"} \subseteq DOMAIN s
        /\ \/ s.device \in Fleet!Device
           \/ s.device = 0 /\ {"asset", "customer"} \subseteq DOMAIN s /\ <<s.asset, s.customer>> \in owners
    BY <1>4, <2>1 DEF FleetCall
  <2>5. 0 \notin Fleet!Device
    BY DEF Fleet!Device
  <2>6. "pc" \in DOMAIN c /\ c.device = s.device /\ c.external = s.external
        /\ c.pc = IF s.device = 0 THEN "insertDevice" ELSE "readDevice"
    BY <2>2, <2>4
  <2>7. s.device = 0 => c.asset = s.asset /\ c.customer = s.customer
    BY <2>2, <2>4, <2>5
  <2>8. FleetCall(c)
    BY <2>4, <2>5, <2>6, <2>7 DEF FleetCall
  <2>9. Fleet!Holders(s.external) \ {s.device} = {} => FreeFor(c)
    BY <2>5, <2>6 DEF FreeFor, Fleet!Holders, Fleet!Installed, Holds
  <2>. QED BY <1>2, <1>3, <2>1, <2>3, <2>8, <2>9, FleetEnds
<1>6. CASE Fleet!ReadDevice(r)
  <2>1. s.pc = "readDevice" /\ Same
    BY <1>1, <1>2, <1>6 DEF Fleet!ReadDevice, Fleet!At
  <2>2. PICK d \in Fleet!Device : d = s.device
    BY <1>4, <2>1 DEF FleetCall
  <2>3. PICK c : c = [pc |-> "writeDevice", device |-> d, external |-> s.external,
                      metadata |-> device[d].metadata, version |-> device[d].version]
    OBVIOUS
  <2>4. Fleet!Done(r) \/ (Fleet!Goes(r, c) /\ device[d].state = "there")
    BY <1>2, <1>6, <2>2, <2>3 DEF Fleet!ReadDevice, Fleet!Installed
  <2>5. device[d].version \in Nat
    BY DEF FleetInv, FleetRows, DeviceOK
  <2>6. device[d].state = "there" => SeenDevice(c)
    BY <2>3, <2>5 DEF SeenDevice
  <2>7. device[d].state = "there" => FleetCall(c)
    BY <2>3, <2>6 DEF FleetCall
  <2>8. calm' /\ Fleet!Goes(r, c) => FreeFor(s)
    BY <1>2 DEF FleetInv, FleetCalm, Fleet!Goes
  <2>9. c.external = s.external /\ c.device = s.device /\ c.pc = "writeDevice"
    BY <2>2, <2>3
  <2>10. calm' /\ Fleet!Goes(r, c) => FreeFor(c)
    BY <2>1, <2>8, <2>9 DEF FreeFor
  <2>. QED BY <1>2, <1>3, <2>1, <2>4, <2>7, <2>10, FleetEnds
<1>7. CASE Fleet!ReadNewAsset(r)
  <2>1. s.pc = "newAsset" /\ Same
    BY <1>1, <1>2, <1>7 DEF Fleet!ReadNewAsset, Fleet!At
  <2>2. PICK a, o : a = s.asset /\ o = asset[a].customer
    OBVIOUS
  <2>3. PICK c : c = [pc |-> "moveDevice", device |-> s.device, asset |-> a, customer |-> o]
    OBVIOUS
  <2>4. Fleet!Done(r) \/ (Fleet!Goes(r, c) /\ a \in Fleet!Asset /\ asset[a].state = "there")
    BY <1>2, <1>7, <2>2, <2>3 DEF Fleet!ReadNewAsset, Fleet!There
  <2>5. a \in Fleet!Asset /\ asset[a].state = "there" => <<a, o>> \in owners
    BY <2>2 DEF FleetInv, FleetRows
  <2>6. s.device \in Fleet!Device
    BY <1>4, <2>1 DEF FleetCall
  <2>7. <<a, o>> \in owners => FleetCall(c)
    BY <2>3, <2>6 DEF FleetCall
  <2>8. FreeFor(c)
    BY <2>3 DEF FreeFor
  <2>. QED BY <1>2, <1>3, <2>1, <2>4, <2>5, <2>7, <2>8, FleetEnds
<1>. QED BY <1>5, <1>6, <1>7

-----------------------------------------------------------------------------
\* What requests write about devices

\* The rows that a move and an update write, in full.
PlacedRow(x, a, o) == [state |-> x.state, asset |-> a, customer |-> o, external |-> x.external,
                       metadata |-> x.metadata, version |-> x.version]
MergedRow(x, e, m, v) == [state |-> x.state, asset |-> x.asset, customer |-> x.customer, external |-> e,
                          metadata |-> m, version |-> v]
Placing(x, a, o) == [x EXCEPT !.asset = a, !.customer = o]
Merging(x, e, m, v) == [x EXCEPT !.external = e, !.metadata = m, !.version = v]

LEMMA DevicePlaced ==
  ASSUME NEW x, IsDevice(x), NEW a, NEW o
  PROVE  PlacedRow(x, a, o) = Placing(x, a, o)
<1>1. PICK s, b, p, e, m, v : s = x.state /\ b = x.asset /\ p = x.customer /\ e = x.external /\ m = x.metadata
                               /\ v = x.version
  OBVIOUS
<1>2. x = [state |-> s, asset |-> b, customer |-> p, external |-> e, metadata |-> m, version |-> v]
  BY <1>1 DEF IsDevice
<1>3. PICK w : w = [state |-> s, asset |-> a, customer |-> p, external |-> e, metadata |-> m, version |-> v]
  OBVIOUS
<1>4. w = [x EXCEPT !.asset = a]
  BY ONLY <1>2, <1>3
<1>5. PICK y : y = [state |-> s, asset |-> a, customer |-> o, external |-> e, metadata |-> m, version |-> v]
  OBVIOUS
<1>6. y = [w EXCEPT !.customer = o]
  BY ONLY <1>3, <1>5
<1>7. [w EXCEPT !.customer = o] = Placing(x, a, o)
  BY ONLY <1>4 DEF Placing
<1>8. y = PlacedRow(x, a, o)
  BY <1>1, <1>5 DEF PlacedRow
<1>. QED BY <1>6, <1>7, <1>8

LEMMA DeviceMerged ==
  ASSUME NEW x, IsDevice(x), NEW e, NEW m, NEW v
  PROVE  MergedRow(x, e, m, v) = Merging(x, e, m, v)
<1>1. PICK s, b, p, f, n, u : s = x.state /\ b = x.asset /\ p = x.customer /\ f = x.external /\ n = x.metadata
                               /\ u = x.version
  OBVIOUS
<1>2. x = [state |-> s, asset |-> b, customer |-> p, external |-> f, metadata |-> n, version |-> u]
  BY <1>1 DEF IsDevice
<1>3. PICK w : w = [state |-> s, asset |-> b, customer |-> p, external |-> e, metadata |-> n, version |-> u]
  OBVIOUS
<1>4. PICK z : z = [state |-> s, asset |-> b, customer |-> p, external |-> e, metadata |-> m, version |-> u]
  OBVIOUS
<1>5. w = [x EXCEPT !.external = e]
  BY ONLY <1>2, <1>3
<1>6. z = [w EXCEPT !.metadata = m]
  BY ONLY <1>3, <1>4
<1>7. PICK y : y = [state |-> s, asset |-> b, customer |-> p, external |-> e, metadata |-> m, version |-> v]
  OBVIOUS
<1>8. y = [z EXCEPT !.version = v]
  BY ONLY <1>4, <1>7
<1>9. [z EXCEPT !.version = v] = Merging(x, e, m, v)
  BY ONLY <1>5, <1>6 DEF Merging
<1>10. y = MergedRow(x, e, m, v)
  BY <1>1, <1>7 DEF MergedRow
<1>. QED BY <1>8, <1>9, <1>10

\* The request r ends with the row y of the device d, and with m answered for it.
LEMMA FleetWrites ==
  ASSUME FleetInv, NEW r \in Request, call[r].pc # "idle", Fleet!Done(r), UNCHANGED <<asset, owners>>,
         NEW d \in Fleet!Device, NEW y, NEW m,
         device' = [device EXCEPT ![d] = y], merged' = [merged EXCEPT ![d] = m],
         IsDevice(y), y.version \in Nat, y.state # "unborn",
         y.state = "there" =>
           /\ y.asset \in Fleet!Asset /\ asset[y.asset].state = "there" /\ <<y.asset, y.customer>> \in owners
           /\ m \subseteq y.metadata,
         device[d].state # "unborn" /\ y.state = "there" =>
           /\ device[d].state = "there" /\ device[d].version =< y.version
           /\ device[d].version = y.version => device[d].metadata = y.metadata,
         calm /\ y.state = "there" /\ y.external \in ExternalId =>
           \A x \in Fleet!Device : Holds(x, y.external) => x = d
  PROVE  FleetInv'
<1>1. /\ device' = [x \in Fleet!Device |-> device'[x]] /\ merged' = [x \in Fleet!Device |-> merged'[x]]
      /\ \A x \in Fleet!Device : device'[x] = IF x = d THEN y ELSE device[x]
      /\ \A x \in Fleet!Device : merged'[x] = IF x = d THEN m ELSE merged[x]
  BY DEF FleetInv, FleetRows
<1>2. \A x \in Fleet!Device : DeviceOK(x)
  BY DEF FleetInv, FleetRows
<1>3. ASSUME NEW x \in Fleet!Device
      PROVE  DeviceOK(x)'
  <2>1. CASE x = d
    BY <1>1, <2>1 DEF DeviceOK
  <2>2. CASE x # d
    BY <1>1, <1>2, <2>2 DEF DeviceOK
  <2>. QED BY <2>1, <2>2
<1>4. FleetRows'
  BY <1>1, <1>3 DEF FleetRows, FleetInv, AssetRowsOK
<1>5. Ages
  <2>1. \A x \in Fleet!Device : device[x].version \in Nat
    BY <1>2 DEF DeviceOK
  <2>2. ASSUME NEW x \in Fleet!Device, x # d
        PROVE  device'[x] = device[x] /\ device[x].version \in Nat
    BY <1>1, <2>1, <2>2
  <2>3. device'[d] = y
    BY <1>1
  <2>4. y.state = "there" => device[d].version \in Nat
    BY <2>1
  <2>. QED BY <2>2, <2>3, <2>4 DEF Ages
<1>6. PICK c : c = Fleet!Idle
  OBVIOUS
<1>7. call' = [call EXCEPT ![r] = c] /\ CalmStep(r)
  BY <1>6, CalmSteps DEF FleetInv
<1>8. FleetCall(c)' /\ FreeFor(c)'
  BY <1>6, FleetIdle
<1>9. calm' => NoTwoHold'
  <2>. SUFFICES ASSUME calm', NEW e \in ExternalId, NEW p \in Fleet!Device, NEW q \in Fleet!Device,
                       Holds(p, e)', Holds(q, e)'
                PROVE  p = q
    BY DEF NoTwoHold
  <2>1. calm /\ NoTwoHold
    BY <1>7 DEF CalmStep, FleetInv, FleetCalm
  <2>2. CASE p # d /\ q # d
    BY <1>1, <2>1, <2>2 DEF NoTwoHold, Holds
  <2>3. CASE p = d \/ q = d
    BY <1>1, <2>1, <2>3 DEF Holds
  <2>. QED BY <2>2, <2>3
<1>. QED BY <1>4, <1>5, <1>7, <1>8, <1>9, FleetStep

LEMMA FleetWriting ==
  ASSUME FleetInv, NEW r \in Request,
         Fleet!InsertDevice(r) \/ Fleet!WriteDevice(r) \/ Fleet!DropDevice(r) \/ Fleet!PlaceDevice(r)
  PROVE  FleetInv'
<1>1. PICK s : s = call[r]
  OBVIOUS
<1>2. FleetCall(s) /\ (calm => FreeFor(s))
  BY <1>1 DEF FleetInv, FleetCalm
<1>3. \A x \in Fleet!Device : DeviceOK(x) /\ device[x].version \in Nat
  BY DEF FleetInv, FleetRows, DeviceOK
<1>4. merged = [x \in Fleet!Device |-> merged[x]]
  BY DEF FleetInv, FleetRows
<1>5. \A d \in Fleet!Device : merged = [merged EXCEPT ![d] = merged[d]]
  BY <1>4
<1>6. CASE Fleet!InsertDevice(r)
  <2>1. s.pc = "insertDevice" /\ Fleet!Done(r) /\ UNCHANGED <<asset, owners, merged>>
    BY <1>1, <1>6 DEF Fleet!InsertDevice, Fleet!At
  <2>2. PICK d : d = Fleet!Min(Fleet!NewDevices)
    OBVIOUS
  <2>3. PICK none : none = {}
    OBVIOUS
  <2>4. PICK y : y = [state |-> "there", asset |-> s.asset, customer |-> s.customer,
                      external |-> s.external, metadata |-> none, version |-> 1]
    OBVIOUS
  <2>5. device' = IF Fleet!NewDevices = {} \/ ~Fleet!There(s.asset) THEN device ELSE [device EXCEPT ![d] = y]
    BY <1>1, <1>6, <2>2, <2>3, <2>4 DEF Fleet!InsertDevice
  <2>6. CASE Fleet!NewDevices = {} \/ ~Fleet!There(s.asset)
    <3>1. UNCHANGED <<asset, device, owners, merged>>
      BY <2>1, <2>5, <2>6
    <3>. QED BY <1>1, <2>1, <3>1, FleetEnds
  <2>7. CASE Fleet!NewDevices # {} /\ Fleet!There(s.asset)
    <3>1. d \in Fleet!NewDevices
      <4>1. Fleet!NewDevices \in SUBSET Nat
        BY EstateAssumption DEF Fleet!NewDevices, Fleet!Device
      <4>2. \E x \in Fleet!NewDevices : \A z \in Fleet!NewDevices : x =< z
        BY <2>7, <4>1, LeastOf
      <4>. QED BY <2>2, <4>2 DEF Fleet!Min
    <3>2. d \in Fleet!Device /\ device[d].state = "unborn"
      BY <3>1 DEF Fleet!NewDevices
    <3>3. merged[d] = {}
      BY <1>3, <3>2 DEF DeviceOK
    <3>4. device' = [device EXCEPT ![d] = y] /\ merged' = [merged EXCEPT ![d] = merged[d]]
      BY <1>5, <2>1, <2>5, <2>7, <3>2
    <3>5. IsDevice(y) /\ y.version \in Nat /\ y.state = "there" /\ y.asset = s.asset /\ y.customer = s.customer
          /\ y.external = s.external
      BY <2>4 DEF IsDevice
    <3>6. <<s.asset, s.customer>> \in owners
      BY <1>2, <2>1 DEF FleetCall
    <3>7. s.asset \in Fleet!Asset /\ asset[s.asset].state = "there"
      BY <2>7 DEF Fleet!There
    <3>8. calm /\ y.external \in ExternalId => \A x \in Fleet!Device : Holds(x, y.external) => x = d
      BY <1>2, <2>1, <3>5 DEF FreeFor
    <3>9. merged[d] \subseteq y.metadata
      BY <3>3
    <3>. QED BY <1>1, <2>1, <3>2, <3>4, <3>5, <3>6, <3>7, <3>8, <3>9, FleetWrites
  <2>. QED BY <2>6, <2>7
<1>7. CASE Fleet!WriteDevice(r)
  <2>1. s.pc = "writeDevice" /\ Fleet!Done(r) /\ UNCHANGED <<asset, owners>>
    BY <1>1, <1>7 DEF Fleet!WriteDevice, Fleet!At
  <2>2. PICK d \in Fleet!Device : d = s.device
    BY <1>2, <2>1 DEF FleetCall
  <2>3. PICK x : x = device[d]
    OBVIOUS
  <2>4. IsDevice(x) /\ DeviceOK(d)
    BY <1>3, <2>3 DEF DeviceOK
  <2>5. PICK e : e = IF s.external = Fleet!NoId THEN x.external ELSE s.external
    OBVIOUS
  <2>6. PICK y : y = MergedRow(x, e, s.metadata \cup {r}, s.version + 1)
    OBVIOUS
  <2>7. CASE ~Fleet!Current(s)
    <3>1. UNCHANGED <<asset, device, owners, merged>>
      BY <1>1, <1>7, <2>7 DEF Fleet!WriteDevice
    <3>. QED BY <1>1, <2>1, <3>1, FleetEnds
  <2>8. CASE Fleet!Current(s)
    <3>1. x.state = "there" /\ x.version = s.version
      BY <2>2, <2>3, <2>8 DEF Fleet!Current, Fleet!Installed
    <3>2. merged' = [merged EXCEPT ![d] = merged[d] \cup {r}]
      BY <1>1, <1>7, <2>2, <2>8 DEF Fleet!WriteDevice
    <3>3. y = Merging(x, e, s.metadata \cup {r}, s.version + 1)
      BY <2>4, <2>6, DeviceMerged
    <3>4. device' = [device EXCEPT ![d].external = e, ![d].metadata = s.metadata \cup {r}, ![d].version = s.version + 1]
      BY <1>1, <1>7, <2>2, <2>3, <2>5, <2>8 DEF Fleet!WriteDevice
    <3>5. device' = [device EXCEPT ![d] = y]
      <4>1. device = [z \in Fleet!Device |-> device[z]]
        BY DEF FleetInv, FleetRows
      <4>. QED BY <2>3, <3>3, <3>4, <4>1 DEF Merging
    <3>6. SeenDevice(s)
      BY <1>2, <2>1 DEF FleetCall
    <3>7. s.version \in Nat /\ s.metadata = x.metadata
      BY <2>2, <2>3, <3>1, <3>6 DEF SeenDevice
    <3>8. IsDevice(y) /\ y.version = s.version + 1 /\ y.state = "there" /\ y.asset = x.asset
          /\ y.customer = x.customer /\ y.external = e /\ y.metadata = s.metadata \cup {r}
      BY <2>6, <3>1 DEF IsDevice, MergedRow
    <3>9. /\ x.asset \in Fleet!Asset /\ asset[x.asset].state = "there" /\ <<x.asset, x.customer>> \in owners
          /\ merged[d] \subseteq x.metadata
      BY <2>3, <2>4, <3>1 DEF DeviceOK
    <3>10. calm /\ e \in ExternalId => \A z \in Fleet!Device : Holds(z, e) => z = d
      <4>. SUFFICES ASSUME calm, e \in ExternalId, NEW z \in Fleet!Device, Holds(z, e)
                    PROVE  z = d
        OBVIOUS
      <4>1. CASE s.external = Fleet!NoId
        <5>1. Holds(d, e)
          BY <2>3, <2>5, <3>1, <4>1 DEF Holds
        <5>. QED BY <5>1 DEF FleetInv, FleetCalm, NoTwoHold
      <4>2. CASE s.external # Fleet!NoId
        <5>1. e = s.external
          BY <2>5, <4>2
        <5>. QED BY <1>2, <2>1, <2>2, <5>1 DEF FreeFor
      <4>. QED BY <4>1, <4>2
    <3>11. merged[d] \cup {r} \subseteq y.metadata /\ y.version \in Nat /\ x.version =< y.version /\ x.version # y.version
      BY <3>1, <3>7, <3>8, <3>9
    <3>. QED BY <1>1, <2>1, <2>3, <3>1, <3>2, <3>5, <3>8, <3>9, <3>10, <3>11, FleetWrites
  <2>. QED BY <2>7, <2>8
<1>8. CASE Fleet!DropDevice(r)
  <2>1. s.pc = "dropDevice" /\ Fleet!Done(r) /\ UNCHANGED <<asset, owners, merged>>
    BY <1>1, <1>8 DEF Fleet!DropDevice, Fleet!At
  <2>2. PICK d \in Fleet!Device : d = s.device
    BY <1>2, <2>1 DEF FleetCall
  <2>3. PICK y : y = [Fleet!UnbornDevice EXCEPT !.state = "gone"]
    OBVIOUS
  <2>4. device' = IF Fleet!Installed(d) THEN [device EXCEPT ![d] = y] ELSE device
    BY <1>1, <1>8, <2>2, <2>3 DEF Fleet!DropDevice
  <2>5. CASE ~Fleet!Installed(d)
    <3>1. UNCHANGED <<asset, device, owners, merged>>
      BY <2>1, <2>4, <2>5
    <3>. QED BY <1>1, <2>1, <3>1, FleetEnds
  <2>6. CASE Fleet!Installed(d)
    <3>1. device' = [device EXCEPT ![d] = y] /\ merged' = [merged EXCEPT ![d] = merged[d]]
      BY <1>5, <2>1, <2>4, <2>6
    <3>2. IsDevice(y) /\ y.version \in Nat /\ y.state = "gone"
      BY <2>3 DEF IsDevice, Fleet!UnbornDevice
    <3>. QED BY <1>1, <2>1, <3>1, <3>2, FleetWrites
  <2>. QED BY <2>5, <2>6
<1>9. CASE Fleet!PlaceDevice(r)
  <2>1. s.pc = "moveDevice" /\ Fleet!Done(r) /\ UNCHANGED <<asset, owners, merged>>
    BY <1>1, <1>9 DEF Fleet!PlaceDevice, Fleet!At
  <2>2. PICK d \in Fleet!Device : d = s.device
    BY <1>2, <2>1 DEF FleetCall
  <2>3. PICK x : x = device[d]
    OBVIOUS
  <2>4. IsDevice(x) /\ DeviceOK(d)
    BY <1>3, <2>3 DEF DeviceOK
  <2>5. PICK y : y = PlacedRow(x, s.asset, s.customer)
    OBVIOUS
  <2>6. CASE ~(Fleet!Installed(d) /\ Fleet!There(s.asset))
    <3>1. UNCHANGED <<asset, device, owners, merged>>
      BY <1>1, <1>9, <2>1, <2>2, <2>6 DEF Fleet!PlaceDevice
    <3>. QED BY <1>1, <2>1, <3>1, FleetEnds
  <2>7. CASE Fleet!Installed(d) /\ Fleet!There(s.asset)
    <3>1. x.state = "there" /\ s.asset \in Fleet!Asset /\ asset[s.asset].state = "there"
      BY <2>3, <2>7 DEF Fleet!Installed, Fleet!There
    <3>2. device' = [device EXCEPT ![d].asset = s.asset, ![d].customer = s.customer]
      BY <1>1, <1>9, <2>2, <2>7 DEF Fleet!PlaceDevice
    <3>3. y = Placing(x, s.asset, s.customer)
      BY <2>4, <2>5, DevicePlaced
    <3>4. device' = [device EXCEPT ![d] = y]
      <4>1. device = [z \in Fleet!Device |-> device[z]]
        BY DEF FleetInv, FleetRows
      <4>. QED BY <2>3, <3>2, <3>3, <4>1 DEF Placing
    <3>5. merged' = [merged EXCEPT ![d] = merged[d]]
      BY <1>5, <2>1
    <3>6. <<s.asset, s.customer>> \in owners
      BY <1>2, <2>1 DEF FleetCall
    <3>7. IsDevice(y) /\ y.version = x.version /\ y.state = "there" /\ y.asset = s.asset
          /\ y.customer = s.customer /\ y.external = x.external /\ y.metadata = x.metadata
      BY <2>5, <3>1 DEF IsDevice, PlacedRow
    <3>8. merged[d] \subseteq x.metadata /\ x.version \in Nat
      BY <2>3, <2>4, <3>1 DEF DeviceOK
    <3>9. calm /\ y.external \in ExternalId => \A z \in Fleet!Device : Holds(z, y.external) => z = d
      <4>1. Holds(d, y.external)
        BY <2>3, <3>1, <3>7 DEF Holds
      <4>. QED BY <4>1 DEF FleetInv, FleetCalm, NoTwoHold
    <3>10. merged[d] \subseteq y.metadata /\ y.version \in Nat /\ x.version =< y.version
      BY <3>7, <3>8
    <3>. QED BY <1>1, <2>1, <2>3, <3>1, <3>4, <3>5, <3>6, <3>7, <3>9, <3>10, FleetWrites
  <2>. QED BY <2>6, <2>7
<1>. QED BY <1>6, <1>7, <1>8, <1>9

-----------------------------------------------------------------------------
\* From the invariant of devices

LEMMA FleetStart ==
  ASSUME Fleet!DevicesInit
  PROVE  FleetInv
<1>1. /\ asset = [a \in Fleet!Asset |-> IF a = 1 THEN Fleet!FirstAsset ELSE Fleet!UnbornAsset]
      /\ call = [r \in Request |-> Fleet!Idle] /\ calm = TRUE
  BY DEF Fleet!DevicesInit, Fleet!AssetsInit, Fleet!RequestsInit
<1>2. /\ device = [d \in Fleet!Device |-> IF d = 1 THEN Fleet!FirstDevice ELSE Fleet!UnbornDevice]
      /\ owners = {<<1, Fleet!FirstAsset.customer>>} /\ merged = [d \in Fleet!Device |-> {}]
  BY DEF Fleet!DevicesInit
<1>3. PICK o, none, path : o = (CHOOSE c \in AssetOwner : TRUE) /\ none = {} /\ path = <<>>
  OBVIOUS
<1>4. PICK unborn : unborn = [state |-> "unborn", customer |-> o, parent |-> 0, path |-> path, depth |-> 0]
  OBVIOUS
<1>5. unborn = Fleet!UnbornAsset
  BY <1>3, <1>4 DEF Fleet!UnbornAsset, Fleet!NoAsset
<1>6. PICK first : first = Fleet!FirstAsset
  OBVIOUS
<1>7. IsAsset(unborn) /\ unborn.state = "unborn" /\ unborn.customer = o
  BY <1>4 DEF IsAsset
<1>8. PICK p : first = [unborn EXCEPT !.state = "there", !.path = p]
  BY <1>5, <1>6 DEF Fleet!FirstAsset
<1>9. IsAsset(first) /\ first.state = "there" /\ first.customer = o
  BY <1>4, <1>8 DEF IsAsset
<1>10. AssetRowsOK(Fleet!Asset)
  BY <1>1, <1>5, <1>6, <1>7, <1>9 DEF AssetRowsOK
<1>11. \A a \in Fleet!Asset : asset[a].state = "there" => <<a, asset[a].customer>> \in owners
  BY <1>1, <1>2, <1>5, <1>6, <1>7
<1>12. PICK u : u = [state |-> "unborn", asset |-> 0, customer |-> o, external |-> "none", metadata |-> none, version |-> 0]
  OBVIOUS
<1>13. u = Fleet!UnbornDevice
  BY <1>3, <1>12 DEF Fleet!UnbornDevice, Fleet!NoAsset, Fleet!NoId
<1>14. PICK f : f = [state |-> "there", asset |-> 1, customer |-> o, external |-> "none", metadata |-> none, version |-> 1]
  OBVIOUS
<1>15. f = [u EXCEPT !.state = "there", !.asset = 1, !.customer = o, !.version = 1]
  <2>1. PICK v : v = [state |-> "there", asset |-> 0, customer |-> o, external |-> "none", metadata |-> none, version |-> 0]
    OBVIOUS
  <2>2. PICK w : w = [state |-> "there", asset |-> 1, customer |-> o, external |-> "none", metadata |-> none, version |-> 0]
    OBVIOUS
  <2>3. v = [u EXCEPT !.state = "there"]
    BY ONLY <1>12, <2>1
  <2>4. w = [v EXCEPT !.asset = 1]
    BY ONLY <2>1, <2>2
  <2>5. w = [w EXCEPT !.customer = o]
    BY ONLY <2>2
  <2>6. f = [w EXCEPT !.version = 1]
    BY ONLY <1>14, <2>2
  <2>. QED BY ONLY <2>3, <2>4, <2>5, <2>6
<1>16. f = Fleet!FirstDevice
  BY <1>6, <1>9, <1>13, <1>15 DEF Fleet!FirstDevice
<1>17. IsDevice(u) /\ IsDevice(f) /\ u.version \in Nat /\ f.version \in Nat /\ u.state = "unborn"
       /\ f.state = "there" /\ f.asset = 1 /\ f.customer = o /\ u.external = "none" /\ f.external = "none"
  BY <1>12, <1>14 DEF IsDevice
<1>18. \A d \in Fleet!Device : device[d] = (IF d = 1 THEN f ELSE u) /\ merged[d] = {}
  BY <1>2, <1>13, <1>16
<1>19. 1 \in Fleet!Asset /\ asset[1] = first
  BY <1>1, <1>6, EstateAssumption DEF Fleet!Asset
<1>20. ASSUME NEW d \in Fleet!Device
       PROVE  DeviceOK(d)
  <2>1. CASE d = 1
    BY <1>2, <1>6, <1>9, <1>17, <1>18, <1>19, <2>1 DEF DeviceOK
  <2>2. CASE d # 1
    BY <1>17, <1>18, <2>2 DEF DeviceOK
  <2>. QED BY <2>1, <2>2
<1>21. FleetRows
  BY <1>2, <1>10, <1>11, <1>20 DEF FleetRows
<1>22. \A r \in Request : FleetCall(call[r]) /\ FreeFor(call[r]) /\ call[r].pc = "idle"
  <2>1. PICK c : c = Fleet!Idle
    OBVIOUS
  <2>2. c.pc = "idle"
    BY <2>1 DEF Fleet!Idle
  <2>. QED BY <1>1, <2>1, <2>2, FleetIdle
<1>23. NoTwoHold
  BY <1>17, <1>18, EstateAssumption DEF NoTwoHold, Holds, Fleet!NoId
<1>. QED BY <1>1, <1>21, <1>22, <1>23 DEF FleetInv, FleetCalm

LEMMA FleetGoOn ==
  ASSUME FleetInv, [Fleet!DevicesNext]_<<asset, fleet, requests>>
  PROVE  FleetInv'
<1>1. CASE UNCHANGED <<asset, fleet, requests>>
  <2>1. UNCHANGED <<asset, device, owners, merged>> /\ UNCHANGED <<call, calm>>
    BY <1>1 DEF fleet, requests
  <2>2. FleetRows' /\ \A r \in Request : FleetCall(call[r])'
    BY <2>1 DEF FleetInv, FleetRows, DeviceOK, AssetRowsOK, FleetCall, SeenDevice
  <2>3. FleetCalm'
    BY <2>1 DEF FleetInv, FleetCalm, NoTwoHold, FreeFor, Holds
  <2>. QED BY <2>1, <2>2, <2>3 DEF FleetInv
<1>2. ASSUME NEW r \in Request,
             \/ /\ Fleet!AssetSteps(r, Fleet!InUse)
                /\ owners' = owners \cup {<<a, asset'[a].customer>> : a \in {x \in Fleet!Asset : Fleet!There(x)'}}
                /\ UNCHANGED <<device, merged>>
             \/ \E a \in Fleet!Asset, e \in ExternalId \cup {Fleet!NoId} : Fleet!CreateDevice(r, a, e)
             \/ \E d \in Fleet!Device :
                  \/ \E e \in ExternalId \cup {Fleet!NoId} : Fleet!UpdateDevice(r, d, e)
                  \/ \E a \in Fleet!Asset : Fleet!MoveDevice(r, d, a)
                  \/ Fleet!DeleteDevice(r, d)
             \/ Fleet!LookForExternal(r) \/ Fleet!InsertDevice(r) \/ Fleet!ReadDevice(r) \/ Fleet!WriteDevice(r)
             \/ Fleet!DropDevice(r) \/ Fleet!ReadNewAsset(r) \/ Fleet!PlaceDevice(r)
             \/ Fleet!Fails(r) /\ Fleet!Reads
      PROVE  FleetInv'
  <2>1. CASE /\ Fleet!AssetSteps(r, Fleet!InUse)
             /\ owners' = owners \cup {<<a, asset'[a].customer>> : a \in {x \in Fleet!Asset : Fleet!There(x)'}}
             /\ UNCHANGED <<device, merged>>
    BY <2>1, FleetAssets
  <2>2. CASE \/ \E a \in Fleet!Asset, e \in ExternalId \cup {Fleet!NoId} : Fleet!CreateDevice(r, a, e)
             \/ \E d \in Fleet!Device :
                  \/ \E e \in ExternalId \cup {Fleet!NoId} : Fleet!UpdateDevice(r, d, e)
                  \/ \E a \in Fleet!Asset : Fleet!MoveDevice(r, d, a)
                  \/ Fleet!DeleteDevice(r, d)
    BY <2>2, FleetRequests
  <2>3. CASE Fleet!LookForExternal(r) \/ Fleet!ReadDevice(r) \/ Fleet!ReadNewAsset(r)
    BY <2>3, FleetReading
  <2>4. CASE Fleet!InsertDevice(r) \/ Fleet!WriteDevice(r) \/ Fleet!DropDevice(r) \/ Fleet!PlaceDevice(r)
    BY <2>4, FleetWriting
  <2>5. CASE Fleet!Fails(r) /\ Fleet!Reads
    <3>1. UNCHANGED <<asset, device, owners, merged>>
      BY <2>5 DEF Fleet!Reads, Fleet!deviceTables
    <3>. QED BY <2>5, <3>1, FleetEnds
  <2>. QED BY <1>2, <2>1, <2>2, <2>3, <2>4, <2>5
<1>3. CASE Fleet!DevicesNext
  BY <1>2, <1>3 DEF Fleet!DevicesNext
<1>. QED BY <1>1, <1>3

LEMMA FleetCardinality ==
  ASSUME NEW S
  PROVE  Fleet!Cardinality(S) = Cardinality(S)
BY DEF Fleet!Cardinality, Cardinality

LEMMA FleetHolds ==
  ASSUME FleetInv
  PROVE  Fleet!CustomerWasOwner /\ Fleet!DeviceHasAsset /\ Fleet!MergesKept /\ Fleet!ExternalIdsDiffer
<1>1. \A d \in Fleet!Device : DeviceOK(d)
  BY DEF FleetInv, FleetRows
<1>2. Fleet!CustomerWasOwner /\ Fleet!DeviceHasAsset /\ Fleet!MergesKept
  BY <1>1 DEF Fleet!CustomerWasOwner, Fleet!DeviceHasAsset, Fleet!MergesKept, DeviceOK, Fleet!Installed, Fleet!There
<1>3. ASSUME calm, NEW e \in ExternalId
      PROVE  Fleet!Cardinality(Fleet!Holders(e)) =< 1
  <2>1. \A x, y \in Fleet!Holders(e) : x = y
    BY <1>3 DEF FleetInv, FleetCalm, NoTwoHold, Holds, Fleet!Holders, Fleet!Installed
  <2>2. CASE Fleet!Holders(e) = {}
    <3>1. Cardinality({}) = 0
      BY FS_EmptySet
    <3>. QED BY <2>2, <3>1, FleetCardinality
  <2>3. CASE Fleet!Holders(e) # {}
    <3>1. PICK x : Fleet!Holders(e) = {x}
      BY <2>1, <2>3
    <3>2. Cardinality({x}) = 1
      BY FS_Singleton
    <3>. QED BY <3>1, <3>2, FleetCardinality
  <2>. QED BY <2>2, <2>3
<1>4. Fleet!ExternalIdsDiffer
  BY <1>3 DEF Fleet!ExternalIdsDiffer, Fleet!Settled
<1>. QED BY <1>2, <1>4

-----------------------------------------------------------------------------
\* Centrals, and the assets around them

LEMMA GatewaysReadSteps ==
  ASSUME NEW r \in Request, "pc" \in DOMAIN call[r],
         \/ \E c \in AssetOwner, p \in Gateways!Asset \cup {Gateways!NoAsset} :
              \/ Gateways!CreateAsset(r, c, p)
              \/ \E a \in Gateways!Asset : Gateways!MoveAsset(r, a, p, c)
         \/ \E a \in Gateways!Asset : Gateways!DeleteAsset(r, a)
         \/ Gateways!ReadAssetParent(r) \/ Gateways!LookForChildren(r) \/ Gateways!ReadMoved(r) \/ Gateways!ReadNewParent(r)
         \/ Gateways!ReadBelow(r) \/ Gateways!SelectBelow(r)
  PROVE  UNCHANGED asset /\ \E c : AssetRequest(r, c)
<1>. HIDE DEF Gateways!Asset, Gateways!NoAsset
<1>1. ASSUME NEW c, c.pc \in AssetPc, "pc" \in DOMAIN c, Gateways!Begin(r, c)
      PROVE  AssetRequest(r, c)
  BY <1>1 DEF Gateways!Begin, Gateways!At, AssetRequest
<1>2. ASSUME NEW c, c.pc \in AssetPc \cup {"idle"}, "pc" \in DOMAIN c, Gateways!Goes(r, c), call[r].pc \in AssetPc
      PROVE  AssetRequest(r, c)
  BY <1>2 DEF Gateways!Goes, AssetRequest, AssetPc
<1>3. ASSUME Gateways!Done(r), call[r].pc \in AssetPc
      PROVE  \E c : AssetRequest(r, c)
  BY <1>2, <1>3 DEF Gateways!Done, Gateways!Idle
<1>4. ASSUME NEW o, NEW p, Gateways!CreateAsset(r, o, p)
      PROVE  UNCHANGED asset /\ \E c : AssetRequest(r, c)
  <2>1. PICK c : c = [pc |-> IF p = Gateways!NoAsset THEN "insertAsset" ELSE "assetParent", customer |-> o, parent |-> p,
                      above |-> <<o>>, depth |-> 0]
    OBVIOUS
  <2>2. Gateways!Begin(r, c) /\ UNCHANGED asset
    BY <1>4, <2>1 DEF Gateways!CreateAsset
  <2>3. c.pc \in AssetPc /\ "pc" \in DOMAIN c
    BY <2>1 DEF AssetPc
  <2>. QED BY <1>1, <2>2, <2>3
<1>5. ASSUME NEW a, NEW p, NEW o, Gateways!MoveAsset(r, a, p, o)
      PROVE  UNCHANGED asset /\ \E c : AssetRequest(r, c)
  <2>1. PICK c : c = [pc |-> "moved", asset |-> a, parent |-> p, customer |-> o]
    OBVIOUS
  <2>2. Gateways!Begin(r, c) /\ UNCHANGED asset
    BY <1>5, <2>1 DEF Gateways!MoveAsset
  <2>3. c.pc \in AssetPc /\ "pc" \in DOMAIN c
    BY <2>1 DEF AssetPc
  <2>. QED BY <1>1, <2>2, <2>3
<1>6. ASSUME NEW a, Gateways!DeleteAsset(r, a)
      PROVE  UNCHANGED asset /\ \E c : AssetRequest(r, c)
  <2>1. PICK c : c = [pc |-> "children", asset |-> a, looks |-> 2]
    OBVIOUS
  <2>2. Gateways!Begin(r, c) /\ UNCHANGED asset
    BY <1>6, <2>1 DEF Gateways!DeleteAsset
  <2>3. c.pc \in AssetPc /\ "pc" \in DOMAIN c
    BY <2>1 DEF AssetPc
  <2>. QED BY <1>1, <2>2, <2>3
<1>7. CASE Gateways!ReadAssetParent(r)
  <2>1. UNCHANGED asset /\ call[r].pc = "assetParent"
    BY <1>7 DEF Gateways!ReadAssetParent, Gateways!At
  <2>2. PICK p : p = call[r].parent
    OBVIOUS
  <2>3. PICK c : c = [call[r] EXCEPT !.pc = "insertAsset", !.above = asset[p].path, !.depth = asset[p].depth + 1]
    OBVIOUS
  <2>4. Gateways!Goes(r, c) \/ Gateways!Done(r)
    BY <1>7, <2>2, <2>3 DEF Gateways!ReadAssetParent
  <2>5. c.pc = "insertAsset" /\ "pc" \in DOMAIN c
    BY <2>3
  <2>. QED BY <1>2, <1>3, <2>1, <2>4, <2>5 DEF AssetPc
<1>8. CASE Gateways!LookForChildren(r)
  <2>1. UNCHANGED asset /\ call[r].pc = "children"
    BY <1>8 DEF Gateways!LookForChildren, Gateways!At
  <2>2. \/ Gateways!Done(r) \/ Gateways!Goes(r, [pc |-> "dropAsset", asset |-> call[r].asset])
        \/ Gateways!Goes(r, [call[r] EXCEPT !.looks = 1])
    BY <1>8 DEF Gateways!LookForChildren
  <2>3. [call[r] EXCEPT !.looks = 1].pc = "children" /\ "pc" \in DOMAIN [call[r] EXCEPT !.looks = 1]
    BY <2>1
  <2>4. CASE Gateways!Goes(r, [call[r] EXCEPT !.looks = 1])
    BY <1>2, <2>1, <2>3, <2>4 DEF AssetPc
  <2>5. CASE Gateways!Goes(r, [pc |-> "dropAsset", asset |-> call[r].asset])
    BY <1>2, <2>1, <2>5 DEF AssetPc
  <2>6. CASE Gateways!Done(r)
    BY <1>3, <2>1, <2>6 DEF AssetPc
  <2>. QED BY <2>2, <2>4, <2>5, <2>6
<1>9. ASSUME NEW from, NEW above, NEW depth, Gateways!Placing(r, call[r], from, above, depth), call[r].pc \in AssetPc
      PROVE  \E c : AssetRequest(r, c)
  <2>1. PICK c : c = [pc |-> IF call[r].customer = from.customer THEN "path" ELSE "customer", asset |-> call[r].asset,
                      parent |-> call[r].parent, customer |-> call[r].customer, from |-> from,
                      to |-> Append(above, call[r].asset), depth |-> depth]
    OBVIOUS
  <2>2. Gateways!Goes(r, c)
    BY <1>9, <2>1 DEF Gateways!Placing
  <2>3. c.pc \in AssetPc /\ "pc" \in DOMAIN c
    BY <2>1 DEF AssetPc
  <2>. QED BY <1>2, <1>9, <2>2, <2>3
<1>10. CASE Gateways!ReadMoved(r)
  <2>1. UNCHANGED asset /\ call[r].pc = "moved"
    BY <1>10 DEF Gateways!ReadMoved, Gateways!At
  <2>2. PICK c : c = [pc |-> "newParent", asset |-> call[r].asset, parent |-> call[r].parent,
                      customer |-> call[r].customer, from |-> asset[call[r].asset]]
    OBVIOUS
  <2>3. \/ Gateways!Done(r) \/ Gateways!Placing(r, call[r], asset[call[r].asset], <<call[r].customer>>, 0)
        \/ Gateways!Goes(r, c)
    BY <1>10, <2>2 DEF Gateways!ReadMoved
  <2>4. c.pc \in AssetPc /\ "pc" \in DOMAIN c /\ call[r].pc \in AssetPc
    BY <2>1, <2>2 DEF AssetPc
  <2>. QED BY <1>2, <1>3, <1>9, <2>1, <2>3, <2>4
<1>11. CASE Gateways!ReadNewParent(r)
  <2>1. UNCHANGED asset /\ call[r].pc = "newParent"
    BY <1>11 DEF Gateways!ReadNewParent, Gateways!At
  <2>2. PICK p : p = asset[call[r].parent]
    OBVIOUS
  <2>3. Gateways!Done(r) \/ Gateways!Placing(r, call[r], call[r].from, p.path, p.depth + 1)
    BY <1>11, <2>2 DEF Gateways!ReadNewParent
  <2>4. call[r].pc \in AssetPc
    BY <2>1 DEF AssetPc
  <2>. QED BY <1>3, <1>9, <2>1, <2>3, <2>4
<1>12. CASE Gateways!ReadBelow(r)
  <2>1. UNCHANGED asset /\ call[r].pc = "below"
    BY <1>12 DEF Gateways!ReadBelow, Gateways!At
  <2>2. PICK c : c = [pc |-> "select", asset |-> call[r].asset, customer |-> call[r].customer, from |-> call[r].from,
                      to |-> call[r].to, depth |-> call[r].depth, path |-> asset[call[r].asset].path]
    OBVIOUS
  <2>3. Gateways!Done(r) \/ Gateways!Goes(r, c)
    BY <1>12, <2>2 DEF Gateways!ReadBelow
  <2>4. c.pc \in AssetPc /\ "pc" \in DOMAIN c /\ call[r].pc \in AssetPc
    BY <2>1, <2>2 DEF AssetPc
  <2>. QED BY <1>2, <1>3, <2>1, <2>3, <2>4
<1>13. CASE Gateways!SelectBelow(r)
  <2>1. UNCHANGED asset /\ call[r].pc = "select"
    BY <1>13 DEF Gateways!SelectBelow, Gateways!At
  <2>2. PICK found :
          found = {[id |-> b, path |-> asset[b].path, depth |-> asset[b].depth] : b \in Gateways!Descendants(call[r].path)}
    OBVIOUS
  <2>3. PICK c : c = [pc |-> "descend", customer |-> call[r].customer, from |-> call[r].from, to |-> call[r].to,
                      depth |-> call[r].depth, found |-> found]
    OBVIOUS
  <2>4. Gateways!Done(r) \/ Gateways!Goes(r, c)
    BY <1>13, <2>2, <2>3 DEF Gateways!SelectBelow
  <2>5. c.pc \in AssetPc /\ "pc" \in DOMAIN c /\ call[r].pc \in AssetPc
    BY <2>1, <2>3 DEF AssetPc
  <2>. QED BY <1>2, <1>3, <2>1, <2>4, <2>5
<1>. QED BY <1>4, <1>5, <1>6, <1>7, <1>8, <1>10, <1>11, <1>12, <1>13

LEMMA GatewaysWriteSteps ==
  ASSUME NEW r \in Request, "pc" \in DOMAIN call[r], NEW used, AssetRowsOK(Gateways!Asset),
         \/ Gateways!InsertAsset(r) \/ Gateways!DropAsset(r, used) \/ Gateways!SaveCustomer(r) \/ Gateways!SavePath(r)
         \/ Gateways!SaveDescendant(r) \/ Gateways!SaveDescendantCustomer(r)
  PROVE  AssetWrite(Gateways!Asset, used) /\ \E c : AssetRequest(r, c)
<1>. HIDE DEF Gateways!Asset, Gateways!NoAsset
<1>1. ASSUME NEW c, c.pc \in AssetPc \cup {"idle"}, "pc" \in DOMAIN c, Gateways!Goes(r, c), call[r].pc \in AssetPc
      PROVE  AssetRequest(r, c)
  BY <1>1 DEF Gateways!Goes, AssetRequest, AssetPc
<1>2. ASSUME Gateways!Done(r), call[r].pc \in AssetPc
      PROVE  \E c : AssetRequest(r, c)
  BY <1>1, <1>2 DEF Gateways!Done, Gateways!Idle
<1>3. ASSUME NEW a, NEW row, asset' = Gateways!Set(a, row), a \in Gateways!Asset => IsAsset(row) /\ row.state = asset[a].state
      PROVE  AssetWrite(Gateways!Asset, used)
  <2>1. CASE ~Gateways!There(a)
    BY <1>3, <2>1 DEF Gateways!Set, AssetWrite
  <2>2. CASE Gateways!There(a)
    <3>1. asset' = [asset EXCEPT ![a] = row] /\ a \in Gateways!Asset /\ asset[a].state = "there"
      BY <1>3, <2>2 DEF Gateways!Set, Gateways!There
    <3>. QED BY <1>3, <3>1 DEF AssetWrite
  <2>. QED BY <2>1, <2>2
<1>4. CASE Gateways!InsertAsset(r)
  <2>1. call[r].pc = "insertAsset" /\ Gateways!Done(r)
    BY <1>4 DEF Gateways!InsertAsset, Gateways!At
  <2>2. PICK a : a = Gateways!Min(Gateways!NewAssets)
    OBVIOUS
  <2>3. PICK path : path = Gateways!Append(call[r].above, a)
    OBVIOUS
  <2>4. PICK row : row = [state |-> "there", customer |-> call[r].customer, parent |-> call[r].parent,
                          path |-> path, depth |-> call[r].depth]
    OBVIOUS
  <2>5. asset' = [asset EXCEPT ![a] = row]
    BY <1>4, <2>2, <2>3, <2>4 DEF Gateways!InsertAsset
  <2>6. IsAsset(row) /\ row.state = "there"
    BY <2>4 DEF IsAsset
  <2>7. AssetWrite(Gateways!Asset, used)
    BY <2>5, <2>6 DEF AssetWrite
  <2>. QED BY <1>2, <2>1, <2>7 DEF AssetPc
<1>5. CASE Gateways!DropAsset(r, used)
  <2>1. call[r].pc = "dropAsset" /\ Gateways!Done(r)
    BY <1>5 DEF Gateways!DropAsset, Gateways!At
  <2>2. PICK a : a = call[r].asset
    OBVIOUS
  <2>3. PICK row : row = [Gateways!UnbornAsset EXCEPT !.state = "gone"]
    OBVIOUS
  <2>4. asset' = IF a \in used THEN asset ELSE [asset EXCEPT ![a] = row]
    BY <1>5, <2>2, <2>3 DEF Gateways!DropAsset
  <2>5. IsAsset(row)
    BY <2>3 DEF IsAsset, Gateways!UnbornAsset
  <2>6. AssetWrite(Gateways!Asset, used)
    BY <2>4, <2>5 DEF AssetWrite
  <2>. QED BY <1>2, <2>1, <2>6 DEF AssetPc
<1>6. CASE Gateways!SaveCustomer(r)
  <2>1. PICK c : c = [call[r] EXCEPT !.pc = "path"]
    OBVIOUS
  <2>2. call[r].pc = "customer" /\ Gateways!Goes(r, c)
    BY <1>6, <2>1 DEF Gateways!SaveCustomer, Gateways!At
  <2>3. c.pc = "path" /\ "pc" \in DOMAIN c
    BY <2>1
  <2>4. PICK a : a = call[r].asset
    OBVIOUS
  <2>5. PICK row : row = [asset[a] EXCEPT !.customer = call[r].customer, !.parent = call[r].parent]
    OBVIOUS
  <2>6. asset' = Gateways!Set(a, row)
    BY <1>6, <2>4, <2>5 DEF Gateways!SaveCustomer
  <2>7. a \in Gateways!Asset => IsAsset(row) /\ row.state = asset[a].state
    BY <2>5, SetAsset
  <2>. QED BY <1>1, <1>3, <2>2, <2>3, <2>6, <2>7 DEF AssetPc
<1>7. CASE Gateways!SavePath(r)
  <2>1. PICK c : c = [call[r] EXCEPT !.pc = "below"]
    OBVIOUS
  <2>2. call[r].pc = "path" /\ Gateways!Goes(r, c)
    BY <1>7, <2>1 DEF Gateways!SavePath, Gateways!At
  <2>3. c.pc = "below" /\ "pc" \in DOMAIN c
    BY <2>1
  <2>4. PICK a : a = call[r].asset
    OBVIOUS
  <2>5. PICK row : row = [asset[a] EXCEPT !.path = call[r].to, !.depth = call[r].depth]
    OBVIOUS
  <2>6. asset' = Gateways!Set(a, row)
    BY <1>7, <2>4, <2>5 DEF Gateways!SavePath
  <2>7. a \in Gateways!Asset => IsAsset(row) /\ row.state = asset[a].state
    BY <2>5, SetAsset
  <2>. QED BY <1>1, <1>3, <2>2, <2>3, <2>6, <2>7 DEF AssetPc
<1>8. CASE Gateways!SaveDescendant(r)
  <2>. DEFINE D == CHOOSE x \in call[r].found :
                     \A y \in call[r].found : x.depth < y.depth \/ (x.depth = y.depth /\ x.id <= y.id)
  <2>1. PICK d, rest : d = D /\ rest = call[r].found \ {D}
    OBVIOUS
  <2>2. call[r].pc = "descend"
    BY <1>8 DEF Gateways!SaveDescendant, Gateways!At
  <2>3. PICK p, n : p = Gateways!Replace(d.path, call[r].from.path, call[r].to)
                    /\ n = d.depth + call[r].depth - call[r].from.depth
    OBVIOUS
  <2>4. PICK row : row = [asset[d.id] EXCEPT !.path = p, !.depth = n]
    OBVIOUS
  <2>5. asset' = Gateways!Set(d.id, row)
    BY <1>8, <2>1, <2>3, <2>4 DEF Gateways!SaveDescendant
  <2>6. d.id \in Gateways!Asset => IsAsset(row) /\ row.state = asset[d.id].state
    BY <2>4, SetAsset
  <2>7. PICK c, e : c = [call[r] EXCEPT !.pc = "descendCustomer", !.found = {d} \cup rest]
                    /\ e = [call[r] EXCEPT !.found = rest]
    OBVIOUS
  <2>8. Gateways!Goes(r, c) \/ Gateways!Done(r) \/ Gateways!Goes(r, e)
    BY <1>8, <2>1, <2>7 DEF Gateways!SaveDescendant
  <2>9. c.pc = "descendCustomer" /\ "pc" \in DOMAIN c /\ e.pc = "descend" /\ "pc" \in DOMAIN e
    BY <2>2, <2>7
  <2>10. AssetWrite(Gateways!Asset, used)
    BY <1>3, <2>5, <2>6
  <2>. QED BY <1>1, <1>2, <2>2, <2>8, <2>9, <2>10 DEF AssetPc
<1>9. CASE Gateways!SaveDescendantCustomer(r)
  <2>. DEFINE D == CHOOSE x \in call[r].found :
                     \A y \in call[r].found : x.depth < y.depth \/ (x.depth = y.depth /\ x.id <= y.id)
  <2>1. PICK d, rest : d = D /\ rest = call[r].found \ {D}
    OBVIOUS
  <2>2. call[r].pc = "descendCustomer"
    BY <1>9 DEF Gateways!SaveDescendantCustomer, Gateways!At
  <2>3. PICK row : row = [asset[d.id] EXCEPT !.customer = call[r].customer]
    OBVIOUS
  <2>4. asset' = Gateways!Set(d.id, row)
    BY <1>9, <2>1, <2>3 DEF Gateways!SaveDescendantCustomer
  <2>5. d.id \in Gateways!Asset => IsAsset(row) /\ row.state = asset[d.id].state
    BY <2>3, SetAsset
  <2>6. PICK c : c = [call[r] EXCEPT !.pc = "descend", !.found = rest]
    OBVIOUS
  <2>7. Gateways!Goes(r, c) \/ Gateways!Done(r)
    BY <1>9, <2>1, <2>6 DEF Gateways!SaveDescendantCustomer
  <2>8. c.pc = "descend" /\ "pc" \in DOMAIN c
    BY <2>6
  <2>9. AssetWrite(Gateways!Asset, used)
    BY <1>3, <2>4, <2>5
  <2>. QED BY <1>1, <1>2, <2>2, <2>7, <2>8, <2>9 DEF AssetPc
<1>. QED BY <1>4, <1>5, <1>6, <1>7, <1>8, <1>9

LEMMA GatewaysAssetSteps ==
  ASSUME NEW r \in Request, "pc" \in DOMAIN call[r], NEW used, AssetRowsOK(Gateways!Asset), Gateways!AssetSteps(r, used)
  PROVE  AssetWrite(Gateways!Asset, used) /\ \E c : AssetRequest(r, c)
<1>1. CASE \/ \E c \in AssetOwner, p \in Gateways!Asset \cup {Gateways!NoAsset} :
                \/ Gateways!CreateAsset(r, c, p)
                \/ \E a \in Gateways!Asset : Gateways!MoveAsset(r, a, p, c)
           \/ \E a \in Gateways!Asset : Gateways!DeleteAsset(r, a)
           \/ Gateways!ReadAssetParent(r) \/ Gateways!LookForChildren(r) \/ Gateways!ReadMoved(r) \/ Gateways!ReadNewParent(r)
           \/ Gateways!ReadBelow(r) \/ Gateways!SelectBelow(r)
  BY <1>1, GatewaysReadSteps DEF AssetWrite
<1>2. CASE \/ Gateways!InsertAsset(r) \/ Gateways!DropAsset(r, used) \/ Gateways!SaveCustomer(r) \/ Gateways!SavePath(r)
           \/ Gateways!SaveDescendant(r) \/ Gateways!SaveDescendantCustomer(r)
  BY <1>2, GatewaysWriteSteps
<1>. QED BY <1>1, <1>2 DEF Gateways!AssetSteps

-----------------------------------------------------------------------------
\* The invariant of centrals

IsKeys(m) == m = [config |-> m.config, stats |-> m.stats]

IsCentral(x) == x = [state |-> x.state, asset |-> x.asset, customer |-> x.customer, connection |-> x.connection,
                     keys |-> [config |-> x.keys.config, stats |-> x.keys.stats], version |-> x.version]

CentralOK(k) ==
  LET x == central[k] IN
  /\ IsCentral(x) /\ x.version \in Nat /\ IsKeys(mergedKeys[k])
  /\ x.state = "unborn" => mergedKeys[k].config = {}
  /\ x.state = "there" =>
       /\ x.asset \in Gateways!Asset /\ asset[x.asset].state = "there"
       /\ mergedKeys[k].config \subseteq x.keys.config

GatewaysRows ==
  /\ AssetRowsOK(Gateways!Asset)
  /\ central = [k \in Gateways!Central |-> central[k]] /\ mergedKeys = [k \in Gateways!Central |-> mergedKeys[k]]
  /\ \A k \in Gateways!Central : CentralOK(k)

\* What an update has read of a central that still is of the version it read.
SeenCentral(c) ==
  LET x == central[c.central] IN
  /\ c.seen.version \in Nat /\ x.state # "unborn"
  /\ x.state = "there" =>
       c.seen.version =< x.version /\ (c.seen.version = x.version => c.seen.keys.config = x.keys.config)

GatewaysCall(c) ==
  /\ "pc" \in DOMAIN c
  /\ c.pc \in {"readCentral", "writeCentral", "dropCentral", "connect", "readStats", "writeStats"} =>
       c.central \in Gateways!Central
  /\ c.pc = "writeCentral" => SeenCentral(c)

GatewaysInv ==
  /\ GatewaysRows
  /\ call = [r \in Request |-> call[r]]
  /\ \A r \in Request : GatewaysCall(call[r])

\* Rows of centrals are not used again, and versions count what changes the configuration.
ConfigAges == \A k \in Gateways!Central : central[k].state # "unborn" =>
  /\ central'[k].state # "unborn"
  /\ central'[k].state = "there" =>
       /\ central[k].state = "there" /\ central'[k].version \in Nat /\ central[k].version =< central'[k].version
       /\ central[k].version = central'[k].version => central[k].keys.config = central'[k].keys.config

LEMMA GatewaysCallStays ==
  ASSUME NEW c, GatewaysCall(c), ConfigAges, \A k \in Gateways!Central : CentralOK(k)
  PROVE  GatewaysCall(c)'
<1>1. ASSUME c.pc = "writeCentral"
      PROVE  SeenCentral(c)'
  <2>1. PICK k \in Gateways!Central : k = c.central
    BY <1>1 DEF GatewaysCall
  <2>2. PICK v, g : v = c.seen.version /\ g = c.seen.keys.config
    OBVIOUS
  <2>3. v \in Nat /\ central[k].state # "unborn"
        /\ (central[k].state = "there" =>
              v =< central[k].version /\ (v = central[k].version => g = central[k].keys.config))
    BY <1>1, <2>1, <2>2 DEF GatewaysCall, SeenCentral
  <2>4. central[k].version \in Nat
    BY <2>1 DEF CentralOK
  <2>5. central'[k].state # "unborn"
        /\ (central'[k].state = "there" =>
              v =< central'[k].version /\ (v = central'[k].version => g = central'[k].keys.config))
    BY <2>1, <2>3, <2>4 DEF ConfigAges
  <2>. QED BY <2>1, <2>2, <2>3, <2>5 DEF SeenCentral
<1>. QED BY <1>1 DEF GatewaysCall

LEMMA GatewaysStep ==
  ASSUME GatewaysInv, NEW r \in Request, NEW c, call' = [call EXCEPT ![r] = c], ConfigAges,
         GatewaysRows', GatewaysCall(c)'
  PROVE  GatewaysInv'
<1>1. call' = [q \in Request |-> call'[q]] /\ \A q \in Request : call'[q] = IF q = r THEN c ELSE call[q]
  BY DEF GatewaysInv
<1>2. ASSUME NEW q \in Request
      PROVE  GatewaysCall(call[q])'
  <2>1. PICK e : e = IF q = r THEN c ELSE call[q]
    OBVIOUS
  <2>2. GatewaysCall(e)'
    <3>1. CASE q = r
      BY <2>1, <3>1
    <3>2. CASE q # r
      <4>1. GatewaysCall(e)
        BY <2>1, <3>2 DEF GatewaysInv
      <4>2. \A k \in Gateways!Central : CentralOK(k)
        BY DEF GatewaysInv, GatewaysRows
      <4>. QED BY <4>1, <4>2, GatewaysCallStays
    <3>. QED BY <3>1, <3>2
  <2>3. e = call'[q]
    BY <1>1, <2>1
  <2>. QED BY <2>2, <2>3 DEF GatewaysCall, SeenCentral
<1>3. \A q \in Request : GatewaysCall(call[q])'
  BY <1>2
<1>4. GatewaysRows'
  OBVIOUS
<1>. HIDE DEF GatewaysRows, GatewaysCall
<1>. QED BY <1>1, <1>3, <1>4 DEF GatewaysInv

\* A step that writes nothing.
LEMMA GatewaysReads ==
  ASSUME GatewaysInv, NEW r \in Request, NEW c, call' = [call EXCEPT ![r] = c],
         UNCHANGED <<asset, central, mergedKeys>>, GatewaysCall(c)
  PROVE  GatewaysInv'
<1>1. ConfigAges
  <2>1. central' = central /\ \A k \in Gateways!Central : central[k].version \in Nat
    BY DEF GatewaysInv, GatewaysRows, CentralOK
  <2>. QED BY <2>1 DEF ConfigAges
<1>2. GatewaysRows'
  BY DEF GatewaysInv, GatewaysRows, CentralOK, AssetRowsOK
<1>3. GatewaysCall(c)'
  BY DEF GatewaysCall, SeenCentral
<1>. QED BY <1>1, <1>2, <1>3, GatewaysStep

LEMMA GatewaysIdle == GatewaysCall(Gateways!Idle) /\ GatewaysCall(Gateways!Idle)'
<1>1. PICK c : c = Gateways!Idle
  OBVIOUS
<1>2. "pc" \in DOMAIN c /\ c.pc = "idle"
  BY <1>1 DEF Gateways!Idle
<1>3. GatewaysCall(c) /\ GatewaysCall(c)'
  BY <1>2 DEF GatewaysCall
<1>. QED BY <1>1, <1>3

LEMMA GatewaysEnds ==
  ASSUME GatewaysInv, NEW r \in Request, UNCHANGED <<asset, central, mergedKeys>>,
         Gateways!Fails(r) \/ Gateways!Done(r)
  PROVE  GatewaysInv'
<1>1. PICK c : c = Gateways!Idle
  OBVIOUS
<1>2. call' = [call EXCEPT ![r] = c]
  BY <1>1 DEF Gateways!Fails, Gateways!Done, Gateways!Goes
<1>3. GatewaysCall(c)
  BY <1>1, GatewaysIdle
<1>. QED BY <1>2, <1>3, GatewaysReads

\* Whatever is written about assets, centrals keep the asset they are in.
LEMMA GatewaysAssets ==
  ASSUME GatewaysInv, NEW r \in Request, Gateways!AssetSteps(r, Gateways!Occupied),
         UNCHANGED <<central, mergedKeys>>
  PROVE  GatewaysInv'
<1>1. PICK used : used = Gateways!Occupied
  OBVIOUS
<1>2. AssetWrite(Gateways!Asset, used) /\ \E c : AssetRequest(r, c)
  <2>1. "pc" \in DOMAIN call[r] /\ AssetRowsOK(Gateways!Asset) /\ Gateways!AssetSteps(r, used)
    BY <1>1 DEF GatewaysInv, GatewaysRows, GatewaysCall
  <2>. QED BY <2>1, GatewaysAssetSteps
<1>3. PICK c : AssetRequest(r, c)
  BY <1>2
<1>4. call' = [call EXCEPT ![r] = c] /\ "pc" \in DOMAIN c /\ c.pc \in AssetPc \cup {"idle"}
  BY <1>3 DEF AssetRequest
<1>5. GatewaysCall(c)'
  BY <1>4 DEF GatewaysCall, AssetPc
<1>6. AssetRowsOK(Gateways!Asset)'
      /\ \A a \in Gateways!Asset \cap used : asset[a].state = "there" => asset'[a].state = "there"
  BY <1>2, AssetsWritten DEF GatewaysInv, GatewaysRows
<1>7. ConfigAges
  <2>1. central' = central /\ \A k \in Gateways!Central : central[k].version \in Nat
    BY DEF GatewaysInv, GatewaysRows, CentralOK
  <2>. QED BY <2>1 DEF ConfigAges
<1>8. ASSUME NEW k \in Gateways!Central
      PROVE  CentralOK(k)'
  <2>1. CentralOK(k)
    BY DEF GatewaysInv, GatewaysRows
  <2>2. ASSUME central[k].state = "there"
        PROVE  asset'[central[k].asset].state = "there"
    <3>1. central[k].asset \in Gateways!Asset \cap used
      BY <1>1, <2>1, <2>2 DEF CentralOK, Gateways!Occupied, Gateways!Working
    <3>. QED BY <1>6, <2>1, <2>2, <3>1 DEF CentralOK
  <2>. QED BY <2>1, <2>2 DEF CentralOK
<1>9. GatewaysRows'
  BY <1>6, <1>8 DEF GatewaysRows, GatewaysInv
<1>. QED BY <1>4, <1>5, <1>7, <1>9, GatewaysStep

-----------------------------------------------------------------------------
\* Requests about centrals, and what they read

LEMMA GatewaysSeen ==
  ASSUME GatewaysInv, NEW k \in Gateways!Central, central[k].state = "there", NEW column, NEW s, s = Gateways!Seen(k),
         NEW c, c = [pc |-> "writeCentral", central |-> k, column |-> column, seen |-> s]
  PROVE  GatewaysCall(c)
<1>1. s.version = central[k].version /\ s.keys = central[k].keys
  BY DEF Gateways!Seen
<1>2. central[k].version \in Nat
  BY DEF GatewaysInv, GatewaysRows, CentralOK
<1>3. "pc" \in DOMAIN c /\ c.pc = "writeCentral" /\ c.central = k /\ c.seen = s
  OBVIOUS
<1>4. SeenCentral(c)
  BY <1>1, <1>2, <1>3 DEF SeenCentral
<1>. QED BY <1>3, <1>4 DEF GatewaysCall

LEMMA GatewaysRequests ==
  ASSUME GatewaysInv, NEW r \in Request,
         \/ \E a \in Gateways!Asset, o \in AssetOwner :
              Gateways!CreateCentral(r, a, o) \/ Gateways!CreateCentralDirectly(r, a, o)
         \/ \E k \in Gateways!Central :
              \/ \E column \in {"config", "status"} :
                   Gateways!UpdateCentral(r, k, column) \/ Gateways!UpdateCentralDirectly(r, k, column)
              \/ \E connection \in {"ONLINE", "OFFLINE"}, stats \in BOOLEAN :
                   Gateways!ReportConnection(r, k, connection, stats)
              \/ Gateways!RecordHeartbeat(r, k)
              \/ Gateways!DeleteCentral(r, k)
  PROVE  GatewaysInv'
<1>. DEFINE Same == UNCHANGED <<asset, central, mergedKeys>>
<1>1. Gateways!CentralReads => Same
  BY DEF Gateways!CentralReads, Gateways!centralTables
<1>2. ASSUME NEW c, Gateways!Begin(r, c), Same, GatewaysCall(c)
      PROVE  GatewaysInv'
  <2>1. call' = [call EXCEPT ![r] = c]
    BY <1>2 DEF Gateways!Begin
  <2>. QED BY <1>2, <2>1, GatewaysReads
<1>3. ASSUME NEW a, NEW o, Gateways!CreateCentral(r, a, o) \/ Gateways!CreateCentralDirectly(r, a, o)
      PROVE  GatewaysInv'
  <2>1. PICK c : c = [pc |-> "insertCentral", asset |-> a, customer |-> o]
    OBVIOUS
  <2>2. Gateways!Begin(r, c) /\ Same
    BY <1>1, <1>3, <2>1 DEF Gateways!CreateCentral, Gateways!CreateCentralDirectly
  <2>3. GatewaysCall(c)
    BY <2>1 DEF GatewaysCall
  <2>. QED BY <1>2, <2>2, <2>3
<1>4. ASSUME NEW k \in Gateways!Central, NEW column, Gateways!UpdateCentral(r, k, column)
      PROVE  GatewaysInv'
  <2>1. PICK c : c = [pc |-> "readCentral", central |-> k, column |-> column]
    OBVIOUS
  <2>2. Gateways!Begin(r, c) /\ Same
    BY <1>1, <1>4, <2>1 DEF Gateways!UpdateCentral
  <2>3. GatewaysCall(c)
    BY <2>1 DEF GatewaysCall
  <2>. QED BY <1>2, <2>2, <2>3
<1>5. ASSUME NEW k \in Gateways!Central, NEW column, Gateways!UpdateCentralDirectly(r, k, column)
      PROVE  GatewaysInv'
  <2>1. PICK s : s = Gateways!Seen(k)
    OBVIOUS
  <2>2. PICK c : c = [pc |-> "writeCentral", central |-> k, column |-> column, seen |-> s]
    OBVIOUS
  <2>3. Gateways!Begin(r, c) /\ Same /\ central[k].state = "there"
    BY <1>1, <1>5, <2>1, <2>2 DEF Gateways!UpdateCentralDirectly, Gateways!Working
  <2>4. GatewaysCall(c)
    BY <2>1, <2>2, <2>3, GatewaysSeen
  <2>. QED BY <1>2, <2>3, <2>4
<1>6. ASSUME NEW k \in Gateways!Central, NEW connection, NEW stats,
             Gateways!ReportConnection(r, k, connection, stats)
      PROVE  GatewaysInv'
  <2>1. PICK c : c = [pc |-> IF stats THEN "readStats" ELSE "connect", central |-> k, connection |-> connection]
    OBVIOUS
  <2>2. Gateways!Begin(r, c) /\ Same
    BY <1>1, <1>6, <2>1 DEF Gateways!ReportConnection
  <2>3. GatewaysCall(c)
    BY <2>1 DEF GatewaysCall
  <2>. QED BY <1>2, <2>2, <2>3
<1>7. ASSUME NEW k \in Gateways!Central, Gateways!DeleteCentral(r, k)
      PROVE  GatewaysInv'
  <2>1. PICK c : c = [pc |-> "dropCentral", central |-> k]
    OBVIOUS
  <2>2. Gateways!Begin(r, c) /\ Same
    BY <1>1, <1>7, <2>1 DEF Gateways!DeleteCentral
  <2>3. GatewaysCall(c)
    BY <2>1 DEF GatewaysCall
  <2>. QED BY <1>2, <2>2, <2>3
<1>8. ASSUME NEW k \in Gateways!Central, Gateways!RecordHeartbeat(r, k)
      PROVE  GatewaysInv'
  BY <1>6, <1>8 DEF Gateways!RecordHeartbeat
<1>. QED BY <1>3, <1>4, <1>5, <1>6, <1>7, <1>8

LEMMA GatewaysReading ==
  ASSUME GatewaysInv, NEW r \in Request, Gateways!ReadCentral(r) \/ Gateways!ReadStats(r)
  PROVE  GatewaysInv'
<1>. DEFINE Same == UNCHANGED <<asset, central, mergedKeys>>
<1>1. Gateways!CentralReads => Same
  BY DEF Gateways!CentralReads, Gateways!centralTables
<1>2. PICK c : c = call[r]
  OBVIOUS
<1>3. ASSUME NEW e, Gateways!Goes(r, e), Same, GatewaysCall(e)
      PROVE  GatewaysInv'
  <2>1. call' = [call EXCEPT ![r] = e]
    BY <1>3 DEF Gateways!Goes
  <2>. QED BY <1>3, <2>1, GatewaysReads
<1>4. c.pc \in {"readCentral", "readStats"} => c.central \in Gateways!Central
  BY <1>2 DEF GatewaysInv, GatewaysCall
<1>5. CASE Gateways!ReadCentral(r)
  <2>1. c.pc = "readCentral" /\ Same
    BY <1>1, <1>2, <1>5 DEF Gateways!ReadCentral, Gateways!At
  <2>2. PICK k \in Gateways!Central : k = c.central
    BY <1>4, <2>1
  <2>3. PICK s : s = Gateways!Seen(k)
    OBVIOUS
  <2>4. PICK e : e = [pc |-> "writeCentral", central |-> k, column |-> c.column, seen |-> s]
    OBVIOUS
  <2>5. Gateways!Done(r) \/ (Gateways!Goes(r, e) /\ central[k].state = "there")
    BY <1>2, <1>5, <2>2, <2>3, <2>4 DEF Gateways!ReadCentral, Gateways!Working
  <2>6. central[k].state = "there" => GatewaysCall(e)
    BY <2>3, <2>4, GatewaysSeen
  <2>. QED BY <1>3, <2>1, <2>5, <2>6, GatewaysEnds
<1>6. CASE Gateways!ReadStats(r)
  <2>1. c.pc = "readStats" /\ Same
    BY <1>1, <1>2, <1>6 DEF Gateways!ReadStats, Gateways!At
  <2>2. PICK k \in Gateways!Central : k = c.central
    BY <1>4, <2>1
  <2>3. PICK t : t = central[k].keys.stats
    OBVIOUS
  <2>4. PICK e : e = [pc |-> "writeStats", central |-> k, connection |-> c.connection, stats |-> t]
    OBVIOUS
  <2>5. Gateways!Done(r) \/ Gateways!Goes(r, e)
    BY <1>2, <1>6, <2>2, <2>3, <2>4 DEF Gateways!ReadStats
  <2>6. GatewaysCall(e)
    BY <2>4 DEF GatewaysCall
  <2>. QED BY <1>3, <2>1, <2>5, <2>6, GatewaysEnds
<1>. QED BY <1>5, <1>6

-----------------------------------------------------------------------------
\* What requests write about centrals

\* The request r ends with the row y of the central k, and with m answered for it.
LEMMA GatewaysWrites ==
  ASSUME GatewaysInv, NEW r \in Request, Gateways!Done(r), UNCHANGED asset,
         NEW k \in Gateways!Central, NEW y, NEW m,
         central' = [central EXCEPT ![k] = y], mergedKeys' = [mergedKeys EXCEPT ![k] = m],
         IsCentral(y), y.version \in Nat, y.state # "unborn", IsKeys(m),
         y.state = "there" =>
           y.asset \in Gateways!Asset /\ asset[y.asset].state = "there" /\ m.config \subseteq y.keys.config,
         central[k].state # "unborn" /\ y.state = "there" =>
           /\ central[k].state = "there" /\ central[k].version =< y.version
           /\ central[k].version = y.version => central[k].keys.config = y.keys.config
  PROVE  GatewaysInv'
<1>1. /\ central' = [x \in Gateways!Central |-> central'[x]]
      /\ mergedKeys' = [x \in Gateways!Central |-> mergedKeys'[x]]
      /\ \A x \in Gateways!Central : central'[x] = IF x = k THEN y ELSE central[x]
      /\ \A x \in Gateways!Central : mergedKeys'[x] = IF x = k THEN m ELSE mergedKeys[x]
  BY DEF GatewaysInv, GatewaysRows
<1>2. \A x \in Gateways!Central : CentralOK(x)
  BY DEF GatewaysInv, GatewaysRows
<1>3. ASSUME NEW x \in Gateways!Central
      PROVE  CentralOK(x)'
  <2>1. CASE x = k
    BY <1>1, <2>1 DEF CentralOK
  <2>2. CASE x # k
    BY <1>1, <1>2, <2>2 DEF CentralOK
  <2>. QED BY <2>1, <2>2
<1>4. GatewaysRows'
  BY <1>1, <1>3 DEF GatewaysRows, GatewaysInv, AssetRowsOK
<1>5. ConfigAges
  <2>1. \A x \in Gateways!Central : central[x].version \in Nat
    BY <1>2 DEF CentralOK
  <2>2. ASSUME NEW x \in Gateways!Central, x # k
        PROVE  central'[x] = central[x] /\ central[x].version \in Nat
    BY <1>1, <2>1, <2>2
  <2>3. central'[k] = y
    BY <1>1
  <2>4. y.state = "there" => central[k].version \in Nat
    BY <2>1
  <2>. QED BY <2>2, <2>3, <2>4 DEF ConfigAges
<1>6. PICK c : c = Gateways!Idle
  OBVIOUS
<1>7. call' = [call EXCEPT ![r] = c]
  BY <1>6 DEF Gateways!Done, Gateways!Goes
<1>8. GatewaysCall(c)'
  BY <1>6, GatewaysIdle
<1>. QED BY <1>4, <1>5, <1>7, <1>8, GatewaysStep

\* The rows that updates and reports write.
Configuring(x, g, v) == [x EXCEPT !.keys.config = g, !.version = v]
Versioning(x, v) == [x EXCEPT !.version = v]
Connecting(x, o) == [x EXCEPT !.connection = o]
Reporting(x, o, t) == [x EXCEPT !.connection = o, !.keys.stats = t]

LEMMA CentralWritten ==
  ASSUME NEW x, IsCentral(x), NEW y, NEW g, NEW v, NEW o, NEW t,
         \/ y = Configuring(x, g, v) \/ y = Versioning(x, v)
         \/ y = Connecting(x, o) \/ y = Reporting(x, o, t)
  PROVE  /\ IsCentral(y) /\ y.state = x.state /\ y.asset = x.asset
         /\ y = Configuring(x, g, v) => y.version = v /\ y.keys.config = g
         /\ y = Versioning(x, v) => y.version = v /\ y.keys.config = x.keys.config
         /\ y = Connecting(x, o) \/ y = Reporting(x, o, t) => y.version = x.version /\ y.keys.config = x.keys.config
<1>1. PICK s, a, p, q, c, u, w : s = x.state /\ a = x.asset /\ p = x.customer /\ q = x.connection
                                 /\ c = x.keys.config /\ u = x.keys.stats /\ w = x.version
  OBVIOUS
<1>2. PICK l : l = [config |-> c, stats |-> u]
  OBVIOUS
<1>3. x = [state |-> s, asset |-> a, customer |-> p, connection |-> q, keys |-> l, version |-> w]
  BY <1>1, <1>2 DEF IsCentral
<1>. DEFINE Row(q1, l1, w1) == [state |-> s, asset |-> a, customer |-> p, connection |-> q1, keys |-> l1, version |-> w1]
<1>4. ASSUME NEW q1, NEW c1, NEW u1, NEW l1, NEW w1, NEW z, l1 = [config |-> c1, stats |-> u1], z = Row(q1, l1, w1)
      PROVE  IsCentral(z) /\ z.state = s /\ z.asset = a /\ z.version = w1 /\ z.keys.config = c1
  BY <1>4 DEF IsCentral
<1>5. Configuring(x, g, v) = Row(q, [config |-> g, stats |-> u], v)
  <2>1. PICK l1 : l1 = [config |-> g, stats |-> u]
    OBVIOUS
  <2>2. l1 = [l EXCEPT !.config = g]
    BY ONLY <1>2, <2>1
  <2>3. PICK z : z = Row(q, l1, w)
    OBVIOUS
  <2>4. z = [x EXCEPT !.keys = l1]
    BY ONLY <1>3, <2>3
  <2>5. PICK y1 : y1 = Row(q, l1, v)
    OBVIOUS
  <2>6. y1 = [z EXCEPT !.version = v]
    BY ONLY <2>3, <2>5
  <2>7. x.keys = l
    BY ONLY <1>3
  <2>8. Configuring(x, g, v) = [[x EXCEPT !.keys = [x.keys EXCEPT !.config = g]] EXCEPT !.version = v]
    BY ONLY DEF Configuring
  <2>9. [[x EXCEPT !.keys = [x.keys EXCEPT !.config = g]] EXCEPT !.version = v] = [z EXCEPT !.version = v]
    BY ONLY <2>2, <2>4, <2>7
  <2>. QED BY ONLY <2>1, <2>5, <2>6, <2>8, <2>9
<1>6. Versioning(x, v) = Row(q, l, v)
  <2>1. PICK y1 : y1 = Row(q, l, v)
    OBVIOUS
  <2>2. y1 = [x EXCEPT !.version = v]
    BY ONLY <1>3, <2>1
  <2>. QED BY ONLY <2>1, <2>2 DEF Versioning
<1>7. Connecting(x, o) = Row(o, l, w)
  <2>1. PICK y1 : y1 = Row(o, l, w)
    OBVIOUS
  <2>2. y1 = [x EXCEPT !.connection = o]
    BY ONLY <1>3, <2>1
  <2>. QED BY ONLY <2>1, <2>2 DEF Connecting
<1>8. Reporting(x, o, t) = Row(o, [config |-> c, stats |-> t], w)
  <2>1. PICK l1 : l1 = [config |-> c, stats |-> t]
    OBVIOUS
  <2>2. l1 = [l EXCEPT !.stats = t]
    BY ONLY <1>2, <2>1
  <2>3. PICK z : z = Row(o, l, w)
    OBVIOUS
  <2>4. z = [x EXCEPT !.connection = o]
    BY ONLY <1>3, <2>3
  <2>5. PICK y1 : y1 = Row(o, l1, w)
    OBVIOUS
  <2>6. y1 = [z EXCEPT !.keys = l1]
    BY ONLY <2>3, <2>5
  <2>7. z.keys = l
    BY ONLY <2>3
  <2>8. Reporting(x, o, t) = [[x EXCEPT !.connection = o] EXCEPT !.keys = [[x EXCEPT !.connection = o].keys EXCEPT !.stats = t]]
    BY ONLY DEF Reporting
  <2>9. Reporting(x, o, t) = [z EXCEPT !.keys = [z.keys EXCEPT !.stats = t]]
    BY ONLY <2>4, <2>8
  <2>10. [z EXCEPT !.keys = [z.keys EXCEPT !.stats = t]] = [z EXCEPT !.keys = l1]
    BY ONLY <2>2, <2>7
  <2>. QED BY ONLY <2>1, <2>5, <2>6, <2>9, <2>10
<1>. HIDE DEF Row
<1>9. y = Configuring(x, g, v) => IsCentral(y) /\ y.state = s /\ y.asset = a /\ y.version = v /\ y.keys.config = g
  BY <1>4, <1>5
<1>10. y = Versioning(x, v) => IsCentral(y) /\ y.state = s /\ y.asset = a /\ y.version = v /\ y.keys.config = c
  BY <1>2, <1>4, <1>6
<1>11. y = Connecting(x, o) => IsCentral(y) /\ y.state = s /\ y.asset = a /\ y.version = w /\ y.keys.config = c
  BY <1>2, <1>4, <1>7
<1>12. y = Reporting(x, o, t) => IsCentral(y) /\ y.state = s /\ y.asset = a /\ y.version = w /\ y.keys.config = c
  BY <1>4, <1>8
<1>. QED BY <1>1, <1>9, <1>10, <1>11, <1>12

LEMMA GatewaysInserting ==
  ASSUME GatewaysInv, NEW r \in Request, Gateways!InsertCentral(r)
  PROVE  GatewaysInv'
<1>1. PICK s : s = call[r]
  OBVIOUS
<1>2. Gateways!Done(r) /\ UNCHANGED <<asset, mergedKeys>>
  BY DEF Gateways!InsertCentral
<1>3. PICK k : k = Gateways!Min(Gateways!NewCentrals)
  OBVIOUS
<1>4. PICK none : none = {}
  OBVIOUS
<1>5. PICK l : l = [config |-> none, stats |-> none]
  OBVIOUS
<1>6. PICK y : y = [state |-> "there", asset |-> s.asset, customer |-> s.customer, connection |-> "OFFLINE",
                    keys |-> l, version |-> 1]
  OBVIOUS
<1>7. central' = IF Gateways!NewCentrals = {} \/ ~Gateways!There(s.asset) THEN central ELSE [central EXCEPT ![k] = y]
  BY <1>1, <1>3, <1>4, <1>5, <1>6 DEF Gateways!InsertCentral, Gateways!NoKeys
<1>8. CASE Gateways!NewCentrals = {} \/ ~Gateways!There(s.asset)
  BY <1>2, <1>7, <1>8, GatewaysEnds
<1>9. CASE Gateways!NewCentrals # {} /\ Gateways!There(s.asset)
  <2>1. k \in Gateways!NewCentrals
    <3>1. Gateways!NewCentrals \in SUBSET Nat
      BY EstateAssumption DEF Gateways!NewCentrals, Gateways!Central
    <3>2. \E x \in Gateways!NewCentrals : \A z \in Gateways!NewCentrals : x =< z
      BY <1>9, <3>1, LeastOf
    <3>. QED BY <1>3, <3>2 DEF Gateways!Min
  <2>2. k \in Gateways!Central /\ central[k].state = "unborn"
    BY <2>1 DEF Gateways!NewCentrals
  <2>3. CentralOK(k)
    BY <2>2 DEF GatewaysInv, GatewaysRows
  <2>4. mergedKeys[k].config = {} /\ IsKeys(mergedKeys[k])
    BY <2>2, <2>3 DEF CentralOK
  <2>5. mergedKeys' = [mergedKeys EXCEPT ![k] = mergedKeys[k]]
    BY <1>2 DEF GatewaysInv, GatewaysRows
  <2>6. IsCentral(y) /\ y.version \in Nat /\ y.state = "there" /\ y.asset = s.asset
    BY <1>5, <1>6 DEF IsCentral
  <2>7. s.asset \in Gateways!Asset /\ asset[s.asset].state = "there"
    BY <1>9 DEF Gateways!There
  <2>8. central' = [central EXCEPT ![k] = y]
    BY <1>7, <1>9
  <2>9. mergedKeys[k].config \subseteq y.keys.config
    BY <2>4
  <2>. QED BY <1>2, <2>2, <2>4, <2>5, <2>6, <2>7, <2>8, <2>9, GatewaysWrites
<1>. QED BY <1>8, <1>9

LEMMA GatewaysWriting ==
  ASSUME GatewaysInv, NEW r \in Request,
         Gateways!WriteCentral(r) \/ Gateways!DropCentral(r) \/ Gateways!Connect(r) \/ Gateways!WriteStats(r)
  PROVE  GatewaysInv'
<1>1. PICK s : s = call[r]
  OBVIOUS
<1>2. Gateways!Done(r) /\ UNCHANGED asset /\ s.pc \in {"writeCentral", "dropCentral", "connect", "writeStats"}
  BY <1>1 DEF Gateways!WriteCentral, Gateways!DropCentral, Gateways!Connect, Gateways!WriteStats, Gateways!At
<1>3. GatewaysCall(s)
  BY <1>1 DEF GatewaysInv
<1>4. PICK k \in Gateways!Central : k = s.central
  BY <1>2, <1>3 DEF GatewaysCall
<1>5. PICK x : x = central[k]
  OBVIOUS
<1>6. CentralOK(k)
  BY DEF GatewaysInv, GatewaysRows
<1>7. IsCentral(x) /\ x.version \in Nat /\ IsKeys(mergedKeys[k])
      /\ (x.state = "there" => x.asset \in Gateways!Asset /\ asset[x.asset].state = "there"
                              /\ mergedKeys[k].config \subseteq x.keys.config)
  BY <1>5, <1>6 DEF CentralOK
<1>8. central = [z \in Gateways!Central |-> central[z]] /\ mergedKeys = [z \in Gateways!Central |-> mergedKeys[z]]
  BY DEF GatewaysInv, GatewaysRows
<1>9. mergedKeys = [mergedKeys EXCEPT ![k] = mergedKeys[k]]
  BY <1>8
<1>10. Gateways!Working(k) <=> x.state = "there"
  BY <1>5 DEF Gateways!Working
<1>11. ASSUME UNCHANGED <<central, mergedKeys>>
       PROVE  GatewaysInv'
  BY <1>2, <1>11, GatewaysEnds
<1>12. ASSUME x.state = "there", NEW y, central' = [central EXCEPT ![k] = y], NEW m,
              mergedKeys' = [mergedKeys EXCEPT ![k] = m], IsKeys(m), IsCentral(y), y.state = "there", y.asset = x.asset,
              y.version \in Nat, x.version =< y.version, x.version = y.version => x.keys.config = y.keys.config,
              m.config \subseteq y.keys.config
       PROVE  GatewaysInv'
  BY <1>2, <1>5, <1>7, <1>12, GatewaysWrites
<1>13. CASE Gateways!WriteCentral(r)
  <2>1. CASE ~Gateways!Unmodified(s)
    BY <1>1, <1>11, <1>13, <2>1 DEF Gateways!WriteCentral
  <2>2. CASE Gateways!Unmodified(s)
    <3>1. PICK v, g : v = s.seen.version + 1 /\ g = s.seen.keys.config \cup {r}
      OBVIOUS
    <3>2. x.state = "there" /\ x.version = s.seen.version
      BY <1>4, <1>5, <1>10, <2>2 DEF Gateways!Unmodified
    <3>3. s.seen.keys.config = x.keys.config
      BY <1>1, <1>2, <1>3, <1>4, <1>5, <1>13, <3>2 DEF GatewaysCall, SeenCentral, Gateways!WriteCentral, Gateways!At
    <3>4. v \in Nat /\ x.version =< v /\ x.version # v
      BY <1>7, <3>1, <3>2
    <3>5. CASE s.column = "config"
      <4>1. central' = [central EXCEPT ![k].keys.config = g, ![k].version = v]
            /\ mergedKeys' = [mergedKeys EXCEPT ![k].config = mergedKeys[k].config \cup {r}]
        BY <1>1, <1>4, <1>13, <2>2, <3>1, <3>5 DEF Gateways!WriteCentral
      <4>2. PICK y : y = Configuring(x, g, v)
        OBVIOUS
      <4>3. central' = [central EXCEPT ![k] = y]
        BY <1>5, <1>8, <4>1, <4>2 DEF Configuring
      <4>4. PICK c, u, m : c = mergedKeys[k].config /\ u = mergedKeys[k].stats
                           /\ m = [config |-> c \cup {r}, stats |-> u]
        OBVIOUS
      <4>5. mergedKeys[k] = [config |-> c, stats |-> u]
        BY <1>7, <4>4 DEF IsKeys
      <4>6. m = [mergedKeys[k] EXCEPT !.config = c \cup {r}]
        BY <4>4, <4>5
      <4>7. mergedKeys' = [mergedKeys EXCEPT ![k] = m]
        BY <1>8, <4>1, <4>4, <4>6
      <4>8. IsKeys(m) /\ m.config = c \cup {r}
        BY <4>4 DEF IsKeys
      <4>9. IsCentral(y) /\ y.state = x.state /\ y.asset = x.asset /\ y.version = v /\ y.keys.config = g
        BY <1>7, <4>2, CentralWritten
      <4>10. m.config \subseteq y.keys.config
        BY <1>7, <3>1, <3>2, <3>3, <4>4, <4>8, <4>9
      <4>. QED BY <1>12, <3>2, <3>4, <4>3, <4>7, <4>8, <4>9, <4>10
    <3>6. CASE s.column # "config"
      <4>1. central' = [central EXCEPT ![k].version = v] /\ mergedKeys' = mergedKeys
        BY <1>1, <1>4, <1>13, <2>2, <3>1, <3>6 DEF Gateways!WriteCentral
      <4>2. PICK y : y = Versioning(x, v)
        OBVIOUS
      <4>3. central' = [central EXCEPT ![k] = y]
        BY <1>5, <1>8, <4>1, <4>2 DEF Versioning
      <4>4. IsCentral(y) /\ y.state = x.state /\ y.asset = x.asset /\ y.version = v /\ y.keys.config = x.keys.config
        BY <1>7, <4>2, CentralWritten
      <4>. QED BY <1>7, <1>9, <1>12, <3>2, <3>4, <4>1, <4>3, <4>4
    <3>. QED BY <3>5, <3>6
  <2>. QED BY <2>1, <2>2
<1>14. CASE Gateways!DropCentral(r)
  <2>1. PICK none : none = {}
    OBVIOUS
  <2>2. PICK o, l : o = (CHOOSE c \in AssetOwner : TRUE) /\ l = [config |-> none, stats |-> none]
    OBVIOUS
  <2>3. PICK u : u = [state |-> "unborn", asset |-> 0, customer |-> o, connection |-> "OFFLINE", keys |-> l, version |-> 0]
    OBVIOUS
  <2>4. PICK y : y = [state |-> "gone", asset |-> 0, customer |-> o, connection |-> "OFFLINE", keys |-> l, version |-> 0]
    OBVIOUS
  <2>5. y = [u EXCEPT !.state = "gone"]
    BY ONLY <2>3, <2>4
  <2>6. u = Gateways!UnbornCentral
    BY <2>1, <2>2, <2>3 DEF Gateways!UnbornCentral, Gateways!NoAsset, Gateways!NoKeys
  <2>7. central' = (IF Gateways!Working(k) THEN [central EXCEPT ![k] = y] ELSE central) /\ mergedKeys' = mergedKeys
    BY <1>1, <1>4, <1>14, <2>5, <2>6 DEF Gateways!DropCentral
  <2>8. IsCentral(y) /\ y.version \in Nat /\ y.state = "gone"
    BY <2>2, <2>4 DEF IsCentral
  <2>9. CASE Gateways!Working(k)
    BY <1>2, <1>7, <1>9, <2>7, <2>8, <2>9, GatewaysWrites
  <2>. QED BY <1>11, <2>7, <2>9
<1>15. CASE Gateways!Connect(r)
  <2>1. PICK y : y = Connecting(x, s.connection)
    OBVIOUS
  <2>2. central' = (IF Gateways!Working(k) THEN [central EXCEPT ![k].connection = s.connection] ELSE central)
        /\ mergedKeys' = mergedKeys
    BY <1>1, <1>4, <1>15 DEF Gateways!Connect
  <2>3. CASE Gateways!Working(k)
    <3>1. central' = [central EXCEPT ![k] = y]
      BY <1>5, <1>8, <2>1, <2>2, <2>3 DEF Connecting
    <3>2. IsCentral(y) /\ y.state = x.state /\ y.asset = x.asset /\ y.version = x.version
          /\ y.keys.config = x.keys.config
      BY <1>7, <2>1, CentralWritten
    <3>3. x.state = "there" /\ mergedKeys' = [mergedKeys EXCEPT ![k] = mergedKeys[k]]
      BY <1>9, <1>10, <2>2, <2>3
    <3>4. y.state = "there" /\ y.version \in Nat /\ x.version =< y.version /\ mergedKeys[k].config \subseteq y.keys.config
      BY <1>7, <3>2, <3>3
    <3>5. IsKeys(mergedKeys[k])
      BY <1>7
    <3>. QED BY <1>12, <3>1, <3>2, <3>3, <3>4, <3>5
  <2>. QED BY <1>11, <2>2, <2>3
<1>16. CASE Gateways!WriteStats(r)
  <2>1. CASE ~Gateways!Working(k)
    BY <1>1, <1>4, <1>11, <1>16, <2>1 DEF Gateways!WriteStats
  <2>2. CASE Gateways!Working(k)
    <3>1. PICK t : t = s.stats \cup {r}
      OBVIOUS
    <3>2. central' = [central EXCEPT ![k].connection = s.connection, ![k].keys.stats = t]
          /\ mergedKeys' = [mergedKeys EXCEPT ![k].stats = mergedKeys[k].stats \cup {r}]
      BY <1>1, <1>4, <1>16, <2>2, <3>1 DEF Gateways!WriteStats
    <3>3. PICK y : y = Reporting(x, s.connection, t)
      OBVIOUS
    <3>4. central' = [central EXCEPT ![k] = y]
      BY <1>5, <1>8, <3>2, <3>3 DEF Reporting
    <3>5. PICK c, u, m : c = mergedKeys[k].config /\ u = mergedKeys[k].stats
                         /\ m = [config |-> c, stats |-> u \cup {r}]
      OBVIOUS
    <3>6. mergedKeys[k] = [config |-> c, stats |-> u]
      BY <1>7, <3>5 DEF IsKeys
    <3>7. m = [mergedKeys[k] EXCEPT !.stats = u \cup {r}]
      BY <3>5, <3>6
    <3>8. mergedKeys' = [mergedKeys EXCEPT ![k] = m]
      BY <1>8, <3>2, <3>5, <3>7
    <3>9. IsKeys(m) /\ m.config = c
      BY <3>5 DEF IsKeys
    <3>10. IsCentral(y) /\ y.state = x.state /\ y.asset = x.asset /\ y.version = x.version
           /\ y.keys.config = x.keys.config
      BY <1>7, <3>3, CentralWritten
    <3>11. x.state = "there" /\ y.version \in Nat /\ x.version =< y.version
      BY <1>7, <1>10, <2>2, <3>10
    <3>12. m.config \subseteq y.keys.config
      BY <1>7, <3>5, <3>9, <3>10, <3>11
    <3>. QED BY <1>12, <3>4, <3>8, <3>9, <3>10, <3>11, <3>12
  <2>. QED BY <2>1, <2>2
<1>. QED BY <1>13, <1>14, <1>15, <1>16

-----------------------------------------------------------------------------
\* From the invariant of centrals

LEMMA GatewaysStart ==
  ASSUME Gateways!CentralsInit
  PROVE  GatewaysInv
<1>1. /\ asset = [a \in Gateways!Asset |-> IF a = 1 THEN Gateways!FirstAsset ELSE Gateways!UnbornAsset]
      /\ call = [r \in Request |-> Gateways!Idle]
  BY DEF Gateways!CentralsInit, Gateways!AssetsInit, Gateways!RequestsInit
<1>2. /\ central = [k \in Gateways!Central |-> Gateways!UnbornCentral]
      /\ mergedKeys = [k \in Gateways!Central |-> Gateways!NoKeys]
  BY DEF Gateways!CentralsInit
<1>3. PICK o, none, path : o = (CHOOSE c \in AssetOwner : TRUE) /\ none = {} /\ path = <<>>
  OBVIOUS
<1>4. PICK unborn : unborn = [state |-> "unborn", customer |-> o, parent |-> 0, path |-> path, depth |-> 0]
  OBVIOUS
<1>5. unborn = Gateways!UnbornAsset
  BY <1>3, <1>4 DEF Gateways!UnbornAsset, Gateways!NoAsset
<1>6. PICK first : first = Gateways!FirstAsset
  OBVIOUS
<1>7. IsAsset(unborn)
  BY <1>4 DEF IsAsset
<1>8. PICK p : first = [unborn EXCEPT !.state = "there", !.path = p]
  BY <1>5, <1>6 DEF Gateways!FirstAsset
<1>9. IsAsset(first)
  BY <1>4, <1>8 DEF IsAsset
<1>10. AssetRowsOK(Gateways!Asset)
  BY <1>1, <1>5, <1>6, <1>7, <1>9 DEF AssetRowsOK
<1>11. PICK l : l = [config |-> none, stats |-> none]
  OBVIOUS
<1>12. PICK u : u = [state |-> "unborn", asset |-> 0, customer |-> o, connection |-> "OFFLINE", keys |-> l, version |-> 0]
  OBVIOUS
<1>13. u = Gateways!UnbornCentral /\ l = Gateways!NoKeys
  BY <1>3, <1>11, <1>12 DEF Gateways!UnbornCentral, Gateways!NoAsset, Gateways!NoKeys
<1>14. IsCentral(u) /\ u.version \in Nat /\ IsKeys(l) /\ u.state = "unborn" /\ l.config = {}
  BY <1>3, <1>11, <1>12 DEF IsCentral, IsKeys
<1>15. \A k \in Gateways!Central : central[k] = u /\ mergedKeys[k] = l
  BY <1>2, <1>13
<1>16. \A k \in Gateways!Central : CentralOK(k)
  BY <1>14, <1>15 DEF CentralOK
<1>17. GatewaysRows
  BY <1>2, <1>10, <1>16 DEF GatewaysRows
<1>18. \A r \in Request : GatewaysCall(call[r])
  BY <1>1, GatewaysIdle
<1>. QED BY <1>1, <1>17, <1>18 DEF GatewaysInv

LEMMA GatewaysGoOn ==
  ASSUME GatewaysInv, [Gateways!CentralsNext]_<<asset, gateways, requests>>
  PROVE  GatewaysInv'
<1>1. CASE UNCHANGED <<asset, gateways, requests>>
  <2>1. UNCHANGED <<asset, central, mergedKeys>> /\ UNCHANGED call
    BY <1>1 DEF gateways, requests
  <2>. QED BY <2>1 DEF GatewaysInv, GatewaysRows, CentralOK, AssetRowsOK, GatewaysCall, SeenCentral
<1>2. ASSUME NEW r \in Request,
             \/ Gateways!AssetSteps(r, Gateways!Occupied) /\ UNCHANGED <<central, mergedKeys>>
             \/ \E a \in Gateways!Asset, o \in AssetOwner :
                  Gateways!CreateCentral(r, a, o) \/ Gateways!CreateCentralDirectly(r, a, o)
             \/ \E k \in Gateways!Central :
                  \/ \E column \in {"config", "status"} :
                       Gateways!UpdateCentral(r, k, column) \/ Gateways!UpdateCentralDirectly(r, k, column)
                  \/ \E connection \in {"ONLINE", "OFFLINE"}, stats \in BOOLEAN :
                       Gateways!ReportConnection(r, k, connection, stats)
                  \/ Gateways!RecordHeartbeat(r, k)
                  \/ Gateways!DeleteCentral(r, k)
             \/ Gateways!InsertCentral(r) \/ Gateways!ReadCentral(r) \/ Gateways!WriteCentral(r)
             \/ Gateways!DropCentral(r) \/ Gateways!Connect(r) \/ Gateways!ReadStats(r) \/ Gateways!WriteStats(r)
             \/ Gateways!Fails(r) /\ Gateways!CentralReads
      PROVE  GatewaysInv'
  <2>1. CASE Gateways!AssetSteps(r, Gateways!Occupied) /\ UNCHANGED <<central, mergedKeys>>
    BY <2>1, GatewaysAssets
  <2>2. CASE \/ \E a \in Gateways!Asset, o \in AssetOwner :
                  Gateways!CreateCentral(r, a, o) \/ Gateways!CreateCentralDirectly(r, a, o)
             \/ \E k \in Gateways!Central :
                  \/ \E column \in {"config", "status"} :
                       Gateways!UpdateCentral(r, k, column) \/ Gateways!UpdateCentralDirectly(r, k, column)
                  \/ \E connection \in {"ONLINE", "OFFLINE"}, stats \in BOOLEAN :
                       Gateways!ReportConnection(r, k, connection, stats)
                  \/ Gateways!RecordHeartbeat(r, k)
                  \/ Gateways!DeleteCentral(r, k)
    BY <2>2, GatewaysRequests
  <2>3. CASE Gateways!ReadCentral(r) \/ Gateways!ReadStats(r)
    BY <2>3, GatewaysReading
  <2>4. CASE Gateways!InsertCentral(r)
    BY <2>4, GatewaysInserting
  <2>5. CASE Gateways!WriteCentral(r) \/ Gateways!DropCentral(r) \/ Gateways!Connect(r) \/ Gateways!WriteStats(r)
    BY <2>5, GatewaysWriting
  <2>6. CASE Gateways!Fails(r) /\ Gateways!CentralReads
    <3>1. UNCHANGED <<asset, central, mergedKeys>>
      BY <2>6 DEF Gateways!CentralReads, Gateways!centralTables
    <3>. QED BY <2>6, <3>1, GatewaysEnds
  <2>. QED BY <1>2, <2>1, <2>2, <2>3, <2>4, <2>5, <2>6
<1>3. CASE Gateways!CentralsNext
  BY <1>2, <1>3 DEF Gateways!CentralsNext
<1>. QED BY <1>1, <1>3

LEMMA GatewaysHold ==
  ASSUME GatewaysInv
  PROVE  Gateways!CentralHasAsset /\ Gateways!ConfigKept
<1>1. \A k \in Gateways!Central : CentralOK(k)
  BY DEF GatewaysInv, GatewaysRows
<1>. QED BY <1>1 DEF CentralOK, Gateways!CentralHasAsset, Gateways!ConfigKept, Gateways!Working, Gateways!There
=============================================================================
