------------------------ MODULE AuthorizationProofs ------------------------
(***************************************************************************)
(* Type correctness of Authorization; that an explicit deny wins, and that *)
(* what is allowed and nowhere denied is granted, for any number of        *)
(* policies, roles, assignments and overlapping requests; and that         *)
(* references lead somewhere where requests do not overlap.                *)
(***************************************************************************)
EXTENDS Authorization, TLAPS

-----------------------------------------------------------------------------
\* Types

PolicyPc == {"insertingPolicy", "readingPolicy", "writingPolicy", "listingRoles",
             "rereadingPolicy", "deletingPolicy"}
RolePc   == {"findingRole", "insertingRole", "checkingPolicies", "readingRole", "writingRole",
             "countingAssignments", "rereadingRole", "deletingRole"}
GrantPc  == {"checkingAssignment", "insertingAssignment", "readingAssignment", "writingAssignment"}
EvalPc   == {"findingAssignments", "findingRoles", "findingPolicies"}

\* What a request knows at each of its steps.
Good(c) ==
  /\ c.pc \in PolicyPc => c.id \in PolicyId
  /\ c.pc = "insertingPolicy" => c.key \in PolicyKey
  /\ c.pc \in RolePc => c.id \in RoleId
  /\ c.pc \in {"findingRole", "insertingRole"} => c.key \in RoleKey
  /\ c.pc \in GrantPc => c.grant \in Assignment
  /\ c.pc \in EvalPc <=> c.user # None
  /\ c.answer # "none" => c.pc = "idle"

TypeInv == TypeOK /\ \A r \in Request : Good(call[r])

\* Request r goes on as n.
Becomes(r, n) ==
  /\ n \in Call /\ Good(n)
  /\ call' = [call EXCEPT ![r] = n]
  /\ made' \in 0 .. MaxRequests /\ faults' \in 0 .. MaxFaults

\* Outside an evaluation.
Apart(n) == n.pc \notin EvalPc /\ n.answer = "none"

LEMMA IdleType == Idle \in Call /\ Good(Idle) /\ Apart(Idle)
<1>1. Idle \in Call
  BY DEF Idle, Call, Lists, Pc
<1>2. Good(Idle) /\ Apart(Idle)
  BY DEF Idle, Good, Apart, PolicyPc, RolePc, GrantPc, EvalPc
<1>. QED BY <1>1, <1>2

\* A new request that sets some fields.
Ids   == PolicyId \cup RoleId
Keys  == PolicyKey \cup RoleKey \cup {None}
Given == [allow : SUBSET Pattern, deny : SUBSET Pattern]

LEMMA NewType ==
  ASSUME NEW pc \in Pc
  PROVE  /\ \A id \in Ids, k \in Keys, c \in Given :
              [At(pc) EXCEPT !.id = id, !.key = k, !.content = c] \in Call
         /\ \A id \in Ids, c \in Given : [At(pc) EXCEPT !.id = id, !.content = c] \in Call
         /\ \A id \in Ids, k \in Keys : [At(pc) EXCEPT !.id = id, !.key = k] \in Call
         /\ \A id \in Ids, k \in Keys, ps \in SUBSET PolicyKey :
              [At(pc) EXCEPT !.id = id, !.key = k, !.policies = ps] \in Call
         /\ \A id \in Ids, ps \in SUBSET PolicyKey :
              [At(pc) EXCEPT !.id = id, !.policies = ps] \in Call
         /\ \A a \in Assignment : [At(pc) EXCEPT !.grant = a] \in Call
         /\ \A u \in User, p \in Permission, res \in Resource :
              [At(pc) EXCEPT !.user = u, !.permission = p, !.resource = res] \in Call
<1>1. At(pc) \in Call
  <2>. HIDE DEF Idle
  <2>. QED BY IdleType DEF At, Call
<1>. DEFINE here == At(pc)
<1>2. here \in Call
  BY <1>1
<1>. HIDE DEF here
<1>3. \A id \in Ids, k \in Keys, c \in Given : [here EXCEPT !.id = id, !.key = k, !.content = c] \in Call
  BY <1>2 DEF Call, Ids, Keys, Given
<1>4. \A id \in Ids, c \in Given : [here EXCEPT !.id = id, !.content = c] \in Call
  BY <1>2 DEF Call, Ids, Keys, Given
<1>5. \A id \in Ids, k \in Keys : [here EXCEPT !.id = id, !.key = k] \in Call
  BY <1>2 DEF Call, Ids, Keys, Given
<1>6. \A id \in Ids, k \in Keys, ps \in SUBSET PolicyKey : [here EXCEPT !.id = id, !.key = k, !.policies = ps] \in Call
  BY <1>2 DEF Call, Ids, Keys, Given
<1>7. \A id \in Ids, ps \in SUBSET PolicyKey : [here EXCEPT !.id = id, !.policies = ps] \in Call
  BY <1>2 DEF Call, Ids, Keys, Given
<1>8. \A a \in Assignment : [here EXCEPT !.grant = a] \in Call
  BY <1>2 DEF Call, Ids, Keys, Given
<1>9. \A u \in User, p \in Permission, res \in Resource : [here EXCEPT !.user = u, !.permission = p, !.resource = res] \in Call
  BY <1>2 DEF Call, Ids, Keys, Given
<1>. QED BY <1>3, <1>4, <1>5, <1>6, <1>7, <1>8, <1>9 DEF here

\* What a new request knows is what its step needs.
Suits(n) ==
  /\ n.pc \in PolicyPc => n.id \in PolicyId
  /\ n.pc = "insertingPolicy" => n.key \in PolicyKey
  /\ n.pc \in RolePc => n.id \in RoleId
  /\ n.pc \in {"findingRole", "insertingRole"} => n.key \in RoleKey
  /\ n.pc \in GrantPc => n.grant \in Assignment
  /\ n.pc \notin EvalPc

LEMMA NewGood ==
  ASSUME NEW n, n \in Call, n.user = None, n.answer = "none", Suits(n)
  PROVE  Good(n) /\ Apart(n)
BY DEF Suits, Good, Apart

\* Beginning a request.
LEMMA BeginBecomes ==
  ASSUME TypeInv, NEW r \in Request, NEW op, NEW STATE n, n \in Call, Good(n), Begin(r, op, n)
  PROVE  Becomes(r, n) /\ UNCHANGED tables
BY AuthorizationAssumption DEF Begin, Becomes, TypeInv, TypeOK

LEMMA GoesBecomes ==
  ASSUME TypeInv, NEW r \in Request, NEW STATE n, n \in Call, Good(n), Goes(r, n)
  PROVE  Becomes(r, n)
BY DEF Goes, Becomes, TypeInv, TypeOK

\* Every new request knows what its first step needs, and only an evaluation is
\* about a user.
Starts(r, n) == Becomes(r, n) /\ n.answer = "none" /\ n.pc \notin {"findingRoles", "findingPolicies"}

LEMMA AskBecomes ==
  ASSUME TypeInv, NEW r \in Request, Ask(r)
  PROVE  UNCHANGED tables /\ ~Busy(r) /\ \E n : Starts(r, n)
<1>. DEFINE Result == UNCHANGED tables /\ ~Busy(r) /\ \E n : Starts(r, n)
<1>1. ASSUME NEW id \in PolicyId, NEW c \in Content, UpdatePolicy(r, id, c)
      PROVE  Result
  <2>. DEFINE n == [At("readingPolicy") EXCEPT !.id = id, !.content = c]
  <2>1. n \in Call
    BY NewType, AuthorizationAssumption DEF Pc, Ids, Keys, Given
  <2>2. n.user = None /\ n.answer = "none" /\ n.pc = "readingPolicy" /\ n.id = id
    BY DEF At, Idle
  <2>3. Begin(r, "updatePolicy", n)
    BY <1>1 DEF UpdatePolicy
  <2>. HIDE DEF n
  <2>4. Suits(n)
    BY <2>2 DEF Suits, PolicyPc, RolePc, GrantPc, EvalPc
  <2>. QED BY <2>1, <2>2, <2>3, <2>4, NewGood, BeginBecomes DEF Begin, Starts
<1>2. ASSUME NEW id \in PolicyId, NEW k \in PolicyKey, NEW c \in Content, CreatePolicy(r, id, k, c)
      PROVE  Result
  <2>. DEFINE n == [At("insertingPolicy") EXCEPT !.id = id, !.key = k, !.content = c]
  <2>1. n \in Call
    BY NewType, AuthorizationAssumption DEF Pc, Ids, Keys, Given
  <2>2. n.user = None /\ n.answer = "none" /\ n.pc = "insertingPolicy" /\ n.id = id /\ n.key = k
    BY DEF At, Idle
  <2>3. Begin(r, "createPolicy", n)
    BY <1>2 DEF CreatePolicy
  <2>. HIDE DEF n
  <2>4. Suits(n)
    BY <2>2 DEF Suits, PolicyPc, RolePc, GrantPc, EvalPc
  <2>. QED BY <2>1, <2>2, <2>3, <2>4, NewGood, BeginBecomes DEF Begin, Starts
<1>3. ASSUME NEW id \in PolicyId, DeletePolicy(r, id)
      PROVE  Result
  <2>. DEFINE n == [At("listingRoles") EXCEPT !.id = id, !.key = policy[id].key]
  <2>0. policy[id].key \in Keys
    BY DEF TypeInv, TypeOK, PolicyRow, Keys
  <2>1. n \in Call
    BY <2>0, NewType DEF Pc, Ids, Keys, Given
  <2>2. n.user = None /\ n.answer = "none" /\ n.pc = "listingRoles" /\ n.id = id
    BY DEF At, Idle
  <2>3. Begin(r, "deletePolicy", n)
    BY <1>3 DEF DeletePolicy
  <2>. HIDE DEF n
  <2>4. Suits(n)
    BY <2>2 DEF Suits, PolicyPc, RolePc, GrantPc, EvalPc
  <2>. QED BY <2>1, <2>2, <2>3, <2>4, NewGood, BeginBecomes DEF Begin, Starts
<1>4. ASSUME NEW id \in RoleId, NEW ps \in SUBSET PolicyKey, UpdateRole(r, id, ps)
      PROVE  Result
  <2>. DEFINE n == [At("checkingPolicies") EXCEPT !.id = id, !.policies = ps]
  <2>1. n \in Call
    BY NewType DEF Pc, Ids, Keys, Given
  <2>2. n.user = None /\ n.answer = "none" /\ n.pc = "checkingPolicies" /\ n.id = id
    BY DEF At, Idle
  <2>3. Begin(r, "updateRole", n)
    BY <1>4 DEF UpdateRole
  <2>. HIDE DEF n
  <2>4. Suits(n)
    BY <2>2 DEF Suits, PolicyPc, RolePc, GrantPc, EvalPc
  <2>. QED BY <2>1, <2>2, <2>3, <2>4, NewGood, BeginBecomes DEF Begin, Starts
<1>5. ASSUME NEW id \in RoleId, NEW k \in RoleKey, NEW ps \in SUBSET PolicyKey, CreateRole(r, id, k, ps)
      PROVE  Result
  <2>. DEFINE n == [At("findingRole") EXCEPT !.id = id, !.key = k, !.policies = ps]
  <2>1. n \in Call
    BY NewType DEF Pc, Ids, Keys, Given
  <2>2. n.user = None /\ n.answer = "none" /\ n.pc = "findingRole" /\ n.id = id /\ n.key = k
    BY DEF At, Idle
  <2>3. Begin(r, "createRole", n)
    BY <1>5 DEF CreateRole
  <2>. HIDE DEF n
  <2>4. Suits(n)
    BY <2>2 DEF Suits, PolicyPc, RolePc, GrantPc, EvalPc
  <2>. QED BY <2>1, <2>2, <2>3, <2>4, NewGood, BeginBecomes DEF Begin, Starts
<1>6. ASSUME NEW id \in RoleId, DeleteRole(r, id)
      PROVE  Result
  <2>. DEFINE n == [At("countingAssignments") EXCEPT !.id = id, !.key = role[id].key]
  <2>0. role[id].key \in Keys
    BY DEF TypeInv, TypeOK, RoleRow, Keys
  <2>1. n \in Call
    BY <2>0, NewType DEF Pc, Ids, Keys, Given
  <2>2. n.user = None /\ n.answer = "none" /\ n.pc = "countingAssignments" /\ n.id = id
    BY DEF At, Idle
  <2>3. Begin(r, "deleteRole", n)
    BY <1>6 DEF DeleteRole
  <2>. HIDE DEF n
  <2>4. Suits(n)
    BY <2>2 DEF Suits, PolicyPc, RolePc, GrantPc, EvalPc
  <2>. QED BY <2>1, <2>2, <2>3, <2>4, NewGood, BeginBecomes DEF Begin, Starts
<1>7. ASSUME NEW a \in Assignment, AssignRole(r, a)
      PROVE  Result
  <2>. DEFINE n == [At("checkingAssignment") EXCEPT !.grant = a]
  <2>1. n \in Call
    BY NewType DEF Pc, Ids, Keys, Given
  <2>2. n.user = None /\ n.answer = "none" /\ n.pc = "checkingAssignment" /\ n.grant = a
    BY DEF At, Idle
  <2>3. Begin(r, "assignRole", n)
    BY <1>7 DEF AssignRole
  <2>. HIDE DEF n
  <2>4. Suits(n)
    BY <2>2 DEF Suits, PolicyPc, RolePc, GrantPc, EvalPc
  <2>. QED BY <2>1, <2>2, <2>3, <2>4, NewGood, BeginBecomes DEF Begin, Starts
<1>8. ASSUME NEW a \in Assignment, RevokeAssignment(r, a)
      PROVE  Result
  <2>. DEFINE n == [At("readingAssignment") EXCEPT !.grant = a]
  <2>1. n \in Call
    BY NewType DEF Pc, Ids, Keys, Given
  <2>2. n.user = None /\ n.answer = "none" /\ n.pc = "readingAssignment" /\ n.grant = a
    BY DEF At, Idle
  <2>3. Begin(r, "revokeAssignment", n)
    BY <1>8 DEF RevokeAssignment
  <2>. HIDE DEF n
  <2>4. Suits(n)
    BY <2>2 DEF Suits, PolicyPc, RolePc, GrantPc, EvalPc
  <2>. QED BY <2>1, <2>2, <2>3, <2>4, NewGood, BeginBecomes DEF Begin, Starts
<1>9. ASSUME NEW u \in User, NEW p \in Permission, NEW res \in Resource, Evaluate(r, u, p, res)
      PROVE  Result
  <2>. DEFINE n == [At("findingAssignments") EXCEPT !.user = u, !.permission = p, !.resource = res]
  <2>1. n \in Call
    BY NewType DEF Pc
  <2>2. n.user = u /\ n.answer = "none" /\ n.pc = "findingAssignments"
    BY DEF At, Idle
  <2>3. Begin(r, "evaluate", n)
    BY <1>9 DEF Evaluate
  <2>. HIDE DEF n
  <2>4. Good(n)
    BY <2>2, AuthorizationAssumption DEF Good, PolicyPc, RolePc, GrantPc, EvalPc
  <2>. QED BY <2>1, <2>2, <2>3, <2>4, BeginBecomes DEF Begin, Starts
<1>. HIDE DEF Result
<1>. SUFFICES Result
  BY DEF Result
<1>. QED BY <1>1, <1>2, <1>3, <1>4, <1>5, <1>6, <1>7, <1>8, <1>9 DEF Ask

\* From one step of an administrator's request to the next one.
Follows(from, pc) ==
  \/ from \in PolicyPc /\ pc \in PolicyPc \ {"insertingPolicy"}
  \/ from \in RolePc /\ pc \in RolePc \ {"findingRole", "insertingRole"}
  \/ from = "findingRole" /\ pc = "insertingRole"
  \/ from \in GrantPc /\ pc \in GrantPc

LEMMA OnType ==
  ASSUME TypeInv, NEW r \in Request, NEW pc \in Pc, Follows(call[r].pc, pc)
  PROVE  /\ [call[r] EXCEPT !.pc = pc] \in Call
         /\ Good([call[r] EXCEPT !.pc = pc]) /\ Apart([call[r] EXCEPT !.pc = pc])
         /\ \A k \in Nat :
              /\ [call[r] EXCEPT !.pc = pc, !.seen = k] \in Call
              /\ Good([call[r] EXCEPT !.pc = pc, !.seen = k])
              /\ Apart([call[r] EXCEPT !.pc = pc, !.seen = k])
<1>. DEFINE c == call[r]
<1>1. c \in Call /\ Good(c) /\ Follows(c.pc, pc)
  BY DEF TypeInv, TypeOK
<1>. HIDE DEF c
<1>2. c.user = None /\ c.answer = "none"
  BY <1>1 DEF Follows, Good, PolicyPc, RolePc, GrantPc, EvalPc
<1>3. c.pc # "idle" /\ pc \notin EvalPc
  BY <1>1 DEF Follows, PolicyPc, RolePc, GrantPc, EvalPc
<1>4. /\ pc \in PolicyPc => c.id \in PolicyId
      /\ pc = "insertingPolicy" => c.key \in PolicyKey
      /\ pc \in RolePc => c.id \in RoleId
      /\ pc \in {"findingRole", "insertingRole"} => c.key \in RoleKey
      /\ pc \in GrantPc => c.grant \in Assignment
  BY <1>1 DEF Follows, Good, PolicyPc, RolePc, GrantPc
<1>5. ASSUME NEW n, n \in Call, n.pc = pc, n.user = c.user, n.answer = c.answer, n.id = c.id,
             n.key = c.key, n.grant = c.grant
      PROVE  Good(n) /\ Apart(n)
  BY <1>2, <1>3, <1>4, <1>5, NewGood DEF Suits
<1>6. [c EXCEPT !.pc = pc] \in Call
  BY <1>1 DEF Call
<1>7. Good([c EXCEPT !.pc = pc]) /\ Apart([c EXCEPT !.pc = pc])
  <2>. DEFINE n == [c EXCEPT !.pc = pc]
  <2>1. n.pc = pc /\ n.user = c.user /\ n.answer = c.answer /\ n.id = c.id /\ n.key = c.key
          /\ n.grant = c.grant
    BY <1>1 DEF Call
  <2>2. n \in Call
    BY <1>6
  <2>. HIDE DEF n
  <2>3. Good(n) /\ Apart(n)
    BY <1>5, <2>1, <2>2
  <2>. QED BY <2>3 DEF n
<1>8. ASSUME NEW k \in Nat
      PROVE  /\ [c EXCEPT !.pc = pc, !.seen = k] \in Call
             /\ Good([c EXCEPT !.pc = pc, !.seen = k]) /\ Apart([c EXCEPT !.pc = pc, !.seen = k])
  <2>. DEFINE n == [c EXCEPT !.pc = pc, !.seen = k]
  <2>1. n.pc = pc /\ n.user = c.user /\ n.answer = c.answer /\ n.id = c.id /\ n.key = c.key
          /\ n.grant = c.grant
    BY <1>1 DEF Call
  <2>2. n \in Call
    BY <1>1 DEF Call
  <2>. HIDE DEF n
  <2>3. Good(n) /\ Apart(n)
    BY <1>5, <2>1, <2>2
  <2>. QED BY <2>2, <2>3 DEF n
<1>. QED BY <1>6, <1>7, <1>8 DEF c

\* A step of an administrator's request: it is over, or goes on as one.
Proceeds(r) == \E n : Becomes(r, n) /\ Apart(n)

LEMMA ReadsProceeds ==
  ASSUME TypeInv, NEW r \in Request, NEW from, NEW hoped, NEW STATE n, n \in Call, Good(n), Apart(n),
         Reads(r, from, hoped, n)
  PROVE  UNCHANGED tables /\ Proceeds(r)
<1>1. Goes(r, n) \/ Goes(r, Idle)
  BY DEF Reads
<1>2. Becomes(r, n) \/ Becomes(r, Idle)
  BY <1>1, GoesBecomes, IdleType
<1>. QED BY <1>2, IdleType DEF Reads, Proceeds

LEMMA EndsProceeds ==
  ASSUME TypeInv, NEW r \in Request, Ends(r)
  PROVE  Proceeds(r)
BY GoesBecomes, IdleType DEF Ends, Proceeds

Reading(r) ==
  \/ ReadPolicy(r) \/ ListRoles(r) \/ RereadPolicy(r)
  \/ FindRole(r) \/ CheckPolicies(r) \/ ReadRole(r) \/ CountAssignments(r) \/ RereadRole(r)
  \/ CheckAssignment(r) \/ ReadAssignment(r)

LEMMA ReadingProceeds ==
  ASSUME TypeInv, NEW r \in Request, Reading(r)
  PROVE  UNCHANGED tables /\ Proceeds(r)
<1>1. CASE ReadPolicy(r)
  <2>. DEFINE n == [call[r] EXCEPT !.pc = "writingPolicy", !.seen = policy[call[r].id].version]
  <2>1. call[r].pc = "readingPolicy"
    BY <1>1 DEF ReadPolicy, Reads
  <2>2. Follows(call[r].pc, "writingPolicy") /\ "writingPolicy" \in Pc
    BY <2>1 DEF Follows, PolicyPc, RolePc, GrantPc, Pc
  <2>3. policy[call[r].id].version \in Nat
    BY <2>1 DEF TypeInv, TypeOK, Good, PolicyPc, PolicyRow
  <2>4. n \in Call /\ Good(n) /\ Apart(n)
    BY <2>2, <2>3, OnType
  <2>5. \E from, hoped : Reads(r, from, hoped, n)
    BY <1>1 DEF ReadPolicy
  <2>. HIDE DEF n
  <2>. QED BY <2>4, <2>5, ReadsProceeds
<1>2. CASE ListRoles(r)
  <2>. DEFINE n == [call[r] EXCEPT !.pc = "rereadingPolicy"]
  <2>1. call[r].pc = "listingRoles"
    BY <1>2 DEF ListRoles, Reads
  <2>2. Follows(call[r].pc, "rereadingPolicy") /\ "rereadingPolicy" \in Pc
    BY <2>1 DEF Follows, PolicyPc, RolePc, GrantPc, Pc
  <2>4. n \in Call /\ Good(n) /\ Apart(n)
    BY <2>2, OnType
  <2>5. \E from, hoped : Reads(r, from, hoped, n)
    BY <1>2 DEF ListRoles
  <2>. HIDE DEF n
  <2>. QED BY <2>4, <2>5, ReadsProceeds
<1>3. CASE RereadPolicy(r)
  <2>. DEFINE n == [call[r] EXCEPT !.pc = "deletingPolicy"]
  <2>1. call[r].pc = "rereadingPolicy"
    BY <1>3 DEF RereadPolicy, Reads
  <2>2. Follows(call[r].pc, "deletingPolicy") /\ "deletingPolicy" \in Pc
    BY <2>1 DEF Follows, PolicyPc, RolePc, GrantPc, Pc
  <2>4. n \in Call /\ Good(n) /\ Apart(n)
    BY <2>2, OnType
  <2>5. \E from, hoped : Reads(r, from, hoped, n)
    BY <1>3 DEF RereadPolicy
  <2>. HIDE DEF n
  <2>. QED BY <2>4, <2>5, ReadsProceeds
<1>4. CASE FindRole(r)
  <2>. DEFINE n == [call[r] EXCEPT !.pc = "insertingRole"]
  <2>1. call[r].pc = "findingRole"
    BY <1>4 DEF FindRole, Reads
  <2>2. Follows(call[r].pc, "insertingRole") /\ "insertingRole" \in Pc
    BY <2>1 DEF Follows, PolicyPc, RolePc, GrantPc, Pc
  <2>4. n \in Call /\ Good(n) /\ Apart(n)
    BY <2>2, OnType
  <2>5. \E from, hoped : Reads(r, from, hoped, n)
    BY <1>4 DEF FindRole
  <2>. HIDE DEF n
  <2>. QED BY <2>4, <2>5, ReadsProceeds
<1>5. CASE CheckPolicies(r)
  <2>. DEFINE n == [call[r] EXCEPT !.pc = "readingRole"]
  <2>1. call[r].pc = "checkingPolicies"
    BY <1>5 DEF CheckPolicies, Reads
  <2>2. Follows(call[r].pc, "readingRole") /\ "readingRole" \in Pc
    BY <2>1 DEF Follows, PolicyPc, RolePc, GrantPc, Pc
  <2>4. n \in Call /\ Good(n) /\ Apart(n)
    BY <2>2, OnType
  <2>5. \E from, hoped : Reads(r, from, hoped, n)
    BY <1>5 DEF CheckPolicies
  <2>. HIDE DEF n
  <2>. QED BY <2>4, <2>5, ReadsProceeds
<1>6. CASE ReadRole(r)
  <2>. DEFINE n == [call[r] EXCEPT !.pc = "writingRole", !.seen = role[call[r].id].version]
  <2>1. call[r].pc = "readingRole"
    BY <1>6 DEF ReadRole, Reads
  <2>2. Follows(call[r].pc, "writingRole") /\ "writingRole" \in Pc
    BY <2>1 DEF Follows, PolicyPc, RolePc, GrantPc, Pc
  <2>3. role[call[r].id].version \in Nat
    BY <2>1 DEF TypeInv, TypeOK, Good, RolePc, RoleRow
  <2>4. n \in Call /\ Good(n) /\ Apart(n)
    BY <2>2, <2>3, OnType
  <2>5. \E from, hoped : Reads(r, from, hoped, n)
    BY <1>6 DEF ReadRole
  <2>. HIDE DEF n
  <2>. QED BY <2>4, <2>5, ReadsProceeds
<1>7. CASE CountAssignments(r)
  <2>. DEFINE n == [call[r] EXCEPT !.pc = "rereadingRole"]
  <2>1. call[r].pc = "countingAssignments"
    BY <1>7 DEF CountAssignments, Reads
  <2>2. Follows(call[r].pc, "rereadingRole") /\ "rereadingRole" \in Pc
    BY <2>1 DEF Follows, PolicyPc, RolePc, GrantPc, Pc
  <2>4. n \in Call /\ Good(n) /\ Apart(n)
    BY <2>2, OnType
  <2>5. \E from, hoped : Reads(r, from, hoped, n)
    BY <1>7 DEF CountAssignments
  <2>. HIDE DEF n
  <2>. QED BY <2>4, <2>5, ReadsProceeds
<1>8. CASE RereadRole(r)
  <2>. DEFINE n == [call[r] EXCEPT !.pc = "deletingRole"]
  <2>1. call[r].pc = "rereadingRole"
    BY <1>8 DEF RereadRole, Reads
  <2>2. Follows(call[r].pc, "deletingRole") /\ "deletingRole" \in Pc
    BY <2>1 DEF Follows, PolicyPc, RolePc, GrantPc, Pc
  <2>4. n \in Call /\ Good(n) /\ Apart(n)
    BY <2>2, OnType
  <2>5. \E from, hoped : Reads(r, from, hoped, n)
    BY <1>8 DEF RereadRole
  <2>. HIDE DEF n
  <2>. QED BY <2>4, <2>5, ReadsProceeds
<1>9. CASE CheckAssignment(r)
  <2>. DEFINE n == [call[r] EXCEPT !.pc = "insertingAssignment"]
  <2>1. call[r].pc = "checkingAssignment"
    BY <1>9 DEF CheckAssignment, Reads
  <2>2. Follows(call[r].pc, "insertingAssignment") /\ "insertingAssignment" \in Pc
    BY <2>1 DEF Follows, PolicyPc, RolePc, GrantPc, Pc
  <2>4. n \in Call /\ Good(n) /\ Apart(n)
    BY <2>2, OnType
  <2>5. \E from, hoped : Reads(r, from, hoped, n)
    BY <1>9 DEF CheckAssignment
  <2>. HIDE DEF n
  <2>. QED BY <2>4, <2>5, ReadsProceeds
<1>10. CASE ReadAssignment(r)
  <2>. DEFINE n == [call[r] EXCEPT !.pc = "writingAssignment", !.seen = assignment[call[r].grant].version]
  <2>1. call[r].pc = "readingAssignment"
    BY <1>10 DEF ReadAssignment, Reads
  <2>2. Follows(call[r].pc, "writingAssignment") /\ "writingAssignment" \in Pc
    BY <2>1 DEF Follows, PolicyPc, RolePc, GrantPc, Pc
  <2>3. assignment[call[r].grant].version \in Nat
    BY <2>1 DEF TypeInv, TypeOK, Good, GrantPc, AssignmentRow
  <2>4. n \in Call /\ Good(n) /\ Apart(n)
    BY <2>2, <2>3, OnType
  <2>5. \E from, hoped : Reads(r, from, hoped, n)
    BY <1>10 DEF ReadAssignment
  <2>. HIDE DEF n
  <2>. QED BY <2>4, <2>5, ReadsProceeds
<1>. QED BY <1>1, <1>2, <1>3, <1>4, <1>5, <1>6, <1>7, <1>8, <1>9, <1>10 DEF Reading

TablesType ==
  /\ policy \in [PolicyId -> PolicyRow]
  /\ role \in [RoleId -> RoleRow]
  /\ assignment \in [Assignment -> AssignmentRow]

Writing(r) ==
  \/ InsertPolicy(r) \/ WritePolicy(r) \/ DeletePolicyRow(r)
  \/ InsertRole(r) \/ WriteRole(r) \/ DeleteRoleRow(r)
  \/ InsertAssignment(r) \/ WriteAssignment(r)

\* A row replaced by a row.
LEMMA PutType ==
  ASSUME NEW D, NEW R, NEW f \in [D -> R], NEW i, NEW v, i \in D => v \in R
  PROVE  [f EXCEPT ![i] = v] \in [D -> R]
OBVIOUS

LEMMA WritingProceeds ==
  ASSUME TypeInv, NEW r \in Request, Writing(r)
  PROVE  TablesType' /\ Proceeds(r)
<1>. DEFINE c == call[r]
<1>1. c \in Call /\ Good(c) /\ TablesType
  BY DEF TypeInv, TypeOK, TablesType
<1>2. Proceeds(r)
  BY EndsProceeds DEF Writing, InsertPolicy, WritePolicy, DeletePolicyRow, InsertRole, WriteRole,
                      DeleteRoleRow, InsertAssignment, WriteAssignment
<1>3. CASE InsertPolicy(r)
  <2>. DEFINE v == [state |-> "present", key |-> c.key, allow |-> c.content.allow,
                    deny |-> c.content.deny, version |-> 1]
  <2>1. v \in PolicyRow
    BY <1>1, <1>3 DEF InsertPolicy, Call, Good, PolicyRow, State
  <2>2. policy' = policy \/ policy' = [policy EXCEPT ![c.id] = v]
    BY <1>3 DEF InsertPolicy
  <2>. HIDE DEF v
  <2>3. policy' \in [PolicyId -> PolicyRow]
    BY <1>1, <2>1, <2>2 DEF TablesType
  <2>9. UNCHANGED <<role, assignment>>
    BY <1>3 DEF InsertPolicy
  <2>. QED BY <1>1, <1>2, <2>3, <2>9 DEF TablesType
<1>4. CASE WritePolicy(r)
  <2>. DEFINE p == policy[c.id]
              v == [p EXCEPT !.allow = c.content.allow, !.deny = c.content.deny, !.version = @ + 1]
  <2>1. c.id \in PolicyId => p \in PolicyRow
    BY <1>1 DEF TablesType
  <2>2. c.id \in PolicyId => v \in PolicyRow
    <3>1. \A q \in PolicyRow, a \in SUBSET Pattern, d \in SUBSET Pattern, k \in Nat :
            [q EXCEPT !.allow = a, !.deny = d, !.version = k] \in PolicyRow
      BY DEF PolicyRow
    <3>2. c.content.allow \in SUBSET Pattern /\ c.content.deny \in SUBSET Pattern
      BY <1>1 DEF Call
    <3>3. c.id \in PolicyId => p.version + 1 \in Nat
      BY <2>1 DEF PolicyRow
    <3>. HIDE DEF p
    <3>. QED BY <2>1, <3>1, <3>2, <3>3
  <2>3. policy' = policy \/ policy' = [policy EXCEPT ![c.id] = v]
    BY <1>4 DEF WritePolicy
  <2>. HIDE DEF v
  <2>4. policy' \in [PolicyId -> PolicyRow]
    BY <1>1, <2>2, <2>3, PutType DEF TablesType
  <2>9. UNCHANGED <<role, assignment>>
    BY <1>4 DEF WritePolicy
  <2>. QED BY <1>1, <1>2, <2>4, <2>9 DEF TablesType
<1>5. CASE DeletePolicyRow(r)
  <2>1. \A p \in PolicyRow : [p EXCEPT !.state = "deleted"] \in PolicyRow
    BY DEF PolicyRow, State
  <2>2. policy' = [policy EXCEPT ![c.id] = [policy[c.id] EXCEPT !.state = "deleted"]]
    BY <1>5 DEF DeletePolicyRow
  <2>3. policy' \in [PolicyId -> PolicyRow]
    <3>. DEFINE v == [policy[c.id] EXCEPT !.state = "deleted"]
    <3>1. c.id \in PolicyId => v \in PolicyRow
      BY <1>1, <2>1 DEF TablesType
    <3>2. policy' = [policy EXCEPT ![c.id] = v]
      BY <2>2
    <3>. HIDE DEF v
    <3>. QED BY <1>1, <3>1, <3>2, PutType DEF TablesType
  <2>9. UNCHANGED <<role, assignment>>
    BY <1>5 DEF DeletePolicyRow
  <2>. QED BY <1>1, <1>2, <2>3, <2>9 DEF TablesType
<1>6. CASE InsertRole(r)
  <2>. DEFINE v == [state |-> "present", key |-> c.key, policies |-> c.policies, version |-> 1]
  <2>1. v \in RoleRow
    BY <1>1, <1>6 DEF InsertRole, Call, Good, RoleRow, State
  <2>2. role' = role \/ role' = [role EXCEPT ![c.id] = v]
    BY <1>6 DEF InsertRole
  <2>. HIDE DEF v
  <2>3. role' \in [RoleId -> RoleRow]
    BY <1>1, <2>1, <2>2 DEF TablesType
  <2>9. UNCHANGED <<policy, assignment>>
    BY <1>6 DEF InsertRole
  <2>. QED BY <1>1, <1>2, <2>3, <2>9 DEF TablesType
<1>7. CASE WriteRole(r)
  <2>. DEFINE p == role[c.id]
              v == [p EXCEPT !.policies = c.policies, !.version = @ + 1]
  <2>1. c.id \in RoleId => p \in RoleRow
    BY <1>1 DEF TablesType
  <2>2. c.id \in RoleId => v \in RoleRow
    <3>1. \A q \in RoleRow, l \in SUBSET PolicyKey, k \in Nat :
            [q EXCEPT !.policies = l, !.version = k] \in RoleRow
      BY DEF RoleRow
    <3>2. c.policies \in SUBSET PolicyKey
      BY <1>1 DEF Call
    <3>3. c.id \in RoleId => p.version + 1 \in Nat
      BY <2>1 DEF RoleRow
    <3>. HIDE DEF p
    <3>. QED BY <2>1, <3>1, <3>2, <3>3
  <2>3. role' = role \/ role' = [role EXCEPT ![c.id] = v]
    BY <1>7 DEF WriteRole
  <2>. HIDE DEF v
  <2>4. role' \in [RoleId -> RoleRow]
    BY <1>1, <2>2, <2>3, PutType DEF TablesType
  <2>9. UNCHANGED <<policy, assignment>>
    BY <1>7 DEF WriteRole
  <2>. QED BY <1>1, <1>2, <2>4, <2>9 DEF TablesType
<1>8. CASE DeleteRoleRow(r)
  <2>1. \A p \in RoleRow : [p EXCEPT !.state = "deleted"] \in RoleRow
    BY DEF RoleRow, State
  <2>. DEFINE v == [role[c.id] EXCEPT !.state = "deleted"]
  <2>2. c.id \in RoleId => v \in RoleRow
    BY <1>1, <2>1 DEF TablesType
  <2>3. role' = [role EXCEPT ![c.id] = v]
    BY <1>8 DEF DeleteRoleRow
  <2>. HIDE DEF v
  <2>4. role' \in [RoleId -> RoleRow]
    BY <1>1, <2>2, <2>3, PutType DEF TablesType
  <2>9. UNCHANGED <<policy, assignment>>
    BY <1>8 DEF DeleteRoleRow
  <2>. QED BY <1>1, <1>2, <2>4, <2>9 DEF TablesType
<1>9. CASE InsertAssignment(r)
  <2>. DEFINE v == [status |-> "active", expired |-> FALSE, version |-> 1]
  <2>1. v \in AssignmentRow
    BY DEF AssignmentRow
  <2>2. assignment' = assignment \/ assignment' = [assignment EXCEPT ![c.grant] = v]
    BY <1>9 DEF InsertAssignment
  <2>. HIDE DEF v
  <2>3. assignment' \in [Assignment -> AssignmentRow]
    BY <1>1, <2>1, <2>2, PutType DEF TablesType
  <2>9. UNCHANGED <<policy, role>>
    BY <1>9 DEF InsertAssignment
  <2>. QED BY <1>1, <1>2, <2>3, <2>9 DEF TablesType
<1>10. CASE WriteAssignment(r)
  <2>. DEFINE p == assignment[c.grant]
              v == [p EXCEPT !.status = "inactive", !.version = @ + 1]
  <2>1. c.grant \in Assignment => p \in AssignmentRow
    BY <1>1 DEF TablesType
  <2>2. c.grant \in Assignment => v \in AssignmentRow
    <3>1. \A q \in AssignmentRow, k \in Nat :
            [q EXCEPT !.status = "inactive", !.version = k] \in AssignmentRow
      BY DEF AssignmentRow
    <3>2. c.grant \in Assignment => p.version + 1 \in Nat
      BY <2>1 DEF AssignmentRow
    <3>. HIDE DEF p
    <3>. QED BY <2>1, <3>1, <3>2
  <2>3. assignment' = assignment \/ assignment' = [assignment EXCEPT ![c.grant] = v]
    BY <1>10 DEF WriteAssignment
  <2>. HIDE DEF v
  <2>4. assignment' \in [Assignment -> AssignmentRow]
    BY <1>1, <2>2, <2>3, PutType DEF TablesType
  <2>9. UNCHANGED <<policy, role>>
    BY <1>10 DEF WriteAssignment
  <2>. QED BY <1>1, <1>2, <2>4, <2>9 DEF TablesType
<1>. QED BY <1>2, <1>3, <1>4, <1>5, <1>6, <1>7, <1>8, <1>9, <1>10 DEF Writing

-----------------------------------------------------------------------------
\* The three readings of an evaluation

\* n goes on with the evaluation that c is about; the evaluation is over.
Keeps(n, c) ==
  n.user = c.user /\ n.permission = c.permission /\ n.resource = c.resource /\ n.answer = "none"

Over(n) == n.pc = "idle" /\ n.user = None

LEMMA AnswerType ==
  ASSUME NEW answer \in {"allow", "deny"}
  PROVE  LET n == [Idle EXCEPT !.answer = answer]
         IN n \in Call /\ Good(n) /\ Over(n) /\ n.answer = answer
<1>. DEFINE n == [Idle EXCEPT !.answer = answer]
<1>1. n \in Call
  <2>. HIDE DEF Idle
  <2>. QED BY IdleType DEF Call
<1>2. Over(n) /\ n.answer = answer
  BY DEF Idle, Over
<1>. HIDE DEF n
<1>3. Good(n)
  BY <1>2 DEF Over, Good, PolicyPc, RolePc, GrantPc, EvalPc
<1>. QED BY <1>1, <1>2, <1>3 DEF n

LEMMA FindAssignmentsBecomes ==
  ASSUME TypeInv, NEW r \in Request, FindAssignments(r)
  PROVE  /\ UNCHANGED tables /\ call[r].pc = "findingAssignments"
         /\ \E n : /\ Becomes(r, n)
                   /\ \/ Over(n) /\ n.answer = "deny" /\ RolesOf(call[r].user, call[r].resource) = {}
                      \/ /\ Keeps(n, call[r]) /\ n.pc = "findingRoles"
                         /\ n.roles = RolesOf(call[r].user, call[r].resource)
<1>. DEFINE c == call[r]
            ks == RolesOf(c.user, c.resource)
            on == [c EXCEPT !.pc = "findingRoles", !.roles = ks]
            off == [Idle EXCEPT !.answer = "deny"]
<1>1. UNCHANGED tables /\ c.pc = "findingAssignments"
  BY DEF FindAssignments
<1>2. c \in Call /\ Good(c)
  BY DEF TypeInv, TypeOK
<1>3. ks \in SUBSET RoleKey
  BY DEF RolesOf, Assignment
<1>. HIDE DEF c, ks
<1>4. on \in Call
  <2>1. "findingRoles" \in Pc
    BY DEF Pc
  <2>. QED BY <1>2, <1>3, <2>1 DEF Call
<1>5. /\ on.pc = "findingRoles" /\ on.roles = ks /\ on.user = c.user
      /\ on.permission = c.permission /\ on.resource = c.resource /\ on.answer = c.answer
  BY <1>2 DEF Call
<1>6. Goes(r, on) \/ (Goes(r, off) /\ ks = {})
  BY DEF FindAssignments, Answers, c, ks
<1>. HIDE DEF on
<1>7. Good(on) /\ Keeps(on, c)
  BY <1>1, <1>2, <1>5 DEF Good, Keeps, PolicyPc, RolePc, GrantPc, EvalPc
<1>8. off \in Call /\ Good(off) /\ Over(off) /\ off.answer = "deny"
  BY AnswerType
<1>. HIDE DEF off
<1>9. Becomes(r, on) \/ (Becomes(r, off) /\ ks = {})
  BY <1>4, <1>6, <1>7, <1>8, GoesBecomes
<1>. QED BY <1>1, <1>5, <1>7, <1>8, <1>9 DEF c, ks

LEMMA FindRolesBecomes ==
  ASSUME TypeInv, NEW r \in Request, FindRoles(r)
  PROVE  /\ UNCHANGED tables /\ call[r].pc = "findingRoles"
         /\ \E n : /\ Becomes(r, n)
                   /\ \/ Over(n) /\ n.answer = "deny" /\ \A k \in call[r].roles : RoleOf(k) = {}
                      \/ /\ Keeps(n, call[r]) /\ n.pc = "findingPolicies"
                         /\ \A k \in call[r].roles : \A i \in RoleOf(k) :
                              role[i].policies \subseteq n.policies
<1>. DEFINE c == call[r]
            ps == UNION {role[i].policies : i \in UNION {RoleOf(k) : k \in c.roles}}
            on == [c EXCEPT !.pc = "findingPolicies", !.policies = ps]
            off == [Idle EXCEPT !.answer = "deny"]
<1>1. UNCHANGED tables /\ c.pc = "findingRoles"
  BY DEF FindRoles
<1>2. c \in Call /\ Good(c)
  BY DEF TypeInv, TypeOK
<1>3. \A k : \A i \in RoleOf(k) : role[i].policies \in SUBSET PolicyKey
  BY DEF TypeInv, TypeOK, RoleRow, RoleOf
<1>4. ps \in SUBSET PolicyKey
  BY <1>3
<1>5. \A k \in c.roles : \A i \in RoleOf(k) : role[i].policies \subseteq ps
  OBVIOUS
<1>6. Goes(r, on) \/ (Goes(r, off) /\ \A k \in c.roles : RoleOf(k) = {})
  BY DEF FindRoles, Answers
<1>. HIDE DEF c, ps
<1>7. on \in Call
  <2>1. "findingPolicies" \in Pc
    BY DEF Pc
  <2>. QED BY <1>2, <1>4, <2>1 DEF Call
<1>8. /\ on.pc = "findingPolicies" /\ on.policies = ps /\ on.user = c.user
      /\ on.permission = c.permission /\ on.resource = c.resource /\ on.answer = c.answer
  BY <1>2 DEF Call
<1>. HIDE DEF on
<1>9. Good(on) /\ Keeps(on, c)
  BY <1>1, <1>2, <1>8 DEF Good, Keeps, PolicyPc, RolePc, GrantPc, EvalPc
<1>10. off \in Call /\ Good(off) /\ Over(off) /\ off.answer = "deny"
  BY AnswerType
<1>. HIDE DEF off
<1>11. Becomes(r, on) \/ (Becomes(r, off) /\ \A k \in c.roles : RoleOf(k) = {})
  BY <1>6, <1>7, <1>9, <1>10, GoesBecomes
<1>. QED BY <1>1, <1>5, <1>8, <1>9, <1>10, <1>11 DEF c

\* No policy that was found allows the permission, or one of them denies it.
Unsupported(r) ==
  \/ \A k \in call[r].policies : \A i \in PolicyOf(k) : ~Matches(policy[i].allow, call[r].permission)
  \/ \E i \in PolicyId : policy[i].state = "present" /\ Matches(policy[i].deny, call[r].permission)

LEMMA DecideBecomes ==
  ASSUME TypeInv, NEW r \in Request, Decide(r)
  PROVE  /\ UNCHANGED tables /\ call[r].pc = "findingPolicies"
         /\ \E n : /\ Becomes(r, n) /\ Over(n)
                   /\ n.answer = "allow" =>
                        \A k \in call[r].policies : \A i \in PolicyOf(k) :
                          ~Matches(policy[i].deny, call[r].permission)
                   /\ n.answer = "deny" => Unsupported(r)
<1>. DEFINE yes == [Idle EXCEPT !.answer = "allow"]
            no == [Idle EXCEPT !.answer = "deny"]
            Undenied == \A k \in call[r].policies : \A i \in PolicyOf(k) :
                          ~Matches(policy[i].deny, call[r].permission)
<1>1. UNCHANGED tables /\ call[r].pc = "findingPolicies"
  BY DEF Decide
<1>2. (Goes(r, yes) /\ Undenied) \/ (Goes(r, no) /\ Unsupported(r))
  BY DEF Decide, Answers, Unsupported, PolicyOf
<1>3. yes \in Call /\ Good(yes) /\ Over(yes) /\ yes.answer = "allow" /\ no \in Call /\ Good(no) /\ Over(no) /\ no.answer = "deny"
  BY AnswerType
<1>. HIDE DEF yes, no
<1>4. (Becomes(r, yes) /\ Undenied) \/ (Becomes(r, no) /\ Unsupported(r))
  BY <1>2, <1>3, GoesBecomes
<1>. QED BY <1>1, <1>3, <1>4

-----------------------------------------------------------------------------
\* Type correctness

Deciding(r) == FindAssignments(r) \/ FindRoles(r) \/ Decide(r)

\* Whatever a request does, the tables keep their types and it goes on as it may.
LEMMA StepType ==
  ASSUME TypeInv, Step
  PROVE  /\ TablesType' /\ call' \in [Request -> Call] /\ \A q \in Request : Good(call'[q])
         /\ made' \in 0 .. MaxRequests /\ faults' \in 0 .. MaxFaults
<1>1. TablesType
  BY DEF TypeInv, TypeOK, TablesType
<1>2. UNCHANGED tables => TablesType'
  BY <1>1 DEF tables, TablesType
<1>3. ASSUME NEW r \in Request, NEW n, Becomes(r, n), TablesType'
      PROVE  /\ TablesType' /\ call' \in [Request -> Call] /\ \A q \in Request : Good(call'[q])
             /\ made' \in 0 .. MaxRequests /\ faults' \in 0 .. MaxFaults
  BY <1>3 DEF Becomes, TypeInv, TypeOK
<1>4. ASSUME NEW r \in Request, Ask(r)
      PROVE  TablesType' /\ \E n : Becomes(r, n)
  BY <1>2, <1>4, AskBecomes DEF Starts
<1>5. ASSUME NEW r \in Request, Continue(r)
      PROVE  TablesType' /\ \E n : Becomes(r, n)
  <2>1. Reading(r) \/ Writing(r) \/ Deciding(r)
    BY <1>5 DEF Continue, Reading, Writing, Deciding
  <2>2. CASE Reading(r)
    BY <1>2, <2>2, ReadingProceeds DEF Proceeds
  <2>3. CASE Writing(r)
    BY <2>3, WritingProceeds DEF Proceeds
  <2>4. CASE Deciding(r)
    BY <1>2, <2>4, FindAssignmentsBecomes, FindRolesBecomes, DecideBecomes DEF Deciding
  <2>. QED BY <2>1, <2>2, <2>3, <2>4
<1>6. ASSUME NEW r \in Request, Dies(r)
      PROVE  TablesType' /\ Becomes(r, Idle)
  <2>1. TablesType'
    BY <1>2, <1>6 DEF Dies
  <2>2. made' \in 0 .. MaxRequests /\ faults' \in 0 .. MaxFaults
    BY <1>6, AuthorizationAssumption DEF Dies, TypeInv, TypeOK
  <2>3. call' = [call EXCEPT ![r] = Idle]
    BY <1>6 DEF Dies
  <2>. QED BY <2>1, <2>2, <2>3, IdleType DEF Becomes
<1>7. ASSUME NEW a \in Assignment, Expire(a)
      PROVE  TablesType' /\ UNCHANGED <<call, made, faults>>
  <2>1. \A v \in AssignmentRow : [v EXCEPT !.expired = TRUE] \in AssignmentRow
    BY DEF AssignmentRow
  <2>. DEFINE v == [assignment[a] EXCEPT !.expired = TRUE]
  <2>2. v \in AssignmentRow
    BY <1>1, <2>1 DEF TablesType
  <2>3. assignment' = [assignment EXCEPT ![a] = v]
    BY <1>7 DEF Expire
  <2>. HIDE DEF v
  <2>4. UNCHANGED <<policy, role, call, made, faults>>
    BY <1>7 DEF Expire
  <2>. QED BY <1>1, <2>2, <2>3, <2>4 DEF TablesType
<1>. QED BY <1>3, <1>4, <1>5, <1>6, <1>7 DEF Step, TypeInv, TypeOK

LEMMA ObserveType ==
  ASSUME link \in [Request -> Link], Observe
  PROVE  link' \in [Request -> Link]
<1>1. NoLink \in Link
  BY DEF NoLink, Link
<1>2. ASSUME NEW r \in Request
      PROVE  StandingOf(r)' \in Link
  BY DEF StandingOf, Standing, Link
<1>3. ASSUME NEW l \in Link, NEW m \in Link
      PROVE  Still(l, m) \in Link
  BY DEF Still, Link
<1>. HIDE DEF Link, NoLink
<1>. QED BY <1>1, <1>2, <1>3 DEF Observe

LEMMA TypeInvStep ==
  TypeInv /\ [Next]_vars => TypeInv'
<1>. SUFFICES ASSUME TypeInv, [Next]_vars
              PROVE  TypeInv'
  OBVIOUS
<1>1. CASE Next
  BY <1>1, StepType, ObserveType DEF Next, TypeInv, TypeOK, TablesType
<1>2. CASE UNCHANGED vars
  BY <1>2 DEF vars, tables, TypeInv, TypeOK
<1>. QED BY <1>1, <1>2

LEMMA TypeInvInit == Init => TypeInv
<1>. SUFFICES ASSUME Init
              PROVE  TypeInv
  OBVIOUS
<1>1. TablesType
  BY DEF Init, TablesType, PolicyRow, RoleRow, AssignmentRow, State
<1>2. call \in [Request -> Call] /\ \A r \in Request : Good(call[r])
  <2>. HIDE DEF Idle
  <2>. QED BY IdleType DEF Init
<1>3. link \in [Request -> Link]
  BY DEF Init, NoLink, Link
<1>4. made \in 0 .. MaxRequests /\ faults \in 0 .. MaxFaults
  BY AuthorizationAssumption DEF Init
<1>. QED BY <1>1, <1>2, <1>3, <1>4 DEF TypeInv, TypeOK, TablesType

LEMMA TypeInvCorrect == Spec => []TypeInv
BY TypeInvInit, TypeInvStep, PTL DEF Spec

\* The tables, every request and every history keep their types.
THEOREM TypeCorrect == Spec => []TypeOK
<1>1. TypeInv => TypeOK
  BY DEF TypeInv
<1>. QED BY <1>1, TypeInvCorrect, PTL

-----------------------------------------------------------------------------
\* Explicit deny wins

\* What has denied the permission since the evaluation began still does, and the
\* keys read so far lead to it.
DenyInv ==
  \A r \in Request :
    /\ call[r].user # None => link[r].deny \subseteq StandingOf(r).deny
    /\ call[r].pc = "findingRoles" => \A l \in link[r].deny : l[1][2] \in call[r].roles
    /\ call[r].pc = "findingPolicies" => \A l \in link[r].deny : l[2] \in call[r].policies
    /\ call[r].answer = "allow" => link[r].deny = {}

\* What one step may do to what request q has got.
Moves(q) ==
  \/ call'[q] = call[q]
  \/ call'[q].answer # "allow" /\ call'[q].pc \notin {"findingRoles", "findingPolicies"}
  \/ /\ call[q].pc = "findingAssignments" /\ call'[q].pc = "findingRoles"
     /\ call'[q].answer # "allow"
     /\ call'[q].roles = RolesOf(call[q].user, call[q].resource)
  \/ /\ call[q].pc = "findingRoles" /\ call'[q].pc = "findingPolicies"
     /\ call'[q].answer # "allow"
     /\ \A k \in call[q].roles : \A i \in RoleOf(k) : role[i].policies \subseteq call'[q].policies
  \/ /\ call[q].pc = "findingPolicies" /\ Over(call'[q])
     /\ \A k \in call[q].policies : \A i \in PolicyOf(k) :
          ~Matches(policy[i].deny, call[q].permission)

LEMMA StepMoves ==
  ASSUME TypeInv, Step, NEW q \in Request
  PROVE  Moves(q)
<1>1. ASSUME NEW r \in Request, NEW n, Becomes(r, n)
      PROVE  IF q = r THEN call'[q] = n ELSE call'[q] = call[q]
  BY <1>1 DEF Becomes, TypeInv, TypeOK
<1>2. ASSUME NEW r \in Request, NEW n, Becomes(r, n), n.answer # "allow",
             n.pc \notin {"findingRoles", "findingPolicies"}
      PROVE  Moves(q)
  BY <1>1, <1>2 DEF Moves
<1>3. ASSUME NEW r \in Request, Ask(r)
      PROVE  Moves(q)
  BY <1>2, <1>3, AskBecomes DEF Starts
<1>4. ASSUME NEW r \in Request, Reading(r) \/ Writing(r)
      PROVE  Moves(q)
  <2>1. PICK n : Becomes(r, n) /\ Apart(n)
    BY <1>4, ReadingProceeds, WritingProceeds DEF Proceeds
  <2>2. n.answer # "allow" /\ n.pc \notin {"findingRoles", "findingPolicies"}
    BY <2>1 DEF Apart, EvalPc
  <2>. QED BY <1>2, <2>1, <2>2
<1>5. ASSUME NEW r \in Request, FindAssignments(r)
      PROVE  Moves(q)
  <2>1. PICK n : /\ Becomes(r, n)
                 /\ \/ Over(n) /\ n.answer = "deny"
                    \/ /\ Keeps(n, call[r]) /\ n.pc = "findingRoles"
                       /\ n.roles = RolesOf(call[r].user, call[r].resource)
    BY <1>5, FindAssignmentsBecomes
  <2>2. call[r].pc = "findingAssignments"
    BY <1>5, FindAssignmentsBecomes
  <2>. QED BY <1>1, <2>1, <2>2 DEF Moves, Over, Keeps
<1>6. ASSUME NEW r \in Request, FindRoles(r)
      PROVE  Moves(q)
  <2>1. PICK n : /\ Becomes(r, n)
                 /\ \/ Over(n) /\ n.answer = "deny"
                    \/ /\ Keeps(n, call[r]) /\ n.pc = "findingPolicies"
                       /\ \A k \in call[r].roles : \A i \in RoleOf(k) :
                            role[i].policies \subseteq n.policies
    BY <1>6, FindRolesBecomes
  <2>2. call[r].pc = "findingRoles"
    BY <1>6, FindRolesBecomes
  <2>. QED BY <1>1, <2>1, <2>2 DEF Moves, Over, Keeps
<1>7. ASSUME NEW r \in Request, Decide(r)
      PROVE  Moves(q)
  <2>1. PICK n : /\ Becomes(r, n) /\ Over(n)
                 /\ n.answer = "allow" =>
                      \A k \in call[r].policies : \A i \in PolicyOf(k) :
                        ~Matches(policy[i].deny, call[r].permission)
    BY <1>7, DecideBecomes
  <2>2. call[r].pc = "findingPolicies"
    BY <1>7, DecideBecomes
  <2>. QED BY <1>1, <2>1, <2>2 DEF Moves, Over
<1>8. ASSUME NEW r \in Request, Dies(r)
      PROVE  Moves(q)
  <2>1. call'[q] = call[q] \/ call'[q] = Idle
    BY <1>8 DEF Dies, TypeInv, TypeOK
  <2>. QED BY <2>1 DEF Moves, Idle
<1>9. ASSUME NEW a \in Assignment, Expire(a)
      PROVE  Moves(q)
  BY <1>9 DEF Expire, Moves
<1>. QED BY <1>3, <1>4, <1>5, <1>6, <1>7, <1>8, <1>9
          DEF Step, Continue, Reading, Writing

\* While an evaluation is in flight its history only shrinks, to what stands.
LEMMA ObserveShrinks ==
  ASSUME TypeInv, Observe, NEW q \in Request
  PROVE  /\ call'[q].user # None => link'[q].deny \subseteq StandingOf(q)'.deny
         /\ call'[q].user # None /\ Busy(q) => link'[q].deny \subseteq link[q].deny
         /\ call'[q].user = None /\ call'[q].answer # "none" => link'[q] = link[q]
<1>1. link'[q] = IF call'[q].user # None
                 THEN IF Busy(q) THEN Still(link[q], StandingOf(q)') ELSE StandingOf(q)'
                 ELSE IF call'[q].answer # "none" THEN link[q] ELSE NoLink
  BY DEF Observe
<1>. QED BY <1>1 DEF Still

LEMMA DenyInvStep ==
  TypeInv /\ DenyInv /\ [Next]_vars => DenyInv'
<1>. SUFFICES ASSUME TypeInv, DenyInv, [Next]_vars
              PROVE  DenyInv'
  OBVIOUS
<1>1. TypeInv'
  BY TypeInvStep
<1>2. CASE Next
  <2>. SUFFICES ASSUME NEW q \in Request
                PROVE  /\ call'[q].user # None => link'[q].deny \subseteq StandingOf(q)'.deny
                       /\ call'[q].pc = "findingRoles" =>
                            \A l \in link'[q].deny : l[1][2] \in call'[q].roles
                       /\ call'[q].pc = "findingPolicies" =>
                            \A l \in link'[q].deny : l[2] \in call'[q].policies
                       /\ call'[q].answer = "allow" => link'[q].deny = {}
    BY DEF DenyInv
  <2>1. /\ Moves(q)
        /\ call'[q].user # None => link'[q].deny \subseteq StandingOf(q)'.deny
        /\ call'[q].user # None /\ Busy(q) => link'[q].deny \subseteq link[q].deny
        /\ call'[q].user = None /\ call'[q].answer # "none" => link'[q] = link[q]
    BY <1>2, StepMoves, ObserveShrinks DEF Next
  <2>2. Good(call[q]) /\ Good(call'[q])
    BY <1>1 DEF TypeInv
  <2>3. /\ call[q].pc \in EvalPc => call[q].user # None /\ Busy(q)
        /\ call'[q].pc \in EvalPc => call'[q].user # None
        /\ call'[q].answer = "allow" => call'[q].user = None
    BY <2>2 DEF Good, EvalPc, Busy
  <2>4. call'[q].pc = "findingRoles" => \A l \in link'[q].deny : l[1][2] \in call'[q].roles
    <3>1. CASE call'[q] = call[q]
      BY <2>1, <2>3, <3>1 DEF DenyInv, EvalPc
    <3>2. CASE /\ call[q].pc = "findingAssignments" /\ call'[q].pc = "findingRoles"
               /\ call'[q].roles = RolesOf(call[q].user, call[q].resource)
      <4>1. link'[q].deny \subseteq StandingOf(q).deny
        BY <2>1, <2>3, <3>2 DEF DenyInv, EvalPc
      <4>2. \A l \in StandingOf(q).deny : l[1][2] \in RolesOf(call[q].user, call[q].resource)
        BY DEF StandingOf, Standing, Reaches, RolesOf
      <4>. QED BY <3>2, <4>1, <4>2
    <3>. QED BY <2>1, <3>1, <3>2 DEF Moves, Over
  <2>5. call'[q].pc = "findingPolicies" => \A l \in link'[q].deny : l[2] \in call'[q].policies
    <3>1. CASE call'[q] = call[q]
      BY <2>1, <2>3, <3>1 DEF DenyInv, EvalPc
    <3>2. CASE /\ call[q].pc = "findingRoles" /\ call'[q].pc = "findingPolicies"
               /\ \A k \in call[q].roles : \A i \in RoleOf(k) :
                    role[i].policies \subseteq call'[q].policies
      <4>1. link'[q].deny \subseteq link[q].deny /\ link[q].deny \subseteq StandingOf(q).deny
        BY <2>1, <2>3, <3>2 DEF DenyInv, EvalPc
      <4>2. \A l \in StandingOf(q).deny : \E i \in RoleOf(l[1][2]) : l[2] \in role[i].policies
        BY DEF StandingOf, Standing, Reaches
      <4>3. \A l \in link[q].deny : l[1][2] \in call[q].roles
        BY <3>2 DEF DenyInv
      <4>. QED BY <3>2, <4>1, <4>2, <4>3
    <3>. QED BY <2>1, <3>1, <3>2 DEF Moves, Over
  <2>6. call'[q].answer = "allow" => link'[q].deny = {}
    <3>. SUFFICES ASSUME call'[q].answer = "allow"
                  PROVE  link'[q].deny = {}
      OBVIOUS
    <3>1. link'[q] = link[q]
      BY <2>1, <2>3
    <3>2. CASE call'[q] = call[q]
      BY <3>1, <3>2 DEF DenyInv
    <3>3. CASE /\ call[q].pc = "findingPolicies"
               /\ \A k \in call[q].policies : \A i \in PolicyOf(k) :
                    ~Matches(policy[i].deny, call[q].permission)
      <4>1. link[q].deny \subseteq StandingOf(q).deny
        BY <2>3, <3>3 DEF DenyInv, EvalPc
      <4>2. \A l \in StandingOf(q).deny :
              \E i \in PolicyOf(l[2]) : Matches(policy[i].deny, call[q].permission)
        BY DEF StandingOf, Standing
      <4>3. \A l \in link[q].deny : l[2] \in call[q].policies
        BY <3>3 DEF DenyInv
      <4>. QED BY <3>1, <3>3, <4>1, <4>2, <4>3
    <3>. QED BY <2>1, <3>2, <3>3 DEF Moves
  <2>. QED BY <2>1, <2>4, <2>5, <2>6
<1>3. CASE UNCHANGED vars
  BY <1>3 DEF vars, tables, DenyInv, StandingOf, Standing, Reaches, InForce, RoleOf, PolicyOf
<1>. QED BY <1>2, <1>3

LEMMA DenyInvInit == Init => DenyInv
BY DEF Init, DenyInv, NoLink, Idle

\* A permission is not allowed when one assignment and one policy deny it during
\* the whole evaluation, whatever the other requests change meanwhile.
THEOREM DenyCorrect == Spec => []StandingDenyWins
<1>1. DenyInv => StandingDenyWins
  BY DEF DenyInv, StandingDenyWins
<1>2. Spec => []DenyInv
  BY TypeInvCorrect, DenyInvInit, DenyInvStep, PTL DEF Spec
<1>. QED BY <1>1, <1>2, PTL

-----------------------------------------------------------------------------
\* What stands allowed is granted

\* What has allowed the permission since the evaluation began still does, and the keys
\* read so far lead to it.
AllowInv ==
  \A r \in Request :
    /\ call[r].user # None =>
         link[r].allow \subseteq StandingOf(r).allow /\ (StandingOf(r).contested => link[r].contested)
    /\ call[r].pc = "findingRoles" => \A l \in link[r].allow : l[1][2] \in call[r].roles
    /\ call[r].pc = "findingPolicies" => \A l \in link[r].allow : l[2] \in call[r].policies
    /\ call[r].answer = "deny" => link[r].allow = {} \/ link[r].contested

\* A refusal has found nothing that allows, or something that denies.
Refuses(q) ==
  call'[q].answer = "deny" =>
    \/ call'[q] = call[q]
    \/ call[q].pc = "findingAssignments" /\ RolesOf(call[q].user, call[q].resource) = {}
    \/ call[q].pc = "findingRoles" /\ \A k \in call[q].roles : RoleOf(k) = {}
    \/ call[q].pc = "findingPolicies" /\ Unsupported(q)

LEMMA StepRefuses ==
  ASSUME TypeInv, Step, NEW q \in Request
  PROVE  Refuses(q)
<1>1. ASSUME NEW r \in Request, NEW n, Becomes(r, n)
      PROVE  IF q = r THEN call'[q] = n ELSE call'[q] = call[q]
  BY <1>1 DEF Becomes, TypeInv, TypeOK
<1>2. ASSUME NEW r \in Request, Ask(r)
      PROVE  Refuses(q)
  <2>1. PICK n : Becomes(r, n) /\ n.answer = "none"
    BY <1>2, AskBecomes DEF Starts
  <2>. QED BY <1>1, <2>1 DEF Refuses
<1>3. ASSUME NEW r \in Request, Reading(r) \/ Writing(r)
      PROVE  Refuses(q)
  <2>1. PICK n : Becomes(r, n) /\ n.answer = "none"
    BY <1>3, ReadingProceeds, WritingProceeds DEF Proceeds, Apart
  <2>. QED BY <1>1, <2>1 DEF Refuses
<1>4. ASSUME NEW r \in Request, FindAssignments(r)
      PROVE  Refuses(q)
  <2>1. PICK n : Becomes(r, n) /\ (n.answer = "deny" => RolesOf(call[r].user, call[r].resource) = {})
    BY <1>4, FindAssignmentsBecomes DEF Keeps
  <2>. QED BY <1>1, <1>4, <2>1, FindAssignmentsBecomes DEF Refuses
<1>5. ASSUME NEW r \in Request, FindRoles(r)
      PROVE  Refuses(q)
  <2>1. PICK n : Becomes(r, n) /\ (n.answer = "deny" => \A k \in call[r].roles : RoleOf(k) = {})
    BY <1>5, FindRolesBecomes DEF Keeps
  <2>. QED BY <1>1, <1>5, <2>1, FindRolesBecomes DEF Refuses
<1>6. ASSUME NEW r \in Request, Decide(r)
      PROVE  Refuses(q)
  <2>1. PICK n : Becomes(r, n) /\ (n.answer = "deny" => Unsupported(r))
    BY <1>6, DecideBecomes
  <2>. QED BY <1>1, <1>6, <2>1, DecideBecomes DEF Refuses
<1>7. ASSUME NEW r \in Request, Dies(r)
      PROVE  Refuses(q)
  <2>1. call'[q] = call[q] \/ call'[q] = Idle
    BY <1>7 DEF Dies, TypeInv, TypeOK
  <2>. QED BY <2>1 DEF Refuses, Idle
<1>8. ASSUME NEW a \in Assignment, Expire(a)
      PROVE  Refuses(q)
  BY <1>8 DEF Expire, Refuses
<1>. QED BY <1>2, <1>3, <1>4, <1>5, <1>6, <1>7, <1>8 DEF Step, Continue, Reading, Writing

LEMMA ObserveAllows ==
  ASSUME TypeInv, Observe, NEW q \in Request
  PROVE  /\ call'[q].user # None =>
              link'[q].allow \subseteq StandingOf(q)'.allow /\ (StandingOf(q)'.contested => link'[q].contested)
         /\ call'[q].user # None /\ Busy(q) => link'[q].allow \subseteq link[q].allow
         /\ call'[q].user = None /\ call'[q].answer # "none" => link'[q] = link[q]
<1>1. link'[q] = IF call'[q].user # None
                 THEN IF Busy(q) THEN Still(link[q], StandingOf(q)') ELSE StandingOf(q)'
                 ELSE IF call'[q].answer # "none" THEN link[q] ELSE NoLink
  BY DEF Observe
<1>2. ASSUME NEW l, NEW now
      PROVE  /\ Still(l, now).allow = l.allow \cap now.allow
             /\ Still(l, now).contested = (l.contested \/ now.contested)
  BY DEF Still
<1>3. CASE call'[q].user # None /\ Busy(q)
  <2>1. link'[q] = Still(link[q], StandingOf(q)')
    BY <1>1, <1>3
  <2>2. link'[q].contested = (link[q].contested \/ StandingOf(q)'.contested)
    BY <1>2, <2>1
  <2>3. link'[q].allow = link[q].allow \cap StandingOf(q)'.allow
    BY <1>2, <2>1
  <2>. QED BY <1>3, <2>2, <2>3
<1>4. CASE call'[q].user # None /\ ~Busy(q)
  BY <1>1, <1>4
<1>5. CASE call'[q].user = None
  BY <1>1, <1>5
<1>. QED BY <1>3, <1>4, <1>5

LEMMA AllowInvStep ==
  TypeInv /\ AllowInv /\ [Next]_vars => AllowInv'
<1>. SUFFICES ASSUME TypeInv, AllowInv, [Next]_vars
              PROVE  AllowInv'
  OBVIOUS
<1>1. TypeInv'
  BY TypeInvStep
<1>2. CASE Next
  <2>. SUFFICES ASSUME NEW q \in Request
                PROVE  /\ call'[q].user # None =>
                            /\ link'[q].allow \subseteq StandingOf(q)'.allow
                            /\ StandingOf(q)'.contested => link'[q].contested
                       /\ call'[q].pc = "findingRoles" =>
                            \A l \in link'[q].allow : l[1][2] \in call'[q].roles
                       /\ call'[q].pc = "findingPolicies" =>
                            \A l \in link'[q].allow : l[2] \in call'[q].policies
                       /\ call'[q].answer = "deny" => link'[q].allow = {} \/ link'[q].contested
    BY DEF AllowInv
  <2>1. /\ Moves(q) /\ Refuses(q)
        /\ call'[q].user # None =>
             link'[q].allow \subseteq StandingOf(q)'.allow /\ (StandingOf(q)'.contested => link'[q].contested)
        /\ call'[q].user # None /\ Busy(q) => link'[q].allow \subseteq link[q].allow
        /\ call'[q].user = None /\ call'[q].answer # "none" => link'[q] = link[q]
    BY <1>2, StepMoves, StepRefuses, ObserveAllows DEF Next
  <2>2. Good(call[q]) /\ Good(call'[q])
    BY <1>1 DEF TypeInv
  <2>3. /\ call[q].pc \in EvalPc => call[q].user # None /\ Busy(q)
        /\ call'[q].pc \in EvalPc => call'[q].user # None
        /\ call'[q].answer # "none" => call'[q].user = None
    BY <2>2 DEF Good, EvalPc, Busy
  <2>4. /\ \A l \in StandingOf(q).allow : l[1][2] \in RolesOf(call[q].user, call[q].resource)
        /\ \A l \in StandingOf(q).allow : \E i \in RoleOf(l[1][2]) : l[2] \in role[i].policies
        /\ \A l \in StandingOf(q).allow : \E i \in PolicyOf(l[2]) : Matches(policy[i].allow, call[q].permission)
        /\ call[q].pc \in EvalPc =>
             link[q].allow \subseteq StandingOf(q).allow /\ (StandingOf(q).contested => link[q].contested)
    <3>1. \A l \in StandingOf(q).allow :
            /\ Reaches(call[q].user, call[q].resource, l[1], l[2])
            /\ l \in Assignment \X PolicyKey
            /\ \E i \in PolicyOf(l[2]) : Matches(policy[i].allow, call[q].permission)
      BY DEF StandingOf, Standing
    <3>2. \A l \in StandingOf(q).allow : l[1][2] \in RolesOf(call[q].user, call[q].resource)
      BY <3>1 DEF Reaches, RolesOf
    <3>3. \A l \in StandingOf(q).allow : \E i \in RoleOf(l[1][2]) : l[2] \in role[i].policies
      BY <3>1 DEF Reaches
    <3>4. call[q].pc \in EvalPc =>
            link[q].allow \subseteq StandingOf(q).allow /\ (StandingOf(q).contested => link[q].contested)
      BY <2>3 DEF AllowInv
    <3>. QED BY <3>1, <3>2, <3>3, <3>4
  <2>5. call'[q].pc = "findingRoles" => \A l \in link'[q].allow : l[1][2] \in call'[q].roles
    <3>1. CASE call'[q] = call[q]
      BY <2>1, <2>3, <3>1 DEF AllowInv, EvalPc
    <3>2. CASE /\ call[q].pc = "findingAssignments" /\ call'[q].pc = "findingRoles"
               /\ call'[q].roles = RolesOf(call[q].user, call[q].resource)
      BY <2>1, <2>3, <2>4, <3>2 DEF EvalPc
    <3>. QED BY <2>1, <3>1, <3>2 DEF Moves, Over
  <2>6. call'[q].pc = "findingPolicies" => \A l \in link'[q].allow : l[2] \in call'[q].policies
    <3>1. CASE call'[q] = call[q]
      BY <2>1, <2>3, <3>1 DEF AllowInv, EvalPc
    <3>2. CASE /\ call[q].pc = "findingRoles" /\ call'[q].pc = "findingPolicies"
               /\ \A k \in call[q].roles : \A i \in RoleOf(k) : role[i].policies \subseteq call'[q].policies
      <4>1. link'[q].allow \subseteq link[q].allow /\ link[q].allow \subseteq StandingOf(q).allow
        BY <2>1, <2>3, <2>4, <3>2 DEF EvalPc
      <4>2. \A l \in link[q].allow : l[1][2] \in call[q].roles
        BY <3>2 DEF AllowInv
      <4>. QED BY <2>4, <3>2, <4>1, <4>2
    <3>. QED BY <2>1, <3>1, <3>2 DEF Moves, Over
  <2>7. call'[q].answer = "deny" => link'[q].allow = {} \/ link'[q].contested
    <3>. SUFFICES ASSUME call'[q].answer = "deny"
                  PROVE  link'[q].allow = {} \/ link'[q].contested
      OBVIOUS
    <3>1. link'[q] = link[q]
      BY <2>1, <2>3
    <3>2. CASE call'[q] = call[q]
      BY <3>1, <3>2 DEF AllowInv
    <3>3. CASE call[q].pc = "findingAssignments" /\ RolesOf(call[q].user, call[q].resource) = {}
      BY <2>4, <3>1, <3>3 DEF EvalPc
    <3>4. CASE call[q].pc = "findingRoles" /\ \A k \in call[q].roles : RoleOf(k) = {}
      <4>1. \A l \in link[q].allow : l[1][2] \in call[q].roles
        BY <3>4 DEF AllowInv
      <4>. QED BY <2>4, <3>1, <3>4, <4>1 DEF EvalPc
    <3>5. CASE call[q].pc = "findingPolicies" /\ Unsupported(q)
      <4>1. \A l \in link[q].allow : l[2] \in call[q].policies
        BY <3>5 DEF AllowInv
      <4>2. CASE \A k \in call[q].policies : \A i \in PolicyOf(k) : ~Matches(policy[i].allow, call[q].permission)
        BY <2>4, <3>1, <3>5, <4>1, <4>2 DEF EvalPc
      <4>3. CASE \E i \in PolicyId : policy[i].state = "present" /\ Matches(policy[i].deny, call[q].permission)
        <5>1. StandingOf(q).contested
          BY <4>3 DEF StandingOf, Standing
        <5>. QED BY <2>4, <3>1, <3>5, <5>1 DEF EvalPc
      <4>. QED BY <3>5, <4>2, <4>3 DEF Unsupported
    <3>. QED BY <2>1, <3>2, <3>3, <3>4, <3>5 DEF Refuses
  <2>. QED BY <2>1, <2>5, <2>6, <2>7
<1>3. CASE UNCHANGED vars
  BY <1>3 DEF vars, tables, AllowInv, StandingOf, Standing, Reaches, InForce, RoleOf, PolicyOf
<1>. QED BY <1>2, <1>3

\* A permission is allowed when one assignment and one policy allow it during the whole
\* evaluation and no policy of the tenant denies it at any moment of it, whatever the
\* other requests change meanwhile.
THEOREM AllowCorrect == Spec => []StandingAllowGranted
<1>1. AllowInv => StandingAllowGranted
  BY DEF AllowInv, StandingAllowGranted
<1>2. Init => AllowInv
  BY DEF Init, AllowInv, NoLink, Idle
<1>3. Spec => []AllowInv
  BY TypeInvCorrect, <1>2, AllowInvStep, PTL DEF Spec
<1>. QED BY <1>1, <1>3, PTL

-----------------------------------------------------------------------------
\* References, where requests come one after the other

OneAtATime == \A q, r \in Request : q = r

\* What a request has found holds until it ends.
Founded(c) ==
  /\ c.pc = "insertingPolicy" => policy[c.id].state = "unborn"
  /\ c.pc \in {"findingRole", "insertingRole"} => role[c.id].state = "unborn"
  /\ c.pc \in {"findingRole", "insertingRole", "readingRole", "writingRole"} => AllFound(c.policies)
  /\ c.pc \in {"listingRoles", "rereadingPolicy", "deletingPolicy"} => policy[c.id].key = c.key
  /\ c.pc \in {"rereadingPolicy", "deletingPolicy"} =>
       \A i \in RoleId : role[i].state = "present" => c.key \notin role[i].policies
  /\ c.pc \in {"countingAssignments", "rereadingRole", "deletingRole"} => role[c.id].key = c.key
  /\ c.pc \in {"rereadingRole", "deletingRole"} =>
       \A a \in Assignment : a[2] = c.key => assignment[a].status # "active"
  /\ c.pc \in {"checkingAssignment", "insertingAssignment"} => RoleOf(c.grant[2]) # {}

RefInv == ReferencesHold /\ \A r \in Request : Founded(call[r])

LEMMA FoundedIdle == Founded(Idle)
BY DEF Founded, Idle

\* The tables stay as they are, or the request ends.
LEMMA RefReads ==
  ASSUME TypeInv, RefInv, OneAtATime, UNCHANGED tables, NEW r \in Request, NEW STATE n,
         call' = [call EXCEPT ![r] = n], Founded(n)
  PROVE  RefInv'
<1>1. \A q \in Request : call'[q] = n
  BY DEF OneAtATime, TypeInv, TypeOK
<1>. QED BY <1>1 DEF RefInv, ReferencesHold, Founded, AllFound, PolicyOf, RoleOf, tables

LEMMA RefWrites ==
  ASSUME TypeInv, OneAtATime, NEW r \in Request, call' = [call EXCEPT ![r] = Idle], ReferencesHold'
  PROVE  RefInv'
<1>1. \A q \in Request : call'[q] = Idle
  BY DEF OneAtATime, TypeInv, TypeOK
<1>. QED BY <1>1 DEF RefInv, Founded, Idle

LEMMA RefAsks ==
  ASSUME TypeInv, RefInv, OneAtATime, NEW r \in Request, Ask(r)
  PROVE  RefInv'
<1>1. ASSUME NEW op, NEW STATE n, Begin(r, op, n), Founded(n)
      PROVE  RefInv'
  BY <1>1, RefReads DEF Begin, tables
<1>2. ASSUME NEW id \in PolicyId, NEW c \in Content, UpdatePolicy(r, id, c)
      PROVE  RefInv'
  BY <1>1, <1>2 DEF UpdatePolicy, Founded, At, Idle
<1>3. ASSUME NEW id \in PolicyId, NEW k \in PolicyKey, NEW c \in Content, CreatePolicy(r, id, k, c)
      PROVE  RefInv'
  BY <1>1, <1>3 DEF CreatePolicy, Founded, At, Idle
<1>4. ASSUME NEW id \in PolicyId, DeletePolicy(r, id)
      PROVE  RefInv'
  BY <1>1, <1>4 DEF DeletePolicy, Founded, At, Idle
<1>5. ASSUME NEW id \in RoleId, NEW ps \in SUBSET PolicyKey, UpdateRole(r, id, ps)
      PROVE  RefInv'
  BY <1>1, <1>5 DEF UpdateRole, Founded, At, Idle
<1>6. ASSUME NEW id \in RoleId, NEW ps \in SUBSET PolicyKey, NEW k \in RoleKey, CreateRole(r, id, k, ps)
      PROVE  RefInv'
  BY <1>1, <1>6 DEF CreateRole, Founded, At, Idle
<1>7. ASSUME NEW id \in RoleId, DeleteRole(r, id)
      PROVE  RefInv'
  BY <1>1, <1>7 DEF DeleteRole, Founded, At, Idle
<1>8. ASSUME NEW a \in Assignment, AssignRole(r, a)
      PROVE  RefInv'
  BY <1>1, <1>8 DEF AssignRole, Founded, At, Idle
<1>9. ASSUME NEW a \in Assignment, RevokeAssignment(r, a)
      PROVE  RefInv'
  BY <1>1, <1>9 DEF RevokeAssignment, Founded, At, Idle
<1>10. ASSUME NEW u \in User, NEW p \in Permission, NEW res \in Resource, Evaluate(r, u, p, res)
       PROVE  RefInv'
  BY <1>1, <1>10 DEF Evaluate, Founded, At, Idle
<1>. QED BY <1>2, <1>3, <1>4, <1>5, <1>6, <1>7, <1>8, <1>9, <1>10 DEF Ask

\* A request that has read on.
LEMMA OnFields ==
  ASSUME NEW c \in Call, NEW pc \in Pc, NEW seen
  PROVE  \A n \in {[c EXCEPT !.pc = pc], [c EXCEPT !.pc = pc, !.seen = seen]} :
           n.pc = pc /\ n.id = c.id /\ n.key = c.key /\ n.policies = c.policies /\ n.grant = c.grant
BY DEF Call

LEMMA RefReading ==
  ASSUME TypeInv, RefInv, OneAtATime, NEW r \in Request, Reading(r)
  PROVE  RefInv'
<1>. DEFINE c == call[r]
<1>0. c \in Call /\ Founded(c)
  BY DEF TypeInv, TypeOK, RefInv
<1>1. ASSUME NEW STATE n, UNCHANGED tables,
             \/ call' = [call EXCEPT ![r] = Idle]
             \/ call' = [call EXCEPT ![r] = n] /\ Founded(n)
      PROVE  RefInv'
  BY <1>1, RefReads, FoundedIdle
<1>2. CASE ReadPolicy(r)
  <2>. DEFINE n == [c EXCEPT !.pc = "writingPolicy", !.seen = policy[c.id].version]
  <2>1. /\ UNCHANGED tables /\ c.pc = "readingPolicy"
        /\ call' = [call EXCEPT ![r] = Idle] \/ (call' = [call EXCEPT ![r] = n])
    BY <1>2 DEF ReadPolicy, Reads, Goes
  <2>2. n.pc = "writingPolicy" /\ n.id = c.id /\ n.key = c.key /\ n.policies = c.policies /\ n.grant = c.grant
    BY <1>0, OnFields DEF Pc
  <2>. HIDE DEF n, c
  <2>3. Founded(n)
    BY <1>0, <2>1, <2>2 DEF Founded
  <2>. QED BY <1>1, <2>1, <2>3
<1>3. CASE ListRoles(r)
  <2>. DEFINE n == [c EXCEPT !.pc = "rereadingPolicy"]
  <2>1. /\ UNCHANGED tables /\ c.pc = "listingRoles"
        /\ call' = [call EXCEPT ![r] = Idle] \/ (call' = [call EXCEPT ![r] = n] /\ (\A i \in RoleId : role[i].state = "present" => c.key \notin role[i].policies))
    BY <1>3 DEF ListRoles, Reads, Goes
  <2>2. n.pc = "rereadingPolicy" /\ n.id = c.id /\ n.key = c.key /\ n.policies = c.policies /\ n.grant = c.grant
    BY <1>0, OnFields DEF Pc
  <2>. HIDE DEF n, c
  <2>3. (\A i \in RoleId : role[i].state = "present" => c.key \notin role[i].policies) => Founded(n)
    BY <1>0, <2>1, <2>2 DEF Founded
  <2>. QED BY <1>1, <2>1, <2>3
<1>4. CASE RereadPolicy(r)
  <2>. DEFINE n == [c EXCEPT !.pc = "deletingPolicy"]
  <2>1. /\ UNCHANGED tables /\ c.pc = "rereadingPolicy"
        /\ call' = [call EXCEPT ![r] = Idle] \/ (call' = [call EXCEPT ![r] = n])
    BY <1>4 DEF RereadPolicy, Reads, Goes
  <2>2. n.pc = "deletingPolicy" /\ n.id = c.id /\ n.key = c.key /\ n.policies = c.policies /\ n.grant = c.grant
    BY <1>0, OnFields DEF Pc
  <2>. HIDE DEF n, c
  <2>3. Founded(n)
    BY <1>0, <2>1, <2>2 DEF Founded
  <2>. QED BY <1>1, <2>1, <2>3
<1>5. CASE FindRole(r)
  <2>. DEFINE n == [c EXCEPT !.pc = "insertingRole"]
  <2>1. /\ UNCHANGED tables /\ c.pc = "findingRole"
        /\ call' = [call EXCEPT ![r] = Idle] \/ (call' = [call EXCEPT ![r] = n])
    BY <1>5 DEF FindRole, Reads, Goes
  <2>2. n.pc = "insertingRole" /\ n.id = c.id /\ n.key = c.key /\ n.policies = c.policies /\ n.grant = c.grant
    BY <1>0, OnFields DEF Pc
  <2>. HIDE DEF n, c
  <2>3. Founded(n)
    BY <1>0, <2>1, <2>2 DEF Founded
  <2>. QED BY <1>1, <2>1, <2>3
<1>6. CASE CheckPolicies(r)
  <2>. DEFINE n == [c EXCEPT !.pc = "readingRole"]
  <2>1. /\ UNCHANGED tables /\ c.pc = "checkingPolicies"
        /\ call' = [call EXCEPT ![r] = Idle] \/ (call' = [call EXCEPT ![r] = n] /\ AllFound(c.policies))
    BY <1>6 DEF CheckPolicies, Reads, Goes
  <2>2. n.pc = "readingRole" /\ n.id = c.id /\ n.key = c.key /\ n.policies = c.policies /\ n.grant = c.grant
    BY <1>0, OnFields DEF Pc
  <2>. HIDE DEF n, c
  <2>3. (AllFound(c.policies)) => Founded(n)
    BY <1>0, <2>1, <2>2 DEF Founded
  <2>. QED BY <1>1, <2>1, <2>3
<1>7. CASE ReadRole(r)
  <2>. DEFINE n == [c EXCEPT !.pc = "writingRole", !.seen = role[c.id].version]
  <2>1. /\ UNCHANGED tables /\ c.pc = "readingRole"
        /\ call' = [call EXCEPT ![r] = Idle] \/ (call' = [call EXCEPT ![r] = n])
    BY <1>7 DEF ReadRole, Reads, Goes
  <2>2. n.pc = "writingRole" /\ n.id = c.id /\ n.key = c.key /\ n.policies = c.policies /\ n.grant = c.grant
    BY <1>0, OnFields DEF Pc
  <2>. HIDE DEF n, c
  <2>3. Founded(n)
    BY <1>0, <2>1, <2>2 DEF Founded
  <2>. QED BY <1>1, <2>1, <2>3
<1>8. CASE CountAssignments(r)
  <2>. DEFINE n == [c EXCEPT !.pc = "rereadingRole"]
  <2>1. /\ UNCHANGED tables /\ c.pc = "countingAssignments"
        /\ call' = [call EXCEPT ![r] = Idle] \/ (call' = [call EXCEPT ![r] = n] /\ (\A a \in Assignment : a[2] = c.key => assignment[a].status # "active"))
    BY <1>8 DEF CountAssignments, Reads, Goes
  <2>2. n.pc = "rereadingRole" /\ n.id = c.id /\ n.key = c.key /\ n.policies = c.policies /\ n.grant = c.grant
    BY <1>0, OnFields DEF Pc
  <2>. HIDE DEF n, c
  <2>3. (\A a \in Assignment : a[2] = c.key => assignment[a].status # "active") => Founded(n)
    BY <1>0, <2>1, <2>2 DEF Founded
  <2>. QED BY <1>1, <2>1, <2>3
<1>9. CASE RereadRole(r)
  <2>. DEFINE n == [c EXCEPT !.pc = "deletingRole"]
  <2>1. /\ UNCHANGED tables /\ c.pc = "rereadingRole"
        /\ call' = [call EXCEPT ![r] = Idle] \/ (call' = [call EXCEPT ![r] = n])
    BY <1>9 DEF RereadRole, Reads, Goes
  <2>2. n.pc = "deletingRole" /\ n.id = c.id /\ n.key = c.key /\ n.policies = c.policies /\ n.grant = c.grant
    BY <1>0, OnFields DEF Pc
  <2>. HIDE DEF n, c
  <2>3. Founded(n)
    BY <1>0, <2>1, <2>2 DEF Founded
  <2>. QED BY <1>1, <2>1, <2>3
<1>10. CASE CheckAssignment(r)
  <2>. DEFINE n == [c EXCEPT !.pc = "insertingAssignment"]
  <2>1. /\ UNCHANGED tables /\ c.pc = "checkingAssignment"
        /\ call' = [call EXCEPT ![r] = Idle] \/ (call' = [call EXCEPT ![r] = n])
    BY <1>10 DEF CheckAssignment, Reads, Goes
  <2>2. n.pc = "insertingAssignment" /\ n.id = c.id /\ n.key = c.key /\ n.policies = c.policies /\ n.grant = c.grant
    BY <1>0, OnFields DEF Pc
  <2>. HIDE DEF n, c
  <2>3. Founded(n)
    BY <1>0, <2>1, <2>2 DEF Founded
  <2>. QED BY <1>1, <2>1, <2>3
<1>11. CASE ReadAssignment(r)
  <2>. DEFINE n == [c EXCEPT !.pc = "writingAssignment", !.seen = assignment[c.grant].version]
  <2>1. /\ UNCHANGED tables /\ c.pc = "readingAssignment"
        /\ call' = [call EXCEPT ![r] = Idle] \/ (call' = [call EXCEPT ![r] = n])
    BY <1>11 DEF ReadAssignment, Reads, Goes
  <2>2. n.pc = "writingAssignment" /\ n.id = c.id /\ n.key = c.key /\ n.policies = c.policies /\ n.grant = c.grant
    BY <1>0, OnFields DEF Pc
  <2>. HIDE DEF n, c
  <2>3. Founded(n)
    BY <1>0, <2>1, <2>2 DEF Founded
  <2>. QED BY <1>1, <2>1, <2>3
<1>. QED BY <1>2, <1>3, <1>4, <1>5, <1>6, <1>7, <1>8, <1>9, <1>10, <1>11 DEF Reading

LEMMA RefDeciding ==
  ASSUME TypeInv, RefInv, OneAtATime, NEW r \in Request, Deciding(r)
  PROVE  RefInv'
<1>1. PICK n : Becomes(r, n) /\ n.pc \in {"idle", "findingRoles", "findingPolicies"}
  BY FindAssignmentsBecomes, FindRolesBecomes, DecideBecomes DEF Deciding, Over
<1>2. UNCHANGED tables
  BY FindAssignmentsBecomes, FindRolesBecomes, DecideBecomes DEF Deciding
<1>3. Founded(n)
  BY <1>1 DEF Founded
<1>4. \A q \in Request : call'[q] = n
  BY <1>1 DEF Becomes, OneAtATime, TypeInv, TypeOK
<1>. QED BY <1>2, <1>3, <1>4 DEF RefInv, ReferencesHold, Founded, AllFound, PolicyOf, RoleOf, tables

LEMMA RefWriting ==
  ASSUME TypeInv, RefInv, OneAtATime, NEW r \in Request, Writing(r)
  PROVE  RefInv'
<1>. DEFINE c == call[r]
<1>0. c \in Call /\ Founded(c) /\ Good(c) /\ ReferencesHold
  BY DEF TypeInv, TypeOK, RefInv
<1>1. call' = [call EXCEPT ![r] = Idle]
  BY DEF Writing, InsertPolicy, WritePolicy, DeletePolicyRow, InsertRole, WriteRole, DeleteRoleRow, InsertAssignment,
     WriteAssignment, Ends, Goes
<1>. SUFFICES ReferencesHold'
  BY <1>1, RefWrites
<1>2. policy \in [PolicyId -> PolicyRow] /\ role \in [RoleId -> RoleRow] /\ assignment \in [Assignment -> AssignmentRow]
  BY DEF TypeInv, TypeOK
\* A policy that is there stays, with its key.
<1>3. ASSUME UNCHANGED <<role, assignment>>,
             \A i \in PolicyId : policy[i].state = "present" => policy'[i].state = "present" /\ policy'[i].key = policy[i].key
      PROVE  ReferencesHold'
  <2>1. \A ks : AllFound(ks) => AllFound(ks)'
    BY <1>3 DEF AllFound, PolicyOf
  <2>. QED BY <1>0, <1>3, <2>1 DEF ReferencesHold, RoleOf
<1>4. CASE InsertPolicy(r)
  <2>1. c.id \in PolicyId /\ policy[c.id].state = "unborn"
    BY <1>0, <1>4 DEF InsertPolicy, Good, Founded, PolicyPc
  <2>2. \A i \in PolicyId : policy[i].state = "present" => policy'[i] = policy[i]
    BY <1>2, <1>4, <2>1 DEF InsertPolicy
  <2>. QED BY <1>3, <1>4, <2>2 DEF InsertPolicy
<1>5. CASE WritePolicy(r)
  <2>1. c.id \in PolicyId /\ policy[c.id] \in PolicyRow
    BY <1>0, <1>2, <1>5 DEF WritePolicy, Good, PolicyPc
  <2>2. \/ policy' = policy
        \/ policy' = [policy EXCEPT ![c.id] = [policy[c.id] EXCEPT !.allow = c.content.allow,
                                                 !.deny = c.content.deny, !.version = @ + 1]]
    BY <1>5 DEF WritePolicy
  <2>. DEFINE new == [policy[c.id] EXCEPT !.allow = c.content.allow, !.deny = c.content.deny, !.version = @ + 1]
  <2>3. new.state = policy[c.id].state /\ new.key = policy[c.id].key
    BY <2>1 DEF PolicyRow
  <2>. HIDE DEF new
  <2>4. \A i \in PolicyId : policy'[i].state = policy[i].state /\ policy'[i].key = policy[i].key
    BY <1>2, <2>1, <2>2, <2>3 DEF new
  <2>. QED BY <1>3, <1>5, <2>4 DEF WritePolicy
<1>6. CASE DeletePolicyRow(r)
  <2>1. /\ c.id \in PolicyId /\ policy[c.id].key = c.key
        /\ \A i \in RoleId : role[i].state = "present" => c.key \notin role[i].policies
    BY <1>0, <1>6 DEF DeletePolicyRow, Good, Founded, PolicyPc
  <2>2. \A i \in PolicyId \ {c.id} : policy'[i] = policy[i]
    BY <1>2, <1>6 DEF DeletePolicyRow
  <2>3. \A k : k # c.key => PolicyOf(k) \subseteq PolicyOf(k)'
    BY <2>1, <2>2 DEF PolicyOf
  <2>4. UNCHANGED <<role, assignment>>
    BY <1>6 DEF DeletePolicyRow
  <2>. QED BY <1>0, <2>1, <2>3, <2>4 DEF ReferencesHold, AllFound, RoleOf
\* A role that is there stays, and a role that is written names policies that exist.
<1>7. ASSUME UNCHANGED <<policy, assignment>>, NEW new, NEW id \in RoleId, role' = [role EXCEPT ![id] = new],
             AllFound(new.policies), new.state = "present",
             role[id].state = "present" => new.key = role[id].key
      PROVE  ReferencesHold'
  <2>1. /\ role'[id] = new /\ \A i \in RoleId \ {id} : role'[i] = role[i]
    BY <1>2, <1>7
  <2>2. \A ks : AllFound(ks) => AllFound(ks)'
    BY <1>7 DEF AllFound, PolicyOf
  <2>3. \A k : RoleOf(k) \subseteq RoleOf(k)'
    BY <1>7, <2>1 DEF RoleOf
  <2>4. \A i \in RoleId : role'[i].state = "present" => AllFound(role[i].policies)'
    BY <1>0, <1>7, <2>1, <2>2 DEF ReferencesHold
  <2>5. \A a \in Assignment : assignment'[a].status = "active" => RoleOf(a[2])' # {}
    BY <1>0, <1>7, <2>3 DEF ReferencesHold
  <2>. QED BY <2>4, <2>5 DEF ReferencesHold
<1>8. CASE UNCHANGED tables
  BY <1>0, <1>8 DEF ReferencesHold, AllFound, PolicyOf, RoleOf, tables
<1>9. CASE InsertRole(r)
  <2>1. c.id \in RoleId /\ role[c.id].state = "unborn" /\ AllFound(c.policies)
    BY <1>0, <1>9 DEF InsertRole, Good, Founded, RolePc
  <2>. DEFINE new == [state |-> "present", key |-> c.key, policies |-> c.policies, version |-> 1]
  <2>2. UNCHANGED role \/ role' = [role EXCEPT ![c.id] = new]
    BY <1>9 DEF InsertRole
  <2>3. UNCHANGED <<policy, assignment>>
    BY <1>9 DEF InsertRole
  <2>4. new.state = "present" /\ new.policies = c.policies
    OBVIOUS
  <2>. HIDE DEF new, c
  <2>. QED BY <1>7, <1>8, <2>1, <2>2, <2>3, <2>4 DEF tables
<1>10. CASE WriteRole(r)
  <2>1. c.id \in RoleId /\ role[c.id] \in RoleRow /\ AllFound(c.policies)
    BY <1>0, <1>2, <1>10 DEF WriteRole, Good, Founded, RolePc
  <2>. DEFINE new == [role[c.id] EXCEPT !.policies = c.policies, !.version = @ + 1]
  <2>2. UNCHANGED role \/ (role[c.id].state = "present" /\ role' = [role EXCEPT ![c.id] = new])
    BY <1>10 DEF WriteRole
  <2>3. UNCHANGED <<policy, assignment>>
    BY <1>10 DEF WriteRole
  <2>4. new.state = role[c.id].state /\ new.key = role[c.id].key /\ new.policies = c.policies
    BY <2>1 DEF RoleRow
  <2>. HIDE DEF new, c
  <2>. QED BY <1>7, <1>8, <2>1, <2>2, <2>3, <2>4 DEF tables
<1>11. CASE DeleteRoleRow(r)
  <2>1. /\ c.id \in RoleId /\ role[c.id].key = c.key
        /\ \A a \in Assignment : a[2] = c.key => assignment[a].status # "active"
    BY <1>0, <1>11 DEF DeleteRoleRow, Good, Founded, RolePc
  <2>2. \A i \in RoleId \ {c.id} : role'[i] = role[i]
    BY <1>2, <1>11 DEF DeleteRoleRow
  <2>3. role'[c.id].state = "deleted"
    BY <1>2, <1>11, <2>1 DEF DeleteRoleRow, RoleRow
  <2>4. UNCHANGED <<policy, assignment>>
    BY <1>11 DEF DeleteRoleRow
  <2>5. \A k : k # c.key => RoleOf(k) \subseteq RoleOf(k)'
    BY <2>1, <2>2 DEF RoleOf
  <2>6. \A ks : AllFound(ks) => AllFound(ks)'
    BY <2>4 DEF AllFound, PolicyOf
  <2>7. \A i \in RoleId : role'[i].state = "present" => AllFound(role[i].policies)'
    BY <1>0, <2>2, <2>3, <2>6 DEF ReferencesHold
  <2>8. \A a \in Assignment : assignment'[a].status = "active" => RoleOf(a[2])' # {}
    BY <1>0, <2>1, <2>4, <2>5 DEF ReferencesHold
  <2>. QED BY <2>7, <2>8 DEF ReferencesHold
\* An assignment is made active for a role that exists.
<1>12. CASE InsertAssignment(r) \/ WriteAssignment(r)
  <2>1. /\ c.grant \in Assignment
        /\ c.pc = "insertingAssignment" => RoleOf(c.grant[2]) # {}
    BY <1>0, <1>12 DEF InsertAssignment, WriteAssignment, Good, Founded, GrantPc
  <2>2. \A a \in Assignment \ {c.grant} : assignment'[a] = assignment[a]
    BY <1>2, <1>12 DEF InsertAssignment, WriteAssignment
  <2>3. assignment'[c.grant].status = "active" => assignment[c.grant].status = "active" \/ c.pc = "insertingAssignment"
    <3>1. CASE InsertAssignment(r)
      BY <3>1 DEF InsertAssignment
    <3>2. CASE WriteAssignment(r)
      <4>1. assignment[c.grant] \in AssignmentRow
        BY <1>2, <2>1
      <4>2. \/ assignment' = assignment
            \/ assignment' = [assignment EXCEPT ![c.grant] =
                                [[assignment[c.grant] EXCEPT !.status = "inactive"] EXCEPT !.version = @ + 1]]
        BY <1>2, <2>1, <3>2, <4>1 DEF WriteAssignment
      <4>3. [[assignment[c.grant] EXCEPT !.status = "inactive"] EXCEPT !.version = @ + 1].status = "inactive"
        BY <4>1 DEF AssignmentRow
      <4>. QED BY <1>2, <2>1, <4>2, <4>3
    <3>. QED BY <1>12, <3>1, <3>2
  <2>4. UNCHANGED <<policy, role>>
    BY <1>12 DEF InsertAssignment, WriteAssignment
  <2>. QED BY <1>0, <2>1, <2>2, <2>3, <2>4 DEF ReferencesHold, AllFound, PolicyOf, RoleOf
<1>. QED BY <1>4, <1>5, <1>6, <1>9, <1>10, <1>11, <1>12 DEF Writing

LEMMA RefKept ==
  ASSUME TypeInv, RefInv, OneAtATime, [Next]_vars
  PROVE  RefInv'
<1>1. ASSUME NEW r \in Request, Dies(r)
      PROVE  RefInv'
  BY <1>1, RefReads, FoundedIdle DEF Dies
<1>2. ASSUME NEW a \in Assignment, Expire(a)
      PROVE  RefInv'
  <2>1. /\ UNCHANGED <<policy, role, call>>
        /\ \A b \in Assignment : assignment'[b].status = assignment[b].status
    BY <1>2 DEF Expire, TypeInv, TypeOK, AssignmentRow
  <2>. QED BY <2>1 DEF RefInv, ReferencesHold, Founded, AllFound, PolicyOf, RoleOf
<1>3. CASE UNCHANGED vars
  BY <1>3 DEF vars, tables, RefInv, ReferencesHold, Founded, AllFound, PolicyOf, RoleOf
<1>. QED BY <1>1, <1>2, <1>3, RefAsks, RefReading, RefDeciding, RefWriting
         DEF Next, Step, Continue, Reading, Deciding, Writing

\* Where requests come one after the other, also when they die half way, a role names
\* policies that exist and an active assignment a role that exists.
THEOREM ReferencesCorrect == ASSUME OneAtATime PROVE Spec => []ReferencesHold
<1>1. Init => RefInv
  BY DEF Init, RefInv, ReferencesHold, Founded, Idle
<1>2. TypeInv /\ RefInv /\ [Next]_vars => RefInv'
  BY RefKept
<1>3. RefInv => ReferencesHold
  BY DEF RefInv
<1>. QED BY <1>1, <1>2, <1>3, TypeInvCorrect, PTL DEF Spec

=============================================================================
