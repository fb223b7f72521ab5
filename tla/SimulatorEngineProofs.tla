------------------------ MODULE SimulatorEngineProofs ------------------------
(* Theorems about SimulatorEngine, for every set of sessions, tenants and   *)
(* lanes, every quota and every number of faults and crashes.               *)
EXTENDS SimulatorEngine, FiniteSetTheorems, TLAPS

-----------------------------------------------------------------------------
\* What the building blocks do to the type of the variable they change.
LEMMA TaskStepType ==
  ASSUME TypeOK, NEW s \in Session, NEW l \in Lane, NEW from, NEW to \in TaskPc,
         TaskStep(s, l, from, to)
  PROVE  task' \in [Session -> [Lane -> TaskPc]]
BY DEF TypeOK, TaskStep

LEMMA SetStatusType ==
  ASSUME TypeOK, NEW s \in Session, NEW st \in Status, SetStatus(s, st)
  PROVE  row' \in [Session -> Status]
BY DEF TypeOK, SetStatus

LEMMA ClearTimersType ==
  ASSUME TypeOK, NEW s \in Session, ClearTimers(s)
  PROVE  armed' \in [Session -> SUBSET Object]
BY DEF TypeOK, ClearTimers

LEMMA RegisterType ==
  ASSUME TypeOK, NEW s \in Session, NEW o \in Object, Register(s, o)
  PROVE  scansThisHour' \in [Session -> [Object -> Nat]]
<1>1. scansThisHour \in [Session -> [Object -> Nat]]
  BY DEF TypeOK
<1>2. scansThisHour' = [scansThisHour EXCEPT ![s][o] = 0]
  BY DEF Register
<1>. QED BY <1>1, <1>2

\* Every step keeps every variable in its type.
LEMMA StartTypes ==
  ASSUME TypeOK, NEW s \in Session,
         RequestStart(s) \/ Starting(s) \/ StartFails(s)
  PROVE  TypeOK'
<1> USE DEF TypeOK, StartStep, StartPc, Status, Event, Object, Fault, SetStatus,
            CreateEvent, Register, Arm, db, memory, calls, booting, bounds
<1>1. CASE RequestStart(s) BY <1>1 DEF RequestStart
<1>2. CASE StartCount(s)   BY <1>2 DEF StartCount
<1>3. CASE StartInsert(s)  BY <1>3 DEF StartInsert
<1>4. CASE StartFetch(s)   BY <1>4 DEF StartFetch
<1>5. CASE StartLog(s)     BY <1>5 DEF StartLog
<1>6. CASE StartRun(s)     BY <1>6 DEF StartRun
<1>7. CASE StartThrows(s)  BY <1>7, EngineAssumption DEF StartThrows, EngineAssumption
<1>8. CASE StartError(s)   BY <1>8 DEF StartError
<1>9. CASE StartErrLog(s)  BY <1>9 DEF StartErrLog
<1>10. CASE StartFails(s)  BY <1>10, EngineAssumption DEF StartFails, EngineAssumption
<1>. QED BY <1>1, <1>2, <1>3, <1>4, <1>5, <1>6, <1>7, <1>8, <1>9, <1>10 DEF Starting

LEMMA EndTypes ==
  ASSUME TypeOK, NEW s \in Session, NEW l \in Lane,
         RequestStop(s, l) \/ Ending(s, l) \/ TaskFails(s, l)
  PROVE  TypeOK'
<1> USE DEF TypeOK, TaskStep, TaskPc, Status, Event, Object, Fault, SetStatus,
            CreateEvent, ClearTimers, Unregister, db, memory, calls, booting, bounds
<1>1. CASE RequestStop(s, l)   BY <1>1 DEF RequestStop
<1>2. CASE EndStatus(s, l)
  <2>1. \E from, to \in TaskPc : TaskStep(s, l, from, to)
    BY <1>2 DEF EndStatus
  <2>2. \E st \in Status : SetStatus(s, st)
    BY <1>2 DEF EndStatus
  <2>. QED BY <1>2, <2>1, <2>2, TaskStepType, SetStatusType DEF EndStatus
<1>3. CASE EndLog(s, l)
  <2>1. \E from, to \in TaskPc : TaskStep(s, l, from, to)
    BY <1>3 DEF EndLog
  <2>2. \E e \in Event : CreateEvent(s, e)
    BY <1>3 DEF EndLog
  <2>3. logged' \in [Session -> SUBSET Event]
    BY <2>2
  <2>. QED BY <1>3, <2>1, <2>3, TaskStepType DEF EndLog
<1>4. CASE EndLogRefused(s, l) BY <1>4 DEF EndLogRefused
<1>5. CASE TaskFails(s, l)     BY <1>5, EngineAssumption DEF TaskFails, EngineAssumption
<1>. QED BY <1>1, <1>2, <1>3, <1>4, <1>5 DEF Ending

LEMMA RefreshTypes ==
  ASSUME TypeOK, NEW s \in Session, RefreshTick(s) \/ Refreshing(s)
  PROVE  TypeOK'
<1> USE DEF TypeOK, TaskStep, TaskPc, Object, Lane, db, memory, calls, booting, bounds
<1>1. CASE RefreshTick(s)   BY <1>1 DEF RefreshTick
<1>2. CASE RefreshReload(s)
  <2>1. \E to \in TaskPc : TaskStep(s, "refresh", "reloading", to)
    BY <1>2 DEF RefreshReload
  <2>2. armed' \in [Session -> SUBSET Object]
    BY <1>2, ClearTimersType DEF RefreshReload
  <2>3. task' \in [Session -> [Lane -> TaskPc]]
    BY <2>1, TaskStepType
  <2>. QED BY <1>2, <2>2, <2>3 DEF RefreshReload
<1>3. CASE RefreshFetch(s)  BY <1>3 DEF RefreshFetch
<1>. QED BY <1>1, <1>2, <1>3 DEF Refreshing

LEMMA ScanTypes ==
  ASSUME TypeOK, NEW s \in Session, NEW l \in ScanLane,
         ScanTick(s, l) \/ Scanning(s, l)
  PROVE  TypeOK'
<1> USE DEF TypeOK, TaskPc, Object, Lane, db, memory, calls, booting, bounds
<1>1. CASE ScanTick(s, l)
  <2>1. active[s] \in Object
    BY <1>1 DEF ScanTick
  <2>2. PICK hourOver \in BOOLEAN :
          LET n == IF hourOver THEN 0 ELSE scansThisHour[s][active[s]]
          IN /\ scansThisHour' = [scansThisHour EXCEPT ![s][active[s]] = n]
             /\ TaskStep(s, l, "idle", IF n >= MaxScansPerHour THEN "idle" ELSE "checking")
    BY <1>1 DEF ScanTick
  <2>3. scansThisHour' \in [Session -> [Object -> Nat]]
    BY <2>1, <2>2
  <2>. DEFINE pc == IF (IF hourOver THEN 0 ELSE scansThisHour[s][active[s]]) >= MaxScansPerHour
                    THEN "idle" ELSE "checking"
  <2>4. task' \in [Session -> [Lane -> TaskPc]]
    <3>1. TaskStep(s, l, "idle", pc) /\ pc \in TaskPc /\ l \in Lane
      BY <2>2
    <3>. HIDE DEF pc, TypeOK, TaskPc, Lane
    <3>. QED BY <3>1, TaskStepType
  <2>5. scanOf' \in [Session -> [ScanLane -> Object]]
    BY <1>1, <2>1 DEF ScanTick
  <2>. QED BY <1>1, <2>3, <2>4, <2>5 DEF ScanTick
<1>2. CASE ScanCheck(s, l)
  <2>. DEFINE pc == IF row[s] = "absent" \/ overdue[s]
                    THEN (IF active[s] = "none" THEN "idle" ELSE "expiring")
                    ELSE IF cached[s] THEN "scanning" ELSE "idle"
  <2>1. TaskStep(s, l, "checking", pc) /\ pc \in TaskPc /\ l \in Lane
    BY <1>2 DEF ScanCheck
  <2>2. armed' \in [Session -> SUBSET Object]
    BY <1>2, ClearTimersType DEF ScanCheck
  <2>3. task' \in [Session -> [Lane -> TaskPc]]
    <3>. HIDE DEF pc, TypeOK, TaskPc, Lane
    <3>. QED BY <2>1, TaskStepType
  <2>. QED BY <1>2, <2>2, <2>3 DEF ScanCheck
<1>3. CASE ScanDevice(s, l) BY <1>3 DEF ScanDevice
<1>4. CASE ScanFinish(s, l)
  <2>1. scansThisHour' \in [Session -> [Object -> Nat]]
    BY <1>4 DEF ScanFinish
  <2>2. task' \in [Session -> [Lane -> TaskPc]]
    BY <1>4, TaskStepType DEF ScanFinish
  <2>. QED BY <1>4, <2>1, <2>2 DEF ScanFinish
<1>. QED BY <1>1, <1>2, <1>3, <1>4 DEF Scanning

LEMMA RecoverTypes ==
  ASSUME TypeOK, NEW s \in Session, Recovering(s)
  PROVE  TypeOK'
<1> USE DEF TypeOK, BootPc, Status, Event, Object, Fault, SetStatus, Register, Arm,
            RecoverTreated, db, memory, calls, booting, bounds
<1>1. CASE RecoverNext(s)
  <2>1. CASE overdue[s]  BY <1>1, <2>1 DEF RecoverNext
  <2>2. CASE ~overdue[s]
    <3>1. active' \in [Session -> Object \cup {"none"}]
      BY <1>1, <2>2 DEF RecoverNext
    <3>2. scansThisHour' \in [Session -> [Object -> Nat]]
      <4>1. Register(s, "recover") /\ "recover" \in Object
        BY <1>1, <2>2 DEF RecoverNext
      <4>. HIDE DEF TypeOK, Register, Object
      <4>. QED BY <4>1, RegisterType
    <3>. QED BY <1>1, <2>2, <3>1, <3>2 DEF RecoverNext
  <2>. QED BY <2>1, <2>2
<1>2. CASE RecoverExpire(s) BY <1>2 DEF RecoverExpire
<1>3. CASE RecoverFetch(s)  BY <1>3 DEF RecoverFetch
<1>4. CASE RecoverThrows(s) BY <1>4, EngineAssumption DEF RecoverThrows, EngineAssumption
<1>5. CASE RecoverError(s)  BY <1>5 DEF RecoverError
<1>. QED BY <1>1, <1>2, <1>3, <1>4, <1>5 DEF Recovering

LEMMA ProcessTypes ==
  ASSUME TypeOK,
         \/ MarkExpired \/ FindRunning \/ BootReady \/ BootFails
         \/ Crash \/ Shutdown \/ Exit \/ ExitOnFailure \/ Restart
  PROVE  TypeOK'
<1> USE EngineAssumption DEF EngineAssumption, TypeOK, BootStep, BootPc, Status, Object,
            TaskPc, StartPc, Fault, MemoryLost, db, memory, calls, booting, bounds
<1>1. CASE MarkExpired   BY <1>1 DEF MarkExpired
<1>2. CASE FindRunning   BY <1>2 DEF FindRunning
<1>3. CASE BootReady     BY <1>3 DEF BootReady
<1>4. CASE BootFails     BY <1>4 DEF BootFails
<1>5. CASE Crash         BY <1>5 DEF Crash
<1>6. CASE Shutdown      BY <1>6 DEF Shutdown, Lane
<1>7. CASE Exit          BY <1>7 DEF Exit
<1>8. CASE ExitOnFailure BY <1>8 DEF ExitOnFailure
<1>9. CASE Restart       BY <1>9 DEF Restart
<1>. QED BY <1>1, <1>2, <1>3, <1>4, <1>5, <1>6, <1>7, <1>8, <1>9

LEMMA OutsideTypes ==
  ASSUME TypeOK, NEW s \in Session, DeleteSession(s) \/ DeadlinePasses(s)
  PROVE  TypeOK'
BY DEF TypeOK, DeleteSession, DeadlinePasses, Status, Event, db, memory, calls, booting, bounds

\* Type correctness: whatever interleaves, statuses, timers and program counters
\* stay in the ranges that the code's types and the table's enum give them.
THEOREM TypeCorrect == Spec => []TypeOK
<1>1. Init => TypeOK
  BY EngineAssumption DEF EngineAssumption, Init, TypeOK, Status, Event, Object, StartPc, TaskPc, BootPc
<1>2. TypeOK /\ [Next]_vars => TypeOK'
  <2> SUFFICES ASSUME TypeOK, [Next]_vars PROVE TypeOK'
    OBVIOUS
  <2>1. CASE UNCHANGED vars
    BY <2>1 DEF TypeOK, vars, db, memory, calls, booting, bounds
  <2>2. CASE Next
    BY <2>2, StartTypes, EndTypes, RefreshTypes, ScanTypes, RecoverTypes, ProcessTypes,
       OutsideTypes DEF Next, Booting
  <2>. QED BY <2>1, <2>2
<1>. QED BY <1>1, <1>2, PTL DEF Spec

-----------------------------------------------------------------------------
\* Who writes EXPIRED has seen the deadline pass, or the row missing.  The row
\* cannot come into being after that: nothing works on a session before its
\* startSession has inserted the row.
Fresh(s) == start[s] \in {"none", "counting", "inserting"}

FreshUntouched ==
  \A s \in Session : Fresh(s) =>
    /\ row[s] = "absent" /\ active[s] = "none" /\ s \notin todo
    /\ \A l \in Lane : task[s][l] = "idle"

ExpiringSawDeadline ==
  \A s \in Session : \A l \in Lane :
    task[s][l] = "expiring" => overdue[s] \/ row[s] = "absent"

RecoverySawDeadline == boot = "expiring" => \A s \in cur : overdue[s]

ExpiryInv ==
  /\ ExpiredOnlyWhenOverdue
  /\ ExpiringSawDeadline
  /\ RecoverySawDeadline
  /\ FreshUntouched

LEMMA StartExpiry ==
  ASSUME TypeOK, ExpiryInv, NEW s \in Session,
         RequestStart(s) \/ Starting(s) \/ StartFails(s)
  PROVE  ExpiryInv'
<1> USE DEF TypeOK, ExpiryInv, ExpiredOnlyWhenOverdue, ExpiringSawDeadline,
            RecoverySawDeadline, FreshUntouched, Fresh, db, memory, calls, booting, bounds, StartStep
<1>1. CASE RequestStart(s) BY <1>1 DEF RequestStart
<1>2. CASE StartCount(s) BY <1>2 DEF StartCount
<1>3. CASE StartInsert(s) BY <1>3 DEF StartInsert, Register
<1>4. CASE StartFetch(s) BY <1>4 DEF StartFetch, Arm
<1>5. CASE StartLog(s) BY <1>5 DEF StartLog, CreateEvent
<1>6. CASE StartRun(s) BY <1>6 DEF StartRun, SetStatus
<1>7. CASE StartThrows(s) BY <1>7 DEF StartThrows, Fault
<1>8. CASE StartError(s) BY <1>8 DEF StartError, SetStatus
<1>9. CASE StartErrLog(s) BY <1>9 DEF StartErrLog
<1>10. CASE StartFails(s) BY <1>10 DEF StartFails, Fault
<1>. QED BY <1>1, <1>2, <1>3, <1>4, <1>5, <1>6, <1>7, <1>8, <1>9, <1>10 DEF Starting

LEMMA EndExpiry ==
  ASSUME TypeOK, ExpiryInv, NEW s \in Session, NEW l \in Lane,
         RequestStop(s, l) \/ Ending(s, l) \/ TaskFails(s, l)
  PROVE  ExpiryInv'
<1> USE DEF TypeOK, ExpiryInv, ExpiredOnlyWhenOverdue, ExpiringSawDeadline,
            RecoverySawDeadline, FreshUntouched, Fresh, db, memory, calls, booting, bounds, TaskStep
<1>1. CASE RequestStop(s, l) BY <1>1 DEF RequestStop, ClearTimers
<1>2. CASE EndStatus(s, l)
  <2>1. CASE TaskStep(s, l, "stopping", "logStopped") /\ SetStatus(s, "STOPPED")
    BY <1>2, <2>1 DEF EndStatus, SetStatus
  <2>2. CASE TaskStep(s, l, "expiring", "logExpired") /\ SetStatus(s, "EXPIRED")
    BY <1>2, <2>2 DEF EndStatus, SetStatus
  <2>. QED BY <1>2, <2>1, <2>2 DEF EndStatus
<1>3. CASE EndLog(s, l)
  <2>1. task' = [task EXCEPT ![s][l] = "idle"]
    BY <1>3 DEF EndLog
  <2>2. active' = [active EXCEPT ![s] = "none"]
    BY <1>3 DEF EndLog, Unregister
  <2>3. UNCHANGED <<row, overdue, start, boot, todo, cur>>
    BY <1>3 DEF EndLog
  <2>. QED BY <2>1, <2>2, <2>3
<1>4. CASE EndLogRefused(s, l) BY <1>4 DEF EndLogRefused
<1>5. CASE TaskFails(s, l) BY <1>5 DEF TaskFails, Fault
<1>. QED BY <1>1, <1>2, <1>3, <1>4, <1>5 DEF Ending

LEMMA RefreshExpiry ==
  ASSUME TypeOK, ExpiryInv, NEW s \in Session, RefreshTick(s) \/ Refreshing(s)
  PROVE  ExpiryInv'
<1> USE DEF TypeOK, ExpiryInv, ExpiredOnlyWhenOverdue, ExpiringSawDeadline,
            RecoverySawDeadline, FreshUntouched, Fresh, db, memory, calls, booting, bounds, TaskStep, Lane
<1>1. CASE RefreshTick(s) BY <1>1 DEF RefreshTick
<1>2. CASE RefreshReload(s) BY <1>2 DEF RefreshReload, ClearTimers
<1>3. CASE RefreshFetch(s) BY <1>3 DEF RefreshFetch
<1>. QED BY <1>1, <1>2, <1>3 DEF Refreshing

LEMMA ScanExpiry ==
  ASSUME TypeOK, ExpiryInv, NEW s \in Session, NEW l \in ScanLane,
         ScanTick(s, l) \/ Scanning(s, l)
  PROVE  ExpiryInv'
<1> USE DEF TypeOK, ExpiryInv, ExpiredOnlyWhenOverdue, ExpiringSawDeadline,
            RecoverySawDeadline, FreshUntouched, Fresh, db, memory, calls, booting, bounds, TaskStep, Lane
<1>1. CASE ScanTick(s, l) BY <1>1 DEF ScanTick
<1>2. CASE ScanCheck(s, l) BY <1>2 DEF ScanCheck, ClearTimers
<1>3. CASE ScanDevice(s, l) BY <1>3 DEF ScanDevice
<1>4. CASE ScanFinish(s, l) BY <1>4 DEF ScanFinish
<1>. QED BY <1>1, <1>2, <1>3, <1>4 DEF Scanning

LEMMA RecoverExpiry ==
  ASSUME TypeOK, ExpiryInv, NEW s \in Session, Recovering(s)
  PROVE  ExpiryInv'
<1> USE DEF TypeOK, ExpiryInv, ExpiredOnlyWhenOverdue, ExpiringSawDeadline,
            RecoverySawDeadline, FreshUntouched, Fresh, db, memory, calls, booting, bounds, RecoverTreated
<1>1. CASE RecoverNext(s) BY <1>1 DEF RecoverNext, Register
<1>2. CASE RecoverExpire(s) BY <1>2 DEF RecoverExpire, SetStatus
<1>3. CASE RecoverFetch(s) BY <1>3 DEF RecoverFetch, Arm
<1>4. CASE RecoverThrows(s) BY <1>4 DEF RecoverThrows, Fault
<1>5. CASE RecoverError(s) BY <1>5 DEF RecoverError, SetStatus
<1>. QED BY <1>1, <1>2, <1>3, <1>4, <1>5 DEF Recovering

LEMMA ProcessExpiry ==
  ASSUME TypeOK, ExpiryInv,
         \/ MarkExpired \/ FindRunning \/ BootReady \/ BootFails
         \/ Crash \/ Shutdown \/ Exit \/ ExitOnFailure \/ Restart
  PROVE  ExpiryInv'
<1> USE DEF TypeOK, ExpiryInv, ExpiredOnlyWhenOverdue, ExpiringSawDeadline,
            RecoverySawDeadline, FreshUntouched, Fresh, db, memory, calls, booting, bounds, BootStep, MemoryLost, Fault
<1>1. CASE MarkExpired BY <1>1 DEF MarkExpired
<1>2. CASE FindRunning BY <1>2 DEF FindRunning
<1>3. CASE BootReady BY <1>3 DEF BootReady
<1>4. CASE BootFails BY <1>4 DEF BootFails
<1>5. CASE Crash BY <1>5 DEF Crash
<1>6. CASE Shutdown BY <1>6 DEF Shutdown
<1>7. CASE Exit BY <1>7 DEF Exit
<1>8. CASE ExitOnFailure BY <1>8 DEF ExitOnFailure
<1>9. CASE Restart BY <1>9 DEF Restart
<1>. QED BY <1>1, <1>2, <1>3, <1>4, <1>5, <1>6, <1>7, <1>8, <1>9

LEMMA OutsideExpiry ==
  ASSUME TypeOK, ExpiryInv, NEW s \in Session, DeleteSession(s) \/ DeadlinePasses(s)
  PROVE  ExpiryInv'
<1> USE DEF TypeOK, ExpiryInv, ExpiredOnlyWhenOverdue, ExpiringSawDeadline,
            RecoverySawDeadline, FreshUntouched, Fresh, db, memory, calls, booting, bounds
<1>1. CASE DeleteSession(s) BY <1>1 DEF DeleteSession
<1>2. CASE DeadlinePasses(s) BY <1>2 DEF DeadlinePasses
<1>. QED BY <1>1, <1>2

\* The strengthening is invariant.
LEMMA ExpiryInductive == Spec => []ExpiryInv
<1>1. Init => ExpiryInv
  BY DEF Init, ExpiryInv, ExpiredOnlyWhenOverdue, ExpiringSawDeadline, RecoverySawDeadline,
         FreshUntouched, Fresh
<1>2. TypeOK /\ ExpiryInv /\ [Next]_vars => ExpiryInv'
  <2> SUFFICES ASSUME TypeOK, ExpiryInv, [Next]_vars PROVE ExpiryInv'
    OBVIOUS
  <2>1. CASE UNCHANGED vars
    BY <2>1 DEF ExpiryInv, ExpiredOnlyWhenOverdue, ExpiringSawDeadline, RecoverySawDeadline,
         FreshUntouched, Fresh, vars, db, memory, calls, booting, bounds
  <2>2. CASE Next
    BY <2>2, StartExpiry, EndExpiry, RefreshExpiry, ScanExpiry, RecoverExpiry, ProcessExpiry,
       OutsideExpiry DEF Next, Booting
  <2>. QED BY <2>1, <2>2
<1>. QED BY TypeCorrect, <1>1, <1>2, PTL DEF Spec

\* Expiry is honest, for any number of sessions, overlapping timers, failures and
\* restarts: a row says EXPIRED only if the session's deadline has passed.
THEOREM ExpiryCorrect == Spec => []ExpiredOnlyWhenOverdue
<1>1. ExpiryInv => ExpiredOnlyWhenOverdue
  BY DEF ExpiryInv
<1>. QED BY ExpiryInductive, <1>1, PTL

-----------------------------------------------------------------------------
\* The timers of an entry are armed when its bundle is cached, and the bundle is
\* dropped only together with the entry.  An entry registered anew is not armed
\* yet: startSession makes its object for a fresh session, recoverSessions makes
\* one for each session of its list, once.
FreshUnarmed == \A s \in Session : Fresh(s) => armed[s] = {}

RecoverUnarmed ==
  /\ boot = "down" => \A s \in Session : armed[s] = {} /\ start[s] \in {"none", "over"}
  /\ boot \in {"marking", "finding"} => \A s \in Session : "recover" \notin armed[s]
  /\ \A s \in todo : "recover" \notin armed[s]

BundleInv ==
  /\ ArmedEntryHasBundle
  /\ FreshUnarmed
  /\ RecoverUnarmed

LEMMA StartBundle ==
  ASSUME TypeOK, ExpiryInv, BundleInv, NEW s \in Session,
         RequestStart(s) \/ Starting(s) \/ StartFails(s)
  PROVE  BundleInv'
<1> USE DEF TypeOK, BundleInv, ArmedEntryHasBundle, FreshUnarmed, RecoverUnarmed,
            ExpiryInv, FreshUntouched, Fresh, db, memory, calls, booting, bounds, StartStep, Object
<1>1. CASE RequestStart(s) BY <1>1 DEF RequestStart, Up
<1>2. CASE StartCount(s) BY <1>2 DEF StartCount
<1>3. CASE StartInsert(s) BY <1>3 DEF StartInsert, Register
<1>4. CASE StartFetch(s) BY <1>4 DEF StartFetch, Arm
<1>5. CASE StartLog(s) BY <1>5 DEF StartLog, CreateEvent
<1>6. CASE StartRun(s) BY <1>6 DEF StartRun, SetStatus
<1>7. CASE StartThrows(s) BY <1>7 DEF StartThrows, Fault
<1>8. CASE StartError(s) BY <1>8 DEF StartError, SetStatus
<1>9. CASE StartErrLog(s) BY <1>9 DEF StartErrLog
<1>10. CASE StartFails(s) BY <1>10 DEF StartFails, Fault
<1>. QED BY <1>1, <1>2, <1>3, <1>4, <1>5, <1>6, <1>7, <1>8, <1>9, <1>10 DEF Starting

LEMMA EndBundle ==
  ASSUME TypeOK, ExpiryInv, BundleInv, NEW s \in Session, NEW l \in Lane,
         RequestStop(s, l) \/ Ending(s, l) \/ TaskFails(s, l)
  PROVE  BundleInv'
<1> USE DEF TypeOK, BundleInv, ArmedEntryHasBundle, FreshUnarmed, RecoverUnarmed,
            ExpiryInv, FreshUntouched, Fresh, db, memory, calls, booting, bounds
<1>1. CASE RequestStop(s, l) BY <1>1 DEF RequestStop, ClearTimers
<1>2. CASE EndStatus(s, l) BY <1>2 DEF EndStatus
<1>3. CASE EndLog(s, l)
  <2>1. active' = [active EXCEPT ![s] = "none"] /\ cached' = [cached EXCEPT ![s] = FALSE]
    BY <1>3 DEF EndLog, Unregister
  <2>2. UNCHANGED <<row, start, boot, todo, armed>>
    BY <1>3 DEF EndLog
  <2>3. \A r \in Session : \/ active'[r] = "none"
                           \/ active'[r] = active[r] /\ cached'[r] = cached[r]
    BY <2>1
  <2>4. \A r \in Session : "none" \notin armed[r]
    <3>1. \A r \in Session : armed[r] \in SUBSET Object
      OBVIOUS
    <3>2. "none" \notin Object
      BY DEF Object
    <3>. QED BY <3>1, <3>2
  <2>. QED BY <2>2, <2>3, <2>4
<1>4. CASE EndLogRefused(s, l) BY <1>4 DEF EndLogRefused
<1>5. CASE TaskFails(s, l) BY <1>5 DEF TaskFails, Fault
<1>. QED BY <1>1, <1>2, <1>3, <1>4, <1>5 DEF Ending

LEMMA RefreshBundle ==
  ASSUME TypeOK, ExpiryInv, BundleInv, NEW s \in Session,
         RefreshTick(s) \/ Refreshing(s)
  PROVE  BundleInv'
<1> USE DEF TypeOK, BundleInv, ArmedEntryHasBundle, FreshUnarmed, RecoverUnarmed,
            ExpiryInv, FreshUntouched, Fresh, db, memory, calls, booting, bounds
<1>1. CASE RefreshTick(s) BY <1>1 DEF RefreshTick
<1>2. CASE RefreshReload(s)
  <2>1. \A r \in Session : armed'[r] \subseteq armed[r]
    <3>1. ClearTimers(s) \/ UNCHANGED armed
      BY <1>2 DEF RefreshReload
    <3>. QED BY <3>1 DEF ClearTimers
  <2>2. UNCHANGED <<row, start, boot, todo, active, cached>>
    BY <1>2 DEF RefreshReload
  <2>3. armed' \in [Session -> SUBSET Object]
    BY <1>2, ClearTimersType DEF RefreshReload
  <2>. QED BY <2>1, <2>2, <2>3
<1>3. CASE RefreshFetch(s) BY <1>3 DEF RefreshFetch
<1>. QED BY <1>1, <1>2, <1>3 DEF Refreshing

LEMMA ScanBundle ==
  ASSUME TypeOK, ExpiryInv, BundleInv, NEW s \in Session, NEW l \in ScanLane,
         ScanTick(s, l) \/ Scanning(s, l)
  PROVE  BundleInv'
<1> USE DEF TypeOK, BundleInv, ArmedEntryHasBundle, FreshUnarmed, RecoverUnarmed,
            ExpiryInv, FreshUntouched, Fresh, db, memory, calls, booting, bounds
<1>1. CASE ScanTick(s, l) BY <1>1 DEF ScanTick
<1>2. CASE ScanCheck(s, l)
  <2>1. \A r \in Session : armed'[r] \subseteq armed[r]
    BY <1>2 DEF ScanCheck, ClearTimers
  <2>2. UNCHANGED <<row, start, boot, todo, active, cached>>
    BY <1>2 DEF ScanCheck
  <2>3. armed' \in [Session -> SUBSET Object]
    BY <1>2, ClearTimersType DEF ScanCheck
  <2>. QED BY <2>1, <2>2, <2>3
<1>3. CASE ScanDevice(s, l) BY <1>3 DEF ScanDevice
<1>4. CASE ScanFinish(s, l) BY <1>4 DEF ScanFinish
<1>. QED BY <1>1, <1>2, <1>3, <1>4 DEF Scanning

LEMMA RecoverBundle ==
  ASSUME TypeOK, ExpiryInv, BundleInv, NEW s \in Session, Recovering(s)
  PROVE  BundleInv'
<1> USE DEF TypeOK, BundleInv, ArmedEntryHasBundle, FreshUnarmed, RecoverUnarmed,
            ExpiryInv, FreshUntouched, Fresh, db, memory, calls, booting, bounds, RecoverTreated, Object
<1>1. CASE RecoverNext(s)
  <2>1. CASE overdue[s]  BY <1>1, <2>1 DEF RecoverNext
  <2>2. CASE ~overdue[s]
    <3>1. /\ active' = [active EXCEPT ![s] = "recover"] /\ UNCHANGED <<armed, cached, start, todo>>
          /\ boot = "recovering" /\ boot' = "fetching" /\ s \in todo
      BY <1>1, <2>2 DEF RecoverNext, Register
    <3>2. "recover" \notin armed[s]
      BY <3>1
    <3>3. ArmedEntryHasBundle'
      BY <3>1, <3>2
    <3>4. FreshUnarmed' /\ RecoverUnarmed'
      BY <3>1
    <3>. QED BY <3>3, <3>4
  <2>. QED BY <2>1, <2>2
<1>2. CASE RecoverExpire(s) BY <1>2 DEF RecoverExpire
<1>3. CASE RecoverFetch(s) BY <1>3 DEF RecoverFetch, Arm
<1>4. CASE RecoverThrows(s) BY <1>4 DEF RecoverThrows, Fault
<1>5. CASE RecoverError(s) BY <1>5 DEF RecoverError
<1>. QED BY <1>1, <1>2, <1>3, <1>4, <1>5 DEF Recovering

LEMMA ProcessBundle ==
  ASSUME TypeOK, ExpiryInv, BundleInv,
         \/ MarkExpired \/ FindRunning \/ BootReady \/ BootFails
         \/ Crash \/ Shutdown \/ Exit \/ ExitOnFailure \/ Restart
  PROVE  BundleInv'
<1> USE DEF TypeOK, BundleInv, ArmedEntryHasBundle, FreshUnarmed, RecoverUnarmed,
            ExpiryInv, FreshUntouched, Fresh, db, memory, calls, booting, bounds, BootStep, MemoryLost, Fault, StartPc
<1>1. CASE MarkExpired BY <1>1 DEF MarkExpired
<1>2. CASE FindRunning BY <1>2 DEF FindRunning
<1>3. CASE BootReady BY <1>3 DEF BootReady
<1>4. CASE BootFails BY <1>4 DEF BootFails
<1>5. CASE Crash BY <1>5 DEF Crash
<1>6. CASE Shutdown BY <1>6 DEF Shutdown
<1>7. CASE Exit BY <1>7 DEF Exit
<1>8. CASE ExitOnFailure BY <1>8 DEF ExitOnFailure
<1>9. CASE Restart BY <1>9 DEF Restart
<1>. QED BY <1>1, <1>2, <1>3, <1>4, <1>5, <1>6, <1>7, <1>8, <1>9

LEMMA OutsideBundle ==
  ASSUME TypeOK, ExpiryInv, BundleInv, NEW s \in Session,
         DeleteSession(s) \/ DeadlinePasses(s)
  PROVE  BundleInv'
<1> USE DEF TypeOK, BundleInv, ArmedEntryHasBundle, FreshUnarmed, RecoverUnarmed,
            ExpiryInv, FreshUntouched, Fresh, db, memory, calls, booting, bounds
<1>1. CASE DeleteSession(s) BY <1>1 DEF DeleteSession
<1>2. CASE DeadlinePasses(s) BY <1>2 DEF DeadlinePasses
<1>. QED BY <1>1, <1>2

\* No overlap of start, stop, refresh, recovery and scan leaves a registered entry
\* with running timers and without the bundle they need.
THEOREM BundleCorrect == Spec => []ArmedEntryHasBundle
<1>1. Init => BundleInv
  BY DEF Init, BundleInv, ArmedEntryHasBundle, FreshUnarmed, RecoverUnarmed
<1>2. TypeOK /\ ExpiryInv /\ BundleInv /\ [Next]_vars => BundleInv'
  <2> SUFFICES ASSUME TypeOK, ExpiryInv, BundleInv, [Next]_vars PROVE BundleInv'
    OBVIOUS
  <2>1. CASE UNCHANGED vars
    BY <2>1 DEF BundleInv, ArmedEntryHasBundle, FreshUnarmed, RecoverUnarmed, Fresh,
         vars, db, memory, calls, booting, bounds
  <2>2. CASE Next
    BY <2>2, StartBundle, EndBundle, RefreshBundle, ScanBundle, RecoverBundle, ProcessBundle,
       OutsideBundle DEF Next, Booting
  <2>. QED BY <2>1, <2>2
<1>3. BundleInv => ArmedEntryHasBundle
  BY DEF BundleInv
<1>. QED BY TypeCorrect, ExpiryInductive, <1>1, <1>2, <1>3, PTL DEF Spec


-----------------------------------------------------------------------------
\* A session that has its row, but no entry and no event of its end, is one that the
\* process before this one has left behind: it is found at the start-up.  A start or a
\* recovery in progress has an entry, or something has ended its session meanwhile.
Ended == {"SESSION_STOPPED", "SESSION_EXPIRED"}
LeftBehind(s) == row[s] # "absent" /\ active[s] = "none" /\ logged[s] \cap Ended = {}

StartHasEntry ==
  \A s \in Session :
    start[s] \in {"fetching", "logging", "running", "erroring", "errlogging"} => ~LeftBehind(s)

RecoveryHasEntry == boot = "fetching" => \A s \in cur : ~LeftBehind(s)

RecoveryKnows ==
  /\ \A s \in Session :
       row[s] = "RUNNING" /\ LeftBehind(s) =>
         boot \in {"down", "marking", "finding", "failed"} \/ s \in todo
  /\ boot = "ready" => todo = {}

OrphanInv == StartHasEntry /\ RecoveryHasEntry /\ RecoveryKnows

LEMMA StartOrphan ==
  ASSUME TypeOK, OrphanInv, NEW s \in Session, RequestStart(s) \/ Starting(s) \/ StartFails(s)
  PROVE  OrphanInv'
<1> USE DEF TypeOK, OrphanInv, StartHasEntry, RecoveryHasEntry, RecoveryKnows, LeftBehind, StartStep,
            db, memory, calls, booting, bounds
<1>1. CASE RequestStart(s) BY <1>1 DEF RequestStart
<1>2. CASE StartCount(s) BY <1>2 DEF StartCount
<1>3. CASE StartInsert(s) BY <1>3 DEF StartInsert, Register
<1>4. CASE StartFetch(s) BY <1>4 DEF StartFetch, Arm
<1>5. CASE StartLog(s) BY <1>5 DEF StartLog, CreateEvent
<1>6. CASE StartRun(s) BY <1>6 DEF StartRun, SetStatus
<1>7. CASE StartThrows(s) BY <1>7 DEF StartThrows, Fault
<1>8. CASE StartError(s) BY <1>8 DEF StartError, SetStatus
<1>9. CASE StartErrLog(s) BY <1>9 DEF StartErrLog
<1>10. CASE StartFails(s) BY <1>10 DEF StartFails, Fault
<1>. QED BY <1>1, <1>2, <1>3, <1>4, <1>5, <1>6, <1>7, <1>8, <1>9, <1>10 DEF Starting

LEMMA EndOrphan ==
  ASSUME TypeOK, OrphanInv, NEW s \in Session, NEW l \in Lane,
         RequestStop(s, l) \/ Ending(s, l) \/ TaskFails(s, l)
  PROVE  OrphanInv'
<1> USE DEF TypeOK, OrphanInv, StartHasEntry, RecoveryHasEntry, RecoveryKnows, LeftBehind,
            db, memory, calls, booting, bounds
<1>1. CASE RequestStop(s, l) BY <1>1 DEF RequestStop
<1>2. CASE EndStatus(s, l)
  <2>1. \E st \in {"STOPPED", "EXPIRED"} : SetStatus(s, st)
    BY <1>2 DEF EndStatus
  <2>2. UNCHANGED <<logged, active, start, boot, todo, cur>>
    BY <1>2 DEF EndStatus
  <2>. QED BY <2>1, <2>2 DEF SetStatus
<1>3. CASE EndLog(s, l)
  <2>1. \E e \in Ended : CreateEvent(s, e)
    BY <1>3 DEF EndLog, Ended
  <2>2. active' = [active EXCEPT ![s] = "none"]
    BY <1>3 DEF EndLog, Unregister
  <2>3. UNCHANGED <<row, start, boot, todo, cur>>
    BY <1>3 DEF EndLog
  <2>. QED BY <2>1, <2>2, <2>3 DEF CreateEvent
<1>4. CASE EndLogRefused(s, l) BY <1>4 DEF EndLogRefused
<1>5. CASE TaskFails(s, l) BY <1>5 DEF TaskFails, Fault
<1>. QED BY <1>1, <1>2, <1>3, <1>4, <1>5 DEF Ending

LEMMA TimerOrphan ==
  ASSUME TypeOK, OrphanInv, NEW s \in Session,
         \/ RefreshTick(s) \/ Refreshing(s)
         \/ \E l \in ScanLane : ScanTick(s, l) \/ Scanning(s, l)
  PROVE  OrphanInv'
<1>1. UNCHANGED <<row, logged, active, start, boot, todo, cur>>
  BY DEF RefreshTick, Refreshing, RefreshReload, RefreshFetch, ScanTick, Scanning, ScanCheck, ScanDevice, ScanFinish,
     db, memory, calls, booting
<1>. QED BY <1>1 DEF OrphanInv, StartHasEntry, RecoveryHasEntry, RecoveryKnows, LeftBehind

LEMMA RecoverOrphan ==
  ASSUME TypeOK, OrphanInv, NEW s \in Session, Recovering(s)
  PROVE  OrphanInv'
<1> USE DEF TypeOK, OrphanInv, StartHasEntry, RecoveryHasEntry, RecoveryKnows, LeftBehind,
            db, memory, calls, booting, bounds, RecoverTreated
<1>1. CASE RecoverNext(s) BY <1>1 DEF RecoverNext, Register, Object
<1>2. CASE RecoverExpire(s) BY <1>2 DEF RecoverExpire, SetStatus
<1>3. CASE RecoverFetch(s) BY <1>3 DEF RecoverFetch, Arm
<1>4. CASE RecoverThrows(s) BY <1>4 DEF RecoverThrows, Fault
<1>5. CASE RecoverError(s) BY <1>5 DEF RecoverError, SetStatus
<1>. QED BY <1>1, <1>2, <1>3, <1>4, <1>5 DEF Recovering

LEMMA ProcessOrphan ==
  ASSUME TypeOK, OrphanInv,
         \/ MarkExpired \/ FindRunning \/ BootReady \/ BootFails
         \/ Crash \/ Shutdown \/ Exit \/ ExitOnFailure \/ Restart
  PROVE  OrphanInv'
<1> USE DEF TypeOK, OrphanInv, StartHasEntry, RecoveryHasEntry, RecoveryKnows, LeftBehind,
            db, memory, calls, booting, bounds, BootStep, MemoryLost, Fault
<1>1. CASE MarkExpired BY <1>1 DEF MarkExpired
<1>2. CASE FindRunning BY <1>2 DEF FindRunning
<1>3. CASE BootReady BY <1>3 DEF BootReady
<1>4. CASE BootFails BY <1>4 DEF BootFails
<1>5. CASE Crash BY <1>5 DEF Crash
<1>6. CASE Shutdown BY <1>6 DEF Shutdown
<1>7. CASE Exit BY <1>7 DEF Exit
<1>8. CASE ExitOnFailure BY <1>8 DEF ExitOnFailure
<1>9. CASE Restart BY <1>9 DEF Restart
<1>. QED BY <1>1, <1>2, <1>3, <1>4, <1>5, <1>6, <1>7, <1>8, <1>9

LEMMA OutsideOrphan ==
  ASSUME TypeOK, OrphanInv, NEW s \in Session, DeleteSession(s) \/ DeadlinePasses(s)
  PROVE  OrphanInv'
<1> USE DEF TypeOK, OrphanInv, StartHasEntry, RecoveryHasEntry, RecoveryKnows, LeftBehind,
            db, memory, calls, booting, bounds
<1>1. CASE DeleteSession(s) BY <1>1 DEF DeleteSession
<1>2. CASE DeadlinePasses(s) BY <1>2 DEF DeadlinePasses
<1>. QED BY <1>1, <1>2

\* Whatever crashes, fails or is stopped while it starts or is recovered: once the
\* start-up is through, the engine knows every RUNNING session whose end is not logged.
THEOREM NoSessionLost == Spec => []OrphanRunningWasEnded
<1>1. Init => OrphanInv
  BY DEF Init, OrphanInv, StartHasEntry, RecoveryHasEntry, RecoveryKnows, LeftBehind
<1>2. TypeOK /\ OrphanInv /\ [Next]_vars => OrphanInv'
  <2> SUFFICES ASSUME TypeOK, OrphanInv, [Next]_vars PROVE OrphanInv'
    OBVIOUS
  <2>1. CASE UNCHANGED vars
    BY <2>1 DEF OrphanInv, StartHasEntry, RecoveryHasEntry, RecoveryKnows, LeftBehind, vars, db, memory, calls, booting
  <2>2. CASE Next
    BY <2>2, StartOrphan, EndOrphan, TimerOrphan, RecoverOrphan, ProcessOrphan, OutsideOrphan DEF Next, Booting
  <2>. QED BY <2>1, <2>2
<1>3. OrphanInv => OrphanRunningWasEnded
  BY DEF OrphanInv, RecoveryKnows, LeftBehind, Ended, OrphanRunningWasEnded
<1>. QED BY TypeCorrect, <1>1, <1>2, <1>3, PTL DEF Spec

-----------------------------------------------------------------------------
\* A firing of the scan timer that has passed the quota and not yet counted adds one
\* to the count it started from: it is part of what the hour may reach.
Counting == {"checking", "scanning", "scanned"}
Scans(s, o) == {l \in ScanLane : task[s][l] \in Counting /\ scanOf[s][l] = o}

OverrunInv ==
  \A s \in Session : \A o \in Object :
    scansThisHour[s][o] + Cardinality(Scans(s, o)) <= MaxScansPerHour + Cardinality(ScanLane) - 1

LEMMA ScansBounded ==
  ASSUME NEW s \in Session, NEW o \in Object
  PROVE  /\ IsFiniteSet(Scans(s, o)) /\ Cardinality(Scans(s, o)) \in Nat
         /\ Cardinality(ScanLane) \in Nat /\ Cardinality(Scans(s, o)) <= Cardinality(ScanLane)
<1>1. Scans(s, o) \subseteq ScanLane /\ IsFiniteSet(ScanLane)
  BY EngineAssumption DEF Scans
<1>. QED BY <1>1, FS_Subset, FS_CardinalityType

\* All of the lanes together do not bring a count past the bound that was below the
\* quota when the last one of them started.
LEMMA OverrunKept ==
  ASSUME TypeOK, TypeOK', OverrunInv, NEW s \in Session, NEW o \in Object,
         \/ scansThisHour'[s][o] = scansThisHour[s][o] /\ Scans(s, o)' \subseteq Scans(s, o)
         \/ scansThisHour'[s][o] < MaxScansPerHour
  PROVE  scansThisHour'[s][o] + Cardinality(Scans(s, o)') <= MaxScansPerHour + Cardinality(ScanLane) - 1
<1>1. MaxScansPerHour \in Nat /\ scansThisHour[s][o] \in Nat /\ scansThisHour'[s][o] \in Nat
  BY EngineAssumption DEF TypeOK
<1>2. Scans(s, o)' \subseteq ScanLane /\ IsFiniteSet(ScanLane)
  BY EngineAssumption DEF Scans
<1>3. /\ Cardinality(Scans(s, o)') \in Nat /\ Cardinality(ScanLane) \in Nat
      /\ Cardinality(Scans(s, o)') <= Cardinality(ScanLane)
  BY <1>2, FS_Subset, FS_CardinalityType
<1>4. CASE scansThisHour'[s][o] = scansThisHour[s][o] /\ Scans(s, o)' \subseteq Scans(s, o)
  <2>1. Cardinality(Scans(s, o)') <= Cardinality(Scans(s, o)) /\ Cardinality(Scans(s, o)) \in Nat
    BY <1>4, ScansBounded, FS_Subset
  <2>2. scansThisHour[s][o] + Cardinality(Scans(s, o)) <= MaxScansPerHour + Cardinality(ScanLane) - 1
    BY DEF OverrunInv
  <2>. QED BY <1>1, <1>3, <1>4, <2>1, <2>2
<1>5. CASE scansThisHour'[s][o] < MaxScansPerHour
  BY <1>1, <1>3, <1>5
<1>. QED BY <1>4, <1>5

LEMMA FinishOverrun ==
  ASSUME TypeOK, TypeOK', OverrunInv, NEW s \in Session, NEW l \in ScanLane, ScanFinish(s, l),
         NEW r \in Session, NEW o \in Object
  PROVE  scansThisHour'[r][o] + Cardinality(Scans(r, o)') <= MaxScansPerHour + Cardinality(ScanLane) - 1
<1>1. /\ scansThisHour' = [scansThisHour EXCEPT ![s][scanOf[s][l]] = @ + 1]
      /\ task' = [task EXCEPT ![s][l] = "idle"] /\ task[s][l] = "scanned" /\ scanOf' = scanOf
      /\ scanOf[s][l] \in Object /\ l \in Lane
  BY DEF ScanFinish, TaskStep, TypeOK, Lane
<1>2. Scans(r, o)' \subseteq Scans(r, o)
  BY <1>1 DEF Scans, Counting, TypeOK
<1>3. CASE r # s \/ o # scanOf[s][l]
  <2>1. scansThisHour'[r][o] = scansThisHour[r][o]
    BY <1>1, <1>3 DEF TypeOK
  <2>. QED BY <1>2, <2>1, OverrunKept
<1>4. CASE r = s /\ o = scanOf[s][l]
  <2>1. scansThisHour'[r][o] = scansThisHour[r][o] + 1
    BY <1>1, <1>4 DEF TypeOK
  <2>2. l \in Scans(r, o) /\ Scans(r, o)' = Scans(r, o) \ {l}
    BY <1>1, <1>4 DEF Scans, Counting, TypeOK, Lane
  <2>3. Cardinality(Scans(r, o)') = Cardinality(Scans(r, o)) - 1
    BY <2>2, ScansBounded, FS_RemoveElement
  <2>4. scansThisHour[r][o] + Cardinality(Scans(r, o)) <= MaxScansPerHour + Cardinality(ScanLane) - 1
    BY DEF OverrunInv
  <2>5. MaxScansPerHour \in Nat /\ Cardinality(ScanLane) \in Nat /\ scansThisHour[r][o] \in Nat
        /\ Cardinality(Scans(r, o)) \in Nat
    BY ScansBounded, EngineAssumption DEF TypeOK
  <2>. QED BY <2>1, <2>3, <2>4, <2>5
<1>. QED BY <1>3, <1>4

LEMMA TickOverrun ==
  ASSUME TypeOK, TypeOK', OverrunInv, NEW s \in Session, NEW l \in ScanLane, ScanTick(s, l),
         NEW r \in Session, NEW o \in Object
  PROVE  \/ scansThisHour'[r][o] = scansThisHour[r][o] /\ Scans(r, o)' \subseteq Scans(r, o)
         \/ scansThisHour'[r][o] < MaxScansPerHour
<1>0. scansThisHour[s][active[s]] \in Nat
  BY DEF ScanTick, TypeOK
<1>1. PICK n \in Nat :
        /\ n = 0 \/ n = scansThisHour[s][active[s]]
        /\ scansThisHour' = [scansThisHour EXCEPT ![s][active[s]] = n]
        /\ task[s][l] = "idle"
        /\ task' = [task EXCEPT ![s][l] = IF n >= MaxScansPerHour THEN "idle" ELSE "checking"]
  <2>. DEFINE old == scansThisHour[s][active[s]]
  <2>1. PICK hourOver \in BOOLEAN :
          /\ scansThisHour' = [scansThisHour EXCEPT ![s][active[s]] = IF hourOver THEN 0 ELSE old]
          /\ task[s][l] = "idle"
          /\ task' = [task EXCEPT ![s][l] = IF (IF hourOver THEN 0 ELSE old) >= MaxScansPerHour THEN "idle" ELSE "checking"]
    BY DEF ScanTick, TaskStep
  <2>2. CASE hourOver
    BY <2>1, <2>2
  <2>3. CASE ~hourOver
    BY <1>0, <2>1, <2>3
  <2>. QED BY <2>2, <2>3
<1>2. /\ scanOf' = [scanOf EXCEPT ![s][l] = active[s]] /\ active[s] \in Object /\ l \in Lane
      /\ MaxScansPerHour \in Nat \ {0}
  BY EngineAssumption DEF ScanTick, TypeOK, Lane
<1>3. CASE r # s
  BY <1>1, <1>2, <1>3 DEF Scans, TypeOK
<1>4. CASE r = s /\ o # active[s]
  BY <1>1, <1>2, <1>4 DEF Scans, TypeOK, Lane, Counting
<1>5. CASE r = s /\ o = active[s]
  <2>1. scansThisHour'[r][o] = n
    BY <1>1, <1>2, <1>5 DEF TypeOK
  <2>2. CASE n < MaxScansPerHour
    BY <2>1, <2>2
  <2>3. CASE n >= MaxScansPerHour
    <3>1. n = scansThisHour[s][active[s]] /\ task' = task
      BY <1>1, <1>2, <2>3 DEF TypeOK
    <3>2. Scans(r, o)' \subseteq Scans(r, o)
      BY <1>1, <1>2, <1>5, <3>1 DEF Scans, Counting, TypeOK, Lane
    <3>. QED BY <1>5, <2>1, <3>1, <3>2
  <2>. QED BY <1>2, <2>2, <2>3
<1>. QED BY <1>3, <1>4, <1>5

\* No other step lets a firing through, or adds to a count.
LEMMA OtherOverrun ==
  ASSUME TypeOK, [Next]_vars, NEW r \in Session, NEW o \in Object,
         ~ \E s \in Session : \E l \in ScanLane : ScanTick(s, l) \/ ScanFinish(s, l)
  PROVE  \/ scansThisHour'[r][o] = scansThisHour[r][o] /\ Scans(r, o)' \subseteq Scans(r, o)
         \/ scansThisHour'[r][o] < MaxScansPerHour
<1>0. MaxScansPerHour \in Nat \ {0}
  BY EngineAssumption
<1>1. CASE UNCHANGED <<scansThisHour, task, scanOf>>
  BY <1>1 DEF Scans
<1>2. CASE MemoryLost
  BY <1>0, <1>2 DEF MemoryLost
<1>3. ASSUME NEW s \in Session, NEW x \in Object, Register(s, x), UNCHANGED <<task, scanOf>>
      PROVE  \/ scansThisHour'[r][o] = scansThisHour[r][o] /\ Scans(r, o)' \subseteq Scans(r, o)
             \/ scansThisHour'[r][o] < MaxScansPerHour
  BY <1>0, <1>3 DEF Register, Scans, TypeOK
<1>4. ASSUME NEW s \in Session, NEW l \in Lane, UNCHANGED <<scansThisHour, scanOf>>, NEW pc,
             task' = [task EXCEPT ![s][l] = pc], pc \in Counting => task[s][l] \in Counting
      PROVE  scansThisHour'[r][o] = scansThisHour[r][o] /\ Scans(r, o)' \subseteq Scans(r, o)
  BY <1>4 DEF Scans, TypeOK, Lane
<1>5. ASSUME NEW s \in Session, Starting(s) \/ RequestStart(s) \/ StartFails(s)
      PROVE  UNCHANGED <<scansThisHour, task, scanOf>> \/ (Register(s, "start") /\ UNCHANGED <<task, scanOf>>)
  BY <1>5 DEF Starting, RequestStart, StartFails, StartCount, StartInsert, StartFetch, StartLog, StartRun, StartThrows,
     StartError, StartErrLog, memory
<1>6. ASSUME NEW s \in Session, NEW l \in Lane,
             \/ RequestStop(s, l) \/ Ending(s, l) \/ TaskFails(s, l)
             \/ l = "refresh" /\ (RefreshTick(s) \/ Refreshing(s))
             \/ l \in ScanLane /\ Scanning(s, l) /\ ~ScanFinish(s, l)
      PROVE  \/ UNCHANGED <<scansThisHour, task, scanOf>>
             \/ /\ UNCHANGED <<scansThisHour, scanOf>>
                /\ \E pc : /\ task' = [task EXCEPT ![s][l] = pc]
                           /\ pc \in Counting => task[s][l] \in Counting
  <2>1. CASE RequestStop(s, l) \/ TaskFails(s, l)
    BY <2>1 DEF RequestStop, TaskFails, TaskStep, memory, Counting
  <2>2. CASE Ending(s, l)
    BY <2>2 DEF Ending, EndStatus, EndLog, EndLogRefused, TaskStep, memory, Counting
  <2>3. CASE l = "refresh" /\ (RefreshTick(s) \/ Refreshing(s))
    BY <2>3 DEF RefreshTick, Refreshing, RefreshReload, RefreshFetch, TaskStep, memory, Counting
  <2>4. CASE ScanCheck(s, l)
    BY <2>4 DEF ScanCheck, TaskStep, Counting
  <2>5. CASE ScanDevice(s, l)
    BY <2>5 DEF ScanDevice, memory, Counting
  <2>. QED BY <1>6, <2>1, <2>2, <2>3, <2>4, <2>5 DEF Scanning
<1>7. ASSUME NEW s \in Session, DeleteSession(s) \/ DeadlinePasses(s)
      PROVE  UNCHANGED <<scansThisHour, task, scanOf>>
  BY <1>7 DEF DeleteSession, DeadlinePasses, memory, calls
<1>8. ASSUME NEW s \in Session, Recovering(s)
      PROVE  UNCHANGED <<scansThisHour, task, scanOf>> \/ (Register(s, "recover") /\ UNCHANGED <<task, scanOf>>)
  BY <1>8 DEF Recovering, RecoverNext, RecoverExpire, RecoverFetch, RecoverThrows, RecoverError, memory, calls
<1>9. MarkExpired \/ FindRunning \/ BootReady \/ BootFails \/ Restart => UNCHANGED <<scansThisHour, task, scanOf>>
  BY DEF MarkExpired, FindRunning, BootReady, BootFails, Restart, memory, calls
<1>10. Crash \/ Exit \/ ExitOnFailure => MemoryLost
  BY DEF Crash, Exit, ExitOnFailure
<1>11. CASE Shutdown
  BY <1>11, EngineAssumption DEF Shutdown, Scans, TypeOK, Lane
<1>12. CASE UNCHANGED vars
  BY <1>1, <1>12 DEF vars, memory, calls
<1>13. "start" \in Object /\ "recover" \in Object /\ "refresh" \in Lane /\ ScanLane \subseteq Lane
  BY DEF Object, Lane
<1>. QED BY <1>1, <1>2, <1>3, <1>4, <1>5, <1>6, <1>7, <1>8, <1>9, <1>10, <1>11, <1>12, <1>13 DEF Next, Booting

\* However many firings of the scan timer overlap, in an hour a session is scanned at most
\* as often as its quota allows, and once more for each firing beside the last.
THEOREM OverrunIsBounded == Spec => []HourlyOverrunBounded
<1>1. Init => OverrunInv
  <2>1. ASSUME Init, NEW s \in Session, NEW o \in Object
        PROVE  scansThisHour[s][o] + Cardinality(Scans(s, o)) <= MaxScansPerHour + Cardinality(ScanLane) - 1
    <3>1. scansThisHour[s][o] = 0 /\ MaxScansPerHour \in Nat \ {0}
      BY <2>1, EngineAssumption DEF Init
    <3>. QED BY <3>1, ScansBounded
  <2>. QED BY <2>1 DEF OverrunInv
<1>2. TypeOK /\ TypeOK' /\ OverrunInv /\ [Next]_vars => OverrunInv'
  <2> SUFFICES ASSUME TypeOK, TypeOK', OverrunInv, [Next]_vars, NEW r \in Session, NEW o \in Object
               PROVE  scansThisHour'[r][o] + Cardinality(Scans(r, o)') <= MaxScansPerHour + Cardinality(ScanLane) - 1
    BY DEF OverrunInv
  <2>. QED BY FinishOverrun, TickOverrun, OtherOverrun, OverrunKept
<1>3. TypeOK /\ OverrunInv => HourlyOverrunBounded
  <2> SUFFICES ASSUME TypeOK, OverrunInv, NEW s \in Session, NEW o \in Object
               PROVE  scansThisHour[s][o] <= MaxScansPerHour + Cardinality(ScanLane) - 1
    BY DEF HourlyOverrunBounded
  <2>1. scansThisHour[s][o] + Cardinality(Scans(s, o)) <= MaxScansPerHour + Cardinality(ScanLane) - 1
    BY DEF OverrunInv
  <2>2. scansThisHour[s][o] \in Nat /\ MaxScansPerHour \in Nat
    BY EngineAssumption DEF TypeOK
  <2>. QED BY <2>1, <2>2, ScansBounded
<1>. QED BY TypeCorrect, <1>1, <1>2, <1>3, PTL DEF Spec

=============================================================================
