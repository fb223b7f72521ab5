--------------------------- MODULE SimulatorEngine ---------------------------
(***************************************************************************)
(* The alarm simulator's session engine: the simulator_sessions table and  *)
(* the events logged for its rows, the activeSessions map of the one       *)
(* Node.js process with the two interval timers of each entry, the bundle  *)
(* cache, and every asynchronous call that works on them.                  *)
(*                                                                         *)
(* Between two awaits the process runs without interruption; at an await   *)
(* any other call may run.  An action is therefore one database round trip *)
(* followed by the synchronous code up to the next await.  A call in       *)
(* flight is a program counter: start[s] for POST /simulator/start (one    *)
(* call makes one session), task[s][l] for everything that works on an     *)
(* existing session -- a stop request, a firing of the scan timer (firings *)
(* overlap, setInterval does not wait for the previous one), a firing of   *)
(* the refresh timer, the graceful shutdown -- and boot for                *)
(* initializeSimulator, which runs while the server already listens.       *)
(*                                                                         *)
(* Not tracked: scan and alarm counters, telemetry, and the events that    *)
(* are not about the life of a session.                                    *)
(***************************************************************************)
EXTENDS Naturals, FiniteSets

CONSTANTS
  Session,               \* session ids, one for every start request
  Tenant,
  TenantOf,              \* the tenant a session is started for
  StopLane,              \* stop requests that can be in flight for a session
  ScanLane,              \* scan-timer firings that can be in flight for a session
  MaxConcurrentSessions, \* DEFAULT_QUOTAS.maxConcurrentSessions
  MaxScansPerHour,       \* DEFAULT_QUOTAS.maxScansPerHour
  MaxStarts,             \* bound: start requests in flight together
  MaxFaults,             \* bound: database calls that fail
  MaxCrashes             \* bound: times the process dies

ASSUME EngineAssumption ==
  /\ TenantOf \in [Session -> Tenant]
  /\ IsFiniteSet(Session) /\ IsFiniteSet(ScanLane)
  /\ "refresh" \notin StopLane \cup ScanLane
  /\ "shutdown" \notin StopLane \cup ScanLane
  /\ StopLane \cap ScanLane = {}
  /\ MaxConcurrentSessions \in Nat \ {0}
  /\ MaxScansPerHour \in Nat \ {0}
  /\ MaxStarts \in Nat \ {0}
  /\ MaxFaults \in Nat
  /\ MaxCrashes \in Nat

VARIABLES
  row,           \* status column of the session's row, "absent" without a row
  overdue,       \* expiresAt < now
  logged,        \* life-cycle events in simulator_events for the session
  active,        \* activeSessions: which ActiveSession object is registered
  armed,         \* ActiveSession objects of the session whose timers run
  scansThisHour, \* of each ActiveSession object
  cached,        \* bundleCache has an entry
  start,         \* the startSession call that makes the session
  task,          \* the calls in flight on the session
  scanOf,        \* the ActiveSession object a scan got hold of when it began
  boot,          \* initializeSimulator / shutdownSimulator
  todo,          \* recoverSessions: running sessions not yet treated
  cur,           \* recoverSessions: the one being treated, as a set
  faults,
  crashes

db     == <<row, overdue, logged>>
memory == <<active, armed, scansThisHour, cached>>
calls  == <<start, task, scanOf>>
booting == <<boot, todo, cur>>
bounds == <<faults, crashes>>
vars   == <<db, memory, calls, booting, bounds>>

Lane    == StopLane \cup ScanLane \cup {"refresh", "shutdown"}
Object  == {"start", "recover"}   \* made by startSession, by recoverSessions
Status  == {"absent", "PENDING", "RUNNING", "STOPPED", "EXPIRED", "ERROR"}
Event   == {"SESSION_STARTED", "SESSION_STOPPED", "SESSION_EXPIRED", "SESSION_ERROR"}
StartPc == {"none", "counting", "inserting", "fetching", "logging", "running",
            "erroring", "errlogging", "over"}
TaskPc  == {"idle", "checking", "scanning", "scanned", "reloading", "fetching",
            "stopping", "logStopped", "expiring", "logExpired"}
BootPc  == {"down", "marking", "finding", "recovering", "expiring", "fetching",
            "erroring", "ready", "failed", "draining"}

InFlight == {s \in Session : start[s] \notin {"none", "over"}}
Running(t) == {s \in Session : TenantOf[s] = t /\ row[s] = "RUNNING"}
Up       == boot # "down"

TypeOK ==
  /\ row \in [Session -> Status]
  /\ overdue \in [Session -> BOOLEAN]
  /\ logged \in [Session -> SUBSET Event]
  /\ active \in [Session -> Object \cup {"none"}]
  /\ armed \in [Session -> SUBSET Object]
  /\ scansThisHour \in [Session -> [Object -> Nat]]
  /\ cached \in [Session -> BOOLEAN]
  /\ start \in [Session -> StartPc]
  /\ task \in [Session -> [Lane -> TaskPc]]
  /\ scanOf \in [Session -> [ScanLane -> Object]]
  /\ boot \in BootPc
  /\ todo \in SUBSET Session
  /\ cur \in SUBSET Session
  /\ faults \in 0 .. MaxFaults
  /\ crashes \in 0 .. MaxCrashes

Init ==
  /\ row = [s \in Session |-> "absent"]
  /\ overdue = [s \in Session |-> FALSE]
  /\ logged = [s \in Session |-> {}]
  /\ active = [s \in Session |-> "none"]
  /\ armed = [s \in Session |-> {}]
  /\ scansThisHour = [s \in Session |-> [o \in Object |-> 0]]
  /\ cached = [s \in Session |-> FALSE]
  /\ start = [s \in Session |-> "none"]
  /\ task = [s \in Session |-> [l \in Lane |-> "idle"]]
  /\ scanOf = [s \in Session |-> [l \in ScanLane |-> "start"]]
  /\ boot = "marking"
  /\ todo = {}
  /\ cur = {}
  /\ faults = 0
  /\ crashes = 0

-----------------------------------------------------------------------------
\* Building blocks

Fault == faults < MaxFaults /\ faults' = faults + 1 /\ UNCHANGED crashes

\* updateSessionStatus: unconditional, and silent when there is no such row.
SetStatus(s, st) ==
  row' = [row EXCEPT ![s] = IF @ = "absent" THEN @ ELSE st]

\* createEvent: the foreign key refuses an event without its session's row.
CreateEvent(s, e) ==
  /\ row[s] # "absent"
  /\ logged' = [logged EXCEPT ![s] = @ \cup {e}]

StartStep(s, from, to) ==
  /\ start[s] = from
  /\ start' = [start EXCEPT ![s] = to]

TaskStep(s, l, from, to) ==
  /\ task[s][l] = from
  /\ task' = [task EXCEPT ![s][l] = to]

\* clearSessionTimers(activeSessions.get(s))
ClearTimers(s) == armed' = [armed EXCEPT ![s] = @ \ {active[s]}]

\* Mutation of Unregister: the map entry is forgotten.
UnregisterCacheOnly(s) ==
  /\ cached' = [cached EXCEPT ![s] = FALSE]
  /\ UNCHANGED active

\* clearCache(s) and activeSessions.delete(s)
Unregister(s) ==
  /\ cached' = [cached EXCEPT ![s] = FALSE]
  /\ active' = [active EXCEPT ![s] = "none"]

\* activeSessions.set(s, a new object): the first half of initializeSession.
Register(s, o) ==
  /\ active' = [active EXCEPT ![s] = o]
  /\ scansThisHour' = [scansThisHour EXCEPT ![s][o] = 0]

\* The second half, once the bundle is there: both timers start.
Arm(s, o) ==
  /\ cached' = [cached EXCEPT ![s] = TRUE]
  /\ armed' = [armed EXCEPT ![s] = @ \cup {o}]

-----------------------------------------------------------------------------
\* startSession

RequestStart(s) ==
  /\ Up
  /\ Cardinality(InFlight) < MaxStarts
  /\ StartStep(s, "none", "counting")
  /\ UNCHANGED <<db, memory, task, scanOf, booting, bounds>>

\* validateNewSession counts the tenant's RUNNING rows.
StartCount(s) ==
  /\ StartStep(s, "counting",
       IF Cardinality(Running(TenantOf[s])) >= MaxConcurrentSessions
       THEN "over" ELSE "inserting")
  /\ UNCHANGED <<db, memory, task, scanOf, booting, bounds>>

StartInsert(s) ==
  /\ StartStep(s, "inserting", "fetching")
  /\ row' = [row EXCEPT ![s] = "PENDING"]
  /\ Register(s, "start")
  /\ UNCHANGED <<overdue, logged, armed, cached, task, scanOf, booting, bounds>>

\* fetchBundle needs the row for its BUNDLE_FETCHED event.
StartFetch(s) ==
  /\ row[s] # "absent"
  /\ StartStep(s, "fetching", "logging")
  /\ Arm(s, "start")
  /\ UNCHANGED <<db, active, scansThisHour, task, scanOf, booting, bounds>>

StartLog(s) ==
  /\ StartStep(s, "logging", "running")
  /\ CreateEvent(s, "SESSION_STARTED")
  /\ UNCHANGED <<row, overdue, memory, task, scanOf, booting, bounds>>

StartRun(s) ==
  /\ StartStep(s, "running", "over")
  /\ SetStatus(s, "RUNNING")
  /\ UNCHANGED <<overdue, logged, memory, task, scanOf, booting, bounds>>

\* An await of the try block rejects: the row is gone or the database failed.
StartThrows(s) ==
  /\ \E pc \in {"fetching", "logging", "running"} : StartStep(s, pc, "erroring")
  /\ \/ row[s] = "absent" /\ start[s] # "running" /\ UNCHANGED bounds
     \/ Fault
  /\ UNCHANGED <<db, memory, task, scanOf, booting>>

\* The catch block: ERROR, then the event.  The entry and the timers stay.
StartError(s) ==
  /\ StartStep(s, "erroring", "errlogging")
  /\ SetStatus(s, "ERROR")
  /\ UNCHANGED <<overdue, logged, memory, task, scanOf, booting, bounds>>

StartErrLog(s) ==
  /\ StartStep(s, "errlogging", "over")
  /\ logged' = [logged EXCEPT ![s] = IF row[s] = "absent" THEN @ ELSE @ \cup {"SESSION_ERROR"}]
  /\ UNCHANGED <<row, overdue, memory, task, scanOf, booting, bounds>>

\* Outside the try block, and inside the catch block, a failure ends the call.
StartFails(s) ==
  /\ \E pc \in {"counting", "inserting", "erroring", "errlogging"} : StartStep(s, pc, "over")
  /\ Fault
  /\ UNCHANGED <<db, memory, task, scanOf, booting>>

-----------------------------------------------------------------------------
\* stopSession and expireSession: the same three round trips

RequestStop(s, l) ==
  /\ Up
  /\ l \in StopLane
  /\ active[s] # "none"
  /\ TaskStep(s, l, "idle", "stopping")
  /\ ClearTimers(s)
  /\ UNCHANGED <<db, active, scansThisHour, cached, start, scanOf, booting, bounds>>

EndStatus(s, l) ==
  /\ \/ TaskStep(s, l, "stopping", "logStopped") /\ SetStatus(s, "STOPPED")
     \/ TaskStep(s, l, "expiring", "logExpired") /\ SetStatus(s, "EXPIRED")
  /\ UNCHANGED <<overdue, logged, memory, start, scanOf, booting, bounds>>

\* Mutation of EndLog: an expired session stays registered.
EndLogKeepsExpired(s, l) ==
  /\ \/ TaskStep(s, l, "logStopped", "idle") /\ CreateEvent(s, "SESSION_STOPPED") /\ Unregister(s)
     \/ /\ TaskStep(s, l, "logExpired", "idle") /\ CreateEvent(s, "SESSION_EXPIRED")
        /\ UNCHANGED <<active, cached>>
  /\ UNCHANGED <<row, overdue, armed, scansThisHour, start, scanOf, booting, bounds>>

EndLog(s, l) ==
  /\ \/ TaskStep(s, l, "logStopped", "idle") /\ CreateEvent(s, "SESSION_STOPPED")
     \/ TaskStep(s, l, "logExpired", "idle") /\ CreateEvent(s, "SESSION_EXPIRED")
  /\ Unregister(s)
  /\ UNCHANGED <<row, overdue, armed, scansThisHour, start, scanOf, booting, bounds>>

\* Without its row the event is refused: the entry stays registered.
EndLogRefused(s, l) ==
  /\ row[s] = "absent"
  /\ l # "shutdown"
  /\ \E pc \in {"logStopped", "logExpired"} : TaskStep(s, l, pc, "idle")
  /\ UNCHANGED <<db, memory, start, scanOf, booting, bounds>>

\* A database call of the task fails: a timer's callback swallows the error,
\* a stop request answers 500; what the task has done so far stays done.
TaskFails(s, l) ==
  /\ task[s][l] # "idle"
  /\ l # "shutdown"
  /\ task' = [task EXCEPT ![s][l] = "idle"]
  /\ Fault
  /\ UNCHANGED <<db, memory, start, scanOf, booting>>

-----------------------------------------------------------------------------
\* refreshBundle

RefreshTick(s) ==
  /\ armed[s] # {}
  /\ active[s] # "none"
  /\ TaskStep(s, "refresh", "idle", "reloading")
  /\ UNCHANGED <<db, memory, start, scanOf, booting, bounds>>

\* Mutation of RefreshReload: a session that is not RUNNING is expired too.
RefreshReloadExpires(s) ==
  LET ends == row[s] # "RUNNING" \/ overdue[s]
  IN
  /\ TaskStep(s, "refresh", "reloading",
       IF ~ends THEN "fetching"
       ELSE IF active[s] = "none" THEN "idle" ELSE "expiring")
  /\ IF ends THEN ClearTimers(s) ELSE UNCHANGED armed
  /\ UNCHANGED <<db, active, scansThisHour, cached, start, scanOf, booting, bounds>>

\* The row as it is now decides: SESSION_INVALID stop, expiry, or a fetch.
\* Both ways to end the session do nothing when it is registered no more.
RefreshReload(s) ==
  LET ends == row[s] # "RUNNING" \/ overdue[s]
  IN
  /\ TaskStep(s, "refresh", "reloading",
       IF ~ends THEN "fetching"
       ELSE IF active[s] = "none" THEN "idle"
       ELSE IF row[s] # "RUNNING" THEN "stopping" ELSE "expiring")
  /\ IF ends THEN ClearTimers(s) ELSE UNCHANGED armed
  /\ UNCHANGED <<db, active, scansThisHour, cached, start, scanOf, booting, bounds>>

RefreshFetch(s) ==
  /\ TaskStep(s, "refresh", "fetching", "idle")
  /\ cached' = [cached EXCEPT ![s] = @ \/ row[s] # "absent"]
  /\ UNCHANGED <<db, active, armed, scansThisHour, start, scanOf, booting, bounds>>

-----------------------------------------------------------------------------
\* scanDevices

\* Mutation of ScanTick: > where the code has >=.
ScanTickOffByOne(s, l) ==
  /\ armed[s] # {}
  /\ active[s] # "none"
  /\ scanOf' = [scanOf EXCEPT ![s][l] = active[s]]
  /\ \E hourOver \in BOOLEAN :
       LET n == IF hourOver THEN 0 ELSE scansThisHour[s][active[s]]
       IN /\ scansThisHour' = [scansThisHour EXCEPT ![s][active[s]] = n]
          /\ TaskStep(s, l, "idle", IF n > MaxScansPerHour THEN "idle" ELSE "checking")
  /\ UNCHANGED <<db, active, armed, cached, start, booting, bounds>>

\* The hour may be over, then the count restarts.  canPerformScan compares it
\* with the quota before it reads the session; at the quota the scan ends with
\* a QUOTA_WARNING.
ScanTick(s, l) ==
  /\ armed[s] # {}
  /\ active[s] # "none"
  /\ scanOf' = [scanOf EXCEPT ![s][l] = active[s]]
  /\ \E hourOver \in BOOLEAN :
       LET n == IF hourOver THEN 0 ELSE scansThisHour[s][active[s]]
       IN /\ scansThisHour' = [scansThisHour EXCEPT ![s][active[s]] = n]
          /\ TaskStep(s, l, "idle", IF n >= MaxScansPerHour THEN "idle" ELSE "checking")
  /\ UNCHANGED <<db, active, armed, cached, start, booting, bounds>>

\* The session's row is gone or past its deadline: expireSession.  Otherwise
\* the scan goes on if a bundle is cached.
ScanCheck(s, l) ==
  LET ends == row[s] = "absent" \/ overdue[s]
  IN
  /\ TaskStep(s, l, "checking",
       IF ends THEN (IF active[s] = "none" THEN "idle" ELSE "expiring")
       ELSE IF cached[s] THEN "scanning" ELSE "idle")
  /\ IF ends THEN ClearTimers(s) ELSE UNCHANGED armed
  /\ UNCHANGED <<db, active, scansThisHour, cached, start, scanOf, booting, bounds>>

\* scanDevice: events that the missing row refuses.
ScanDevice(s, l) ==
  /\ task[s][l] \in {"scanning", "scanned"}
  /\ task' = [task EXCEPT ![s][l] = IF row[s] = "absent" THEN "idle" ELSE "scanned"]
  /\ UNCHANGED <<db, memory, start, scanOf, booting, bounds>>

\* The count of the entry it began with, then incrementScansCount.
ScanFinish(s, l) ==
  /\ TaskStep(s, l, "scanned", "idle")
  /\ scansThisHour' = [scansThisHour EXCEPT ![s][scanOf[s][l]] = @ + 1]
  /\ UNCHANGED <<db, active, armed, cached, start, scanOf, booting, bounds>>

-----------------------------------------------------------------------------
\* DELETE /simulator/:sessionId: every row older than now goes.

DeleteSession(s) ==
  /\ Up
  /\ row[s] \notin {"absent", "RUNNING", "PENDING"}
  /\ row' = [r \in Session |-> "absent"]
  /\ logged' = [r \in Session |-> {}]
  /\ UNCHANGED <<overdue, memory, calls, booting, bounds>>

-----------------------------------------------------------------------------
\* initializeSimulator

BootStep(from, to) == boot = from /\ boot' = to

MarkExpired ==
  /\ BootStep("marking", "finding")
  /\ row' = [s \in Session |-> IF row[s] = "RUNNING" /\ overdue[s] THEN "EXPIRED" ELSE row[s]]
  /\ UNCHANGED <<overdue, logged, memory, calls, todo, cur, bounds>>

\* Mutation of FindRunning: the PENDING sessions instead of the RUNNING ones.
FindPending ==
  /\ BootStep("finding", "recovering")
  /\ todo' = {s \in Session : row[s] = "PENDING"}
  /\ UNCHANGED <<db, memory, calls, cur, bounds>>

FindRunning ==
  /\ BootStep("finding", "recovering")
  /\ todo' = {s \in Session : row[s] = "RUNNING"}
  /\ UNCHANGED <<db, memory, calls, cur, bounds>>

\* Mutation of RecoverNext: the entry is not put into activeSessions.
RecoverNextUnregistered(s) ==
  /\ boot = "recovering"
  /\ s \in todo
  /\ cur' = {s}
  /\ boot' = IF overdue[s] THEN "expiring" ELSE "fetching"
  /\ UNCHANGED <<db, memory, calls, todo, bounds>>

RecoverNext(s) ==
  /\ boot = "recovering"
  /\ s \in todo
  /\ cur' = {s}
  /\ IF overdue[s]
     THEN boot' = "expiring" /\ UNCHANGED <<active, scansThisHour>>
     ELSE boot' = "fetching" /\ Register(s, "recover")
  /\ UNCHANGED <<db, armed, cached, calls, todo, bounds>>

\* On to the next session of the list.
RecoverTreated(s) ==
  /\ cur = {s}
  /\ boot' = "recovering"
  /\ todo' = todo \ {s}
  /\ cur' = {}

RecoverExpire(s) ==
  /\ boot = "expiring"
  /\ RecoverTreated(s)
  /\ SetStatus(s, "EXPIRED")
  /\ UNCHANGED <<overdue, logged, memory, calls, bounds>>

RecoverFetch(s) ==
  /\ boot = "fetching"
  /\ row[s] # "absent"
  /\ RecoverTreated(s)
  /\ Arm(s, "recover")
  /\ UNCHANGED <<db, active, scansThisHour, calls, bounds>>

RecoverThrows(s) ==
  /\ boot \in {"expiring", "fetching"}
  /\ cur = {s}
  /\ boot' = "erroring"
  /\ \/ row[s] = "absent" /\ boot = "fetching" /\ UNCHANGED bounds
     \/ Fault
  /\ UNCHANGED <<db, memory, calls, todo, cur>>

RecoverError(s) ==
  /\ boot = "erroring"
  /\ RecoverTreated(s)
  /\ SetStatus(s, "ERROR")
  /\ UNCHANGED <<overdue, logged, memory, calls, bounds>>

BootReady ==
  /\ BootStep("recovering", "ready")
  /\ todo = {}
  /\ UNCHANGED <<db, memory, calls, todo, cur, bounds>>

\* A failure outside recoverSessions' own try block ends the initialisation;
\* the server goes on serving.
BootFails ==
  /\ \E pc \in {"marking", "finding", "erroring"} : BootStep(pc, "failed")
  /\ todo' = {}
  /\ cur' = {}
  /\ Fault
  /\ UNCHANGED <<db, memory, calls>>

-----------------------------------------------------------------------------
\* The end of the process, and the outside world

MemoryLost ==
  /\ active' = [s \in Session |-> "none"]
  /\ armed' = [s \in Session |-> {}]
  /\ scansThisHour' = [s \in Session |-> [o \in Object |-> 0]]
  /\ cached' = [s \in Session |-> FALSE]
  /\ start' = [s \in Session |-> IF start[s] = "none" THEN "none" ELSE "over"]
  /\ task' = [s \in Session |-> [l \in Lane |-> "idle"]]
  /\ scanOf' = [s \in Session |-> [l \in ScanLane |-> "start"]]
  /\ boot' = "down"
  /\ todo' = {}
  /\ cur' = {}

Crash ==
  /\ Up
  /\ crashes < MaxCrashes
  /\ crashes' = crashes + 1
  /\ MemoryLost
  /\ UNCHANGED <<db, faults>>

\* shutdownSimulator on SIGTERM: stopAllSessions begins every stop at once.
Shutdown ==
  /\ BootStep("ready", "draining")
  /\ crashes < MaxCrashes
  /\ crashes' = crashes + 1
  /\ task' = [s \in Session |->
                [task[s] EXCEPT !["shutdown"] = IF active[s] = "none" THEN "idle" ELSE "stopping"]]
  /\ armed' = [s \in Session |-> armed[s] \ {active[s]}]
  /\ UNCHANGED <<db, active, scansThisHour, cached, start, scanOf, todo, cur, faults>>

\* process.exit(0) when all of them are done, process.exit(1) when an event of
\* one is refused.
Exit ==
  /\ boot = "draining"
  /\ \/ \A s \in Session : task[s]["shutdown"] = "idle"
     \/ \E s \in Session : task[s]["shutdown"] = "logStopped" /\ row[s] = "absent"
  /\ MemoryLost
  /\ UNCHANGED <<db, bounds>>

\* process.exit(1): a database call of the shutdown fails.
ExitOnFailure ==
  /\ boot = "draining"
  /\ \E s \in Session : task[s]["shutdown"] # "idle"
  /\ MemoryLost
  /\ Fault
  /\ UNCHANGED db

Restart ==
  /\ BootStep("down", "marking")
  /\ UNCHANGED <<db, memory, calls, todo, cur, bounds>>

DeadlinePasses(s) ==
  /\ row[s] # "absent"
  /\ ~overdue[s]
  /\ overdue' = [overdue EXCEPT ![s] = TRUE]
  /\ UNCHANGED <<row, logged, memory, calls, booting, bounds>>

-----------------------------------------------------------------------------
Starting(s) ==
  \/ StartCount(s) \/ StartInsert(s) \/ StartFetch(s) \/ StartLog(s) \/ StartRun(s)
  \/ StartThrows(s) \/ StartError(s) \/ StartErrLog(s)

Ending(s, l) == EndStatus(s, l) \/ EndLog(s, l) \/ EndLogRefused(s, l)

Refreshing(s) == RefreshReload(s) \/ RefreshFetch(s)

Scanning(s, l) ==
  ScanCheck(s, l) \/ ScanDevice(s, l) \/ ScanFinish(s, l)

Recovering(s) ==
  RecoverNext(s) \/ RecoverExpire(s) \/ RecoverFetch(s) \/ RecoverThrows(s) \/ RecoverError(s)

Booting == MarkExpired \/ FindRunning \/ BootReady \/ \E s \in Session : Recovering(s)

Next ==
  \/ \E s \in Session :
       \/ RequestStart(s) \/ Starting(s) \/ StartFails(s)
       \/ RefreshTick(s) \/ Refreshing(s)
       \/ DeleteSession(s) \/ DeadlinePasses(s)
       \/ \E l \in Lane : RequestStop(s, l) \/ Ending(s, l) \/ TaskFails(s, l)
       \/ \E l \in ScanLane : ScanTick(s, l) \/ Scanning(s, l)
  \/ Booting \/ BootFails
  \/ Crash \/ Shutdown \/ Exit \/ ExitOnFailure \/ Restart

Spec == Init /\ [][Next]_vars

\* The event loop runs every continuation whose answer has come, the database
\* answers, and an interval keeps firing until it is cleared.
Fairness ==
  /\ \A s \in Session :
       /\ WF_vars(Starting(s))
       /\ WF_vars(RefreshTick(s)) /\ WF_vars(Refreshing(s))
       /\ \A l \in Lane : WF_vars(Ending(s, l))
       /\ \A l \in ScanLane : WF_vars(ScanTick(s, l)) /\ WF_vars(Scanning(s, l))
  /\ WF_vars(Booting) /\ WF_vars(Exit) /\ WF_vars(Restart)

FairSpec == Spec /\ Fairness

-----------------------------------------------------------------------------
\* Safety

\* Firings of the scan timer that overlap each pass canPerformScan before any
\* of them has counted: the hourly quota is exceeded by at most the overlap.
HourlyOverrunBounded ==
  \A s \in Session : \A o \in Object :
    scansThisHour[s][o] <= MaxScansPerHour + Cardinality(ScanLane) - 1

\* A session ends as EXPIRED only after its deadline, whichever of the scan,
\* the refresh, the recovery and markExpiredSessions ended it, and however they
\* interleave with stops, deletions and restarts.
ExpiredOnlyWhenOverdue ==
  \A s \in Session : row[s] = "EXPIRED" => overdue[s]

\* While the registered entry of a session has its timers running there is a
\* bundle to scan with: no stop, refresh or recovery that overlaps takes the
\* bundle away and leaves the scans to skip for ever.
ArmedEntryHasBundle ==
  \A s \in Session : active[s] \in armed[s] => cached[s]

\* Once the start-up is through, a RUNNING row that the engine does not know can
\* only be one whose end has been logged (the stop raced with the start): no
\* crash, restart or failed call makes the engine lose a session silently.
OrphanRunningWasEnded ==
  boot = "ready" =>
    \A s \in Session :
      row[s] = "RUNNING" /\ active[s] = "none" =>
        logged[s] \cap {"SESSION_STOPPED", "SESSION_EXPIRED"} # {}

-----------------------------------------------------------------------------
\* Liveness

\* A registered session whose deadline has passed is eventually unregistered
\* (unless its row has been deleted, which makes the cleanup throw).
OverdueUnregistered ==
  \A s \in Session :
    overdue[s] /\ active[s] # "none" ~> active[s] = "none" \/ row[s] = "absent"

\* A session found RUNNING and in time when the process starts is scanned again,
\* unless it is ended meanwhile (a stop that overlaps the recovery of its session
\* leaves the row RUNNING) or the initialisation fails.
RecoveryResumes ==
  \A s \in Session :
    boot = "marking" /\ row[s] = "RUNNING" /\ ~overdue[s]
      ~> \/ active[s] \in armed[s]
         \/ row[s] # "RUNNING" \/ overdue[s] \/ boot \in {"down", "failed"}
         \/ logged[s] \cap {"SESSION_STOPPED", "SESSION_EXPIRED"} # {}

-----------------------------------------------------------------------------
\* What the documentation says and the code does not do

\* docs: "Max concurrent sessions per tenant | 3".
SessionQuotaHolds ==
  \A t \in Tenant : Cardinality(Running(t)) <= MaxConcurrentSessions

\* docs: "Max scans per hour | 1,000".
HourlyQuotaHolds ==
  \A s \in Session : \A o \in Object : scansThisHour[s][o] <= MaxScansPerHour

\* DELETE /simulator/:sessionId: "Delete a stopped/expired simulation session";
\* "Cannot delete active sessions".
DeletesNoActiveSession ==
  [][\A s \in Session : row[s] \in {"PENDING", "RUNNING"} => row'[s] # "absent"]_vars

\* DELETE /simulator/:sessionId answers "Cannot delete an active session. Stop it
\* first.": when nothing is in flight, a stop can end such a session.
RefusedDeleteCanBeStopped ==
  \A s \in Session :
    /\ boot = "ready"
    /\ row[s] \in {"PENDING", "RUNNING"}
    /\ start[s] = "over"
    /\ \A l \in Lane : task[s][l] = "idle"
    => active[s] # "none"
=============================================================================
