-------------------------- MODULE SimulatorMonitor --------------------------
(***************************************************************************)
(* SimulatorMonitorService and SimulatorMetricsService: what the simulator *)
(* engine emits, as the clients of the monitor and the counters of the     *)
(* metrics get it.                                                         *)
(*                                                                         *)
(* The engine calls its listeners one after the other in the step that     *)
(* emits.  The metrics listen from the start, the monitor once the first   *)
(* client connects.  A client whose response cannot be written is removed  *)
(* in the middle of a broadcast.  Left out are the contents of the events  *)
(* and what getMetrics reads of the engine, the queue and the database.    *)
(***************************************************************************)
EXTENDS Integers, Sequences, FiniteSets

CONSTANTS
  Client,
  Watched,      \* sessions
  Exercised,    \* bound: the kinds of events that are emitted
  MaxEvents     \* bound: events emitted

VARIABLES
  listening,    \* isInitialized
  clients,
  counters,
  emitted       \* history: the events of the engine

monitor == <<listening, clients, counters, emitted>>

\* bundle:fetched says whether the bundle was updated; here these are two kinds.
Kind == {"session:started", "session:stopped", "session:expired", "session:error",
         "bundle:fetched", "bundle:unchanged", "device:scanned", "alarm:candidate"}

\* got: the events written to the response, by their place in emitted; since: how
\* many there were before the client connected.
Watcher == [connected : BOOLEAN, session : Watched, since : Nat, got : Seq(Nat)]

NoWatcher == [connected |-> FALSE, session |-> CHOOSE s \in Watched : TRUE, since |-> 0, got |-> <<>>]

\* MetricsCounters
Counter == {"totalSessions", "totalScans", "totalAlarms", "bundleFetches", "bundleUnchanged", "errors"}

MonitorTypeOK ==
  /\ listening \in BOOLEAN
  /\ clients \in [Client -> Watcher]
  /\ counters \in [Counter -> 0 .. MaxEvents]
  /\ emitted \in Seq([session : Watched, kind : Kind])

MonitorInit ==
  /\ listening = FALSE
  /\ clients = [c \in Client |-> NoWatcher]
  /\ counters = [n \in Counter |-> 0]
  /\ emitted = <<>>

Connected == {c \in Client : clients[c].connected}

-----------------------------------------------------------------------------
\* Metrics

\* The counters whose listeners an event reaches; none counts the end of a session.
CountedAs(kind) ==
  CASE kind = "session:started" -> {"totalSessions"}
    [] kind = "device:scanned" -> {"totalScans"}
    [] kind = "alarm:candidate" -> {"totalAlarms"}
    [] kind = "bundle:fetched" -> {"bundleFetches"}
    [] kind = "bundle:unchanged" -> {"bundleUnchanged"}
    [] kind = "session:error" -> {"errors"}
    [] OTHER -> {}

-----------------------------------------------------------------------------
\* The monitor

Connect(c, s) ==
  /\ ~clients[c].connected
  /\ listening' = TRUE
  /\ clients' = [clients EXCEPT ![c] = [connected |-> TRUE, session |-> s, since |-> Len(emitted), got |-> <<>>]]
  /\ UNCHANGED <<counters, emitted>>

Disconnect(c) ==
  /\ clients[c].connected
  /\ clients' = [clients EXCEPT ![c] = NoWatcher]
  /\ UNCHANGED <<listening, counters, emitted>>

\* Mutation of Reached: events go to every client.
ReachedAll(s) == Connected

\* The clients an event is broadcast to.
Reached(s) == IF listening THEN {c \in Connected : clients[c].session = s} ELSE {}

\* The clients in broken are removed, and the others get the event.
Broadcast(s, n, broken) ==
  [c \in Client |-> IF c \in broken THEN NoWatcher
                    ELSE IF c \in Reached(s) THEN [clients[c] EXCEPT !.got = Append(@, n)]
                    ELSE clients[c]]

Emit(s, kind, broken) ==
  /\ Len(emitted) < MaxEvents
  /\ broken \subseteq Reached(s)
  /\ emitted' = Append(emitted, [session |-> s, kind |-> kind])
  /\ counters' = [n \in Counter |-> IF n \in CountedAs(kind) THEN counters[n] + 1 ELSE counters[n]]
  /\ clients' = Broadcast(s, Len(emitted) + 1, broken)
  /\ UNCHANGED listening

\* A heartbeat goes to all clients, and finds those that are broken.
Heartbeat(broken) ==
  /\ listening
  /\ broken # {}
  /\ clients' = [c \in Client |-> IF c \in broken THEN NoWatcher ELSE clients[c]]
  /\ UNCHANGED <<listening, counters, emitted>>

MonitorNext ==
  \/ \E c \in Client : Disconnect(c) \/ \E s \in Watched : Connect(c, s)
  \/ \E s \in Watched, kind \in Exercised, broken \in SUBSET Connected : Emit(s, kind, broken)
  \/ \E broken \in SUBSET Connected : Heartbeat(broken)

MonitorSpec == MonitorInit /\ [][MonitorNext]_monitor

-----------------------------------------------------------------------------
\* Correctness

\* A client has got all the events of its session since it connected and no others, in the
\* order in which they were emitted, although others are removed while they are sent.
WatchersSeeAll ==
  \A c \in Connected :
    LET mine == {n \in clients[c].since + 1 .. Len(emitted) : emitted[n].session = clients[c].session}
        got == clients[c].got
    IN
    /\ {got[i] : i \in DOMAIN got} = mine
    /\ \A i, k \in DOMAIN got : i < k => got[i] < got[k]

\* The counters say how many sessions started and how many fetches brought a bundle or
\* brought nothing, from the start of the process and not from the first client on.
CountersAgree ==
  /\ counters["bundleFetches"] = Cardinality({n \in DOMAIN emitted : emitted[n].kind = "bundle:fetched"})
  /\ counters["bundleUnchanged"] = Cardinality({n \in DOMAIN emitted : emitted[n].kind = "bundle:unchanged"})
  /\ counters["totalSessions"] = Cardinality({n \in DOMAIN emitted : emitted[n].kind = "session:started"})
=============================================================================
