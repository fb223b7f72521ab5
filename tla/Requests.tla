------------------------------ MODULE Requests ------------------------------
(***************************************************************************)
(* Requests in flight, as every component's handlers run on the event loop *)
(* of Node: a request runs undisturbed from one await of the database to   *)
(* the next, and anything may happen in between.  There is no transaction, *)
(* so a statement that fails, or the end of the process, leaves what the   *)
(* statements before it have stored.                                       *)
(*                                                                         *)
(* A component's call record says in pc which statement comes next, and    *)
(* carries what the request has read so far.                               *)
(***************************************************************************)
EXTENDS Naturals

CONSTANTS
  Request,      \* requests in flight
  MaxRequests   \* bound: requests made

VARIABLES
  call,
  made,
  calm          \* history: no two requests have overlapped, and none has failed

requests == <<call, made, calm>>

Idle == [pc |-> "idle"]

RequestsTypeOK ==
  /\ DOMAIN call = Request
  /\ \A r \in Request : call[r].pc = "idle" => call[r] = Idle
  /\ made \in 0 .. MaxRequests
  /\ calm \in BOOLEAN

RequestsInit ==
  /\ call = [r \in Request |-> Idle]
  /\ made = 0
  /\ calm = TRUE

At(r, pc) == call[r].pc = pc

\* The handler has read what it needs and awaits the statement next.pc.
Begin(r, next) ==
  /\ At(r, "idle")
  /\ made < MaxRequests
  /\ made' = made + 1
  /\ call' = [call EXCEPT ![r] = next]
  /\ calm' = (calm /\ \A q \in Request : At(q, "idle"))

Goes(r, next) ==
  /\ call' = [call EXCEPT ![r] = next]
  /\ UNCHANGED <<made, calm>>

Done(r) == Goes(r, Idle)

\* The statement that comes next fails, or the process ends.
Fails(r) ==
  /\ ~At(r, "idle")
  /\ call' = [call EXCEPT ![r] = Idle]
  /\ calm' = FALSE
  /\ UNCHANGED made

\* Between requests, as long as they come one after the other.
Settled == calm /\ \A r \in Request : At(r, "idle")
=============================================================================
