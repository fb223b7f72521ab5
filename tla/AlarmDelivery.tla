---------------------------- MODULE AlarmDelivery ----------------------------
(***************************************************************************)
(* What the queue of simulated alarm candidates promises: a candidate is   *)
(* handed to the processor at most once, one at a time, and in the order   *)
(* in which the candidates were added.  One that waits may be dropped.     *)
(***************************************************************************)
EXTENDS Naturals

CONSTANT MaxJobs    \* bound: candidates added

VARIABLE stage

Job == 1 .. MaxJobs     \* in the order of addition

Stage == {"unborn", "waiting", "running", "done", "dropped"}

AtStage(s) == {j \in Job : stage[j] = s}

Init == stage = [j \in Job |-> "unborn"]

Add(j) ==
  /\ stage[j] = "unborn"
  /\ \A i \in Job : i < j => stage[i] # "unborn"
  /\ stage' = [stage EXCEPT ![j] = "waiting"]

Start(j) ==
  /\ stage[j] = "waiting"
  /\ AtStage("running") = {}
  /\ \A i \in AtStage("waiting") : j <= i
  /\ stage' = [stage EXCEPT ![j] = "running"]

Finish(j) ==
  /\ stage[j] = "running"
  /\ stage' = [stage EXCEPT ![j] = "done"]

\* The next one is started in the step that adds it, or that finishes the one before.
AddAndStart(j) ==
  /\ stage[j] = "unborn"
  /\ \A i \in Job : i < j => stage[i] # "unborn"
  /\ AtStage("running") = {}
  /\ \E k \in AtStage("waiting") \cup {j} :
       /\ \A i \in AtStage("waiting") : k <= i
       /\ stage' = [stage EXCEPT ![j] = "waiting", ![k] = "running"]

FinishAndStart(j, k) ==
  /\ stage[j] = "running"
  /\ stage[k] = "waiting"
  /\ \A i \in AtStage("waiting") : k <= i
  /\ stage' = [stage EXCEPT ![j] = "done", ![k] = "running"]

Drop ==
  \E D \in SUBSET AtStage("waiting") :
    stage' = [j \in Job |-> IF j \in D THEN "dropped" ELSE stage[j]]

Next ==
  \/ \E j \in Job : Add(j) \/ AddAndStart(j) \/ Start(j) \/ Finish(j) \/ \E k \in Job : FinishAndStart(j, k)
  \/ Drop

Spec == Init /\ [][Next]_stage
=============================================================================
