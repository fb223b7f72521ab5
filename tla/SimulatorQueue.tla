--------------------------- MODULE SimulatorQueue ---------------------------
(***************************************************************************)
(* SimulatorQueueService: the queue in memory between the simulator        *)
(* engine, which adds an alarm candidate to it, and the processor.         *)
(*                                                                         *)
(* One run of processQueue works on the array that it took from queues     *)
(* when it began, across an await of the processor for each job, while     *)
(* jobs are pushed to the array and while clearQueue and                   *)
(* clearProcessedJobs put another array in its place.  SimulatorStartup    *)
(* registers the processor and clears the queue when the process shuts     *)
(* down; clearProcessedJobs has no caller in the repository.               *)
(***************************************************************************)
EXTENDS Integers, Sequences, FiniteSets, SequencesExt

CONSTANT MaxJobs    \* bound: jobs added

ASSUME QueueAssumption == MaxJobs \in Nat

VARIABLES
  job,
  queue,        \* the array in queues
  taken,        \* the array processQueue is working on, when it is another one
  swapped,      \* whether it is
  isProcessing,
  processor,    \* whether one is registered
  stats,
  aside         \* history: the jobs pushed to queue while processQueue was on another array

vars == <<job, queue, taken, swapped, isProcessing, processor, stats, aside>>

Job == 1 .. MaxJobs     \* ids, in the order of addition

JobRow == [status : {"unborn", "pending", "processing", "completed", "failed"}, attempts : Nat]

Added == {j \in Job : job[j].status # "unborn"}
Pending(jobs, j) == jobs[j].status = "pending"
Waiting == {j \in Job : Pending(job, j)}

\* The array of the loop.
Working == IF swapped THEN taken ELSE queue

QueueTypeOK ==
  /\ job \in [Job -> JobRow]
  /\ queue \in Seq(Job) /\ taken \in Seq(Job)
  /\ swapped \in BOOLEAN /\ isProcessing \in BOOLEAN /\ processor \in BOOLEAN
  /\ swapped => isProcessing
  /\ isProcessing => Working # <<>> /\ job[Head(Working)].status = "processing"
  /\ stats \in [completed : Nat, failed : Nat]
  /\ aside \subseteq Job

Init ==
  /\ job = [j \in Job |-> [status |-> "unborn", attempts |-> 0]]
  /\ queue = <<>> /\ taken = <<>>
  /\ swapped = FALSE /\ isProcessing = FALSE /\ processor = FALSE
  /\ stats = [completed |-> 0, failed |-> 0]
  /\ aside = {}

-----------------------------------------------------------------------------
\* The loop of processQueue

\* Mutation of Left: the loop takes the job that came last.
LeftLast(jobs, array) == Reverse(SelectSeq(array, LAMBDA j : Pending(jobs, j)))

\* What is left of an array once its first jobs that are not pending are shifted.
Left(jobs, array) ==
  LET pending == {i \in DOMAIN array : Pending(jobs, array[i])}
  IN IF pending = {} THEN <<>> ELSE SubSeq(array, Min(pending), Len(array))

\* Mutation of Proceeds: the loop ends with the job.
ProceedsNot(jobs, array) ==
  LET left == Left(jobs, array)
      goes == ~isProcessing /\ left # <<>>
  IN
  [jobs  |-> IF goes THEN [jobs EXCEPT ![Head(left)] = [status |-> "processing", attempts |-> @.attempts + 1]]
             ELSE jobs,
   array |-> left,
   busy  |-> goes]

\* The loop up to its next await, of the processor, or to its end.
Proceeds(jobs, array) ==
  LET left == Left(jobs, array) IN
  [jobs  |-> IF left = <<>> THEN jobs
             ELSE [jobs EXCEPT ![Head(left)] = [status |-> "processing", attempts |-> @.attempts + 1]],
   array |-> left,
   busy  |-> left # <<>>]

\* Mutation of Idles: the flag is not looked at.
IdlesNot == processor

\* processQueue returns when it runs already, and when there is no processor.
Idles == processor /\ ~isProcessing

\* processQueue, called with these jobs and this array in queues.
ProcessQueue(jobs, array) ==
  LET after == Proceeds(jobs, array) IN
  IF Idles
    THEN /\ job' = after.jobs
         /\ queue' = after.array
         /\ isProcessing' = after.busy
    ELSE /\ job' = jobs
         /\ queue' = array
         /\ UNCHANGED isProcessing

-----------------------------------------------------------------------------
\* Operations

AddSimulatedAlarmCandidate(j) ==
  /\ j \notin Added
  /\ \A i \in Job : i < j => i \in Added
  /\ ProcessQueue([job EXCEPT ![j].status = "pending"], Append(queue, j))
  /\ aside' = IF swapped THEN aside \cup {j} ELSE aside
  /\ UNCHANGED <<taken, swapped, processor, stats>>

RegisterProcessor ==
  /\ ~processor
  /\ processor' = TRUE
  /\ job' = Proceeds(job, queue).jobs
  /\ queue' = Proceeds(job, queue).array
  /\ isProcessing' = Proceeds(job, queue).busy
  /\ UNCHANGED <<taken, swapped, stats, aside>>

\* The processor's promise is settled, and the loop goes on.
Settle(outcome) ==
  LET h == Head(Working)
      after == Proceeds([job EXCEPT ![h].status = outcome], Tail(Working))
  IN
  /\ isProcessing
  /\ stats' = [stats EXCEPT ![outcome] = @ + 1]
  /\ job' = after.jobs
  /\ isProcessing' = after.busy
  /\ IF swapped THEN taken' = after.array /\ UNCHANGED queue ELSE queue' = after.array /\ UNCHANGED taken
  /\ swapped' = (swapped /\ after.busy)
  /\ UNCHANGED <<processor, aside>>

\* Another array takes the place of the one in queues.
Replace(array) ==
  /\ queue' = array
  /\ swapped' = isProcessing
  /\ taken' = IF isProcessing THEN Working ELSE <<>>
  /\ UNCHANGED <<job, isProcessing, processor, stats, aside>>

\* The elements of an array at these of its places, in their order.
Filter(array, places) ==
  LET Place(n) == CHOOSE i \in places : Cardinality({k \in places : k <= i}) = n
  IN [n \in 1 .. Cardinality(places) |-> array[Place(n)]]

ClearQueue == queue # <<>> /\ Replace(<<>>)

ClearProcessedJobs ==
  /\ queue # <<>>
  /\ Replace(Filter(queue, {i \in DOMAIN queue : job[queue[i]].status \in {"pending", "processing"}}))

Next ==
  \/ \E j \in Job : AddSimulatedAlarmCandidate(j)
  \/ RegisterProcessor
  \/ \E outcome \in {"completed", "failed"} : Settle(outcome)
  \/ ClearQueue \/ ClearProcessedJobs

Spec == Init /\ [][Next]_vars

\* The startup registers the processor, and a promise of the processor is settled.
FairSpec == Spec /\ WF_vars(RegisterProcessor) /\ WF_vars(\E outcome \in {"completed", "failed"} : Settle(outcome))

-----------------------------------------------------------------------------
\* Correctness

\* The jobs that the arrays no longer hold.
Lost == Waiting \ (ToSet(queue) \cup ToSet(Working))

\* The stage of a job that is not lost.
StageAs == [unborn |-> "unborn", pending |-> "waiting", processing |-> "running",
            completed |-> "done", failed |-> "done"]

stage == [j \in Job |-> IF j \in Lost THEN "dropped" ELSE StageAs[job[j].status]]

\* The queue keeps the promise of AlarmDelivery, also when the array is replaced below
\* the loop: a job in both arrays is handed over once, by the loop or after it.
Delivery == INSTANCE AlarmDelivery WITH stage <- stage

DeliversInOrder == Delivery!Spec

\* What getQueueStats counts in the array of queues.
CountOf(status) == Cardinality({i \in DOMAIN queue : job[queue[i]].status = status})

\* The numbers of getQueueStats account for each job that was added, once: as pending, as
\* processing or as processed.  They do so unless clearQueue dropped jobs, or while the loop
\* works on an array that was replaced.
StatsAccount ==
  Lost = {} /\ ~swapped =>
    CountOf("pending") + CountOf("processing") + stats.completed + stats.failed = Cardinality(Added)

\* A job that is added is processed or cleared, but for one that is pushed while the loop
\* works on an array that was replaced: nothing calls processQueue for it.
EachJobEnds == \A j \in Job : j \in Waiting ~> j \notin Waiting \/ j \in Lost \/ j \in aside

-----------------------------------------------------------------------------
\* What comments of the code say and the code does not do

\* "Trigger processing if not already running" (SimulatorQueueService.ts:107): it may be
\* running on another array, and the job waits for the next one to be added.
NoneWaitsAlone == processor /\ ~isProcessing => Waiting \subseteq Lost
=============================================================================
