------------------------ MODULE SimulatorQueueProofs ------------------------
(***************************************************************************)
(* Type correctness of SimulatorQueue, that its statistics account for     *)
(* the jobs, and that it hands every job over at most once and in order,   *)
(* as AlarmDelivery promises, for any number of jobs.                      *)
(***************************************************************************)
EXTENDS SimulatorQueue, SequenceTheorems, FiniteSetTheorems, TLAPS

-----------------------------------------------------------------------------
\* The inductive invariant

Increasing(array) == \A i, k \in DOMAIN array : i < k => array[i] < array[k]

\* The jobs are added in the order of their ids.
AddedInOrder == \A i, j \in Job : i < j /\ j \in Added => i \in Added

\* An array holds jobs that were added, each once, in the order of addition.
ArraysInOrder ==
  /\ Increasing(queue) /\ Increasing(taken)
  /\ ToSet(queue) \subseteq Added /\ ToSet(taken) \subseteq Added

\* The job at the head of the loop's array is the one that the processor has.
OneProcessing ==
  /\ isProcessing => processor
  /\ \A j \in Job : job[j].status = "processing" => isProcessing /\ j = Head(Working)

\* A job that waits in the array of queues alone comes after those the loop has taken.
AsideComesLater ==
  swapped => \A j \in Waiting, k \in ToSet(taken) : j \in ToSet(queue) \ ToSet(taken) => k < j

OfStatus(s) == {j \in Job : job[j].status = s}

StatsCount == \A s \in {"completed", "failed"} : stats[s] = Cardinality(OfStatus(s))

QueueInv ==
  /\ QueueTypeOK /\ AddedInOrder /\ ArraysInOrder /\ OneProcessing /\ AsideComesLater
  /\ StatsCount

-----------------------------------------------------------------------------
\* Arrays

LEMMA HeadOfArray ==
  ASSUME NEW array \in Seq(Job), Increasing(array), array # <<>>
  PROVE  /\ Head(array) \in Job /\ Head(array) \in ToSet(array)
         /\ \A j \in ToSet(array) : Head(array) <= j
         /\ Tail(array) \in Seq(Job) /\ Increasing(Tail(array))
         /\ ToSet(Tail(array)) = ToSet(array) \ {Head(array)}
<1>1. Len(array) \in Nat \ {0} /\ DOMAIN array = 1 .. Len(array) /\ \A i \in 1 .. Len(array) : array[i] \in Job
  OBVIOUS
<1>2. Head(array) = array[1] /\ 1 \in DOMAIN array
  BY <1>1
<1>3. Tail(array) \in Seq(Job) /\ Len(Tail(array)) = Len(array) - 1
      /\ \A i \in 1 .. Len(array) - 1 : Tail(array)[i] = array[i + 1]
  BY <1>1
<1>4. DOMAIN Tail(array) = 1 .. Len(array) - 1
  BY <1>3
<1>5. \A i \in DOMAIN array : i = 1 \/ array[1] < array[i]
  BY <1>1 DEF Increasing
<1>6. \A j \in ToSet(array) : array[1] <= j
  BY <1>1, <1>5, QueueAssumption DEF ToSet, Job
<1>7. Increasing(Tail(array))
  <2>1. ASSUME NEW i \in 1 .. Len(array) - 1, NEW k \in 1 .. Len(array) - 1, i < k
        PROVE  Tail(array)[i] < Tail(array)[k]
    BY <2>1, <1>1, <1>3 DEF Increasing
  <2>. QED BY <2>1, <1>4 DEF Increasing
<1>8. ToSet(Tail(array)) = ToSet(array) \ {array[1]}
  <2>1. ASSUME NEW i \in 1 .. Len(array) - 1
        PROVE  Tail(array)[i] \in ToSet(array) /\ Tail(array)[i] # array[1]
    <3>1. i + 1 \in DOMAIN array /\ i + 1 # 1
      BY <1>1
    <3>2. array[1] < array[i + 1] /\ array[i + 1] \in Int /\ array[1] \in Int
      BY <3>1, <1>1, <1>5, QueueAssumption DEF Job
    <3>. QED BY <3>1, <3>2, <1>3 DEF ToSet
  <2>2. ASSUME NEW i \in DOMAIN array, array[i] # array[1]
        PROVE  array[i] \in ToSet(Tail(array))
    <3>1. i - 1 \in 1 .. Len(array) - 1 /\ (i - 1) + 1 = i
      BY <2>2, <1>1
    <3>. QED BY <3>1, <1>3, <1>4 DEF ToSet
  <2>. QED BY <2>1, <2>2, <1>4 DEF ToSet
<1>. QED BY <1>1, <1>2, <1>3, <1>6, <1>7, <1>8 DEF ToSet

LEMMA AppendToArray ==
  ASSUME NEW array \in Seq(Job), Increasing(array), NEW j \in Job, \A k \in ToSet(array) : k < j
  PROVE  /\ Append(array, j) \in Seq(Job) /\ Increasing(Append(array, j))
         /\ ToSet(Append(array, j)) = ToSet(array) \cup {j}
<1>. DEFINE longer == Append(array, j)
<1>1. longer \in Seq(Job) /\ Len(longer) = Len(array) + 1
  OBVIOUS
<1>2. DOMAIN longer = 1 .. Len(array) + 1 /\ DOMAIN array = 1 .. Len(array) /\ Len(array) \in Nat
  BY <1>1
<1>3. /\ \A i \in DOMAIN array : longer[i] = array[i]
      /\ longer[Len(array) + 1] = j
  OBVIOUS
<1>. HIDE DEF longer
<1>4. DOMAIN longer = DOMAIN array \cup {Len(array) + 1}
  BY <1>2
<1>5. ToSet(longer) = ToSet(array) \cup {j}
  BY <1>3, <1>4 DEF ToSet
<1>6. ASSUME NEW i \in DOMAIN longer, NEW k \in DOMAIN longer, i < k
      PROVE  longer[i] < longer[k]
  <2>1. i \in DOMAIN array
    BY <1>6, <1>2
  <2>2. CASE k \in DOMAIN array
    BY <2>1, <2>2, <1>3, <1>6 DEF Increasing
  <2>3. CASE k = Len(array) + 1
    BY <2>1, <2>3, <1>3 DEF ToSet
  <2>. QED BY <2>2, <2>3, <1>4
<1>7. Increasing(longer)
  BY <1>6 DEF Increasing
<1>. QED BY <1>1, <1>5, <1>7 DEF longer

\* A set of places of an array has a least one.
LEMMA LeastPlace ==
  ASSUME NEW S \in SUBSET Nat, S # {}
  PROVE  /\ Min(S) \in S
         /\ \A i \in S : Min(S) <= i
<1>1. \E x \in S : \A y \in S : ~ y < x
  <2>1. IsWellFoundedOn(OpToRel(<, Nat), Nat)
    BY NatLessThanWellFounded
  <2>2. PICK x \in S : \A y \in S : ~ (<<y, x>> \in OpToRel(<, Nat))
    BY <2>1, WFMin
  <2>. QED BY <2>2 DEF OpToRel
<1>2. \E x \in S : \A y \in S : x =< y
  BY <1>1
<1>. QED BY <1>2 DEF Min

\* What is left of an array starts with its first job that is pending, and holds
\* all those that are.
LEMMA LeftOfArray ==
  ASSUME NEW jobs, NEW array \in Seq(Job), Increasing(array)
  PROVE  LET left == Left(jobs, array) IN
         /\ left \in Seq(Job) /\ Increasing(left)
         /\ ToSet(left) \subseteq ToSet(array)
         /\ \A j \in ToSet(array) : Pending(jobs, j) => j \in ToSet(left)
         /\ left # <<>> => Pending(jobs, Head(left))
<1>. DEFINE left == Left(jobs, array)
            pending == {i \in DOMAIN array : Pending(jobs, array[i])}
            first == Min(pending)
<1>1. Len(array) \in Nat /\ DOMAIN array = 1 .. Len(array) /\ \A i \in 1 .. Len(array) : array[i] \in Job
  OBVIOUS
<1>2. CASE pending = {}
  <2>1. left = <<>>
    BY <1>2 DEF Left
  <2>2. left \in Seq(Job) /\ Increasing(left) /\ ToSet(left) = {}
    BY <2>1 DEF Increasing, ToSet
  <2>3. \A j \in ToSet(array) : ~Pending(jobs, j)
    BY <1>2 DEF ToSet
  <2>. HIDE DEF left
  <2>. QED BY <2>1, <2>2, <2>3 DEF left
<1>3. CASE pending # {}
  <2>1. left = SubSeq(array, first, Len(array))
    BY <1>3 DEF Left
  <2>2. first \in DOMAIN array /\ Pending(jobs, array[first])
        /\ \A i \in DOMAIN array : Pending(jobs, array[i]) => first <= i
    <3>1. pending \in SUBSET Nat
      BY <1>1
    <3>2. first \in pending /\ \A i \in pending : first <= i
      <4>. HIDE DEF pending
      <4>. QED BY <3>1, <1>3, LeastPlace
    <3>. QED BY <3>2
  <2>. HIDE DEF first, pending
  <2>3. left \in Seq(Job) /\ Len(left) = Len(array) - first + 1
        /\ \A i \in 1 .. Len(array) - first + 1 : left[i] = array[i + first - 1]
    BY <2>1, <2>2, <1>1
  <2>4. DOMAIN left = 1 .. Len(array) - first + 1 /\ first \in 1 .. Len(array)
    BY <2>3, <2>2, <1>1
  <2>. HIDE DEF left
  <2>5. ASSUME NEW i \in DOMAIN left
        PROVE  i + first - 1 \in DOMAIN array /\ left[i] = array[i + first - 1]
    BY <2>3, <2>4, <1>1
  <2>6. ASSUME NEW i \in DOMAIN left, NEW k \in DOMAIN left, i < k
        PROVE  left[i] < left[k]
    <3>1. i + first - 1 < k + first - 1
      BY <2>6, <2>4
    <3>. QED BY <3>1, <2>5 DEF Increasing
  <2>7. \A j \in ToSet(array) : Pending(jobs, j) => j \in ToSet(left)
    <3>1. ASSUME NEW i \in DOMAIN array, Pending(jobs, array[i])
          PROVE  array[i] \in ToSet(left)
      <4>1. first <= i
        BY <3>1, <2>2
      <4>2. i - first + 1 \in DOMAIN left /\ (i - first + 1) + first - 1 = i
        BY <4>1, <2>4, <1>1
      <4>3. array[i] = left[i - first + 1]
        BY <4>2, <2>5
      <4>. QED BY <4>2, <4>3 DEF ToSet
    <3>. QED BY <3>1 DEF ToSet
  <2>8. Head(left) = array[first]
    BY <2>3, <2>4, <1>1
  <2>9. ToSet(left) \subseteq ToSet(array)
    BY <2>5 DEF ToSet
  <2>10. Increasing(left)
    BY <2>6 DEF Increasing
  <2>11. Pending(jobs, Head(left))
    BY <2>2, <2>8
  <2>. QED BY <2>3, <2>7, <2>9, <2>10, <2>11 DEF left
<1>. QED BY <1>2, <1>3

\* The elements of an array at some of its places, in their order.
LEMMA FilterOfArray ==
  ASSUME NEW array \in Seq(Job), Increasing(array), NEW places \in SUBSET DOMAIN array
  PROVE  /\ Filter(array, places) \in Seq(Job) /\ Increasing(Filter(array, places))
         /\ ToSet(Filter(array, places)) = {array[i] : i \in places}
<1>. DEFINE rank == [i \in places |-> Cardinality({k \in places : k <= i})]
            size == Cardinality(places)
            Place(n) == CHOOSE i \in places : Cardinality({k \in places : k <= i}) = n
            filtered == Filter(array, places)
<1>1. Len(array) \in Nat /\ DOMAIN array = 1 .. Len(array) /\ \A i \in 1 .. Len(array) : array[i] \in Job
  OBVIOUS
<1>2. IsFiniteSet(places) /\ places \in SUBSET Nat
  <2>1. IsFiniteSet(DOMAIN array)
    BY <1>1, FS_Interval
  <2>2. IsFiniteSet(places)
    BY <2>1, FS_Subset
  <2>. QED BY <2>2, <1>1
<1>3. size \in Nat
  BY <1>2, FS_CardinalityType
<1>. DEFINE Below(i) == {k \in places : k <= i}
<1>4. \A i \in places : IsFiniteSet(Below(i)) /\ Cardinality(Below(i)) <= size /\ Cardinality(Below(i)) \in Nat
  <2>. TAKE i \in places
  <2>1. Below(i) \in SUBSET places
    OBVIOUS
  <2>. HIDE DEF Below
  <2>. QED BY <2>1, <1>2, FS_Subset, FS_CardinalityType
<1>5. ASSUME NEW i \in places, NEW k \in places, i < k
      PROVE  Cardinality(Below(i)) < Cardinality(Below(k))
  <2>1. Below(i) \in SUBSET Below(k) /\ k \in Below(k) /\ k \notin Below(i)
    BY <1>2, <1>5
  <2>. HIDE DEF Below
  <2>2. Cardinality(Below(i)) <= Cardinality(Below(k)) /\ Cardinality(Below(i)) # Cardinality(Below(k))
    BY <2>1, <1>4, FS_Subset
  <2>. QED BY <2>2, <1>4
<1>6. \A i \in places : Cardinality(Below(i)) \in 1 .. size
  <2>. TAKE i \in places
  <2>1. i \in Below(i)
    BY <1>2
  <2>2. Cardinality(Below(i)) # 0
    <3>. HIDE DEF Below
    <3>. QED BY <2>1, <1>4, FS_EmptySet
  <2>. HIDE DEF Below, size
  <2>. QED BY <2>2, <1>4, <1>3
<1>. HIDE DEF Below
<1>7. rank \in Injection(places, 1 .. size)
  <2>1. rank = [i \in places |-> Cardinality(Below(i))]
    BY DEF Below
  <2>2. rank \in [places -> 1 .. size]
    BY <2>1, <1>6
  <2>3. ASSUME NEW i \in places, NEW k \in places, rank[i] = rank[k]
        PROVE  i = k
    <3>1. ~ i < k /\ ~ k < i
      BY <2>1, <2>3, <1>5, <1>4
    <3>. QED BY <3>1, <1>2
  <2>. HIDE DEF rank
  <2>. QED BY <2>2, <2>3 DEF Injection, IsInjective
<1>8. \A n \in 1 .. size : \E i \in places : Cardinality(Below(i)) = n
  <2>1. IsFiniteSet(1 .. size) /\ Cardinality(1 .. size) = size
    BY <1>3, FS_Interval
  <2>2. rank \in Surjection(places, 1 .. size)
    <3>. HIDE DEF rank
    <3>. QED BY <2>1, <1>7, FS_Injection
  <2>3. \A n \in 1 .. size : \E i \in places : rank[i] = n
    <3>. HIDE DEF rank
    <3>. QED BY <2>2 DEF Surjection
  <2>. QED BY <2>3 DEF Below
<1>9. \A n \in 1 .. size : Place(n) \in places /\ Cardinality(Below(Place(n))) = n
  <2>. TAKE n \in 1 .. size
  <2>1. \E i \in places : Cardinality({k \in places : k <= i}) = n
    BY <1>8 DEF Below
  <2>. QED BY <2>1 DEF Below
<1>10. filtered = [n \in 1 .. size |-> array[Place(n)]]
  BY DEF Filter
<1>. HIDE DEF Place, size, rank, filtered
<1>11. filtered \in Seq(Job) /\ DOMAIN filtered = 1 .. size /\ \A n \in 1 .. size : filtered[n] = array[Place(n)]
  <2>1. \A n \in 1 .. size : array[Place(n)] \in Job
    BY <1>9, <1>1
  <2>. QED BY <1>10, <2>1, <1>3
<1>12. ASSUME NEW n \in 1 .. size, NEW m \in 1 .. size, n < m
       PROVE  filtered[n] < filtered[m]
  <2>1. Place(n) \in places /\ Place(m) \in places
        /\ Cardinality(Below(Place(n))) = n /\ Cardinality(Below(Place(m))) = m
    BY <1>9
  <2>2. ~ Place(m) < Place(n) /\ Place(m) # Place(n)
    <3>1. ASSUME Place(m) < Place(n)
          PROVE  FALSE
      <4>1. Cardinality(Below(Place(m))) < Cardinality(Below(Place(n)))
        BY <3>1, <2>1, <1>5
      <4>. QED BY <4>1, <2>1, <1>12, <1>3
    <3>2. ASSUME Place(m) = Place(n)
          PROVE  FALSE
      BY <3>2, <2>1, <1>12
    <3>. QED BY <3>1, <3>2
  <2>3. Place(n) < Place(m)
    BY <2>1, <2>2, <1>2
  <2>. QED BY <2>1, <2>3, <1>11 DEF Increasing
<1>13. \A i \in places : \E n \in 1 .. size : Place(n) = i
  <2>. TAKE i \in places
  <2>. DEFINE n == Cardinality(Below(i))
  <2>1. n \in 1 .. size
    BY <1>6
  <2>. HIDE DEF n
  <2>2. Place(n) \in places /\ Cardinality(Below(Place(n))) = Cardinality(Below(i))
    BY <2>1, <1>9 DEF n
  <2>3. ~ Place(n) < i /\ ~ i < Place(n)
    BY <2>2, <1>5, <1>4
  <2>. QED BY <2>1, <2>2, <2>3, <1>2
<1>14. ToSet(filtered) = {array[i] : i \in places}
  BY <1>9, <1>11, <1>13 DEF ToSet
<1>. QED BY <1>11, <1>12, <1>14 DEF Increasing, filtered

-----------------------------------------------------------------------------
\* The loop

\* From these jobs and this array the loop goes on to its first job that is pending, if
\* there is one, and leaves the other jobs as they are.
Advances(jobs, array, after) ==
  /\ after.jobs \in [Job -> JobRow] /\ after.busy \in BOOLEAN
  /\ after.array \in Seq(Job) /\ Increasing(after.array)
  /\ ToSet(after.array) \subseteq ToSet(array)
  /\ \A j \in ToSet(array) : Pending(jobs, j) => j \in ToSet(after.array)
  /\ after.busy <=> after.array # <<>>
  /\ ~after.busy => after.jobs = jobs
  /\ after.busy =>
       /\ Head(after.array) \in Job /\ Head(after.array) \in ToSet(after.array)
       /\ Pending(jobs, Head(after.array))
       /\ \A j \in ToSet(after.array) : Head(after.array) <= j
       /\ after.jobs[Head(after.array)].status = "processing"
       /\ \A j \in Job \ {Head(after.array)} : after.jobs[j] = jobs[j]

LEMMA ProceedsAdvances ==
  ASSUME NEW jobs \in [Job -> JobRow], NEW array \in Seq(Job), Increasing(array)
  PROVE  Advances(jobs, array, Proceeds(jobs, array))
<1>. DEFINE left == Left(jobs, array)
            after == Proceeds(jobs, array)
<1>1. /\ left \in Seq(Job) /\ Increasing(left)
      /\ ToSet(left) \subseteq ToSet(array)
      /\ \A j \in ToSet(array) : Pending(jobs, j) => j \in ToSet(left)
      /\ left # <<>> => Pending(jobs, Head(left))
  BY LeftOfArray
<1>2. /\ after.jobs = IF left = <<>> THEN jobs
                      ELSE [jobs EXCEPT ![Head(left)] = [status |-> "processing", attempts |-> @.attempts + 1]]
      /\ after.array = left
      /\ after.busy \in BOOLEAN /\ (after.busy <=> left # <<>>)
  BY DEF Proceeds
<1>3. left # <<>> => /\ Head(left) \in Job /\ Head(left) \in ToSet(left)
                     /\ \A j \in ToSet(left) : Head(left) <= j
  BY <1>1, HeadOfArray
<1>. SUFFICES Advances(jobs, array, after)
  OBVIOUS
<1>. HIDE DEF left, after
<1>4. CASE left = <<>>
  <2>1. after.jobs = jobs /\ ~after.busy /\ after.busy \in BOOLEAN /\ after.array = left
    BY <1>2, <1>4
  <2>. QED BY <2>1, <1>1, <1>4 DEF Advances
<1>5. CASE left # <<>>
  <2>. DEFINE h == Head(left)
              n == [status |-> "processing", attempts |-> jobs[h].attempts + 1]
  <2>1. h \in Job /\ jobs[h] \in JobRow
    BY <1>3, <1>5
  <2>2. n \in JobRow
    BY <2>1 DEF JobRow
  <2>3. n.status = "processing"
    OBVIOUS
  <2>4. after.jobs = [jobs EXCEPT ![h] = n]
    BY <1>2, <1>5
  <2>. HIDE DEF n
  <2>5. after.jobs \in [Job -> JobRow] /\ after.jobs[h] = n /\ \A j \in Job \ {h} : after.jobs[j] = jobs[j]
    <3>. HIDE DEF h, JobRow
    <3>. QED BY <2>1, <2>2, <2>4
  <2>6. after.busy /\ after.busy \in BOOLEAN /\ after.array = left
    BY <1>2, <1>5
  <2>7. after.jobs[h].status = "processing"
    BY <2>3, <2>5
  <2>. QED BY <1>1, <1>3, <1>5, <2>5, <2>6, <2>7 DEF Advances
<1>. QED BY <1>4, <1>5

-----------------------------------------------------------------------------
\* The inductive invariant holds

\* Where the jobs that count as processed are the same, and the numbers are.
LEMMA SameStats ==
  ASSUME StatsCount, UNCHANGED stats,
         \A s \in {"completed", "failed"} : \A j \in Job : job'[j].status = s <=> job[j].status = s
  PROVE  StatsCount'
<1>1. \A s \in {"completed", "failed"} : OfStatus(s)' = OfStatus(s)
  BY DEF OfStatus
<1>. HIDE DEF OfStatus
<1>. QED BY <1>1 DEF StatsCount

\* A job that is added comes after those that were.
LEMMA AddedLater ==
  ASSUME QueueInv, NEW j \in Job, j \notin Added
  PROVE  /\ \A k \in Added : k < j
         /\ \A k \in ToSet(queue) \cup ToSet(taken) : k < j
<1>1. Job \subseteq Int
  BY QueueAssumption DEF Job
<1>2. \A k \in Added : k \in Job /\ ~ j < k /\ k # j
  BY DEF QueueInv, AddedInOrder, Added
<1>3. ASSUME NEW k \in Added
      PROVE  k < j
  <2>1. k \in Int /\ j \in Int
    BY <1>1, <1>2
  <2>. QED BY <1>2, <2>1
<1>. QED BY <1>3 DEF QueueInv, ArraysInOrder

\* The jobs with one more that is pending.
LEMMA OneMore ==
  ASSUME QueueInv, NEW j \in Job
  PROVE  LET more == [job EXCEPT ![j].status = "pending"] IN
         /\ more \in [Job -> JobRow] /\ more[j].status = "pending"
         /\ \A k \in Job \ {j} : more[k] = job[k]
<1>1. job \in [Job -> JobRow] /\ job[j] \in JobRow
  BY DEF QueueInv, QueueTypeOK
<1>2. [job[j] EXCEPT !.status = "pending"] \in JobRow /\ [job[j] EXCEPT !.status = "pending"].status = "pending"
  BY <1>1 DEF JobRow
<1>. DEFINE n == [job[j] EXCEPT !.status = "pending"]
            more == [job EXCEPT ![j].status = "pending"]
<1>3. more = [job EXCEPT ![j] = n]
  OBVIOUS
<1>4. n \in JobRow /\ n.status = "pending"
  BY <1>2
<1>. HIDE DEF JobRow, n
<1>5. more \in [Job -> JobRow] /\ more[j] = n /\ \A k \in Job \ {j} : more[k] = job[k]
  <2>. HIDE DEF more
  <2>. QED BY <1>1, <1>3, <1>4
<1>. QED BY <1>4, <1>5

LEMMA AddWhileBusy ==
  ASSUME QueueInv, NEW j \in Job, AddSimulatedAlarmCandidate(j), ~Idles
  PROVE  QueueInv'
<1>. DEFINE more == [job EXCEPT ![j].status = "pending"]
<1>1. /\ j \notin Added /\ \A i \in Job : i < j => i \in Added
      /\ job' = more /\ queue' = Append(queue, j) /\ UNCHANGED <<isProcessing, taken, swapped, processor, stats>>
      /\ aside' \subseteq aside \cup {j}
  BY DEF AddSimulatedAlarmCandidate, ProcessQueue
<1>2. more \in [Job -> JobRow] /\ more[j].status = "pending" /\ \A k \in Job \ {j} : more[k] = job[k]
  BY OneMore
<1>. HIDE DEF more
<1>3. job[j].status = "unborn"
  BY <1>1 DEF Added
<1>4. \A k \in Added : k < j
  BY <1>1, AddedLater
<1>5. queue \in Seq(Job) /\ Increasing(queue) /\ \A k \in ToSet(queue) : k < j
  BY <1>1, AddedLater DEF QueueInv, QueueTypeOK, ArraysInOrder
<1>6. queue' \in Seq(Job) /\ Increasing(queue') /\ ToSet(queue') = ToSet(queue) \cup {j}
  BY <1>1, <1>5, AppendToArray
<1>7. Added' = Added \cup {j}
  BY <1>1, <1>2 DEF Added
<1>8. isProcessing => Working # <<>> /\ Working' # <<>> /\ Head(Working') = Head(Working) /\ job[Head(Working)].status = "processing"
                      /\ Head(Working) \in Job
  <2>1. isProcessing => Working # <<>> /\ job[Head(Working)].status = "processing" /\ Working \in Seq(Job)
    BY DEF QueueInv, QueueTypeOK, Working
  <2>2. queue # <<>> => queue' # <<>> /\ Head(queue') = Head(queue)
    BY <1>1, <1>5
  <2>. QED BY <2>1, <2>2, <1>1 DEF Working
<1>9. QueueTypeOK'
  BY <1>1, <1>2, <1>3, <1>6, <1>8 DEF QueueInv, QueueTypeOK, Working
<1>10. AddedInOrder'
  BY <1>1, <1>7 DEF QueueInv, AddedInOrder
<1>11. ArraysInOrder'
  BY <1>1, <1>6, <1>7 DEF QueueInv, ArraysInOrder
<1>12. OneProcessing'
  <2>1. \A k \in Job : job'[k].status = "processing" => job[k].status = "processing"
    BY <1>1, <1>2
  <2>. QED BY <1>1, <1>8, <2>1 DEF QueueInv, OneProcessing
<1>13. AsideComesLater'
  <2>. SUFFICES ASSUME swapped, NEW i \in Waiting', NEW k \in ToSet(taken), i \in ToSet(queue') \ ToSet(taken)
                PROVE  k < i
    BY <1>1 DEF AsideComesLater
  <2>1. CASE i = j
    BY <2>1, <1>1, AddedLater
  <2>2. CASE i # j
    <3>1. i \in Waiting /\ i \in ToSet(queue)
      BY <2>2, <1>1, <1>2, <1>6 DEF Waiting, Pending
    <3>. QED BY <3>1 DEF QueueInv, AsideComesLater
  <2>. QED BY <2>1, <2>2
<1>14. StatsCount'
  <2>1. \A s \in {"completed", "failed"} : \A k \in Job : job'[k].status = s <=> job[k].status = s
    BY <1>1, <1>2, <1>3
  <2>. QED BY <1>1, <2>1, SameStats DEF QueueInv
<1>. QED BY <1>9, <1>10, <1>11, <1>12, <1>13, <1>14 DEF QueueInv

\* The loop takes up the array of queues: a job is pending where it was, or is the one
\* that is added, and no job is with the processor.
LEMMA LoopTakesUp ==
  ASSUME QueueInv, ~isProcessing, processor', stats' = stats, taken' = taken, swapped' = swapped,
         aside' \in SUBSET Job, processor' \in BOOLEAN,
         NEW jobs \in [Job -> JobRow], NEW array \in Seq(Job), Increasing(array),
         \A j \in Job : jobs[j].status = job[j].status \/ (job[j].status = "unborn" /\ jobs[j].status = "pending"),
         \A i, j \in Job : i < j /\ jobs[j].status # "unborn" => jobs[i].status # "unborn",
         \A j \in ToSet(array) : jobs[j].status # "unborn",
         job' = Proceeds(jobs, array).jobs, queue' = Proceeds(jobs, array).array,
         isProcessing' = Proceeds(jobs, array).busy
  PROVE  QueueInv'
<1>. DEFINE after == Proceeds(jobs, array)
            h == Head(after.array)
<1>1. Advances(jobs, array, after)
  BY ProceedsAdvances
<1>2. job' = after.jobs /\ queue' = after.array /\ isProcessing' = after.busy
  OBVIOUS
<1>. HIDE DEF after
<1>3. ~swapped /\ ~swapped' /\ swapped' \in BOOLEAN /\ taken' \in Seq(Job)
  BY DEF QueueInv, QueueTypeOK
<1>4. Working' = queue'
  BY <1>3 DEF Working
<1>5. \A j \in Job : \/ job'[j] = jobs[j]
                     \/ isProcessing' /\ j = h /\ jobs[j].status = "pending" /\ job'[j].status = "processing"
  BY <1>1, <1>2 DEF Advances, Pending
<1>6. \A j \in Job : job'[j].status = "unborn" <=> jobs[j].status = "unborn"
  BY <1>5
<1>7. QueueTypeOK'
  BY <1>1, <1>2, <1>3, <1>4 DEF QueueInv, QueueTypeOK, Advances
<1>8. AddedInOrder'
  BY <1>6 DEF AddedInOrder, Added
<1>9. ArraysInOrder'
  <2>1. \A j \in Job : job[j].status # "unborn" => job'[j].status # "unborn"
    BY <1>6
  <2>2. ToSet(queue') \subseteq Added'
    <3>1. \A j \in ToSet(queue') : j \in Job /\ jobs[j].status # "unborn"
      <4>1. queue' \in Seq(Job)
        BY <1>1, <1>2 DEF Advances
      <4>2. ToSet(queue') \subseteq ToSet(array)
        BY <1>1, <1>2 DEF Advances
      <4>3. \A j \in ToSet(queue') : j \in Job
        BY <4>1 DEF ToSet
      <4>. QED BY <4>2, <4>3
    <3>. QED BY <3>1, <1>6 DEF Added
  <2>3. ToSet(taken') \subseteq Added'
    BY <2>1 DEF QueueInv, ArraysInOrder, Added
  <2>4. Increasing(queue') /\ Increasing(taken')
    BY <1>1, <1>2 DEF QueueInv, ArraysInOrder, Advances
  <2>. QED BY <2>2, <2>3, <2>4 DEF ArraysInOrder
<1>10. OneProcessing'
  <2>1. \A j \in Job : job[j].status # "processing"
    BY DEF QueueInv, OneProcessing
  <2>2. \A j \in Job : job'[j].status = "processing" => isProcessing' /\ j = h
    BY <2>1, <1>5
  <2>. QED BY <2>2, <1>2, <1>4 DEF OneProcessing
<1>11. AsideComesLater'
  BY <1>3 DEF AsideComesLater
<1>12. StatsCount'
  <2>1. \A s \in {"completed", "failed"} : \A j \in Job : job'[j].status = s <=> job[j].status = s
    BY <1>5
  <2>. QED BY <2>1, SameStats DEF QueueInv
<1>. QED BY <1>7, <1>8, <1>9, <1>10, <1>11, <1>12 DEF QueueInv

LEMMA AddWhileIdle ==
  ASSUME QueueInv, NEW j \in Job, AddSimulatedAlarmCandidate(j), Idles
  PROVE  QueueInv'
<1>. DEFINE more == [job EXCEPT ![j].status = "pending"]
            longer == Append(queue, j)
<1>1. /\ j \notin Added /\ \A i \in Job : i < j => i \in Added
      /\ job' = Proceeds(more, longer).jobs /\ queue' = Proceeds(more, longer).array
      /\ isProcessing' = Proceeds(more, longer).busy
      /\ UNCHANGED <<taken, swapped, processor, stats>>
      /\ aside' \subseteq aside \cup {j} /\ ~isProcessing /\ processor'
  BY DEF AddSimulatedAlarmCandidate, ProcessQueue, Idles
<1>2. more \in [Job -> JobRow] /\ more[j].status = "pending" /\ \A k \in Job \ {j} : more[k] = job[k]
  BY OneMore
<1>3. queue \in Seq(Job) /\ Increasing(queue) /\ \A k \in ToSet(queue) : k < j
  BY <1>1, AddedLater DEF QueueInv, QueueTypeOK, ArraysInOrder
<1>4. longer \in Seq(Job) /\ Increasing(longer) /\ ToSet(longer) = ToSet(queue) \cup {j}
  BY <1>3, AppendToArray
<1>. HIDE DEF more, longer
<1>5. \A k \in Job : more[k].status = job[k].status \/ (job[k].status = "unborn" /\ more[k].status = "pending")
  <2>1. job[j].status = "unborn"
    BY <1>1 DEF Added
  <2>. QED BY <2>1, <1>2
<1>6. \A i, k \in Job : i < k /\ more[k].status # "unborn" => more[i].status # "unborn"
  <2>1. \A i \in Job : more[i].status # "unborn" <=> i \in Added \cup {j}
    BY <1>2 DEF Added
  <2>2. \A i, k \in Job : i < k /\ k \in Added \cup {j} => i \in Added
    BY <1>1 DEF QueueInv, AddedInOrder
  <2>. QED BY <2>1, <2>2
<1>7. \A k \in ToSet(longer) : more[k].status # "unborn"
  BY <1>2, <1>4 DEF QueueInv, ArraysInOrder, Added
<1>8. aside' \in SUBSET Job /\ processor' \in BOOLEAN
  BY <1>1 DEF QueueInv, QueueTypeOK
<1>. QED BY <1>1, <1>2, <1>4, <1>5, <1>6, <1>7, <1>8, LoopTakesUp

LEMMA RegisterKeeps ==
  ASSUME QueueInv, RegisterProcessor
  PROVE  QueueInv'
<1>1. /\ job' = Proceeds(job, queue).jobs /\ queue' = Proceeds(job, queue).array
      /\ isProcessing' = Proceeds(job, queue).busy
      /\ UNCHANGED <<taken, swapped, stats, aside>> /\ processor' = TRUE /\ ~processor
  BY DEF RegisterProcessor
<1>2. ~isProcessing
  BY <1>1 DEF QueueInv, OneProcessing
<1>3. job \in [Job -> JobRow] /\ queue \in Seq(Job) /\ Increasing(queue) /\ aside' \in SUBSET Job
  BY <1>1 DEF QueueInv, QueueTypeOK, ArraysInOrder
<1>4. \A i, j \in Job : i < j /\ job[j].status # "unborn" => job[i].status # "unborn"
  BY DEF QueueInv, AddedInOrder, Added
<1>5. \A j \in ToSet(queue) : job[j].status # "unborn"
  BY DEF QueueInv, ArraysInOrder, Added
<1>6. processor' /\ processor' \in BOOLEAN /\ taken' = taken /\ swapped' = swapped /\ stats' = stats
  BY <1>1
<1>7. \A j \in Job : job[j].status = job[j].status \/ (job[j].status = "unborn" /\ job[j].status = "pending")
  OBVIOUS
<1>. QED BY <1>1, <1>2, <1>3, <1>4, <1>5, <1>6, <1>7, LoopTakesUp

\* Once the job at the head of the loop's array is settled, the loop goes on with the rest.
Settled(outcome) == [job EXCEPT ![Head(Working)].status = outcome]
Resumes(outcome) == Proceeds(Settled(outcome), Tail(Working))

LEMMA SettleForm ==
  ASSUME QueueInv, isProcessing, NEW outcome \in {"completed", "failed"}
  PROVE  /\ Working \in Seq(Job) /\ Increasing(Working) /\ ToSet(Working) \subseteq Added
         /\ Head(Working) \in Job /\ Head(Working) \in ToSet(Working)
         /\ job[Head(Working)].status = "processing"
         /\ \A j \in Job : job[j].status = "processing" => j = Head(Working)
         /\ ToSet(Tail(Working)) = ToSet(Working) \ {Head(Working)}
         /\ Settled(outcome)[Head(Working)].status = outcome
         /\ \A j \in Job \ {Head(Working)} : Settled(outcome)[j] = job[j]
         /\ Advances(Settled(outcome), Tail(Working), Resumes(outcome))
<1>. DEFINE h == Head(Working)
<1>1. Working \in Seq(Job) /\ Working # <<>> /\ Increasing(Working) /\ ToSet(Working) \subseteq Added
      /\ job[h].status = "processing"
  BY DEF QueueInv, QueueTypeOK, ArraysInOrder, Working
<1>2. /\ h \in Job /\ h \in ToSet(Working)
      /\ Tail(Working) \in Seq(Job) /\ Increasing(Tail(Working))
      /\ ToSet(Tail(Working)) = ToSet(Working) \ {h}
  BY <1>1, HeadOfArray
<1>3. job \in [Job -> JobRow] /\ job[h] \in JobRow
  BY <1>2 DEF QueueInv, QueueTypeOK
<1>. DEFINE n == [job[h] EXCEPT !.status = outcome]
<1>4. n \in JobRow /\ n.status = outcome
  BY <1>3 DEF JobRow
<1>5. Settled(outcome) = [job EXCEPT ![h] = n]
  BY DEF Settled
<1>. HIDE DEF n
<1>6. Settled(outcome) \in [Job -> JobRow] /\ Settled(outcome)[h] = n
      /\ \A j \in Job \ {h} : Settled(outcome)[j] = job[j]
  <2>. HIDE DEF h, JobRow
  <2>. QED BY <1>2, <1>3, <1>4, <1>5
<1>7. Advances(Settled(outcome), Tail(Working), Resumes(outcome))
  BY <1>2, <1>6, ProceedsAdvances DEF Resumes
<1>8. \A j \in Job : job[j].status = "processing" => j = h
  BY DEF QueueInv, OneProcessing
<1>. QED BY <1>1, <1>2, <1>4, <1>6, <1>7, <1>8

\* What becomes of each job in that step.
LEMMA SettleStatus ==
  ASSUME QueueInv, NEW outcome \in {"completed", "failed"}, Settle(outcome)
  PROVE  /\ job[Head(Working)].status = "processing" /\ job'[Head(Working)].status = outcome
         /\ \A j \in Job \ {Head(Working)} :
              \/ job'[j] = job[j] /\ job[j].status # "processing"
              \/ /\ Resumes(outcome).busy /\ j = Head(Resumes(outcome).array)
                 /\ job[j].status = "pending" /\ job'[j].status = "processing"
<1>. DEFINE h == Head(Working)
            after == Resumes(outcome)
<1>1. isProcessing /\ job' = after.jobs
  BY DEF Settle, Resumes, Settled
<1>2. /\ h \in Job /\ job[h].status = "processing" /\ \A j \in Job : job[j].status = "processing" => j = h
      /\ Settled(outcome)[h].status = outcome
      /\ \A j \in Job \ {h} : Settled(outcome)[j] = job[j]
      /\ Advances(Settled(outcome), Tail(Working), after)
  BY <1>1, SettleForm
<1>. HIDE DEF h, after
<1>3. CASE ~after.busy
  <2>1. job' = Settled(outcome)
    BY <1>1, <1>2, <1>3 DEF Advances
  <2>. QED BY <2>1, <1>2 DEF h
<1>4. CASE after.busy
  <2>1. /\ Pending(Settled(outcome), Head(after.array)) /\ Head(after.array) \in Job
        /\ job'[Head(after.array)].status = "processing"
        /\ \A j \in Job \ {Head(after.array)} : job'[j] = Settled(outcome)[j]
    BY <1>1, <1>2, <1>4 DEF Advances
  <2>2. Head(after.array) # h
    BY <2>1, <1>2 DEF Pending
  <2>3. job'[h].status = outcome
    BY <2>1, <2>2, <1>2
  <2>4. job[Head(after.array)].status = "pending"
    BY <2>1, <2>2, <1>2 DEF Pending
  <2>5. \A j \in Job \ {h} : \/ job'[j] = job[j] /\ job[j].status # "processing"
                             \/ /\ after.busy /\ j = Head(after.array)
                                /\ job[j].status = "pending" /\ job'[j].status = "processing"
    BY <2>1, <2>4, <1>2, <1>4
  <2>. QED BY <2>3, <2>5, <1>2 DEF h, after
<1>. QED BY <1>3, <1>4

LEMMA SettleKeeps ==
  ASSUME QueueInv, NEW outcome \in {"completed", "failed"}, Settle(outcome)
  PROVE  QueueInv'
<1>. DEFINE h == Head(Working)
            after == Resumes(outcome)
<1>1. /\ isProcessing /\ job' = after.jobs /\ isProcessing' = after.busy
      /\ stats' = [stats EXCEPT ![outcome] = @ + 1]
      /\ swapped' = (swapped /\ after.busy) /\ UNCHANGED <<processor, aside>>
      /\ swapped => taken' = after.array /\ queue' = queue
      /\ ~swapped => queue' = after.array /\ taken' = taken
  BY DEF Settle, Resumes, Settled
<1>2. /\ Working \in Seq(Job) /\ ToSet(Working) \subseteq Added
      /\ h \in Job /\ h \in ToSet(Working)
      /\ ToSet(Tail(Working)) = ToSet(Working) \ {h}
      /\ Settled(outcome)[h].status = outcome
      /\ \A j \in Job \ {h} : Settled(outcome)[j] = job[j]
      /\ Advances(Settled(outcome), Tail(Working), after)
  BY <1>1, SettleForm
<1>3. /\ job[h].status = "processing" /\ job'[h].status = outcome
      /\ \A j \in Job \ {h} :
           \/ job'[j] = job[j] /\ job[j].status # "processing"
           \/ after.busy /\ j = Head(after.array) /\ job[j].status = "pending" /\ job'[j].status = "processing"
  BY SettleStatus
<1>. HIDE DEF h, after
<1>4. after.busy \in BOOLEAN /\ swapped \in BOOLEAN
  BY <1>2 DEF Advances, QueueInv, QueueTypeOK
<1>5. Working = IF swapped THEN taken ELSE queue
  BY DEF Working
<1>6. Added' = Added
  BY <1>2, <1>3 DEF Added
<1>7. after.array \in Seq(Job) /\ Increasing(after.array) /\ ToSet(after.array) \subseteq ToSet(Working) \ {h}
  BY <1>2 DEF Advances
<1>8. after.busy => Working' = after.array
  BY <1>1 DEF Working
<1>9. QueueTypeOK'
  <2>1. job' \in [Job -> JobRow] /\ isProcessing' \in BOOLEAN /\ swapped' \in BOOLEAN /\ (swapped' => isProcessing')
    BY <1>1, <1>2, <1>4 DEF Advances
  <2>2. queue' \in Seq(Job) /\ taken' \in Seq(Job) /\ processor' \in BOOLEAN /\ aside' \subseteq Job
    BY <1>1, <1>4, <1>7 DEF QueueInv, QueueTypeOK
  <2>3. stats' \in [completed : Nat, failed : Nat]
    BY <1>1 DEF QueueInv, QueueTypeOK
  <2>4. isProcessing' => Working' # <<>> /\ job'[Head(Working')].status = "processing"
    BY <1>1, <1>2, <1>8 DEF Advances
  <2>. QED BY <2>1, <2>2, <2>3, <2>4 DEF QueueTypeOK
<1>10. AddedInOrder'
  BY <1>6 DEF QueueInv, AddedInOrder
<1>11. ArraysInOrder'
  <2>1. CASE swapped
    BY <2>1, <1>1, <1>2, <1>6, <1>7 DEF QueueInv, ArraysInOrder
  <2>2. CASE ~swapped
    BY <2>2, <1>1, <1>2, <1>6, <1>7 DEF QueueInv, ArraysInOrder
  <2>. QED BY <2>1, <2>2
<1>12. OneProcessing'
  <2>1. processor'
    BY <1>1 DEF QueueInv, OneProcessing
  <2>2. \A j \in Job : job'[j].status = "processing" => after.busy /\ j = Head(after.array)
    BY <1>3
  <2>. QED BY <2>1, <2>2, <1>1, <1>8 DEF OneProcessing
<1>13. AsideComesLater'
  <2>. SUFFICES ASSUME swapped', NEW j \in Waiting', NEW k \in ToSet(taken'), j \in ToSet(queue') \ ToSet(taken')
                PROVE  k < j
    BY DEF AsideComesLater
  <2>1. swapped /\ taken' = after.array /\ queue' = queue /\ Working = taken
    BY <1>1, <1>4, <1>5
  <2>2. j \in Waiting /\ j # h
    BY <1>2, <1>3 DEF Waiting, Pending
  <2>3. Pending(Settled(outcome), j)
    BY <2>2, <1>2 DEF Waiting, Pending
  <2>4. j \notin ToSet(taken)
    BY <2>1, <2>2, <2>3, <1>2 DEF Advances
  <2>5. k \in ToSet(taken)
    BY <2>1, <1>7
  <2>. QED BY <2>1, <2>2, <2>4, <2>5 DEF QueueInv, AsideComesLater
<1>14. StatsCount'
  <2>1. OfStatus(outcome)' = OfStatus(outcome) \cup {h} /\ h \notin OfStatus(outcome)
    BY <1>2, <1>3 DEF OfStatus
  <2>2. \A s \in {"completed", "failed"} : s # outcome => OfStatus(s)' = OfStatus(s)
    BY <1>2, <1>3 DEF OfStatus
  <2>3. IsFiniteSet(OfStatus(outcome))
    <3>1. IsFiniteSet(Job) /\ OfStatus(outcome) \in SUBSET Job
      BY QueueAssumption, FS_Interval DEF Job, OfStatus
    <3>. QED BY <3>1, FS_Subset
  <2>4. Cardinality(OfStatus(outcome)') = Cardinality(OfStatus(outcome)) + 1
    BY <2>1, <2>3, FS_AddElement
  <2>5. stats \in [completed : Nat, failed : Nat]
    BY DEF QueueInv, QueueTypeOK
  <2>6. stats'[outcome] = stats[outcome] + 1 /\ \A s \in {"completed", "failed"} : s # outcome => stats'[s] = stats[s]
    BY <1>1, <2>5
  <2>. HIDE DEF OfStatus
  <2>7. ASSUME NEW s \in {"completed", "failed"}
        PROVE  stats'[s] = Cardinality(OfStatus(s)')
    <3>1. stats[s] = Cardinality(OfStatus(s))
      BY DEF QueueInv, StatsCount
    <3>2. CASE s = outcome
      BY <3>1, <3>2, <2>4, <2>6
    <3>3. CASE s # outcome
      BY <3>1, <3>3, <2>2, <2>6
    <3>. QED BY <3>2, <3>3
  <2>. QED BY <2>7 DEF StatsCount
<1>. QED BY <1>9, <1>10, <1>11, <1>12, <1>13, <1>14 DEF QueueInv

\* Another array, of jobs that were in the one it replaces.
LEMMA ReplaceKeeps ==
  ASSUME QueueInv, NEW array \in Seq(Job), Increasing(array), ToSet(array) \subseteq ToSet(queue), Replace(array)
  PROVE  QueueInv'
<1>1. /\ queue' = array /\ swapped' = isProcessing /\ UNCHANGED <<job, isProcessing, processor, stats, aside>>
      /\ taken' = IF isProcessing THEN Working ELSE <<>>
  BY DEF Replace
<1>2. Added' = Added /\ Waiting' = Waiting
  BY <1>1 DEF Added, Waiting
<1>3. Working \in Seq(Job) /\ Increasing(Working) /\ ToSet(Working) \subseteq Added
  BY DEF QueueInv, QueueTypeOK, ArraysInOrder, Working
<1>4. taken' \in Seq(Job) /\ Increasing(taken') /\ ToSet(taken') \subseteq Added
  <2>1. <<>> \in Seq(Job) /\ Increasing(<<>>) /\ ToSet(<<>>) = {}
    BY DEF Increasing, ToSet
  <2>. QED BY <2>1, <1>1, <1>3
<1>5. isProcessing \in BOOLEAN /\ (isProcessing => Working' = Working)
  BY <1>1 DEF QueueInv, QueueTypeOK, Working
<1>6. QueueTypeOK'
  <2>1. isProcessing => Working # <<>> /\ job[Head(Working)].status = "processing"
    BY DEF QueueInv, QueueTypeOK
  <2>2. isProcessing' => Working' # <<>> /\ job'[Head(Working')].status = "processing"
    BY <2>1, <1>1, <1>5
  <2>. QED BY <2>2, <1>1, <1>4, <1>5 DEF QueueInv, QueueTypeOK
<1>7. AddedInOrder'
  BY <1>2 DEF QueueInv, AddedInOrder
<1>8. ArraysInOrder'
  BY <1>1, <1>2, <1>4 DEF QueueInv, ArraysInOrder
<1>9. OneProcessing'
  BY <1>1, <1>5 DEF QueueInv, OneProcessing
<1>10. AsideComesLater'
  <2>. SUFFICES ASSUME isProcessing, NEW j \in Waiting, NEW k \in ToSet(Working), j \in ToSet(array) \ ToSet(Working)
                PROVE  k < j
    BY <1>1, <1>2 DEF AsideComesLater
  <2>1. swapped /\ Working = taken
    BY DEF Working
  <2>. QED BY <2>1 DEF QueueInv, AsideComesLater
<1>11. StatsCount'
  BY <1>1, SameStats DEF QueueInv
<1>. QED BY <1>6, <1>7, <1>8, <1>9, <1>10, <1>11 DEF QueueInv

\* The arrays that clearQueue and clearProcessedJobs put in place.
LEMMA ClearForms ==
  ASSUME QueueInv, ClearQueue \/ ClearProcessedJobs
  PROVE  \E array \in Seq(Job) :
           /\ Increasing(array) /\ ToSet(array) \subseteq ToSet(queue) /\ Replace(array)
<1>1. CASE ClearQueue
  <2>1. <<>> \in Seq(Job) /\ Increasing(<<>>) /\ ToSet(<<>>) \subseteq ToSet(queue)
    BY DEF Increasing, ToSet
  <2>. QED BY <1>1, <2>1 DEF ClearQueue
<1>2. CASE ClearProcessedJobs
  <2>. DEFINE places == {i \in DOMAIN queue : job[queue[i]].status \in {"pending", "processing"}}
              array == Filter(queue, places)
  <2>1. array \in Seq(Job) /\ Increasing(array) /\ ToSet(array) = {queue[i] : i \in places}
    <3>1. queue \in Seq(Job) /\ Increasing(queue) /\ places \in SUBSET DOMAIN queue
      BY DEF QueueInv, QueueTypeOK, ArraysInOrder
    <3>. HIDE DEF places
    <3>. QED BY <3>1, FilterOfArray
  <2>2. ToSet(array) \subseteq ToSet(queue)
    BY <2>1 DEF ToSet
  <2>3. Replace(array)
    BY <1>2 DEF ClearProcessedJobs
  <2>. HIDE DEF array
  <2>. QED BY <2>1, <2>2, <2>3
<1>. QED BY <1>1, <1>2

LEMMA QueueInit ==
  ASSUME Init
  PROVE  QueueInv
<1>1. /\ \A j \in Job : job[j].status = "unborn"
      /\ job \in [Job -> JobRow]
  BY DEF Init, JobRow
<1>2. Added = {} /\ ToSet(<<>>) = {} /\ Increasing(<<>>) /\ Waiting = {}
  BY <1>1 DEF Added, ToSet, Increasing, Waiting, Pending
<1>3. \A s \in {"completed", "failed"} : OfStatus(s) = {}
  BY <1>1 DEF OfStatus
<1>4. StatsCount
  <2>1. Cardinality({}) = 0
    BY FS_EmptySet
  <2>2. \A s \in {"completed", "failed"} : stats[s] = 0
    BY DEF Init
  <2>. QED BY <1>3, <2>1, <2>2 DEF StatsCount
<1>5. QueueTypeOK
  <2>1. queue \in Seq(Job) /\ taken \in Seq(Job) /\ aside \subseteq Job /\ stats \in [completed : Nat, failed : Nat]
    BY DEF Init
  <2>2. ~swapped /\ ~isProcessing /\ swapped \in BOOLEAN /\ isProcessing \in BOOLEAN /\ processor \in BOOLEAN
    BY DEF Init
  <2>. QED BY <1>1, <2>1, <2>2 DEF QueueTypeOK
<1>6. AddedInOrder /\ ArraysInOrder /\ AsideComesLater
  BY <1>2 DEF Init, AddedInOrder, ArraysInOrder, AsideComesLater
<1>7. OneProcessing
  BY <1>1 DEF Init, OneProcessing
<1>. QED BY <1>4, <1>5, <1>6, <1>7 DEF QueueInv

LEMMA QueueStep ==
  ASSUME QueueInv, [Next]_vars
  PROVE  QueueInv'
<1>1. ASSUME NEW j \in Job, AddSimulatedAlarmCandidate(j)
      PROVE  QueueInv'
  BY <1>1, AddWhileBusy, AddWhileIdle
<1>2. CASE RegisterProcessor
  BY <1>2, RegisterKeeps
<1>3. ASSUME NEW outcome \in {"completed", "failed"}, Settle(outcome)
      PROVE  QueueInv'
  BY <1>3, SettleKeeps
<1>4. CASE ClearQueue \/ ClearProcessedJobs
  BY <1>4, ClearForms, ReplaceKeeps
<1>5. CASE UNCHANGED vars
  BY <1>5 DEF vars, QueueInv, QueueTypeOK, AddedInOrder, Added, ArraysInOrder, OneProcessing, AsideComesLater,
     Waiting, Working, StatsCount, OfStatus
<1>. QED BY <1>1, <1>2, <1>3, <1>4, <1>5 DEF Next

\* The arrays, the job with the processor and the numbers agree with the jobs' statuses,
\* whatever is added, settled or cleared.
THEOREM QueueInvCorrect == Spec => []QueueInv
<1>. QED BY QueueInit, QueueStep, PTL DEF Spec

\* Every variable of the queue keeps its type, and the job at the head of the loop's array
\* is the one that the processor has.
THEOREM TypeCorrect == Spec => []QueueTypeOK
<1>1. QueueInv => QueueTypeOK
  BY DEF QueueInv
<1>. QED BY <1>1, QueueInvCorrect, PTL

-----------------------------------------------------------------------------
\* The statistics

\* The places of an array that hold jobs of a status are as many as those jobs.
LEMMA CountIsOfStatus ==
  ASSUME QueueInv, NEW s, OfStatus(s) \subseteq ToSet(queue)
  PROVE  CountOf(s) = Cardinality(OfStatus(s))
<1>. DEFINE places == {i \in DOMAIN queue : job[queue[i]].status = s}
            at == [i \in places |-> queue[i]]
<1>1. queue \in Seq(Job) /\ DOMAIN queue = 1 .. Len(queue) /\ Len(queue) \in Nat
      /\ \A i \in DOMAIN queue : queue[i] \in Job
  BY DEF QueueInv, QueueTypeOK
<1>2. places \subseteq DOMAIN queue /\ \A i \in places : at[i] = queue[i]
  OBVIOUS
<1>3. at \in [places -> OfStatus(s)]
  BY <1>1 DEF OfStatus
<1>4. ASSUME NEW i \in places, NEW k \in places, at[i] = at[k]
      PROVE  i = k
  <2>1. i \in Int /\ k \in Int /\ queue[i] = queue[k] /\ queue[i] \in Int
    BY <1>1, <1>2, <1>4, QueueAssumption DEF Job
  <2>2. ~ i < k /\ ~ k < i
    <3>. HIDE DEF places
    <3>. QED BY <2>1, <1>2 DEF QueueInv, ArraysInOrder, Increasing
  <2>. QED BY <2>1, <2>2
<1>5. ASSUME NEW j \in OfStatus(s)
      PROVE  \E i \in places : at[i] = j
  <2>1. j \in ToSet(queue) /\ job[j].status = s
    BY DEF OfStatus
  <2>. QED BY <2>1 DEF ToSet
<1>6. IsFiniteSet(places)
  <2>1. IsFiniteSet(DOMAIN queue)
    BY <1>1, FS_Interval
  <2>. HIDE DEF places
  <2>. QED BY <2>1, <1>2, FS_Subset
<1>. HIDE DEF at, places
<1>7. at \in Bijection(places, OfStatus(s))
  BY <1>3, <1>4, <1>5 DEF Bijection, Injection, Surjection, IsInjective
<1>8. ExistsBijection(places, OfStatus(s))
  BY <1>7 DEF ExistsBijection
<1>9. Cardinality(OfStatus(s)) = Cardinality(places)
  BY <1>6, <1>8, FS_Bijection
<1>. QED BY <1>9 DEF places, CountOf

\* Disjoint parts of the jobs are as many as their jobs together.
LEMMA PartsAddUp ==
  ASSUME NEW S \in SUBSET Job, NEW T \in SUBSET Job, S \cap T = {}
  PROVE  /\ Cardinality(S \cup T) = Cardinality(S) + Cardinality(T)
         /\ Cardinality(S) \in Nat /\ Cardinality(T) \in Nat
<1>1. IsFiniteSet(Job)
  BY QueueAssumption, FS_Interval DEF Job
<1>2. IsFiniteSet(S) /\ IsFiniteSet(T)
  BY <1>1, FS_Subset
<1>3. Cardinality(S \cup T) = Cardinality(S) + Cardinality(T) - Cardinality(S \cap T)
  BY <1>2, FS_Union
<1>4. Cardinality(S) \in Nat /\ Cardinality(T) \in Nat
  BY <1>2, FS_CardinalityType
<1>5. Cardinality(S \cap T) = 0
  BY FS_EmptySet
<1>. QED BY <1>3, <1>4, <1>5

LEMMA StatsFromInv ==
  ASSUME QueueInv
  PROVE  StatsAccount
<1>. SUFFICES ASSUME Lost = {}, ~swapped
              PROVE  CountOf("pending") + CountOf("processing") + stats.completed + stats.failed = Cardinality(Added)
  BY DEF StatsAccount
<1>1. Working = queue
  BY DEF Working
<1>2. OfStatus("pending") \subseteq ToSet(queue)
  BY <1>1 DEF Lost, Waiting, Pending, OfStatus
<1>3. OfStatus("processing") \subseteq ToSet(queue)
  <2>1. \A j \in Job : job[j].status = "processing" => isProcessing /\ j = Head(queue)
    BY <1>1 DEF QueueInv, OneProcessing
  <2>2. isProcessing => Head(queue) \in ToSet(queue)
    BY <1>1, HeadOfArray DEF QueueInv, QueueTypeOK, ArraysInOrder
  <2>. QED BY <2>1, <2>2 DEF OfStatus
<1>4. CountOf("pending") = Cardinality(OfStatus("pending")) /\ CountOf("processing") = Cardinality(OfStatus("processing"))
  BY <1>2, <1>3, CountIsOfStatus
<1>5. stats.completed = Cardinality(OfStatus("completed")) /\ stats.failed = Cardinality(OfStatus("failed"))
  <2>1. stats["completed"] = Cardinality(OfStatus("completed")) /\ stats["failed"] = Cardinality(OfStatus("failed"))
    BY DEF QueueInv, StatsCount
  <2>2. stats \in [completed : Nat, failed : Nat]
    BY DEF QueueInv, QueueTypeOK
  <2>. QED BY <2>1, <2>2
<1>6. \A s : OfStatus(s) \in SUBSET Job
  BY DEF OfStatus
<1>7. \A s, t : s # t => OfStatus(s) \cap OfStatus(t) = {}
  BY DEF OfStatus
<1>8. Added = ((OfStatus("pending") \cup OfStatus("processing")) \cup OfStatus("completed")) \cup OfStatus("failed")
  <2>1. \A j \in Job : job[j].status \in {"unborn", "pending", "processing", "completed", "failed"}
    BY DEF QueueInv, QueueTypeOK, JobRow
  <2>. QED BY <2>1 DEF Added, OfStatus
<1>. DEFINE P == OfStatus("pending")
            R == OfStatus("processing")
            C == OfStatus("completed")
            F == OfStatus("failed")
<1>9. /\ P \in SUBSET Job /\ R \in SUBSET Job /\ C \in SUBSET Job /\ F \in SUBSET Job
      /\ P \cap R = {} /\ P \cap C = {} /\ P \cap F = {} /\ R \cap C = {} /\ R \cap F = {} /\ C \cap F = {}
  BY <1>6, <1>7
<1>10. Added = ((P \cup R) \cup C) \cup F
  BY <1>8
<1>. HIDE DEF P, R, C, F
<1>11. Cardinality(P \cup R) = Cardinality(P) + Cardinality(R) /\ Cardinality(P) \in Nat /\ Cardinality(R) \in Nat
  BY <1>9, PartsAddUp
<1>12. Cardinality((P \cup R) \cup C) = Cardinality(P \cup R) + Cardinality(C) /\ Cardinality(C) \in Nat
  <2>1. P \cup R \in SUBSET Job /\ (P \cup R) \cap C = {}
    BY <1>9
  <2>. QED BY <2>1, <1>9, PartsAddUp
<1>13. Cardinality(Added) = Cardinality((P \cup R) \cup C) + Cardinality(F) /\ Cardinality(F) \in Nat
  <2>1. (P \cup R) \cup C \in SUBSET Job /\ ((P \cup R) \cup C) \cap F = {}
    BY <1>9
  <2>. QED BY <2>1, <1>9, <1>10, PartsAddUp
<1>14. Cardinality(Added) = Cardinality(P) + Cardinality(R) + Cardinality(C) + Cardinality(F)
  BY <1>11, <1>12, <1>13
<1>. QED BY <1>4, <1>5, <1>14 DEF P, R, C, F

\* The numbers of getQueueStats account for every job that was added, unless the queue
\* was cleared or is being drained under another array.
THEOREM StatsAccountCorrect == Spec => []StatsAccount
<1>. QED BY StatsFromInv, QueueInvCorrect, PTL

-----------------------------------------------------------------------------
\* The queue implements AlarmDelivery

\* The stage of each job.
LEMMA StageOfJob ==
  ASSUME job \in [Job -> JobRow], NEW j \in Job
  PROVE  /\ stage[j] = "unborn"  <=> job[j].status = "unborn"
         /\ stage[j] = "waiting" <=> job[j].status = "pending" /\ j \notin Lost
         /\ stage[j] = "running" <=> job[j].status = "processing"
         /\ stage[j] = "done"    <=> job[j].status \in {"completed", "failed"}
         /\ stage[j] = "dropped" <=> j \in Lost
<1>1. stage[j] = IF j \in Lost THEN "dropped" ELSE StageAs[job[j].status]
  BY DEF stage
<1>2. job[j].status \in {"unborn", "pending", "processing", "completed", "failed"}
  BY DEF JobRow
<1>3. j \in Lost => job[j].status = "pending"
  BY DEF Lost, Waiting, Pending
<1>4. /\ StageAs["unborn"] = "unborn" /\ StageAs["pending"] = "waiting" /\ StageAs["processing"] = "running"
      /\ StageAs["completed"] = "done" /\ StageAs["failed"] = "done"
  BY DEF StageAs
<1>. QED BY <1>1, <1>2, <1>3, <1>4

\* A job that stays lost or not, and whose status stays, keeps its stage.
LEMMA SameStage ==
  ASSUME NEW j \in Job, job'[j].status = job[j].status, j \in Lost' <=> j \in Lost
  PROVE  stage'[j] = stage[j]
BY DEF stage

LEMMA NewStage ==
  ASSUME NEW j \in Job, j \notin Lost'
  PROVE  stage'[j] = StageAs[job'[j].status]
BY DEF stage

LEMMA StageNames ==
  /\ StageAs["unborn"] = "unborn" /\ StageAs["pending"] = "waiting" /\ StageAs["processing"] = "running"
  /\ StageAs["completed"] = "done" /\ StageAs["failed"] = "done"
BY DEF StageAs

\* The stages of one or two jobs change.
LEMMA StagesMove ==
  ASSUME NEW j \in Job, NEW k \in Job, NEW s, NEW t, stage'[j] = s, stage'[k] = t, j = k => s = t,
         \A i \in Job \ {j, k} : stage'[i] = stage[i]
  PROVE  /\ stage' = [stage EXCEPT ![j] = s, ![k] = t]
         /\ j = k => stage' = [stage EXCEPT ![j] = s]
<1>1. stage = [i \in Job |-> stage[i]] /\ stage' = [i \in Job |-> stage'[i]]
  BY DEF stage
<1>. HIDE DEF stage
<1>2. [stage EXCEPT ![j] = s, ![k] = t] = [i \in Job |-> IF i = k THEN t ELSE IF i = j THEN s ELSE stage[i]]
  BY <1>1
<1>3. [stage EXCEPT ![j] = s] = [i \in Job |-> IF i = j THEN s ELSE stage[i]]
  BY <1>1
<1>. QED BY <1>1, <1>2, <1>3

\* While the loop takes up the array of queues, what is pending elsewhere is lost.
LEMMA LostByLoop ==
  ASSUME QueueInv, NEW jobs, NEW array, NEW after, Advances(jobs, array, after),
         job' = after.jobs, queue' = after.array, ~swapped'
  PROVE  \A k \in Job : k \in Lost' <=> jobs[k].status = "pending" /\ k \notin ToSet(array)
<1>. TAKE k \in Job
<1>1. Working' = queue'
  BY DEF Working
<1>2. k \in Lost' <=> job'[k].status = "pending" /\ k \notin ToSet(after.array)
  BY <1>1 DEF Lost, Waiting, Pending
<1>3. CASE ~after.busy
  <2>1. job' = jobs
    BY <1>3 DEF Advances
  <2>. QED BY <1>2, <2>1 DEF Advances, Pending
<1>4. CASE after.busy
  <2>1. /\ Head(after.array) \in ToSet(array) /\ Head(after.array) \in ToSet(after.array)
        /\ job'[Head(after.array)].status = "processing"
        /\ \A i \in Job \ {Head(after.array)} : job'[i] = jobs[i]
    BY <1>4 DEF Advances
  <2>2. CASE k = Head(after.array)
    BY <2>1, <2>2, <1>2
  <2>3. CASE k # Head(after.array)
    <3>1. job'[k] = jobs[k]
      BY <2>1, <2>3
    <3>. QED BY <1>2, <3>1 DEF Advances, Pending
  <2>. QED BY <2>2, <2>3
<1>. QED BY <1>3, <1>4

\* A job that is added goes to the ones that wait.
LEMMA AddBusyDelivers ==
  ASSUME QueueInv, NEW j \in Job, AddSimulatedAlarmCandidate(j), ~Idles
  PROVE  Delivery!Add(j)
<1>. DEFINE more == [job EXCEPT ![j].status = "pending"]
<1>1. /\ j \notin Added /\ \A i \in Job : i < j => i \in Added
      /\ job' = more /\ queue' = Append(queue, j) /\ UNCHANGED <<taken, swapped>>
  BY DEF AddSimulatedAlarmCandidate, ProcessQueue
<1>2. more[j].status = "pending" /\ \A k \in Job \ {j} : more[k] = job[k]
  BY OneMore
<1>. HIDE DEF more
<1>3. ToSet(queue') = ToSet(queue) \cup {j}
  BY <1>1, AddedLater, AppendToArray DEF QueueInv, QueueTypeOK, ArraysInOrder
<1>4. \A k \in Job : k \in Lost' <=> k \in Lost
  <2>1. ToSet(Working') \subseteq ToSet(Working) \cup {j} /\ ToSet(Working) \subseteq ToSet(Working')
    BY <1>1, <1>3 DEF Working
  <2>2. \A k \in Job \ {j} : k \in Waiting' <=> k \in Waiting
    BY <1>1, <1>2 DEF Waiting, Pending
  <2>3. j \notin Lost' /\ j \notin Lost
    BY <1>1, <1>3 DEF Lost, Waiting, Pending, Added
  <2>. QED BY <1>3, <2>1, <2>2, <2>3 DEF Lost
<1>5. job \in [Job -> JobRow]
  BY DEF QueueInv, QueueTypeOK
<1>6. stage[j] = "unborn" /\ \A i \in Job : i < j => stage[i] # "unborn"
  BY <1>1, <1>5, StageOfJob DEF Added
<1>7. stage'[j] = "waiting"
  <2>1. j \notin Lost'
    BY <1>3 DEF Lost
  <2>. QED BY <2>1, <1>1, <1>2, NewStage, StageNames
<1>8. \A i \in Job \ {j} : stage'[i] = stage[i]
  BY <1>1, <1>2, <1>4, SameStage
<1>9. stage' = [stage EXCEPT ![j] = "waiting"]
  BY <1>7, <1>8, StagesMove
<1>. HIDE DEF stage
<1>. QED BY <1>6, <1>9 DEF Delivery!Add, Delivery!Job, Job

\* The jobs of AlarmDelivery that wait, and those that run.
LEMMA StageSets ==
  ASSUME QueueInv
  PROVE  /\ Delivery!AtStage("waiting") = Waiting \ Lost
         /\ Delivery!AtStage("running") = OfStatus("processing")
         /\ Waiting \ Lost = Waiting \cap (ToSet(queue) \cup ToSet(Working))
<1>1. \A j \in Job : /\ stage[j] = "waiting" <=> job[j].status = "pending" /\ j \notin Lost
                     /\ stage[j] = "running" <=> job[j].status = "processing"
  BY StageOfJob DEF QueueInv, QueueTypeOK
<1>. HIDE DEF stage
<1>2. Delivery!Job = Job
  BY DEF Delivery!Job, Job
<1>3. Delivery!AtStage("waiting") = {j \in Job : stage[j] = "waiting"}
      /\ Delivery!AtStage("running") = {j \in Job : stage[j] = "running"}
  BY <1>2 DEF Delivery!AtStage
<1>. QED BY <1>1, <1>3 DEF Waiting, Pending, OfStatus, Lost

\* A job that is added to a queue at rest starts the loop, with the job that was first.
LEMMA AddIdleDelivers ==
  ASSUME QueueInv, NEW j \in Job, AddSimulatedAlarmCandidate(j), Idles
  PROVE  Delivery!AddAndStart(j)
<1>. DEFINE more == [job EXCEPT ![j].status = "pending"]
            longer == Append(queue, j)
            after == Proceeds(more, longer)
            h == Head(after.array)
<1>1. /\ j \notin Added /\ \A i \in Job : i < j => i \in Added
      /\ job' = after.jobs /\ queue' = after.array
      /\ ~isProcessing /\ swapped' = swapped
  BY DEF AddSimulatedAlarmCandidate, ProcessQueue, Idles
<1>2. more \in [Job -> JobRow] /\ more[j].status = "pending" /\ \A k \in Job \ {j} : more[k] = job[k]
  BY OneMore
<1>3. longer \in Seq(Job) /\ Increasing(longer) /\ ToSet(longer) = ToSet(queue) \cup {j}
  BY <1>1, AddedLater, AppendToArray DEF QueueInv, QueueTypeOK, ArraysInOrder
<1>4. Advances(more, longer, after)
  BY <1>2, <1>3, ProceedsAdvances
<1>. HIDE DEF more, longer, after
<1>5. after.busy
  <2>1. j \in ToSet(after.array)
    BY <1>2, <1>3, <1>4 DEF Advances, Pending
  <2>2. after.array # <<>>
    BY <2>1 DEF ToSet
  <2>. QED BY <2>2, <1>4 DEF Advances
<1>6. /\ h \in Job /\ h \in ToSet(longer) /\ more[h].status = "pending" /\ job'[h].status = "processing"
      /\ \A i \in ToSet(after.array) : h <= i
      /\ \A i \in Job \ {h} : job'[i] = more[i]
  BY <1>1, <1>4, <1>5 DEF Advances, Pending
<1>7. ~swapped /\ ~swapped' /\ Working = queue
  BY <1>1 DEF QueueInv, QueueTypeOK, Working
<1>8. \A k \in Job : k \in Lost' <=> more[k].status = "pending" /\ k \notin ToSet(longer)
  BY <1>1, <1>4, <1>7, LostByLoop
<1>9. \A k \in Job : k \in Lost' <=> k \in Lost
  <2>1. j \notin Lost /\ j \notin Lost'
    BY <1>1, <1>3, <1>8 DEF Lost, Waiting, Pending, Added
  <2>2. \A k \in Job \ {j} : k \in Lost <=> job[k].status = "pending" /\ k \notin ToSet(queue)
    BY <1>7 DEF Lost, Waiting, Pending
  <2>. QED BY <2>1, <2>2, <1>2, <1>3, <1>8
<1>10. job \in [Job -> JobRow] /\ ToSet(queue) \subseteq Added
  BY DEF QueueInv, QueueTypeOK, ArraysInOrder
<1>11. stage[j] = "unborn" /\ \A i \in Job : i < j => stage[i] # "unborn"
  BY <1>1, <1>10, StageOfJob DEF Added
<1>12. Delivery!AtStage("running") = {}
  <2>1. OfStatus("processing") = {}
    BY <1>1 DEF QueueInv, OneProcessing, OfStatus
  <2>. QED BY <2>1, StageSets
<1>13. h \in Delivery!AtStage("waiting") \cup {j}
  <2>1. h # j => h \in Waiting /\ h \in ToSet(queue)
    BY <1>2, <1>3, <1>6 DEF Waiting, Pending
  <2>. QED BY <2>1, StageSets
<1>14. \A i \in Delivery!AtStage("waiting") : h <= i
  <2>. SUFFICES ASSUME NEW i \in Waiting, i \in ToSet(queue)
                PROVE  h <= i
    BY <1>7, StageSets
  <2>1. i # j /\ i \in Job
    BY <1>1, <1>10 DEF Waiting
  <2>2. Pending(more, i) /\ i \in ToSet(longer)
    BY <2>1, <1>2, <1>3 DEF Waiting, Pending
  <2>. QED BY <2>2, <1>4, <1>6 DEF Advances
<1>15. stage' = [stage EXCEPT ![j] = "waiting", ![h] = "running"]
  <2>1. stage'[h] = "running"
    BY <1>3, <1>6, <1>8, NewStage, StageNames
  <2>2. \A i \in Job \ {j, h} : stage'[i] = stage[i]
    BY <1>2, <1>6, <1>9, SameStage
  <2>3. j # h => stage'[j] = "waiting"
    BY <1>2, <1>3, <1>6, <1>8, NewStage, StageNames
  <2>4. CASE j = h
    <3>1. stage' = [stage EXCEPT ![h] = "running"]
      BY <2>1, <2>2, <2>4, <1>6, StagesMove
    <3>. HIDE DEF stage, h
    <3>. QED BY <3>1, <2>4
  <2>5. CASE j # h
    BY <2>1, <2>2, <2>3, <2>5, <1>6, StagesMove
  <2>. QED BY <2>4, <2>5
<1>. HIDE DEF stage, h
<1>. QED BY <1>6, <1>11, <1>12, <1>13, <1>14, <1>15 DEF Delivery!AddAndStart, Delivery!Job, Job

\* The processor's registration starts the first job that waits, if there is one.
LEMMA RegisterDelivers ==
  ASSUME QueueInv, RegisterProcessor
  PROVE  stage' = stage \/ \E h \in Job : Delivery!Start(h)
<1>. DEFINE after == Proceeds(job, queue)
            h == Head(after.array)
<1>1. job' = after.jobs /\ queue' = after.array /\ swapped' = swapped /\ ~processor
  BY DEF RegisterProcessor
<1>2. ~isProcessing
  BY <1>1 DEF QueueInv, OneProcessing
<1>3. job \in [Job -> JobRow] /\ queue \in Seq(Job) /\ Increasing(queue)
  BY DEF QueueInv, QueueTypeOK, ArraysInOrder
<1>4. Advances(job, queue, after)
  BY <1>3, ProceedsAdvances
<1>. HIDE DEF after
<1>5. ~swapped /\ ~swapped' /\ Working = queue
  BY <1>1, <1>2 DEF QueueInv, QueueTypeOK, Working
<1>6. \A k \in Job : k \in Lost' <=> job[k].status = "pending" /\ k \notin ToSet(queue)
  BY <1>1, <1>4, <1>5, LostByLoop
<1>7. \A k \in Job : k \in Lost' <=> k \in Lost
  BY <1>5, <1>6 DEF Lost, Waiting, Pending
<1>8. CASE ~after.busy
  <2>1. job' = job
    BY <1>1, <1>4, <1>8 DEF Advances
  <2>2. \A i \in Job : stage'[i] = stage[i]
    BY <2>1, <1>7, SameStage
  <2>. QED BY <2>2 DEF stage
<1>9. CASE after.busy
  <2>1. /\ h \in Job /\ h \in ToSet(queue) /\ job[h].status = "pending" /\ job'[h].status = "processing"
        /\ \A i \in ToSet(after.array) : h <= i
        /\ \A i \in Job \ {h} : job'[i] = job[i]
    BY <1>1, <1>4, <1>9 DEF Advances, Pending
  <2>2. stage[h] = "waiting" /\ stage'[h] = "running"
    BY <2>1, <1>3, <1>6, <1>7, StageOfJob, NewStage, StageNames
  <2>3. stage' = [stage EXCEPT ![h] = "running"]
    <3>1. \A i \in Job \ {h} : stage'[i] = stage[i]
      BY <2>1, <1>7, SameStage
    <3>. QED BY <2>1, <2>2, <3>1, StagesMove
  <2>4. Delivery!AtStage("running") = {}
    <3>1. OfStatus("processing") = {}
      BY <1>2 DEF QueueInv, OneProcessing, OfStatus
    <3>. QED BY <3>1, StageSets
  <2>5. \A i \in Delivery!AtStage("waiting") : h <= i
    BY <2>1, <1>4, <1>5, StageSets DEF Advances, Waiting
  <2>6. Delivery!Start(h)
    <3>. HIDE DEF stage, h
    <3>. QED BY <2>2, <2>3, <2>4, <2>5 DEF Delivery!Start
  <2>. QED BY <2>1, <2>6
<1>. QED BY <1>8, <1>9

\* A job that is settled is done, and the first job that waits is started in its place, if
\* the loop's array holds one.
LEMMA SettleDelivers ==
  ASSUME QueueInv, NEW outcome \in {"completed", "failed"}, Settle(outcome)
  PROVE  \E j \in Job : Delivery!Finish(j) \/ \E k \in Job : Delivery!FinishAndStart(j, k)
<1>. DEFINE h == Head(Working)
            after == Resumes(outcome)
            next == Head(after.array)
<1>1. /\ isProcessing /\ swapped' = (swapped /\ after.busy)
      /\ swapped => taken' = after.array /\ queue' = queue
      /\ ~swapped => queue' = after.array
  BY DEF Settle, Resumes, Settled
<1>2. /\ Working \in Seq(Job) /\ h \in Job
      /\ ToSet(Tail(Working)) = ToSet(Working) \ {h}
      /\ \A j \in Job \ {h} : Settled(outcome)[j] = job[j]
      /\ Advances(Settled(outcome), Tail(Working), after)
  BY <1>1, SettleForm
<1>3. /\ job[h].status = "processing" /\ job'[h].status = outcome
      /\ \A j \in Job \ {h} :
           \/ job'[j] = job[j] /\ job[j].status # "processing"
           \/ after.busy /\ j = next /\ job[j].status = "pending" /\ job'[j].status = "processing"
  BY SettleStatus
<1>. HIDE DEF h, after
<1>4. swapped \in BOOLEAN /\ after.busy \in BOOLEAN /\ (after.busy <=> after.array # <<>>)
  BY <1>2 DEF Advances, QueueInv, QueueTypeOK
<1>5. Working = IF swapped THEN taken ELSE queue
  BY DEF Working
<1>6. /\ ToSet(after.array) \subseteq ToSet(Working) \ {h}
      /\ \A j \in ToSet(Working) : job[j].status = "pending" => j \in ToSet(after.array)
  <2>1. \A j \in ToSet(Working) : j \in Job
    BY <1>2 DEF ToSet
  <2>. QED BY <2>1, <1>2, <1>3 DEF Advances, Pending
\* What the arrays hold of the jobs that wait is the same.
<1>7. \A j \in Job : job'[j].status = "pending" =>
                       (j \in ToSet(queue') \cup ToSet(Working') <=> j \in ToSet(queue) \cup ToSet(Working))
  <2>. SUFFICES ASSUME NEW j \in Job, job'[j].status = "pending"
                PROVE  j \in ToSet(queue') \cup ToSet(Working') <=> j \in ToSet(queue) \cup ToSet(Working)
    OBVIOUS
  <2>1. job[j].status = "pending"
    BY <1>3
  <2>2. j \in ToSet(Working) <=> j \in ToSet(after.array)
    BY <2>1, <1>6
  <2>3. CASE ~swapped
    <3>1. queue' = after.array /\ Working = queue /\ Working' = queue'
      BY <2>3, <1>1, <1>5 DEF Working
    <3>. QED BY <2>2, <3>1
  <2>4. CASE swapped /\ after.busy
    <3>1. queue' = queue /\ Working' = after.array
      BY <2>4, <1>1 DEF Working
    <3>. QED BY <2>2, <3>1
  <2>5. CASE swapped /\ ~after.busy
    <3>1. queue' = queue /\ Working' = queue'
      BY <2>5, <1>1 DEF Working
    <3>2. ToSet(after.array) = {}
      BY <2>5, <1>4 DEF ToSet
    <3>. QED BY <2>2, <3>1, <3>2
  <2>. QED BY <2>3, <2>4, <2>5, <1>4
<1>8. after.busy => next \in Job /\ next \in ToSet(Working) /\ job[next].status = "pending"
                    /\ job'[next].status = "processing" /\ \A j \in ToSet(after.array) : next <= j
  <2>. SUFFICES ASSUME after.busy
                PROVE  next \in Job /\ next \in ToSet(Working) /\ job[next].status = "pending"
                       /\ job'[next].status = "processing" /\ \A j \in ToSet(after.array) : next <= j
    OBVIOUS
  <2>1. /\ next \in Job /\ next \in ToSet(after.array) /\ Pending(Settled(outcome), next)
        /\ after.jobs[next].status = "processing" /\ \A j \in ToSet(after.array) : next <= j
    BY <1>2 DEF Advances
  <2>2. job' = after.jobs
    BY DEF Settle, Resumes, Settled, after
  <2>3. next \in ToSet(Working) /\ next # h
    BY <2>1, <1>6
  <2>4. job[next].status = "pending"
    BY <2>1, <2>3, <1>2 DEF Pending
  <2>. QED BY <2>1, <2>2, <2>3, <2>4
<1>9. \A j \in Job : j \in Lost' <=> j \in Lost
  <2>1. \A j \in Job : j \in Lost <=> job[j].status = "pending" /\ j \notin ToSet(queue) \cup ToSet(Working)
    BY DEF Lost, Waiting, Pending
  <2>2. \A j \in Job : j \in Lost' <=> job'[j].status = "pending" /\ j \notin ToSet(queue') \cup ToSet(Working')
    BY DEF Lost, Waiting, Pending
  <2>3. \A j \in Job : job'[j].status = "pending" => job[j].status = "pending"
    BY <1>3
  <2>4. \A j \in Job : j \in Lost => job'[j].status = "pending"
    BY <2>1, <1>3, <1>8
  <2>. QED BY <2>1, <2>2, <2>3, <2>4, <1>7
<1>10. stage[h] = "running" /\ stage'[h] = "done"
  <2>1. stage[h] = "running"
    BY <1>2, <1>3, StageOfJob DEF QueueInv, QueueTypeOK
  <2>2. h \notin Lost'
    BY <1>2, <1>3, <1>9 DEF Lost, Waiting, Pending
  <2>3. stage'[h] = StageAs[outcome]
    BY <1>2, <1>3, <2>2, NewStage
  <2>. QED BY <2>1, <2>3, StageNames
<1>11. CASE ~after.busy
  <2>1. \A i \in Job \ {h} : stage'[i] = stage[i]
    BY <1>3, <1>9, <1>11, SameStage
  <2>2. stage' = [stage EXCEPT ![h] = "done"]
    BY <1>2, <1>10, <2>1, StagesMove
  <2>3. Delivery!Finish(h)
    <3>. HIDE DEF stage
    <3>. QED BY <1>10, <2>2 DEF Delivery!Finish
  <2>. QED BY <1>2, <2>3
<1>12. CASE after.busy
  <2>1. next \in Job /\ next \in ToSet(Working) /\ job[next].status = "pending" /\ job'[next].status = "processing"
    BY <1>8, <1>12
  <2>. HIDE DEF next
  <2>2. next \notin Lost /\ next \notin Lost'
    BY <2>1, <1>9 DEF Lost
  <2>3. stage[next] = "waiting"
    BY <2>1, <2>2, StageOfJob DEF QueueInv, QueueTypeOK
  <2>4. stage'[next] = "running"
    <3>1. stage'[next] = StageAs[job'[next].status]
      BY <2>1, <2>2, NewStage
    <3>. QED BY <2>1, <3>1, StageNames
  <2>5. \A i \in Job \ {h, next} : stage'[i] = stage[i]
    BY <1>3, <1>9, SameStage
  <2>6. next # h
    BY <2>1, <1>3
  <2>7. stage' = [stage EXCEPT ![h] = "done", ![next] = "running"]
    BY <1>2, <1>10, <2>1, <2>4, <2>5, <2>6, StagesMove
  <2>8. \A i \in Delivery!AtStage("waiting") : next <= i
    <3>. SUFFICES ASSUME NEW i \in Waiting, i \in ToSet(queue) \cup ToSet(Working)
                  PROVE  next <= i
      BY StageSets
    <3>1. i \in Job /\ job[i].status = "pending"
      BY DEF Waiting, Pending
    <3>2. CASE i \in ToSet(Working)
      <4>1. i \in ToSet(after.array)
        BY <3>1, <3>2, <1>6
      <4>. QED BY <4>1, <1>8, <1>12 DEF next
    <3>3. CASE i \notin ToSet(Working)
      <4>1. swapped /\ Working = taken /\ i \in ToSet(queue)
        BY <3>3, <1>4, <1>5
      <4>2. next < i
        BY <4>1, <3>3, <2>1 DEF QueueInv, AsideComesLater
      <4>3. next \in Int /\ i \in Int
        BY <2>1, <3>1, QueueAssumption DEF Job
      <4>. QED BY <4>2, <4>3
    <3>. QED BY <3>2, <3>3
  <2>9. Delivery!FinishAndStart(h, next)
    <3>. HIDE DEF stage
    <3>. QED BY <1>10, <2>3, <2>7, <2>8 DEF Delivery!FinishAndStart
  <2>. QED BY <1>2, <2>1, <2>9
<1>. QED BY <1>4, <1>11, <1>12

\* Jobs that wait are dropped when their array is replaced, and only those.
LEMMA ReplaceDelivers ==
  ASSUME QueueInv, NEW array \in Seq(Job), ToSet(array) \subseteq ToSet(queue), Replace(array)
  PROVE  Delivery!Drop
<1>. DEFINE D == Lost' \ Lost
<1>1. queue' = array /\ UNCHANGED <<job, isProcessing>> /\ swapped' = isProcessing
      /\ taken' = IF isProcessing THEN Working ELSE <<>>
  BY DEF Replace
<1>2. isProcessing \in BOOLEAN /\ swapped \in BOOLEAN /\ (swapped => isProcessing)
  BY DEF QueueInv, QueueTypeOK
<1>3. ToSet(Working') \subseteq ToSet(queue) \cup ToSet(Working)
  BY <1>1, <1>2 DEF Working
<1>4. Waiting' = Waiting
  BY <1>1 DEF Waiting
<1>5. Lost \subseteq Lost' /\ D \subseteq Waiting \ Lost
  BY <1>1, <1>3, <1>4 DEF Lost
<1>6. D \in SUBSET Delivery!AtStage("waiting")
  BY <1>5, StageSets
<1>7. \A j \in Job : stage'[j] = IF j \in D THEN "dropped" ELSE stage[j]
  <2>. TAKE j \in Job
  <2>1. CASE j \in D
    BY <2>1 DEF stage
  <2>2. CASE j \notin D
    <3>1. j \in Lost' <=> j \in Lost
      BY <2>2, <1>5
    <3>2. stage'[j] = stage[j]
      BY <3>1, <1>1, SameStage
    <3>. QED BY <2>2, <3>2
  <2>. QED BY <2>1, <2>2
<1>8. stage' = [j \in Job |-> IF j \in D THEN "dropped" ELSE stage[j]]
  <2>1. stage' = [j \in Job |-> stage'[j]]
    BY DEF stage
  <2>. HIDE DEF stage, D
  <2>. QED BY <1>7, <2>1
<1>. HIDE DEF D, stage
<1>. QED BY <1>6, <1>8 DEF Delivery!Drop, Delivery!Job, Job

LEMMA InitDelivers ==
  ASSUME Init
  PROVE  Delivery!Init
<1>1. \A j \in Job : job[j].status = "unborn"
  BY DEF Init
<1>2. Lost = {}
  BY <1>1 DEF Lost, Waiting, Pending
<1>3. stage = [j \in Job |-> "unborn"]
  BY <1>1, <1>2 DEF stage, StageAs
<1>. QED BY <1>3 DEF Delivery!Init, Delivery!Job, Job

LEMMA StepDelivers ==
  ASSUME QueueInv, [Next]_vars
  PROVE  [Delivery!Next]_stage
<1>1. Delivery!Job = Job
  BY DEF Delivery!Job, Job
<1>2. ASSUME NEW j \in Job, AddSimulatedAlarmCandidate(j)
      PROVE  Delivery!Next
  BY <1>1, <1>2, AddBusyDelivers, AddIdleDelivers DEF Delivery!Next
<1>3. CASE RegisterProcessor
  BY <1>1, <1>3, RegisterDelivers DEF Delivery!Next
<1>4. ASSUME NEW outcome \in {"completed", "failed"}, Settle(outcome)
      PROVE  Delivery!Next
  BY <1>1, <1>4, SettleDelivers DEF Delivery!Next
<1>5. CASE ClearQueue \/ ClearProcessedJobs
  BY <1>5, ClearForms, ReplaceDelivers DEF Delivery!Next
<1>6. CASE UNCHANGED vars
  BY <1>6 DEF vars, stage, Lost, Waiting, Working
<1>. QED BY <1>2, <1>3, <1>4, <1>5, <1>6 DEF Next

\* The queue hands every job over at most once, one at a time and in the order in which
\* the jobs were added, also when the array is replaced while the loop works on it: it
\* implements AlarmDelivery.
THEOREM DeliversInOrderCorrect == Spec => DeliversInOrder
<1>. QED BY QueueInvCorrect, InitDelivers, StepDelivers, PTL DEF Spec, DeliversInOrder, Delivery!Spec

=============================================================================
