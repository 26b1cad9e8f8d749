------------------------ MODULE IndexingBatchProofs ------------------------
(***************************************************************************)
(* Proofs about the batches of the pipeline on their way from docfetching  *)
(* to docprocessing: that the Redis counters of an attempt that goes on    *)
(* tell the truth (redis/redis_docprocessing.py), and that an attempt is   *)
(* complete only when its batches were processed.                          *)
(*                                                                         *)
(* The counters.  Docfetching counts a batch in pending before it sends    *)
(* its message, so pending exceeds the queue by one batch at most, between *)
(* the two; a pickup takes a message off the queue and decrements pending, *)
(* unless Redis fails, which is what missed counts; and so it counts what  *)
(* the broker loses.  A process that stops between counting and sending    *)
(* leaves pending too high for good, but then its attempt gets no total.   *)
(* A task is counted when it starts, unless Redis fails.  The counters are *)
(* deleted with a verdict alone, and no attempt survives one; so what is   *)
(* in flight of an attempt without a verdict covers the tasks it has.      *)
(*                                                                         *)
(* Completion.  What an attempt is Owed is a count for each message, each  *)
(* task that has yet to count, and each stored batch that was dropped.     *)
(* Every batch sent raises the number the total will be set to and what is *)
(* owed by one; a task that counts trades one for the other, once its      *)
(* document is recorded; a task or message that is lost leaves its batch   *)
(* dropped.  So total >= completed + Owed, and completed >= total leaves   *)
(* nothing owed, and no batch dropped.                                     *)
(***************************************************************************)
EXTENDS IndexingPipelineProofs

(* What is stored is about to be queued under its number.                  *)
StoredHasNumber ==
    \A a \in Attempts : process[a] = "stored" => job[a].num \in BatchNums

(* A batch that was counted, and whose message was not sent                *)
Counted(a) == IF job[a].counted THEN 1 ELSE 0

PendingIsQueued ==
    \A a \in Attempts :
        pending[a] <= Cardinality(Waiting(a)) + missed[a] + Counted(a)

TasksAreInFlight ==
    \A a \in Attempts :
        IsTerminal(a) \/ Cardinality(Tasks(a)) <= inFlight[a] + missed[a]

(* The inductive invariant of the counters                                 *)
BacklogInv ==
    /\ IInv
    /\ StoredHasNumber
    /\ PendingIsQueued
    /\ TasksAreInFlight

-----------------------------------------------------------------------------
(* A set with one more element                                             *)
LEMMA OneMore ==
  ASSUME NEW S, IsFiniteSet(S), NEW x
  PROVE  /\ Cardinality(S) \in Nat /\ Cardinality(S \cup {x}) \in Nat
         /\ IsFiniteSet(S \cup {x})
         /\ Cardinality(S) <= Cardinality(S \cup {x})
         /\ Cardinality(S \cup {x}) <= Cardinality(S) + 1
         /\ x \notin S => Cardinality(S \cup {x}) = Cardinality(S) + 1
<1>1. Cardinality(S) \in Nat
  BY FS_CardinalityType
<1>2. /\ IsFiniteSet(S \cup {x})
      /\ Cardinality(S \cup {x}) =
           IF x \in S THEN Cardinality(S) ELSE Cardinality(S) + 1
  BY FS_AddElement
<1> QED BY <1>1, <1>2

(* A set with one element less                                             *)
LEMMA OneLess ==
  ASSUME NEW S, IsFiniteSet(S), NEW x \in S
  PROVE  /\ Cardinality(S) \in Nat /\ Cardinality(S \ {x}) \in Nat
         /\ IsFiniteSet(S \ {x})
         /\ Cardinality(S \ {x}) = Cardinality(S) - 1
<1>1. Cardinality(S) \in Nat
  BY FS_CardinalityType
<1>2. /\ IsFiniteSet(S \ {x})
      /\ Cardinality(S \ {x}) =
           IF x \in S THEN Cardinality(S) - 1 ELSE Cardinality(S)
  BY FS_RemoveElement
<1>3. Cardinality(S \ {x}) \in Nat
  BY <1>2, FS_CardinalityType
<1> QED BY <1>1, <1>2, <1>3

(* Finitely many batches have finitely many copies.                        *)
LEMMA CopiesAreFinite ==
  ASSUME NEW q \in [BatchNums -> Nat]
  PROVE  IsFiniteSet(UNION {{n} \X (1..q[n]) : n \in BatchNums})
<1> DEFINE Copies == {{n} \X (1..q[n]) : n \in BatchNums}
<1>1. IsFiniteSet(BatchNums)
  BY IndexAttemptAssumption, FS_Interval DEF BatchNums
<1>2. ASSUME NEW n \in BatchNums PROVE IsFiniteSet({n} \X (1..q[n]))
  <2>1. PICK k \in Nat : k = q[n]
    BY <1>2
  <2>2. IsFiniteSet(1..k)
    BY FS_Interval
  <2>3. IsFiniteSet({n})
    BY FS_Singleton
  <2> QED BY <2>1, <2>2, <2>3, FS_Product
<1>3. IsFiniteSet(Copies)
  <2> DEFINE copies == [n \in BatchNums |-> {n} \X (1..q[n])]
  <2>1. copies \in Surjection(BatchNums, Copies)
    BY DEF Surjection
  <2> HIDE DEF copies, Copies
  <2> QED BY <1>1, <2>1, FS_Surjection
<1> QED BY <1>2, <1>3, FS_UNION

(* There are finitely many messages.                                       *)
LEMMA WaitingIsFinite ==
  ASSUME TypeOK, NEW a \in Attempts
  PROVE  IsFiniteSet(Waiting(a)) /\ Cardinality(Waiting(a)) \in Nat
<1>1. queue[a] \in [BatchNums -> Nat]
  BY DEF TypeOK, BusTypeOK
<1>2. IsFiniteSet(UNION {{n} \X (1..queue[a][n]) : n \in BatchNums})
  BY <1>1, CopiesAreFinite
<1> QED BY <1>2, FS_CardinalityType DEF Waiting

(* What waits, message by message                                          *)
LEMMA WaitingMember ==
  ASSUME TypeOK, NEW a \in Attempts, NEW m
  PROVE  m \in Waiting(a) <=>
           \E n \in BatchNums, i \in Nat \ {0} :
              m = <<n, i>> /\ i <= queue[a][n]
<1>1. \A n \in BatchNums : queue[a][n] \in Nat
  BY DEF TypeOK, BusTypeOK
<1> QED BY <1>1 DEF Waiting

(* A message more                                                          *)
LEMMA MessageAdded ==
  ASSUME TypeOK, TypeOK', NEW a \in Attempts, NEW n \in BatchNums,
         queue' = [queue EXCEPT ![a][n] = @ + 1]
  PROVE  /\ Cardinality(Waiting(a)') = Cardinality(Waiting(a)) + 1
         /\ \A b \in Attempts : b # a => Waiting(b)' = Waiting(b)
<1> DEFINE q == queue[a][n]
           m == <<n, q + 1>>
<1>1. /\ q \in Nat /\ queue'[a][n] = q + 1
      /\ \A k \in BatchNums : k # n => queue'[a][k] = queue[a][k]
      /\ \A b \in Attempts : b # a => queue'[b] = queue[b]
  BY DEF TypeOK, BusTypeOK
<1>2. Waiting(a)' = Waiting(a) \cup {m} /\ m \notin Waiting(a)
  <2>1. \A k \in BatchNums : queue[a][k] \in Nat /\ queue'[a][k] \in Nat
    BY DEF TypeOK, BusTypeOK
  <2>2. ASSUME NEW k \in BatchNums, NEW i \in Nat \ {0}
        PROVE  /\ <<k, i>> \in Waiting(a) <=> i <= queue[a][k]
               /\ <<k, i>> \in Waiting(a)' <=> i <= queue'[a][k]
    BY <2>1 DEF Waiting
  <2>3. \A x \in Waiting(a) \cup Waiting(a)' :
           \E k \in BatchNums, i \in Nat \ {0} : x = <<k, i>>
    BY <2>1 DEF Waiting
  <2>4. m \notin Waiting(a) /\ m \in Waiting(a)'
    BY <1>1, <2>2
  <2>5. \A k \in BatchNums, i \in Nat \ {0} : <<k, i>> # m =>
           (<<k, i>> \in Waiting(a)' <=> <<k, i>> \in Waiting(a))
    BY <1>1, <2>1, <2>2
  <2> HIDE DEF m
  <2> QED BY <2>3, <2>4, <2>5
<1> HIDE DEF m
<1>3. Cardinality(Waiting(a)') = Cardinality(Waiting(a)) + 1
  BY <1>2, WaitingIsFinite, OneMore
<1>4. \A b \in Attempts : b # a => Waiting(b)' = Waiting(b)
  BY <1>1 DEF Waiting
<1> QED BY <1>3, <1>4

(* A message less                                                          *)
LEMMA MessageTaken ==
  ASSUME TypeOK, TypeOK', NEW a \in Attempts, NEW n \in BatchNums,
         queue[a][n] > 0, queue' = [queue EXCEPT ![a][n] = @ - 1]
  PROVE  /\ Cardinality(Waiting(a)') = Cardinality(Waiting(a)) - 1
         /\ Cardinality(Waiting(a)) > 0
         /\ \A b \in Attempts : b # a => Waiting(b)' = Waiting(b)
<1> DEFINE q == queue[a][n]
           m == <<n, q>>
<1>1. /\ q \in Nat \ {0} /\ queue'[a][n] = q - 1
      /\ \A k \in BatchNums : k # n => queue'[a][k] = queue[a][k]
      /\ \A b \in Attempts : b # a => queue'[b] = queue[b]
  BY DEF TypeOK, BusTypeOK
<1>2. Waiting(a)' = Waiting(a) \ {m} /\ m \in Waiting(a)
  <2>1. \A k \in BatchNums : queue[a][k] \in Nat /\ queue'[a][k] \in Nat
    BY DEF TypeOK, BusTypeOK
  <2>2. ASSUME NEW k \in BatchNums, NEW i \in Nat \ {0}
        PROVE  /\ <<k, i>> \in Waiting(a) <=> i <= queue[a][k]
               /\ <<k, i>> \in Waiting(a)' <=> i <= queue'[a][k]
    BY <2>1 DEF Waiting
  <2>3. \A x \in Waiting(a) \cup Waiting(a)' :
           \E k \in BatchNums, i \in Nat \ {0} : x = <<k, i>>
    BY <2>1 DEF Waiting
  <2>4. m \in Waiting(a) /\ m \notin Waiting(a)'
    BY <1>1, <2>2
  <2>5. \A k \in BatchNums, i \in Nat \ {0} : <<k, i>> # m =>
           (<<k, i>> \in Waiting(a)' <=> <<k, i>> \in Waiting(a))
    BY <1>1, <2>1, <2>2
  <2> HIDE DEF m
  <2> QED BY <2>3, <2>4, <2>5
<1> HIDE DEF m
<1>3. /\ Cardinality(Waiting(a)') = Cardinality(Waiting(a)) - 1
      /\ Cardinality(Waiting(a)) > 0
  BY <1>2, WaitingIsFinite, OneLess
<1>4. \A b \in Attempts : b # a => Waiting(b)' = Waiting(b)
  BY <1>1 DEF Waiting
<1> QED BY <1>3, <1>4

-----------------------------------------------------------------------------
(* What a step does to the counters and the tasks: nothing, or a verdict   *)
(* deletes an attempt's counters, and tasks may end.                       *)
CountersStay ==
    /\ \A a \in Attempts : Tasks(a)' \subseteq Tasks(a)
    /\ \/ UNCHANGED <<pending, inFlight>>
       \/ \E a \in Attempts : IsTerminal(a)' /\ ResetCounters(a)

(* An attempt that has its verdict has one for good.                       *)
LEMMA VerdictStays ==
  ASSUME IInv, Next, NEW a \in Attempts, IsTerminal(a)
  PROVE  IsTerminal(a)'
<1>1. RowsMove /\ status \in [Attempts -> Statuses]
  BY NextMoves DEF IInv, LocalInv, TypeOK, RowTypeOK
<1>2. status[a] \in Terminal /\ "ABSENT" \notin Terminal
      /\ "NOT_STARTED" \notin Terminal
  BY DEF IsTerminal, Terminal, Succeeded, Resumable
<1>3. ASSUME NEW b \in Attempts, Turn(b) PROVE IsTerminal(a)'
  BY <1>1, <1>2, <1>3 DEF Turn, Lifecycle!Create, Lifecycle!Begin,
     Lifecycle!End, Lifecycle!Become, IsTerminal
<1> QED
  BY <1>1, <1>2, <1>3 DEF RowsMove, RowWritten, RequestCancellation, IsTerminal

(* A verdict on an attempt deletes its counters.                           *)
LEMMA MarkResets ==
  ASSUME TypeOK, NEW a \in Attempts, UNCHANGED worker,
         \/ \E s \in Terminal : Mark(a, s)
         \/ MarkCanceled(a) \/ MarkInterrupted(a)
  PROVE  CountersStay
<1>1. \A b \in Attempts : Tasks(b)' = Tasks(b)
  BY DEF Tasks, InAttempt
<1>2. ASSUME NEW s \in Terminal, Mark(a, s)
      PROVE  IsTerminal(a)' /\ ResetCounters(a)
  BY <1>2 DEF Mark, SetFinal, TypeOK, RowTypeOK, IsTerminal
<1>3. ASSUME MarkCanceled(a)
      PROVE  IsTerminal(a)' /\ ResetCounters(a)
  BY <1>3 DEF MarkCanceled, SetCanceled, TypeOK, RowTypeOK, IsTerminal,
     Terminal, Resumable
<1>4. "INTERRUPTED" \in Terminal
  BY DEF Terminal, Resumable
<1>5. ASSUME MarkInterrupted(a)
      PROVE  \/ UNCHANGED <<pending, inFlight>>
             \/ IsTerminal(a)' /\ ResetCounters(a)
  BY <1>2, <1>4, <1>5 DEF MarkInterrupted, markVars
<1> QED BY <1>1, <1>2, <1>3, <1>5 DEF CountersStay

(* The messages, what was missed of them, and what is counted and not sent *)
MessagesStay ==
    /\ UNCHANGED <<queue, missed>>
    /\ \A a \in Attempts : job'[a].counted = job[a].counted

(* The steps of docfetching that count a batch, or send one                *)
Sends(a) == Counts(a) \/ ReissueBatch(a) \/ QueueFetchedBatch(a)

(* The others do not touch that mark.                                      *)
LEMMA CountedKept ==
  ASSUME TypeOK, NEW a \in Attempts,
         ProxyStep(a) \/ FetchStep(a) \/ FetchFault(a), ~Sends(a)
  PROVE  \A b \in Attempts : job'[b].counted = job[b].counted
<1>1. job \in [Attempts -> JobType]
  BY DEF TypeOK, FetchTypeOK
<1>2. CASE ProxyStep(a)
  BY <1>2 DEF ProxyStep, SpawnProcess, DropRevoked, ProcessDone,
     ReportFailure, MarkReported, AttemptFinalized, TerminateProcess
<1>3. CASE FetchStep(a)
  BY <1>1, <1>3 DEF Sends, FetchStep, VerifyAttempt, StartAttempt,
     RefuseStart, ChooseWindow, ResumeFromCheckpoint, DiscardOldBatches,
     AdoptOldBatches, CountBatchToSend, CarryCompleted, SaveFirstCheckpoint,
     SetCheckpoint, YieldBatch, YieldCheckpoint, StopOnSignal,
     RaiseNotRunning, StoreFetchedBatch, SaveRunCheckpoint,
     FinishExtraction, HandleException, MarkRaised, JobType
<1>4. CASE FetchFault(a)
  BY <1>1, <1>4 DEF Sends, FetchFault, SpawnFails, YieldFailure,
     ExtractionRaises, ValidationFails, ProcessDies, WorkerShutsDown,
     MemoryLimitExceeded, PodDies, CountingMissed, JobType
<1> QED BY <1>2, <1>3, <1>4

(* The steps of docfetching but those that count or send a message         *)
LEMMA FetchingStays ==
  ASSUME IInv, NEW a \in Attempts,
         ProxyStep(a) \/ FetchStep(a) \/ FetchFault(a),
         ~Sends(a)
  PROVE  CountersStay /\ MessagesStay
<1>1. TypeOK /\ UNCHANGED <<worker, missed>>
  BY DEF IInv, LocalInv, ProxyStep, FetchStep, FetchFault, fetchOnly,
     processVars
<1>2. ASSUME UNCHANGED <<pending, inFlight>> PROVE CountersStay
  BY <1>1, <1>2 DEF CountersStay, Tasks, InAttempt
<1>3. ASSUME SpawnProcess(a) \/ DropRevoked(a) \/ ProcessDone(a)
             \/ ReportFailure(a) \/ AttemptFinalized(a) \/ TerminateProcess(a)
      PROVE  CountersStay /\ UNCHANGED queue
  BY <1>2, <1>3 DEF SpawnProcess, DropRevoked, ProcessDone, ReportFailure,
     AttemptFinalized, TerminateProcess, busVars
<1>4. ASSUME VerifyAttempt(a) \/ StartAttempt(a) \/ RefuseStart(a)
             \/ ChooseWindow(a) \/ ResumeFromCheckpoint(a)
             \/ DiscardOldBatches(a) \/ AdoptOldBatches(a) \/ CarryCompleted(a)
             \/ SaveFirstCheckpoint(a)
      PROVE  CountersStay /\ UNCHANGED queue
  BY <1>2, <1>4 DEF VerifyAttempt, StartAttempt, RefuseStart, ChooseWindow,
     ResumeFromCheckpoint, DiscardOldBatches, AdoptOldBatches,
     CarryCompleted, SaveFirstCheckpoint, SetCheckpoint, busVars
<1>5. ASSUME YieldBatch(a) \/ YieldCheckpoint(a) \/ RaiseNotRunning(a)
             \/ StoreFetchedBatch(a) \/ SaveRunCheckpoint(a)
             \/ FinishExtraction(a) \/ HandleException(a)
      PROVE  CountersStay /\ UNCHANGED queue
  BY <1>2, <1>5 DEF YieldBatch, YieldCheckpoint, RaiseNotRunning,
     StoreFetchedBatch, SaveRunCheckpoint, SetCheckpoint, FinishExtraction,
     HandleException, busVars
<1>6. ASSUME SpawnFails(a) \/ YieldFailure(a) \/ ExtractionRaises(a)
             \/ ProcessDies(a) \/ PodDies(a)
      PROVE  CountersStay /\ UNCHANGED queue
  BY <1>2, <1>6 DEF SpawnFails, YieldFailure, ExtractionRaises, ProcessDies,
     PodDies, busVars
<1>7. ASSUME \/ MarkReported(a) \/ StopOnSignal(a) \/ MarkRaised(a)
             \/ ValidationFails(a) \/ WorkerShutsDown(a)
             \/ MemoryLimitExceeded(a)
      PROVE  CountersStay /\ UNCHANGED queue
  <2>1. "FAILED" \in Terminal
    BY DEF Terminal, Resumable
  <2> QED
    BY <1>1, <1>7, <2>1, MarkResets DEF MarkReported, StopOnSignal,
       MarkRaised, ValidationFails, WorkerShutsDown, MemoryLimitExceeded
<1>8. CountersStay /\ UNCHANGED queue
  BY <1>3, <1>4, <1>5, <1>6, <1>7 DEF ProxyStep, FetchStep, FetchFault, Sends,
     CountBatchToSend, CountingMissed
<1> QED BY <1>1, <1>8, CountedKept DEF MessagesStay

(* The steps of the beat task, the administrator and the heartbeats        *)
LEMMA OthersStay ==
  ASSUME IInv,
         \/ \E a \in Attempts : \/ KickoffStep(a) \/ ValidateAttempt(a)
                                \/ Monitor(a) \/ Heartbeat(a)
         \/ SendStep \/ MonitorStep \/ BeatFault \/ AdminStep
  PROVE  CountersStay /\ MessagesStay
<1>1. TypeOK /\ UNCHANGED <<worker, missed, job>>
  BY DEF IInv, LocalInv, KickoffStep, ValidateAttempt, Monitor, Heartbeat,
     SendStep, MonitorStep, BeatFault, AdminStep, beatOnly, adminOnly,
     processVars, fetchVars, RaiseFence, RequestCancellation, PauseRow,
     ResumeConnector
<1>2. ASSUME UNCHANGED <<pending, inFlight>> PROVE CountersStay
  BY <1>1, <1>2 DEF CountersStay, Tasks, InAttempt
<1>3. "FAILED" \in Terminal /\ beat.a \in Attempts /\ beat.outcome \in Terminal
  BY <1>1 DEF Terminal, Resumable, TypeOK, BeatTypeOK
<1>4. ASSUME NEW a \in Attempts, KickoffStep(a) \/ Monitor(a) \/ Heartbeat(a)
      PROVE  CountersStay /\ UNCHANGED queue
  BY <1>2, <1>4 DEF KickoffStep, Kickoff, Monitor, StartMonitoring, Heartbeat,
     busVars
<1>5. ASSUME NEW a \in Attempts, ValidateAttempt(a)
      PROVE  CountersStay /\ UNCHANGED queue
  BY <1>1, <1>3, <1>5, MarkResets DEF ValidateAttempt, FailStale, FailLost,
     markFrame
<1>6. ASSUME SendStep \/ CheckCompletion \/ CleanupCompleted \/ BeatDies
             \/ AdminStep
      PROVE  CountersStay /\ UNCHANGED queue
  BY <1>2, <1>6 DEF SendStep, SendFetching, CheckCompletion, CleanupCompleted,
     BeatDies, AdminStep, RaiseFence, RequestCancellation, PauseRow,
     ResumeConnector, busVars
<1>7. ASSUME CancelRequested \/ MarkCompleted \/ SendFails \/ MonitoringFails
      PROVE  CountersStay /\ UNCHANGED queue
  BY <1>1, <1>3, <1>7, MarkResets DEF CancelRequested, MarkCompleted,
     SendFails, MonitoringFails, markFrame
<1>8. CountersStay /\ UNCHANGED queue
  BY <1>4, <1>5, <1>6, <1>7 DEF MonitorStep, BeatFault
<1> QED BY <1>1, <1>8 DEF MessagesStay

(* What the steps of docprocessing do besides                              *)
LEMMA WorkerCounters ==
  ASSUME IInv, NEW w \in Workers, WorkerStep(w) \/ WorkerFault(w)
  PROVE  \/ CountersStay /\ UNCHANGED queue
         \/ PickUpBatch(w)
         \/ FinishTask(w)
         \/ WorkerDies(w)
         \/ UsageLimitExceeded(w)
<1>1. /\ worker \in [Workers -> TaskType]
      /\ TypeOK
  BY DEF IInv, LocalInv, TypeOK, ProcessTypeOK
<1>2. ASSUME NEW p \in TaskPlaces, Step(w, p), worker[w].at # "idle",
             UNCHANGED <<pending, inFlight>>
      PROVE  CountersStay
  BY <1>1, <1>2, StepType DEF CountersStay, Tasks, InAttempt
<1>3. CASE IndexBatch(w) \/ CountProcessed(w) \/ RecordFailures(w)
           \/ DeleteProcessed(w) \/ HandleTaskException(w) \/ CountFailed(w)
  BY <1>2, <1>3 DEF IndexBatch, CountProcessed, RecordFailures,
     DeleteProcessed, HandleTaskException, CountFailed, TaskPlaces, busVars
<1>4. CASE DocumentFails(w)
  <2>1. \A b \in Attempts : Tasks(b)' \subseteq Tasks(b)
    BY <1>1, <1>4 DEF DocumentFails, Tasks, InAttempt, TaskType
  <2> QED BY <1>4, <2>1 DEF DocumentFails, CountersStay, busVars
<1>5. CASE ReleaseMissed(w)
  <2>1. \A b \in Attempts : Tasks(b)' \subseteq Tasks(b)
    BY <1>1, <1>5 DEF ReleaseMissed, Tasks, InAttempt, Idle
  <2> QED BY <1>5, <2>1 DEF ReleaseMissed, CountersStay, busVars
<1>6. CASE TaskRaises(w) \/ TaskRaisesLate(w) \/ LockTimesOut(w)
  BY <1>2, <1>6 DEF TaskRaises, TaskRaisesLate, LockTimesOut, TaskPlaces,
     busVars
<1> QED BY <1>3, <1>4, <1>5, <1>6 DEF WorkerStep, WorkerFault

(* The tasks are finitely many.                                            *)
LEMMA TasksAreFinite ==
  ASSUME NEW a
  PROVE  IsFiniteSet(Tasks(a)) /\ Cardinality(Tasks(a)) \in Nat
BY DocProcessingAssumption, FS_Subset, FS_CardinalityType DEF Tasks

(* Fewer tasks than the counter says are still fewer,                      *)
LEMMA FewerTasks ==
  ASSUME BacklogInv, CountersStay, Next, UNCHANGED missed
  PROVE  TasksAreInFlight'
<1> SUFFICES ASSUME NEW b \in Attempts, ~IsTerminal(b)'
             PROVE  Cardinality(Tasks(b)') <= inFlight'[b] + missed'[b]
  BY DEF TasksAreInFlight
<1>1. /\ Cardinality(Tasks(b)) <= inFlight[b] + missed[b]
      /\ inFlight \in [Attempts -> Nat] /\ missed \in [Attempts -> Nat]
  BY VerdictStays DEF BacklogInv, TasksAreInFlight, IInv, LocalInv, TypeOK,
     BusTypeOK
<1>2. inFlight'[b] = inFlight[b]
  BY <1>1 DEF CountersStay, ResetCounters
<1>3. Tasks(b)' \subseteq Tasks(b)
  BY DEF CountersStay
<1>4. Cardinality(Tasks(b)') <= Cardinality(Tasks(b))
      /\ Cardinality(Tasks(b)') \in Nat /\ Cardinality(Tasks(b)) \in Nat
  BY <1>3, TasksAreFinite, FS_Subset, FS_CardinalityType
<1> QED BY <1>1, <1>2, <1>4

(* and so is a counter that was deleted, against the queue.                *)
LEMMA FewerPending ==
  ASSUME BacklogInv, TypeOK', CountersStay, MessagesStay
  PROVE  PendingIsQueued'
<1> SUFFICES ASSUME NEW b \in Attempts
             PROVE  pending'[b] <= Cardinality(Waiting(b)') + missed'[b]
                                     + Counted(b)'
  BY DEF PendingIsQueued
<1>1. /\ pending \in [Attempts -> Nat] /\ missed \in [Attempts -> Nat]
      /\ pending[b] <= Cardinality(Waiting(b)) + missed[b] + Counted(b)
      /\ TypeOK
  BY DEF BacklogInv, PendingIsQueued, IInv, LocalInv, TypeOK, BusTypeOK
<1>2. pending'[b] \in {0, pending[b]}
  BY <1>1 DEF CountersStay, ResetCounters
<1>3. /\ Waiting(b)' = Waiting(b) /\ missed'[b] = missed[b]
      /\ Counted(b)' = Counted(b) /\ Counted(b) \in {0, 1}
  BY DEF MessagesStay, Waiting, Counted
<1> QED BY <1>1, <1>2, <1>3, WaitingIsFinite

(* Steps of docfetching leave the tasks, and what is in flight, as it was. *)
LEMMA FetchKeepsTasks ==
  ASSUME BacklogInv, Next, UNCHANGED <<worker, inFlight, missed>>
  PROVE  TasksAreInFlight'
<1>1. \A b \in Attempts : IsTerminal(b) => IsTerminal(b)'
  BY VerdictStays DEF BacklogInv
<1>2. \A b \in Attempts : Tasks(b)' = Tasks(b)
  BY DEF Tasks, InAttempt
<1> QED BY <1>1, <1>2 DEF BacklogInv, TasksAreInFlight

(* A batch is counted once before its message is sent,                     *)
LEMMA CountKeeps ==
  ASSUME BacklogInv, TypeOK', NEW a \in Attempts, Counts(a),
         IncrPending(a) \/ UNCHANGED pending, UNCHANGED <<queue, missed>>
  PROVE  PendingIsQueued'
<1>1. /\ TypeOK /\ pending \in [Attempts -> Nat] /\ missed \in [Attempts -> Nat]
      /\ job \in [Attempts -> JobType]
      /\ \A b \in Attempts :
           pending[b] <= Cardinality(Waiting(b)) + missed[b] + Counted(b)
  BY DEF BacklogInv, PendingIsQueued, IInv, LocalInv, TypeOK, BusTypeOK,
     FetchTypeOK
<1>2. \A b \in Attempts : Waiting(b)' = Waiting(b)
  BY DEF Waiting
<1>3. /\ Counted(a) = 0 /\ Counted(a)' = 1
      /\ \A b \in Attempts : b # a => Counted(b)' = Counted(b)
  BY <1>1, CountsJob DEF Counts, Counted, JobType
<1>4. \A b \in Attempts :
        pending'[b] <= IF b = a THEN pending[a] + 1 ELSE pending[b]
  BY <1>1 DEF IncrPending
<1>5. \A b \in Attempts : Counted(b) \in Nat /\ pending'[b] \in Nat
  BY DEF Counted, TypeOK, BusTypeOK
<1> QED BY <1>1, <1>2, <1>3, <1>4, <1>5, WaitingIsFinite DEF PendingIsQueued

(* and no more once it is, under a number the queue has.                   *)
LEMMA SendKeeps ==
  ASSUME BacklogInv, TypeOK', NEW a \in Attempts, NEW n \in BatchNums,
         SendMessage(a, n), UNCHANGED <<pending, missed>>,
         job[a].counted, ~job'[a].counted,
         \A b \in Attempts : b # a => job'[b] = job[b]
  PROVE  PendingIsQueued'
<1>1. /\ TypeOK /\ pending \in [Attempts -> Nat] /\ missed \in [Attempts -> Nat]
      /\ \A b \in Attempts :
           pending[b] <= Cardinality(Waiting(b)) + missed[b] + Counted(b)
  BY DEF BacklogInv, PendingIsQueued, IInv, LocalInv, TypeOK, BusTypeOK
<1>2. /\ Cardinality(Waiting(a)') = Cardinality(Waiting(a)) + 1
      /\ \A b \in Attempts : b # a => Waiting(b)' = Waiting(b)
  BY <1>1, MessageAdded DEF SendMessage
<1>3. /\ Counted(a) = 1 /\ Counted(a)' = 0
      /\ \A b \in Attempts : b # a => Counted(b)' = Counted(b)
  BY DEF Counted
<1>4. pending'[a] <= Cardinality(Waiting(a)') + missed'[a] + Counted(a)'
  BY <1>1, <1>2, <1>3, WaitingIsFinite
<1> QED BY <1>1, <1>2, <1>3, <1>4 DEF PendingIsQueued

(* What a message that is received leaves of the queue and the tasks       *)
LEMMA ReceivesMoves ==
  ASSUME TypeOK, TypeOK', NEW w \in Workers, NEW a \in Attempts,
         NEW n \in BatchNums, Receives(w, a, n)
  PROVE  /\ worker[w].at = "idle"
         /\ worker'[w].a = a /\ worker'[w].n = n
         /\ worker'[w].doc = files[a][n]
         /\ worker'[w].at = IF ~HasFile(a, n) THEN "post"
                            ELSE IF MayProcess(a) THEN "index" ELSE "except"
         /\ \A v \in Workers : v # w => worker'[v] = worker[v]
         /\ UNCHANGED <<files, completed, errors, indexed, total, trampled>>
         /\ Cardinality(Waiting(a)') = Cardinality(Waiting(a)) - 1
         /\ Cardinality(Waiting(a)) > 0
         /\ \A b \in Attempts : b # a => Waiting(b)' = Waiting(b)
         /\ \A b \in Attempts, m \in BatchNums :
               <<b, m>> # <<a, n>> => queue'[b][m] = queue[b][m]
<1>1. /\ queue[a][n] > 0 /\ queue' = [queue EXCEPT ![a][n] = @ - 1]
      /\ worker[w].at = "idle"
      /\ worker' = [worker EXCEPT ![w] =
               [at |-> IF ~HasFile(a, n) THEN "post"
                       ELSE IF MayProcess(a) THEN "index" ELSE "except",
                a |-> a, n |-> n, doc |-> files[a][n], ok |-> TRUE]]
      /\ UNCHANGED <<files, completed, errors, indexed, total, trampled>>
  BY DEF Receives, TakeMessage
<1>2. DOMAIN worker = Workers
  BY DEF TypeOK, ProcessTypeOK
<1>3. \A b \in Attempts, m \in BatchNums :
         <<b, m>> # <<a, n>> => queue'[b][m] = queue[b][m]
  BY <1>1 DEF TypeOK, BusTypeOK
<1> QED BY <1>1, <1>2, <1>3, MessageTaken

(* A message is picked up, and counted or missed: one message less, one    *)
(* task more.                                                              *)
LEMMA PickUpKeeps ==
  ASSUME BacklogInv, TypeOK', Next, NEW w \in Workers, NEW a \in Attempts,
         NEW n \in BatchNums, Receives(w, a, n), UNCHANGED job,
         \/ CountPickup(a) /\ UNCHANGED missed
         \/ UNCHANGED <<pending, inFlight>> /\ Misses(a)
  PROVE  PendingIsQueued' /\ TasksAreInFlight'
<1>1. /\ TypeOK /\ pending \in [Attempts -> Nat]
      /\ inFlight \in [Attempts -> Nat] /\ missed \in [Attempts -> Nat]
      /\ \A b \in Attempts :
           pending[b] <= Cardinality(Waiting(b)) + missed[b] + Counted(b)
  BY DEF BacklogInv, PendingIsQueued, IInv, LocalInv, TypeOK, BusTypeOK
<1>2. /\ worker'[w].a = a
      /\ \A v \in Workers : v # w => worker'[v] = worker[v]
      /\ Cardinality(Waiting(a)') = Cardinality(Waiting(a)) - 1
      /\ Cardinality(Waiting(a)) > 0
      /\ \A b \in Attempts : b # a => Waiting(b)' = Waiting(b)
  BY <1>1, ReceivesMoves
<1>3. /\ \A b \in Attempts : b # a => /\ pending'[b] = pending[b]
                                      /\ missed'[b] = missed[b]
                                      /\ inFlight'[b] = inFlight[b]
      /\ inFlight'[a] + missed'[a] = inFlight[a] + missed[a] + 1
      /\ \/ missed'[a] = missed[a] /\ (pending'[a] = 0 \/ pending'[a] = pending[a] - 1)
         \/ missed'[a] = missed[a] + 1 /\ pending'[a] = pending[a]
  BY <1>1 DEF CountPickup, Decr, Misses
<1>4. \A b \in Attempts : Counted(b)' = Counted(b) /\ Counted(b) \in {0, 1}
  BY DEF Counted
<1>5. PendingIsQueued'
  <2>1. pending'[a] <= Cardinality(Waiting(a)') + missed'[a] + Counted(a)'
    BY <1>1, <1>2, <1>3, <1>4, WaitingIsFinite
  <2> QED BY <1>1, <1>2, <1>3, <1>4, <2>1 DEF PendingIsQueued
<1>6. ASSUME NEW b \in Attempts, ~IsTerminal(b)'
      PROVE  Cardinality(Tasks(b)') <= inFlight'[b] + missed'[b]
  <2>1. Cardinality(Tasks(b)) <= inFlight[b] + missed[b]
    BY <1>6, VerdictStays DEF BacklogInv, TasksAreInFlight
  <2>2. CASE b = a
    <3>1. Tasks(b)' \subseteq Tasks(b) \cup {w}
      BY <1>2 DEF Tasks, InAttempt
    <3>2. /\ IsFiniteSet(Tasks(b) \cup {w})
          /\ Cardinality(Tasks(b) \cup {w}) \in Nat
          /\ Cardinality(Tasks(b) \cup {w}) <= Cardinality(Tasks(b)) + 1
      BY TasksAreFinite, OneMore
    <3>3. Cardinality(Tasks(b)') <= Cardinality(Tasks(b) \cup {w})
          /\ Cardinality(Tasks(b)') \in Nat
      BY <3>1, <3>2, FS_Subset, FS_CardinalityType
    <3> QED BY <1>1, <1>3, <2>1, <2>2, <3>2, <3>3, TasksAreFinite
  <2>3. CASE b # a
    <3>1. Tasks(b)' \subseteq Tasks(b)
      BY <1>2, <2>3 DEF Tasks, InAttempt
    <3>2. Cardinality(Tasks(b)') <= Cardinality(Tasks(b))
          /\ Cardinality(Tasks(b)') \in Nat
      BY <3>1, TasksAreFinite, FS_Subset, FS_CardinalityType
    <3> QED BY <1>1, <1>3, <2>1, <2>3, <3>2, TasksAreFinite
  <2> QED BY <2>2, <2>3
<1> QED BY <1>5, <1>6 DEF TasksAreInFlight

(* The broker loses a message, and the claim allows for it.                *)
LEMMA LossKeeps ==
  ASSUME BacklogInv, TypeOK', Next, NEW a \in Attempts, BrokerFault(a)
  PROVE  PendingIsQueued' /\ TasksAreInFlight'
<1>1. PICK n \in BatchNums : LoseMessage(a, n)
  BY DEF BrokerFault
<1>2. /\ TypeOK /\ pending \in [Attempts -> Nat] /\ missed \in [Attempts -> Nat]
      /\ inFlight \in [Attempts -> Nat]
      /\ \A b \in Attempts :
           pending[b] <= Cardinality(Waiting(b)) + missed[b] + Counted(b)
  BY DEF BacklogInv, PendingIsQueued, IInv, LocalInv, TypeOK, BusTypeOK
<1>3. /\ queue[a][n] > 0 /\ queue' = [queue EXCEPT ![a][n] = @ - 1]
      /\ UNCHANGED <<pending, inFlight, worker, job>>
      /\ missed' = [missed EXCEPT ![a] = @ + 1]
  BY <1>1 DEF BrokerFault, LoseMessage, TakeMessage, Misses, workerOnly,
     processVars, fetchVars
<1>4. /\ Cardinality(Waiting(a)') = Cardinality(Waiting(a)) - 1
      /\ \A b \in Attempts : b # a => Waiting(b)' = Waiting(b)
  BY <1>2, <1>3, MessageTaken
<1>5. \A b \in Attempts :
        /\ Counted(b)' = Counted(b) /\ Counted(b) \in {0, 1}
        /\ missed'[b] = IF b = a THEN missed[a] + 1 ELSE missed[b]
  BY <1>2, <1>3 DEF Counted
<1>6. PendingIsQueued'
  <2>1. pending'[a] <= Cardinality(Waiting(a)') + missed'[a] + Counted(a)'
    BY <1>2, <1>3, <1>4, <1>5, WaitingIsFinite
  <2> QED BY <1>2, <1>3, <1>4, <1>5, <2>1 DEF PendingIsQueued
<1>7. ASSUME NEW b \in Attempts, ~IsTerminal(b)'
      PROVE  Cardinality(Tasks(b)') <= inFlight'[b] + missed'[b]
  <2>1. Cardinality(Tasks(b)) <= inFlight[b] + missed[b]
    BY <1>7, VerdictStays DEF BacklogInv, TasksAreInFlight
  <2>2. Tasks(b)' = Tasks(b)
    BY <1>3 DEF Tasks, InAttempt
  <2> QED BY <1>2, <1>3, <1>5, <2>1, <2>2, TasksAreFinite
<1> QED BY <1>6, <1>7 DEF TasksAreInFlight

(* one that ends was counted,                                              *)
LEMMA FinishKeeps ==
  ASSUME BacklogInv, TypeOK', Next, NEW w \in Workers, FinishTask(w),
         UNCHANGED <<missed, job>>
  PROVE  PendingIsQueued' /\ TasksAreInFlight'
<1>1. /\ TypeOK /\ inFlight \in [Attempts -> Nat]
      /\ missed \in [Attempts -> Nat]
      /\ worker \in [Workers -> TaskType] /\ worker[w].a \in Attempts
      /\ Idle.at = "idle"
  BY DEF BacklogInv, IInv, LocalInv, TypeOK, BusTypeOK, ProcessTypeOK,
     TaskType, Idle
<1>2. PICK a \in Attempts : a = worker[w].a
  BY <1>1
<1>3. PendingIsQueued'
  <2>1. \A b \in Attempts :
          /\ Waiting(b)' = Waiting(b) /\ pending'[b] = pending[b]
          /\ Counted(b)' = Counted(b)
    BY DEF FinishTask, Waiting, Counted
  <2> QED BY <2>1 DEF BacklogInv, PendingIsQueued
<1>4. /\ worker[w].at = "post"
      /\ worker' = [worker EXCEPT ![w] = Idle]
      /\ inFlight' = Decr(inFlight, a)
  BY <1>2 DEF FinishTask, CountRelease
<1>5. ASSUME NEW b \in Attempts, ~IsTerminal(b)'
      PROVE  Cardinality(Tasks(b)') <= inFlight'[b] + missed'[b]
  <2>1. Cardinality(Tasks(b)) <= inFlight[b] + missed[b]
    BY <1>5, VerdictStays DEF BacklogInv, TasksAreInFlight
  <2>2. Tasks(b)' = Tasks(b) \ {w}
    BY <1>1, <1>4 DEF Tasks, InAttempt
  <2>3. CASE b = a
    <3>1. w \in Tasks(b)
      BY <1>2, <1>4, <2>3 DEF Tasks, InAttempt
    <3>2. Cardinality(Tasks(b)') = Cardinality(Tasks(b)) - 1
          /\ Cardinality(Tasks(b)) \in Nat /\ Cardinality(Tasks(b)') \in Nat
      BY <2>2, <3>1, TasksAreFinite, OneLess
    <3>3. inFlight'[b] >= inFlight[b] - 1 /\ inFlight'[b] \in Nat
      BY <1>1, <1>4, <2>3 DEF Decr
    <3> QED BY <1>1, <2>1, <3>2, <3>3
  <2>4. CASE b # a
    <3>1. Tasks(b)' = Tasks(b)
      BY <1>2, <2>2, <2>4 DEF Tasks, InAttempt
    <3>2. inFlight'[b] = inFlight[b]
      BY <1>1, <1>4, <2>4 DEF Decr
    <3> QED BY <2>1, <3>1, <3>2
  <2> QED BY <2>3, <2>4
<1> QED BY <1>3, <1>5 DEF TasksAreInFlight

(* one that dies leaves its message and the counter as they were,          *)
LEMMA DeathKeeps ==
  ASSUME BacklogInv, TypeOK', Next, NEW w \in Workers, WorkerDies(w),
         UNCHANGED <<missed, job>>
  PROVE  PendingIsQueued' /\ TasksAreInFlight'
<1>1. /\ TypeOK /\ pending \in [Attempts -> Nat]
      /\ worker \in [Workers -> TaskType]
      /\ worker[w].a \in Attempts /\ worker[w].n \in BatchNums
      /\ Idle.at = "idle"
      /\ missed \in [Attempts -> Nat]
      /\ \A b \in Attempts :
           pending[b] <= Cardinality(Waiting(b)) + missed[b] + Counted(b)
  BY DEF BacklogInv, PendingIsQueued, IInv, LocalInv, TypeOK, BusTypeOK,
     ProcessTypeOK, TaskType, Idle
<1>2. PICK a \in Attempts, n \in BatchNums : a = worker[w].a /\ n = worker[w].n
  BY <1>1
<1>3. /\ queue' = [queue EXCEPT ![a][n] = @ + 1]
      /\ worker' = [worker EXCEPT ![w] = Idle]
      /\ UNCHANGED <<pending, inFlight>>
  BY <1>2 DEF WorkerDies
<1>4. /\ Cardinality(Waiting(a)') = Cardinality(Waiting(a)) + 1
      /\ \A b \in Attempts : b # a => Waiting(b)' = Waiting(b)
  BY <1>1, <1>3, MessageAdded
<1>5. PendingIsQueued'
  <2>1. \A b \in Attempts : Counted(b)' = Counted(b) /\ Counted(b) \in {0, 1}
    BY DEF Counted
  <2> QED BY <1>1, <1>3, <1>4, <2>1, WaitingIsFinite DEF PendingIsQueued
<1>6. CountersStay
  BY <1>1, <1>3 DEF CountersStay, Tasks, InAttempt
<1> QED BY <1>5, <1>6, FewerTasks

(* and a usage limit takes a message with the verdict.                     *)
LEMMA UsageLimitKeeps ==
  ASSUME BacklogInv, TypeOK', Next, NEW w \in Workers,
         UsageLimitExceeded(w), UNCHANGED <<missed, job>>
  PROVE  PendingIsQueued' /\ TasksAreInFlight'
<1>1. PICK a \in Attempts, n \in BatchNums :
        /\ queue[a][n] > 0
        /\ queue' = [queue EXCEPT ![a][n] = @ - 1]
        /\ Mark(a, "FAILED")
  BY DEF UsageLimitExceeded, TakeMessage
<1>2. /\ TypeOK /\ pending \in [Attempts -> Nat] /\ "FAILED" \in Terminal
      /\ missed \in [Attempts -> Nat]
      /\ \A b \in Attempts :
           pending[b] <= Cardinality(Waiting(b)) + missed[b] + Counted(b)
  BY DEF BacklogInv, PendingIsQueued, IInv, LocalInv, TypeOK, BusTypeOK,
     Terminal, Resumable
<1>3. CountersStay
  BY <1>1, <1>2, MarkResets DEF UsageLimitExceeded
<1>4. /\ Cardinality(Waiting(a)') = Cardinality(Waiting(a)) - 1
      /\ Cardinality(Waiting(a)) > 0
      /\ \A b \in Attempts : b # a => Waiting(b)' = Waiting(b)
  BY <1>1, <1>2, MessageTaken
<1>5. pending'[a] = 0 /\ \A b \in Attempts : b # a => pending'[b] = pending[b]
  BY <1>1, <1>2 DEF Mark, ResetCounters
<1>6. PendingIsQueued'
  <2>1. \A b \in Attempts : Counted(b)' = Counted(b) /\ Counted(b) \in {0, 1}
    BY DEF Counted
  <2> QED BY <1>2, <1>4, <1>5, <2>1, WaitingIsFinite DEF PendingIsQueued
<1> QED BY <1>3, <1>6, FewerTasks

(* A batch is stored under a number before it is queued under it.          *)
LEMMA StoredStep ==
  ASSUME BacklogInv, Next
  PROVE  StoredHasNumber'
<1> USE DEF BacklogInv, IInv, LocalInv, TypeOK, FetchTypeOK, StoredHasNumber,
        Goto
<1>1. ASSUME NEW a \in Attempts, FetchStep(a) PROVE StoredHasNumber'
  <2>1. CASE StoreFetchedBatch(a)
    BY <2>1 DEF StoreFetchedBatch
  <2>2. CASE VerifyAttempt(a) \/ StartAttempt(a) \/ RefuseStart(a)
             \/ ChooseWindow(a) \/ ResumeFromCheckpoint(a)
             \/ DiscardOldBatches(a) \/ AdoptOldBatches(a)
             \/ CountBatchToSend(a) \/ ReissueBatch(a)
             \/ CarryCompleted(a) \/ SaveFirstCheckpoint(a)
    BY <2>2 DEF VerifyAttempt, StartAttempt, RefuseStart, ChooseWindow,
       ResumeFromCheckpoint, DiscardOldBatches, AdoptOldBatches,
       CountBatchToSend, Counts, ReissueBatch, CarryCompleted,
       SaveFirstCheckpoint, SetCheckpoint, JobType
  <2>3. CASE YieldBatch(a) \/ YieldCheckpoint(a) \/ StopOnSignal(a)
             \/ RaiseNotRunning(a) \/ QueueFetchedBatch(a)
             \/ SaveRunCheckpoint(a) \/ FinishExtraction(a)
             \/ HandleException(a) \/ MarkRaised(a)
    BY <2>3 DEF YieldBatch, YieldCheckpoint, StopOnSignal, RaiseNotRunning,
       QueueFetchedBatch, SaveRunCheckpoint, SetCheckpoint,
       FinishExtraction, HandleException, MarkRaised
  <2> QED BY <1>1, <2>1, <2>2, <2>3 DEF FetchStep
<1>2. ASSUME NEW a \in Attempts, ProxyStep(a) PROVE StoredHasNumber'
  BY <1>2 DEF ProxyStep, SpawnProcess, DropRevoked, ProcessDone,
     ReportFailure, MarkReported, AttemptFinalized, TerminateProcess
<1>3. ASSUME NEW a \in Attempts, FetchFault(a) PROVE StoredHasNumber'
  BY <1>3 DEF FetchFault, SpawnFails, YieldFailure, ExtractionRaises,
     ValidationFails, ProcessDies, WorkerShutsDown, MemoryLimitExceeded,
     PodDies, CountingMissed, Counts, JobType
<1>4. ASSUME NEW a \in Attempts,
             \/ KickoffStep(a) \/ ValidateAttempt(a) \/ Monitor(a)
             \/ Heartbeat(a)
      PROVE  StoredHasNumber'
  BY <1>4 DEF KickoffStep, ValidateAttempt, Monitor, Heartbeat, beatOnly,
     fetchVars
<1>5. CASE SendStep
  BY <1>5 DEF SendStep
<1>6. CASE MonitorStep \/ BeatFault \/ AdminStep
  BY <1>6 DEF MonitorStep, BeatFault, beatOnly, AdminStep, RaiseFence,
     RequestCancellation, PauseRow, ResumeConnector, fetchVars
<1>7. CASE \/ \E a \in Attempts : BrokerFault(a)
           \/ \E w \in Workers :
                WorkerStep(w) \/ WorkerFault(w) \/ PickUpFault(w)
  BY <1>7 DEF BrokerFault, WorkerStep, WorkerFault, PickUpFault, workerOnly,
     fetchVars
<1> QED BY <1>1, <1>2, <1>3, <1>4, <1>5, <1>6, <1>7 DEF Next

(* Only the step that counts a batch marks it counted.                     *)
LEMMA OnlyCounts ==
  ASSUME TypeOK, NEW a \in Attempts,
         ProxyStep(a) \/ FetchStep(a) \/ FetchFault(a), Counts(a)
  PROVE  CountBatchToSend(a) \/ CountingMissed(a)
<1>1. job' # job /\ process[a] \in {"reissue", "stored"}
      /\ job'[a].counted /\ ~job[a].counted
  BY DEF Counts, HasToSend, TypeOK, FetchTypeOK, JobType
<1>2. ~ProxyStep(a)
  BY <1>1 DEF ProxyStep, SpawnProcess, DropRevoked, ProcessDone,
     ReportFailure, MarkReported, AttemptFinalized, TerminateProcess
<1>3. ASSUME FetchFault(a) PROVE CountingMissed(a)
  BY <1>1, <1>3 DEF FetchFault, SpawnFails, YieldFailure, ExtractionRaises,
     ValidationFails, ProcessDies, WorkerShutsDown, MemoryLimitExceeded,
     PodDies
<1>4. ASSUME FetchStep(a) PROVE CountBatchToSend(a)
  BY <1>1, <1>4 DEF FetchStep, VerifyAttempt, StartAttempt, RefuseStart,
     ChooseWindow, ResumeFromCheckpoint, DiscardOldBatches, AdoptOldBatches,
     ReissueBatch, CarryCompleted, SaveFirstCheckpoint, SetCheckpoint,
     YieldBatch, YieldCheckpoint, StopOnSignal, RaiseNotRunning,
     StoreFetchedBatch, QueueFetchedBatch, SaveRunCheckpoint,
     FinishExtraction, HandleException, MarkRaised
<1> QED BY <1>2, <1>3, <1>4

(* Every step keeps the counters true.                                     *)
LEMMA BacklogStep ==
  ASSUME BacklogInv, Next
  PROVE  PendingIsQueued' /\ TasksAreInFlight'
<1>1. IInv /\ LocalInv /\ TypeOK /\ TypeOK'
  BY LocalStep DEF BacklogInv, IInv, LocalInv
<1>2. ASSUME CountersStay, MessagesStay
      PROVE  PendingIsQueued' /\ TasksAreInFlight'
  BY <1>1, <1>2, FewerTasks, FewerPending DEF MessagesStay
<1>3. ASSUME NEW a \in Attempts,
             ProxyStep(a) \/ FetchStep(a) \/ FetchFault(a)
      PROVE  PendingIsQueued' /\ TasksAreInFlight'
  <2>0. UNCHANGED <<worker, missed>>
    BY <1>3 DEF ProxyStep, FetchStep, FetchFault, fetchOnly, processVars
  <2>1. CASE Counts(a)
    <3>1. CountBatchToSend(a) \/ CountingMissed(a)
      BY <1>1, <1>3, <2>1, OnlyCounts
    <3>2. /\ IncrPending(a) \/ UNCHANGED pending
          /\ UNCHANGED <<queue, inFlight>>
      BY <3>1 DEF CountBatchToSend, CountingMissed, busVars
    <3> QED BY <1>1, <2>0, <2>1, <3>2, CountKeeps, FetchKeepsTasks
  <2>2. CASE ReissueBatch(a)
    <3>1. PICK b \in job[a].old :
            /\ SendMessage(a, b[2])
            /\ job' = [job EXCEPT ![a].old = @ \ {b}, ![a].counted = FALSE]
      BY <2>2 DEF ReissueBatch
    <3>2. /\ b[2] \in BatchNums /\ ~job'[a].counted
          /\ \A c \in Attempts : c # a => job'[c] = job[c]
      BY <1>1, <3>1 DEF TypeOK, FetchTypeOK, JobType
    <3>3. UNCHANGED <<pending, inFlight>> /\ job[a].counted
      BY <2>2 DEF ReissueBatch
    <3> QED BY <1>1, <2>0, <3>1, <3>2, <3>3, SendKeeps, FetchKeepsTasks
  <2>3. CASE QueueFetchedBatch(a)
    <3>1. job[a].num \in BatchNums
      BY <2>3 DEF BacklogInv, StoredHasNumber, QueueFetchedBatch
    <3>2. /\ ~job'[a].counted
          /\ \A c \in Attempts : c # a => job'[c] = job[c]
      BY <1>1, <2>3 DEF QueueFetchedBatch, TypeOK, FetchTypeOK, JobType
    <3>3. /\ UNCHANGED <<pending, inFlight>> /\ job[a].counted
          /\ SendMessage(a, job[a].num)
      BY <2>3 DEF QueueFetchedBatch
    <3> QED BY <1>1, <2>0, <3>1, <3>2, <3>3, SendKeeps, FetchKeepsTasks
  <2>4. CASE ~Sends(a)
    BY <1>1, <1>2, <1>3, <2>4, FetchingStays
  <2> QED BY <2>1, <2>2, <2>3, <2>4 DEF Sends
<1>4. ASSUME NEW w \in Workers, WorkerStep(w) \/ WorkerFault(w)
      PROVE  PendingIsQueued' /\ TasksAreInFlight'
  <2>1. UNCHANGED <<missed, job>>
    BY <1>4 DEF WorkerStep, WorkerFault, workerOnly, fetchVars
  <2>2. ASSUME CountersStay, UNCHANGED queue PROVE CountersStay /\ MessagesStay
    BY <2>1, <2>2 DEF MessagesStay
  <2>3. PickUpBatch(w) =>
          \E a \in Attempts, n \in BatchNums : Receives(w, a, n) /\ CountPickup(a)
    BY DEF PickUpBatch
  <2> QED
    BY <1>1, <1>2, <1>4, <2>1, <2>2, <2>3, WorkerCounters, PickUpKeeps,
       FinishKeeps, DeathKeeps, UsageLimitKeeps
<1>5. ASSUME NEW w \in Workers, PickUpFault(w)
      PROVE  PendingIsQueued' /\ TasksAreInFlight'
  <2>1. PICK a \in Attempts, n \in BatchNums :
          Receives(w, a, n) /\ UNCHANGED <<pending, inFlight>> /\ Misses(a)
    BY <1>5 DEF PickUpFault, PickUpMissed
  <2>2. UNCHANGED job
    BY <1>5 DEF PickUpFault, workerOnly, fetchVars
  <2> QED BY <1>1, <2>1, <2>2, PickUpKeeps
<1>6. CASE \/ \E a \in Attempts : \/ KickoffStep(a) \/ ValidateAttempt(a)
                                  \/ Monitor(a) \/ Heartbeat(a)
           \/ SendStep \/ MonitorStep \/ BeatFault \/ AdminStep
  BY <1>1, <1>2, <1>6, OthersStay
<1>7. ASSUME NEW a \in Attempts, BrokerFault(a)
      PROVE  PendingIsQueued' /\ TasksAreInFlight'
  BY <1>1, <1>7, LossKeeps
<1> QED BY <1>3, <1>4, <1>5, <1>6, <1>7 DEF Next

(* The inductive invariant holds at the start,                             *)
LEMMA InitBacklog == Init => BacklogInv
<1> SUFFICES ASSUME Init PROVE BacklogInv
  OBVIOUS
<1>1. IInv
  BY InitIInv
<1>2. StoredHasNumber
  BY DEF Init, FetchInit, StoredHasNumber
<1>3. PendingIsQueued
  BY <1>1, WaitingIsFinite DEF Init, BusInit, PendingIsQueued, Counted, IInv,
     LocalInv
<1>4. TasksAreInFlight
  <2>1. ASSUME NEW a \in Attempts PROVE Tasks(a) = {}
    BY DEF Init, ProcessInit, Idle, Tasks, InAttempt
  <2> QED BY <2>1, FS_EmptySet DEF Init, BusInit, TasksAreInFlight
<1> QED BY <1>1, <1>2, <1>3, <1>4 DEF BacklogInv

(* and every step keeps it.                                                *)
LEMMA BacklogStays ==
  ASSUME BacklogInv, [Next]_vars
  PROVE  BacklogInv'
<1>1. IInv'
  BY LocalStep, RowsStep, OneActiveStep, UpdatesStep DEF BacklogInv, IInv
<1>2. CASE Next
  BY <1>1, <1>2, StoredStep, BacklogStep DEF BacklogInv
<1>3. CASE UNCHANGED vars
  BY <1>1, <1>3 DEF BacklogInv, StoredHasNumber, PendingIsQueued,
     TasksAreInFlight, Counted, Waiting, Tasks, InAttempt, IsTerminal, vars,
     rowVars, attemptVars, busVars, fetchVars, processVars
<1> QED BY <1>2, <1>3

(* BacklogInv is an invariant.                                             *)
THEOREM BacklogInvariance == Spec => []BacklogInv
<1>1. BacklogInv /\ [Next]_vars => BacklogInv'
  BY BacklogStays
<1> QED BY InitBacklog, <1>1, PTL DEF Spec

-----------------------------------------------------------------------------
(* Where a task has its batch still to count                               *)
Uncounted == {"index", "count"}
               \cup (IF Persistent THEN {"except", "tally"} ELSE {})

(* No task dies or raises after it counted its batch: the batch would be   *)
(* counted again, or counted with its document nowhere (run RecountCrash). *)
CountedOnce == "late_task" \notin Faults /\ CrashPoints \subseteq Uncounted

(* Docfetching has not yet sent a batch of the attempt.                    *)
Unsent == {"none", "queued", "spawned", "verified", "window", "connect",
           "adopt"}

ToCount(a) == {w \in Workers : worker[w].at \in Uncounted /\ worker[w].a = a}

(* Documents that are in the index, or have an error row, or a task about  *)
(* to write it                                                             *)
Recorded ==
    indexed \cup AllErrors
      \cup {worker[w].doc : w \in {x \in Workers : worker[x].at = "errors"}}

(* A message or a task will still count batch n, or its message is still   *)
(* to be sent.                                                             *)
OnItsWay(a, n) ==
    \/ queue[a][n] > 0
    \/ \E w \in ToCount(a) : worker[w].n = n /\ worker[w].doc = files[a][n]
    \/ process[a] = "stored" /\ job[a].num = n
    \/ process[a] = "reissue" /\ \E b \in job[a].old : b[2] = n

(* Stored batches that nothing recorded and nothing will count: the task   *)
(* raised, or the usage limit took the message                             *)
Dropped(a) ==
    {n \in BatchNums : /\ HasFile(a, n)
                       /\ files[a][n] \notin Recorded
                       /\ ~OnItsWay(a, n)}

(* The counts the attempt is still owed, and those it will never get       *)
Owed(a) == Cardinality(Waiting(a)) + Cardinality(ToCount(a))
             + Cardinality(Dropped(a))

(* The total an attempt sets covers what it has counted and what is owed.  *)
CountsAreOwed(a) ==
    /\ process[a] \in Unsent =>
         /\ Waiting(a) = {} /\ Tasks(a) = {} /\ completed[a] = 0
         /\ job[a].num = 0 /\ (process[a] # "adopt" => job[a].carried = 0)
    /\ process[a] = "reissue" =>
         Owed(a) + Cardinality(job[a].old) + completed[a] + job[a].carried
           <= job[a].num
    /\ process[a] \in {"save", "run", "got", "chunk", "stored"} =>
         Owed(a) + completed[a] <= job[a].num
    /\ total[a] # None => /\ process[a] \in {"done", "dead"}
                          /\ Owed(a) + completed[a] <= total[a]

(* A task counts what it has indexed, and a failed one what it recorded.   *)
TasksRecord ==
    \A w \in Workers :
      /\ worker[w].at = "count" /\ worker[w].ok => worker[w].doc \in indexed
      /\ worker[w].at = "tally" => Persistent /\ worker[w].doc \in AllErrors

(* The message of an attempt is sent once, before anything runs for it.    *)
SentOnce ==
    /\ \A a \in Attempts : proxy[a] # "off" => process[a] # "none"
    /\ beat.at = "send" => process[beat.a] = "none"

(* A batch is counted and not sent only where it is about to be sent, or   *)
(* its process was stopped there: not in one that sets the total.          *)
CountedInPlace ==
    \A a \in Attempts :
      /\ job[a].counted =>
           /\ process[a] \in {"reissue", "stored", "raised", "marking",
                              "error", "dead"}
           /\ process[a] = "reissue" => job[a].old # {}
      /\ total[a] # None => process[a] \in {"done", "dead"} /\ ~job[a].counted

(* What the counters rest on, once extraction is over                      *)
SentInv ==
    /\ BacklogInv
    /\ SentOnce
    /\ CountedInPlace

(* The inductive invariant of the completion                               *)
CompletionInv ==
    /\ SentInv
    /\ TasksRecord
    /\ \A a \in Attempts : CountsAreOwed(a)

-----------------------------------------------------------------------------
(* What is owed is a number,                                               *)
LEMMA OwedIsNat ==
  ASSUME TypeOK, NEW a \in Attempts
  PROVE  /\ IsFiniteSet(ToCount(a)) /\ IsFiniteSet(Dropped(a))
         /\ Cardinality(Waiting(a)) \in Nat
         /\ Cardinality(ToCount(a)) \in Nat
         /\ Cardinality(Dropped(a)) \in Nat
         /\ Owed(a) \in Nat
<1>1. IsFiniteSet(ToCount(a)) /\ Cardinality(ToCount(a)) \in Nat
  BY DocProcessingAssumption, FS_Subset, FS_CardinalityType DEF ToCount
<1>2. IsFiniteSet(BatchNums)
  BY IndexAttemptAssumption, FS_Interval DEF BatchNums
<1>3. Dropped(a) \subseteq BatchNums
  BY DEF Dropped
<1>4. IsFiniteSet(Dropped(a)) /\ Cardinality(Dropped(a)) \in Nat
  BY <1>2, <1>3, FS_Subset, FS_CardinalityType
<1> QED BY <1>1, <1>4, WaitingIsFinite DEF Owed

(* and one after the step, too.                                            *)
LEMMA OwedStaysNat ==
  ASSUME TypeOK', NEW a \in Attempts
  PROVE  Owed(a)' \in Nat
<1>1. queue'[a] \in [BatchNums -> Nat]
  BY DEF TypeOK, BusTypeOK
<1>2. IsFiniteSet(Waiting(a)')
  <2>1. IsFiniteSet(UNION {{n} \X (1..queue'[a][n]) : n \in BatchNums})
    BY <1>1, CopiesAreFinite
  <2> QED BY <2>1 DEF Waiting
<1>3. IsFiniteSet(ToCount(a)')
  BY DocProcessingAssumption, FS_Subset DEF ToCount
<1>4. IsFiniteSet(Dropped(a)')
  <2>1. IsFiniteSet(BatchNums)
    BY IndexAttemptAssumption, FS_Interval DEF BatchNums
  <2>2. Dropped(a)' \subseteq BatchNums
    BY DEF Dropped
  <2> QED BY <2>1, <2>2, FS_Subset
<1>5. /\ Cardinality(Waiting(a)') \in Nat
      /\ Cardinality(ToCount(a)') \in Nat
      /\ Cardinality(Dropped(a)') \in Nat
  BY <1>2, <1>3, <1>4, FS_CardinalityType
<1> QED BY <1>5 DEF Owed

(* Batches stay on their way, but for those of X, the stored documents are *)
(* the same or gone, and what is recorded stays so.                        *)
Carries(a, X) ==
    /\ \A n \in BatchNums : \/ files'[a][n] = files[a][n]
                            \/ files'[a][n] = NoDoc
    /\ Recorded \subseteq Recorded'
    /\ \A n \in BatchNums \ X :
          /\ files'[a][n] = files[a][n]
          /\ HasFile(a, n)
          /\ files[a][n] \notin Recorded'
          /\ OnItsWay(a, n)
          => OnItsWay(a, n)'

(* No batch is dropped,                                                    *)
LEMMA DroppedShrinks ==
  ASSUME TypeOK, TypeOK', NEW a \in Attempts, Carries(a, {})
  PROVE  /\ Cardinality(Dropped(a)') <= Cardinality(Dropped(a))
         /\ Cardinality(Dropped(a)') \in Nat
<1>1. Dropped(a)' \subseteq Dropped(a)
  <2> SUFFICES ASSUME NEW n \in BatchNums, n \in Dropped(a)'
               PROVE  n \in Dropped(a)
    BY DEF Dropped
  <2>1. /\ files'[a][n] # NoDoc /\ files'[a][n] \notin Recorded'
        /\ ~OnItsWay(a, n)'
    BY DEF Dropped, HasFile
  <2>2. files'[a][n] = files[a][n]
    BY <2>1 DEF Carries
  <2>3. HasFile(a, n) /\ files[a][n] \notin Recorded'
    BY <2>1, <2>2 DEF HasFile
  <2>4. ~OnItsWay(a, n)
    BY <2>1, <2>2, <2>3 DEF Carries
  <2> QED BY <2>3, <2>4 DEF Carries, Dropped
<1> QED BY <1>1, OwedIsNat, FS_Subset, FS_CardinalityType

(* or one batch is.                                                        *)
LEMMA OneMoreDropped ==
  ASSUME TypeOK, TypeOK', NEW a \in Attempts, NEW m \in BatchNums,
         Carries(a, {m})
  PROVE  /\ Cardinality(Dropped(a)') <= Cardinality(Dropped(a)) + 1
         /\ Cardinality(Dropped(a)') \in Nat
<1>1. Dropped(a)' \subseteq Dropped(a) \cup {m}
  <2> SUFFICES ASSUME NEW n \in BatchNums, n \in Dropped(a)', n # m
               PROVE  n \in Dropped(a)
    BY DEF Dropped
  <2>1. /\ files'[a][n] # NoDoc /\ files'[a][n] \notin Recorded'
        /\ ~OnItsWay(a, n)'
    BY DEF Dropped, HasFile
  <2>2. files'[a][n] = files[a][n]
    BY <2>1 DEF Carries
  <2>3. HasFile(a, n) /\ files[a][n] \notin Recorded'
    BY <2>1, <2>2 DEF HasFile
  <2>4. ~OnItsWay(a, n)
    BY <2>1, <2>2, <2>3 DEF Carries
  <2> QED BY <2>3, <2>4 DEF Carries, Dropped
<1>2. /\ IsFiniteSet(Dropped(a) \cup {m})
      /\ Cardinality(Dropped(a) \cup {m}) \in Nat
      /\ Cardinality(Dropped(a) \cup {m}) <= Cardinality(Dropped(a)) + 1
  BY OwedIsNat, OneMore
<1>3. Cardinality(Dropped(a)') <= Cardinality(Dropped(a) \cup {m})
      /\ Cardinality(Dropped(a)') \in Nat
  BY <1>1, <1>2, FS_Subset, FS_CardinalityType
<1> QED BY <1>2, <1>3, OwedIsNat

(* What is recorded stays recorded, if the tasks about to write an error   *)
(* row write it.                                                           *)
LEMMA RecordsStay ==
  ASSUME indexed \subseteq indexed',
         \A b \in Attempts : errors[b] \subseteq errors'[b],
         \A v \in Workers : worker[v].at = "errors" =>
            \/ worker'[v].at = "errors" /\ worker'[v].doc = worker[v].doc
            \/ worker[v].doc \in AllErrors'
  PROVE  Recorded \subseteq Recorded' /\ AllErrors \subseteq AllErrors'
<1>1. AllErrors \subseteq AllErrors'
  BY DEF AllErrors
<1> QED BY <1>1 DEF Recorded

(* An attempt whose queue, tasks and process a step leaves alone           *)
Untouched(a) ==
    /\ queue'[a] = queue[a]
    /\ ToCount(a)' = ToCount(a)
    /\ \A w \in ToCount(a) : /\ worker'[w].n = worker[w].n
                             /\ worker'[w].doc = worker[w].doc
    /\ process[a] = "stored" =>
         process'[a] = "stored" /\ job'[a].num = job[a].num
    /\ process[a] = "reissue" =>
         process'[a] = "reissue" /\ job'[a].old = job[a].old

(* is owed no more than before.                                            *)
LEMMA UntouchedOwes ==
  ASSUME TypeOK, TypeOK', NEW a \in Attempts, Untouched(a),
         \A n \in BatchNums : files'[a][n] \in {files[a][n], NoDoc},
         Recorded \subseteq Recorded'
  PROVE  /\ Owed(a)' <= Owed(a) /\ Owed(a)' \in Nat
         /\ Waiting(a)' = Waiting(a)
<1>1. ASSUME NEW n \in BatchNums, OnItsWay(a, n), files'[a][n] = files[a][n]
      PROVE  OnItsWay(a, n)'
  <2>1. CASE queue[a][n] > 0
    BY <2>1 DEF Untouched, OnItsWay
  <2>2. CASE \E w \in ToCount(a) : /\ worker[w].n = n
                                   /\ worker[w].doc = files[a][n]
    <3>1. PICK w \in ToCount(a) :
            worker[w].n = n /\ worker[w].doc = files[a][n]
      BY <2>2
    <3>2. /\ w \in ToCount(a)' /\ worker'[w].n = n
          /\ worker'[w].doc = files'[a][n]
      BY <1>1, <3>1 DEF Untouched
    <3> QED BY <3>2 DEF OnItsWay
  <2>3. CASE process[a] = "stored" /\ job[a].num = n
    BY <2>3 DEF Untouched, OnItsWay
  <2>4. CASE process[a] = "reissue" /\ \E b \in job[a].old : b[2] = n
    BY <2>4 DEF Untouched, OnItsWay
  <2> QED BY <1>1, <2>1, <2>2, <2>3, <2>4 DEF OnItsWay
<1>2. Carries(a, {})
  BY <1>1 DEF Carries
<1>3. Waiting(a)' = Waiting(a)
  BY DEF Untouched, Waiting
<1>4. ToCount(a)' = ToCount(a)
  BY DEF Untouched
<1>5. /\ Cardinality(Dropped(a)') <= Cardinality(Dropped(a))
      /\ Cardinality(Dropped(a)') \in Nat
  BY <1>2, DroppedShrinks
<1> QED BY <1>3, <1>4, <1>5, OwedIsNat DEF Owed

-----------------------------------------------------------------------------
(* What a step of docprocessing does to an attempt: what it counts it was  *)
(* owed, and of an attempt that has sent nothing it does nothing.          *)
Settles(a) ==
    /\ Owed(a)' + completed'[a] <= Owed(a) + completed[a]
    /\ Waiting(a) = {} /\ Tasks(a) = {} =>
         /\ Waiting(a)' = {} /\ Tasks(a)' = {}
         /\ completed'[a] = completed[a]

(* A task that moves on, for an attempt that is not its own                *)
LEMMA OtherSettles ==
  ASSUME TypeOK, TypeOK', NEW a \in Attempts, NEW w \in Workers,
         \A v \in Workers : v # w => worker'[v] = worker[v],
         w \notin Tasks(a), w \notin Tasks(a)', UNCHANGED fetchVars,
         queue'[a] = queue[a], completed'[a] = completed[a],
         \A n \in BatchNums : files'[a][n] \in {files[a][n], NoDoc},
         Recorded \subseteq Recorded'
  PROVE  Settles(a)
<1>1. "idle" \notin Uncounted
  BY DEF Uncounted
<1>2. w \notin ToCount(a) /\ w \notin ToCount(a)'
  BY <1>1 DEF ToCount, Tasks, InAttempt
<1>3. ToCount(a)' = ToCount(a) /\ Tasks(a)' = Tasks(a)
  BY <1>2 DEF ToCount, Tasks, InAttempt
<1>4. Untouched(a)
  <2>1. \A v \in ToCount(a) : v \in Workers /\ v # w
    BY <1>2 DEF ToCount
  <2> QED BY <1>3, <2>1 DEF Untouched, fetchVars
<1>5. completed[a] \in Nat
  BY DEF TypeOK, RowTypeOK
<1> QED BY <1>3, <1>4, <1>5, UntouchedOwes, OwedIsNat DEF Settles

(* A task that moves on before it counts its batch                         *)
LEMMA StillCounts ==
  ASSUME TypeOK, TypeOK', NEW a \in Attempts, NEW w \in Workers,
         \A v \in Workers : v # w => worker'[v] = worker[v],
         worker[w].at # "idle",
         worker'[w].a = worker[w].a, worker'[w].n = worker[w].n,
         worker'[w].doc = worker[w].doc,
         worker'[w].at \in Uncounted <=> worker[w].at \in Uncounted,
         UNCHANGED <<fetchVars, queue, completed>>,
         \A n \in BatchNums : files'[a][n] \in {files[a][n], NoDoc},
         Recorded \subseteq Recorded'
  PROVE  Settles(a)
<1>1. ToCount(a)' = ToCount(a)
  <2>1. ASSUME NEW v \in Workers
        PROVE  v \in ToCount(a)' <=> v \in ToCount(a)
    <3>1. CASE v = w
      BY <3>1 DEF ToCount
    <3>2. CASE v # w
      BY <3>2 DEF ToCount
    <3> QED BY <3>1, <3>2
  <2> QED BY <2>1 DEF ToCount
<1>2. Untouched(a)
  <2>1. \A v \in Workers : worker'[v].n = worker[v].n
                          /\ worker'[v].doc = worker[v].doc
    OBVIOUS
  <2> QED BY <1>1, <2>1 DEF Untouched, fetchVars, ToCount
<1>3. Tasks(a)' \subseteq Tasks(a)
  BY DEF Tasks, InAttempt
<1>4. completed[a] \in Nat
  BY DEF TypeOK, RowTypeOK
<1> QED BY <1>2, <1>3, <1>4, UntouchedOwes, OwedIsNat DEF Settles

(* A task that counts its batch no more                                    *)
LEMMA OneLessToCount ==
  ASSUME NEW a \in Attempts, NEW w \in Workers, w \in ToCount(a),
         w \notin ToCount(a)',
         \A v \in Workers : v # w => worker'[v] = worker[v]
  PROVE  /\ Cardinality(ToCount(a)') = Cardinality(ToCount(a)) - 1
         /\ Cardinality(ToCount(a)) \in Nat
         /\ Cardinality(ToCount(a)') \in Nat
         /\ \A v \in ToCount(a) \ {w} : /\ v \in ToCount(a)'
                                        /\ worker'[v] = worker[v]
<1>1. ToCount(a)' = ToCount(a) \ {w}
  BY DEF ToCount
<1>2. IsFiniteSet(ToCount(a))
  BY DocProcessingAssumption, FS_Subset DEF ToCount
<1>3. \A v \in ToCount(a) \ {w} : v \in Workers
  BY DEF ToCount
<1> QED BY <1>1, <1>2, <1>3, OneLess

(* The batches of an attempt are still on their way when a task, or a      *)
(* message of batch m, is done with it, except for batch m.                *)
LEMMA OthersOnTheirWay ==
  ASSUME NEW a \in Attempts, UNCHANGED fetchVars, NEW m,
         \A n \in BatchNums : n # m /\ queue[a][n] > 0 => queue'[a][n] > 0,
         \A v \in ToCount(a) : worker[v].n # m =>
            v \in ToCount(a)' /\ worker'[v] = worker[v],
         NEW n \in BatchNums, n # m, OnItsWay(a, n),
         files'[a][n] = files[a][n]
  PROVE  OnItsWay(a, n)'
<1>1. CASE queue[a][n] > 0
  BY <1>1 DEF OnItsWay
<1>2. CASE \E v \in ToCount(a) : worker[v].n = n /\ worker[v].doc = files[a][n]
  <2>1. PICK v \in ToCount(a) : worker[v].n = n /\ worker[v].doc = files[a][n]
    BY <1>2
  <2>2. v \in ToCount(a)' /\ worker'[v].n = n /\ worker'[v].doc = files'[a][n]
    BY <2>1
  <2> QED BY <2>2 DEF OnItsWay
<1>3. CASE process[a] = "stored" /\ job[a].num = n
  BY <1>3 DEF OnItsWay, fetchVars
<1>4. CASE process[a] = "reissue" /\ \E b \in job[a].old : b[2] = n
  BY <1>4 DEF OnItsWay, fetchVars
<1> QED BY <1>1, <1>2, <1>3, <1>4 DEF OnItsWay

(* A task counts its batch once the document is recorded.                  *)
LEMMA CountSettles ==
  ASSUME TypeOK, TypeOK', NEW w \in Workers, worker[w].at \in Uncounted,
         NEW a \in Attempts, worker[w].a = a,
         worker'[w].at \notin Uncounted \cup {"idle"}, worker'[w].a = a,
         \A v \in Workers : v # w => worker'[v] = worker[v],
         UNCHANGED <<fetchVars, queue, files>>,
         completed'[a] = completed[a] + 1,
         Recorded \subseteq Recorded', worker[w].doc \in Recorded'
  PROVE  Settles(a)
<1>0. "idle" \notin Uncounted
  BY DEF Uncounted
<1>1. w \in ToCount(a) /\ w \notin ToCount(a)' /\ w \in Tasks(a)
  BY <1>0 DEF ToCount, Tasks, InAttempt
<1>2. Waiting(a)' = Waiting(a)
  BY DEF Waiting
<1>3. Carries(a, {})
  <2>1. ASSUME NEW n \in BatchNums, OnItsWay(a, n),
               files[a][n] \notin Recorded'
        PROVE  OnItsWay(a, n)'
    <3>1. CASE queue[a][n] > 0
      BY <3>1 DEF OnItsWay
    <3>2. CASE \E v \in ToCount(a) : /\ worker[v].n = n
                                     /\ worker[v].doc = files[a][n]
      <4>1. PICK v \in ToCount(a) : /\ worker[v].n = n
                                    /\ worker[v].doc = files[a][n]
        BY <3>2
      <4>2. v # w
        BY <2>1, <4>1
      <4>3. v \in ToCount(a)' /\ worker'[v] = worker[v]
        BY <1>1, <4>2, OneLessToCount
      <4> QED BY <4>1, <4>3 DEF OnItsWay
    <3>3. CASE process[a] = "stored" /\ job[a].num = n
      BY <3>3 DEF OnItsWay, fetchVars
    <3>4. CASE process[a] = "reissue" /\ \E b \in job[a].old : b[2] = n
      BY <3>4 DEF OnItsWay, fetchVars
    <3> QED BY <2>1, <3>1, <3>2, <3>3, <3>4 DEF OnItsWay
  <2> QED BY <2>1 DEF Carries
<1>4. completed[a] \in Nat
  BY DEF TypeOK, RowTypeOK
<1>5. /\ Cardinality(ToCount(a)') = Cardinality(ToCount(a)) - 1
      /\ Cardinality(ToCount(a)) \in Nat
      /\ Cardinality(ToCount(a)') \in Nat
  BY <1>1, OneLessToCount
<1>6. Owed(a)' + completed'[a] <= Owed(a) + completed[a]
  BY <1>2, <1>3, <1>4, <1>5, DroppedShrinks, OwedIsNat DEF Owed
<1> QED BY <1>1, <1>6 DEF Settles

(* A task that gives its batch up has dropped it.                          *)
LEMMA GiveUpSettles ==
  ASSUME TypeOK, TypeOK', NEW w \in Workers, worker[w].at \in Uncounted,
         NEW a \in Attempts, worker[w].a = a, worker'[w].at \notin Uncounted,
         \A v \in Workers : v # w => worker'[v] = worker[v],
         UNCHANGED <<fetchVars, queue, files, completed>>,
         Recorded \subseteq Recorded'
  PROVE  Settles(a)
<1>0. "idle" \notin Uncounted
  BY DEF Uncounted
<1>1. w \in ToCount(a) /\ w \notin ToCount(a)' /\ w \in Tasks(a)
  BY <1>0 DEF ToCount, Tasks, InAttempt
<1>2. Waiting(a)' = Waiting(a)
  BY DEF Waiting
<1>3. PICK m \in BatchNums : m = worker[w].n
  BY DEF TypeOK, ProcessTypeOK, TaskType
<1>4. Carries(a, {m})
  <2>1. \A v \in ToCount(a) : worker[v].n # m =>
           v \in ToCount(a)' /\ worker'[v] = worker[v]
    BY <1>1, <1>3, OneLessToCount
  <2>2. ASSUME NEW n \in BatchNums \ {m}, OnItsWay(a, n)
        PROVE  OnItsWay(a, n)'
    BY <2>1, <2>2, OthersOnTheirWay
  <2> QED BY <2>2 DEF Carries
<1>5. /\ Cardinality(ToCount(a)') = Cardinality(ToCount(a)) - 1
      /\ Cardinality(ToCount(a)) \in Nat
      /\ Cardinality(ToCount(a)') \in Nat
  BY <1>1, OneLessToCount
<1>6. completed[a] \in Nat
  BY DEF TypeOK, RowTypeOK
<1>7. Owed(a)' + completed'[a] <= Owed(a) + completed[a]
  BY <1>2, <1>4, <1>5, <1>6, OneMoreDropped, OwedIsNat DEF Owed
<1> QED BY <1>1, <1>7 DEF Settles

(* A message is received, whether Redis counts it or not.                  *)
PickUp(w) == \E a \in Attempts, n \in BatchNums : Receives(w, a, n)

(* A message becomes a task that counts it, or the message of a batch that *)
(* is not stored or not processed is done with.                            *)
LEMMA PickUpSettles ==
  ASSUME TypeOK, TypeOK', NEW w \in Workers, PickUp(w),
         UNCHANGED fetchVars, Recorded \subseteq Recorded',
         NEW a \in Attempts
  PROVE  Settles(a)
<1>1. PICK c \in Attempts, m \in BatchNums : Receives(w, c, m)
  BY DEF PickUp
<1>2. /\ worker[w].at = "idle"
      /\ worker'[w].a = c /\ worker'[w].n = m /\ worker'[w].doc = files[c][m]
      /\ worker'[w].at = IF ~HasFile(c, m) THEN "post"
                         ELSE IF MayProcess(c) THEN "index" ELSE "except"
      /\ \A v \in Workers : v # w => worker'[v] = worker[v]
      /\ UNCHANGED <<files, completed>>
      /\ Cardinality(Waiting(c)') = Cardinality(Waiting(c)) - 1
      /\ Cardinality(Waiting(c)) > 0
  BY <1>1, ReceivesMoves
<1>3. \A b \in Attempts, n \in BatchNums :
         <<b, n>> # <<c, m>> => queue'[b][n] = queue[b][n]
  BY <1>1, ReceivesMoves
<1>0. /\ "idle" \notin Uncounted /\ "post" \notin Uncounted
      /\ "index" \in Uncounted /\ completed[a] \in Nat
  BY DEF Uncounted, TypeOK, RowTypeOK
<1>4. CASE a # c
  <2>1. w \notin Tasks(a) /\ w \notin Tasks(a)'
    BY <1>2, <1>4 DEF Tasks, InAttempt
  <2>2. queue'[a] = queue[a]
    BY <1>1, <1>4 DEF Receives, TakeMessage, TypeOK, BusTypeOK
  <2> QED BY <1>2, <2>1, <2>2, OtherSettles
<1>5. CASE a = c
  <2>1. w \notin ToCount(a)
    BY <1>0, <1>2 DEF ToCount
  <2>2. Waiting(a) # {}
    BY <1>2, <1>5, FS_EmptySet
  <2>3. \A v \in ToCount(a) : v \in ToCount(a)' /\ worker'[v] = worker[v]
    BY <1>2, <2>1 DEF ToCount
  <2>4. \A n \in BatchNums : n # m => queue'[a][n] = queue[a][n]
    BY <1>3, <1>5
  <2>5. ASSUME NEW n \in BatchNums \ {m}, OnItsWay(a, n)
        PROVE  OnItsWay(a, n)'
    BY <1>2, <2>3, <2>4, <2>5, OthersOnTheirWay
  <2>6. CASE w \in ToCount(a)'
    <3>1. ToCount(a)' = ToCount(a) \cup {w}
      BY <1>2, <2>6 DEF ToCount
    <3>2. /\ Cardinality(ToCount(a)') = Cardinality(ToCount(a)) + 1
          /\ Cardinality(ToCount(a)') \in Nat
      BY <2>1, <3>1, OwedIsNat, OneMore
    <3>3. OnItsWay(a, m)'
      BY <1>2, <1>5, <2>6 DEF OnItsWay
    <3>4. Carries(a, {})
      BY <1>2, <2>5, <3>3 DEF Carries
    <3>5. Owed(a)' <= Owed(a) /\ Owed(a)' \in Nat
      BY <1>2, <1>5, <3>2, <3>4, DroppedShrinks, OwedIsNat, WaitingIsFinite
         DEF Owed
    <3> QED BY <1>0, <1>2, <2>2, <3>5, OwedIsNat DEF Settles
  <2>7. CASE w \notin ToCount(a)'
    <3>1. ToCount(a)' = ToCount(a)
      BY <1>2, <2>1, <2>7 DEF ToCount
    <3>2. Carries(a, {m})
      BY <1>2, <2>5 DEF Carries
    <3>3. Owed(a)' <= Owed(a) /\ Owed(a)' \in Nat
      BY <1>2, <1>5, <3>1, <3>2, OneMoreDropped, OwedIsNat, WaitingIsFinite
         DEF Owed
    <3> QED BY <1>0, <1>2, <2>2, <3>3, OwedIsNat DEF Settles
  <2> QED BY <2>6, <2>7
<1> QED BY <1>4, <1>5

(* A task that dies before it counted its batch is a message again.        *)
LEMMA DeathSettles ==
  ASSUME TypeOK, TypeOK', NEW w \in Workers, WorkerDies(w),
         worker[w].at \in Uncounted, UNCHANGED fetchVars,
         Recorded \subseteq Recorded', NEW a \in Attempts
  PROVE  Settles(a)
<1>0. /\ "idle" \notin Uncounted /\ Idle.at = "idle"
      /\ DOMAIN worker = Workers
      /\ UNCHANGED <<files, completed>> /\ completed[a] \in Nat
      /\ worker[w].a \in Attempts /\ worker[w].n \in BatchNums
  BY DEF Uncounted, TypeOK, ProcessTypeOK, WorkerDies, RowTypeOK, Idle,
     TaskType, rowVars, attemptVars
<1>1. PICK c \in Attempts, m \in BatchNums : c = worker[w].a /\ m = worker[w].n
  BY <1>0
<1>2. /\ queue' = [queue EXCEPT ![c][m] = @ + 1]
      /\ worker'[w].at = "idle"
      /\ \A v \in Workers : v # w => worker'[v] = worker[v]
  BY <1>0, <1>1 DEF WorkerDies
<1>3. Cardinality(Waiting(c)') = Cardinality(Waiting(c)) + 1
  BY <1>2, MessageAdded
<1>4. CASE a # c
  <2>1. w \notin Tasks(a) /\ w \notin Tasks(a)'
    BY <1>1, <1>2, <1>4 DEF Tasks, InAttempt
  <2>2. queue'[a] = queue[a]
    BY <1>2, <1>4 DEF TypeOK, BusTypeOK
  <2> QED BY <1>0, <1>2, <2>1, <2>2, OtherSettles
<1>5. CASE a = c
  <2>1. w \in ToCount(a) /\ w \notin ToCount(a)' /\ w \in Tasks(a)
    BY <1>0, <1>1, <1>2, <1>5 DEF ToCount, Tasks, InAttempt
  <2>2. /\ Cardinality(ToCount(a)') = Cardinality(ToCount(a)) - 1
        /\ Cardinality(ToCount(a)) \in Nat
        /\ Cardinality(ToCount(a)') \in Nat
    BY <1>2, <2>1, OneLessToCount
  <2>3. \A v \in ToCount(a) : worker[v].n # m =>
           v \in ToCount(a)' /\ worker'[v] = worker[v]
    BY <1>1, <1>2, <2>1, OneLessToCount
  <2>4. /\ queue'[a][m] > 0
        /\ \A n \in BatchNums : n # m => queue'[a][n] = queue[a][n]
    BY <1>2, <1>5 DEF TypeOK, BusTypeOK
  <2>5. ASSUME NEW n \in BatchNums \ {m}, OnItsWay(a, n)
        PROVE  OnItsWay(a, n)'
    BY <1>0, <2>3, <2>4, <2>5, OthersOnTheirWay
  <2>6. OnItsWay(a, m)'
    BY <2>4 DEF OnItsWay
  <2>7. Carries(a, {})
    BY <1>0, <2>5, <2>6 DEF Carries
  <2>8. Owed(a)' <= Owed(a) /\ Owed(a)' \in Nat
    BY <1>3, <1>5, <2>2, <2>7, DroppedShrinks, OwedIsNat DEF Owed
  <2> QED BY <1>0, <2>1, <2>8, OwedIsNat DEF Settles
<1> QED BY <1>4, <1>5

(* The batch of a message that is taken and never processed, for the usage *)
(* limit or because the broker lost it, is dropped.                        *)
LEMMA TakenSettles ==
  ASSUME TypeOK, TypeOK', NEW c \in Attempts, NEW m \in BatchNums,
         TakeMessage(c, m),
         UNCHANGED <<files, completed, worker, fetchVars>>,
         Recorded \subseteq Recorded', NEW a \in Attempts
  PROVE  Settles(a)
<1>0. /\ completed[a] \in Nat
      /\ queue[c][m] > 0 /\ queue' = [queue EXCEPT ![c][m] = @ - 1]
  BY DEF TypeOK, RowTypeOK, TakeMessage
<1>1. ToCount(a)' = ToCount(a) /\ Tasks(a)' = Tasks(a)
  BY DEF ToCount, Tasks, InAttempt
<1>2. /\ Cardinality(Waiting(c)') = Cardinality(Waiting(c)) - 1
      /\ Cardinality(Waiting(c)) > 0
  BY <1>0, MessageTaken
<1>3. CASE a # c
  <2>1. queue'[a] = queue[a]
    BY <1>0, <1>3 DEF TypeOK, BusTypeOK
  <2>2. Untouched(a)
    BY <1>1, <2>1 DEF Untouched, fetchVars
  <2>3. /\ Owed(a)' <= Owed(a) /\ Owed(a)' \in Nat /\ Waiting(a)' = Waiting(a)
    BY <2>2, UntouchedOwes
  <2> QED BY <1>0, <1>1, <2>3, OwedIsNat DEF Settles
<1>4. CASE a = c
  <2>1. Waiting(a) # {}
    BY <1>2, <1>4, FS_EmptySet
  <2>3. \A n \in BatchNums : n # m => queue'[a][n] = queue[a][n]
    BY <1>0, <1>4 DEF TypeOK, BusTypeOK
  <2>4. ASSUME NEW n \in BatchNums \ {m}, OnItsWay(a, n)
        PROVE  OnItsWay(a, n)'
    BY <1>0, <1>1, <2>3, <2>4, OthersOnTheirWay
  <2>5. Carries(a, {m})
    BY <1>0, <2>4 DEF Carries
  <2>6. Owed(a)' <= Owed(a) /\ Owed(a)' \in Nat
    BY <1>1, <1>2, <1>4, <2>5, OneMoreDropped, OwedIsNat, WaitingIsFinite
       DEF Owed
  <2> QED BY <1>0, <2>1, <2>6, OwedIsNat DEF Settles
<1> QED BY <1>3, <1>4

(* The steps of a worker that are left then                                *)
LEMMA WorkerCases ==
  ASSUME CountedOnce, NEW w \in Workers, WorkerStep(w) \/ WorkerFault(w) \/ PickUpFault(w)
  PROVE  /\ UNCHANGED fetchVars
         /\ \/ PickUp(w) \/ UsageLimitExceeded(w)
            \/ IndexBatch(w) \/ DocumentFails(w)
            \/ RecordFailures(w) \/ DeleteProcessed(w)
            \/ HandleTaskException(w) \/ FinishTask(w) \/ ReleaseMissed(w)
            \/ CountProcessed(w) \/ CountFailed(w)
            \/ TaskRaises(w) \/ LockTimesOut(w)
            \/ (worker[w].at \in Uncounted /\ WorkerDies(w))
BY DEF WorkerStep, WorkerFault, PickUpFault, PickUpBatch, PickUpMissed, PickUp,
   Fault, workerOnly, CountedOnce

(* Nothing that is recorded is forgotten.                                  *)
LEMMA WorkerRecords ==
  ASSUME TypeOK, CountedOnce, NEW w \in Workers,
         WorkerStep(w) \/ WorkerFault(w) \/ PickUpFault(w)
  PROVE  /\ Recorded \subseteq Recorded' /\ AllErrors \subseteq AllErrors'
         /\ indexed \subseteq indexed'
<1>1. /\ worker \in [Workers -> TaskType] /\ worker[w].a \in Attempts
      /\ errors \in [Attempts -> SUBSET Docs] /\ DOMAIN worker = Workers
      /\ "errors" \notin Uncounted
  BY DEF TypeOK, ProcessTypeOK, RowTypeOK, TaskType, Uncounted
<1>2. ASSUME UNCHANGED <<errors, indexed>>, worker[w].at # "errors",
             \A v \in Workers : v # w => worker'[v] = worker[v]
      PROVE  Recorded \subseteq Recorded' /\ AllErrors \subseteq AllErrors'
  BY <1>2, RecordsStay
<1>3. CASE PickUp(w)
  <2>1. worker[w].at = "idle" /\ UNCHANGED <<errors, indexed>>
    BY <1>3 DEF PickUp, Receives
  <2>2. \A v \in Workers : v # w => worker'[v] = worker[v]
    <3>1. PICK t : worker' = [worker EXCEPT ![w] = t]
      BY <1>3, Zenon DEF PickUp, Receives
    <3> QED BY <1>1, <3>1
  <2> QED BY <1>2, <2>1, <2>2
<1>4. CASE UsageLimitExceeded(w)
  BY <1>2, <1>4 DEF UsageLimitExceeded
<1>5. CASE IndexBatch(w)
  <2>1. /\ worker[w].at = "index"
        /\ UNCHANGED errors /\ indexed \subseteq indexed'
        /\ \A v \in Workers : v # w => worker'[v] = worker[v]
    BY <1>1, <1>5 DEF IndexBatch, Step, rowVars, attemptVars
  <2> QED BY <2>1, RecordsStay
<1>6. CASE DocumentFails(w) \/ FinishTask(w) \/ ReleaseMissed(w)
  BY <1>1, <1>2, <1>6 DEF DocumentFails, FinishTask, ReleaseMissed, rowVars,
     attemptVars
<1>7. CASE DeleteProcessed(w) \/ CountProcessed(w) \/ CountFailed(w)
           \/ TaskRaises(w) \/ LockTimesOut(w)
  BY <1>1, <1>2, <1>7 DEF DeleteProcessed, CountProcessed, CountFailed,
     TaskRaises, LockTimesOut, Step, rowVars, attemptVars
<1>8. CASE worker[w].at \in Uncounted /\ WorkerDies(w)
  BY <1>1, <1>2, <1>8 DEF WorkerDies, rowVars, attemptVars
<1>9. CASE RecordFailures(w)
  <2>1. /\ errors' = [errors EXCEPT ![worker[w].a] = @ \cup {worker[w].doc}]
        /\ UNCHANGED indexed
        /\ \A v \in Workers : v # w => worker'[v] = worker[v]
    BY <1>1, <1>9 DEF RecordFailures, RecordError, Step
  <2>2. worker[w].doc \in AllErrors'
    BY <1>1, <2>1 DEF AllErrors
  <2>3. \A b \in Attempts : errors[b] \subseteq errors'[b]
    BY <1>1, <2>1
  <2> QED BY <2>1, <2>2, <2>3, RecordsStay
<1>10. CASE HandleTaskException(w)
  <2>1. /\ \/ errors' = [errors EXCEPT ![worker[w].a] = @ \cup {worker[w].doc}]
           \/ UNCHANGED errors
        /\ UNCHANGED indexed /\ worker[w].at = "except"
        /\ \A v \in Workers : v # w => worker'[v] = worker[v]
    BY <1>1, <1>10 DEF HandleTaskException, RecordError, Step
  <2>2. \A b \in Attempts : errors[b] \subseteq errors'[b]
    BY <1>1, <2>1
  <2> QED BY <2>1, <2>2, RecordsStay
<1>11. indexed \subseteq indexed'
  BY <1>3, <1>4, <1>5, <1>6, <1>7, <1>8, <1>9, <1>10, WorkerCases
     DEF PickUp, Receives, UsageLimitExceeded, IndexBatch, DocumentFails,
     FinishTask, ReleaseMissed, DeleteProcessed, CountProcessed, CountFailed,
     TaskRaises, LockTimesOut, WorkerDies, RecordFailures, HandleTaskException
<1> QED
  BY <1>3, <1>4, <1>5, <1>6, <1>7, <1>8, <1>9, <1>10, <1>11, WorkerCases

(* A task keeps to what it counts.                                         *)
LEMMA WorkerTasksRecord ==
  ASSUME TypeOK, TasksRecord, CountedOnce, NEW w \in Workers,
         WorkerStep(w) \/ WorkerFault(w) \/ PickUpFault(w)
  PROVE  TasksRecord'
<1>1. /\ worker \in [Workers -> TaskType] /\ worker[w].a \in Attempts
      /\ errors \in [Attempts -> SUBSET Docs] /\ DOMAIN worker = Workers
      /\ AllErrors \subseteq AllErrors' /\ indexed \subseteq indexed'
      /\ Idle.at = "idle"
  BY WorkerRecords DEF TypeOK, ProcessTypeOK, RowTypeOK, TaskType, Idle
<1>2. ASSUME \A v \in Workers : v # w => worker'[v] = worker[v],
             worker'[w].at \notin {"count", "tally"}
      PROVE  TasksRecord'
  BY <1>1, <1>2 DEF TasksRecord
<1>3. CASE PickUp(w)
  <2>1. PICK a \in Attempts, n \in BatchNums :
          worker' = [worker EXCEPT ![w] =
             [at |-> IF ~HasFile(a, n) THEN "post"
                     ELSE IF MayProcess(a) THEN "index" ELSE "except",
              a |-> a, n |-> n, doc |-> files[a][n], ok |-> TRUE]]
    BY <1>3, Zenon DEF PickUp, Receives
  <2>2. worker'[w].at \in {"post", "index", "except"}
    BY <1>1, <2>1
  <2>3. \A v \in Workers : v # w => worker'[v] = worker[v]
    BY <1>1, <2>1
  <2> QED BY <1>2, <2>2, <2>3
<1>4. CASE UsageLimitExceeded(w)
  BY <1>1, <1>4 DEF UsageLimitExceeded, TasksRecord
<1>5. CASE IndexBatch(w)
  <2>1. /\ \A v \in Workers : v # w => worker'[v] = worker[v]
        /\ worker'[w].at = "count" /\ worker'[w].doc \in indexed'
    BY <1>1, <1>5 DEF IndexBatch, Step, TaskType
  <2> QED BY <1>1, <2>1 DEF TasksRecord
<1>6. CASE DocumentFails(w)
  <2>1. /\ \A v \in Workers : v # w => worker'[v] = worker[v]
        /\ worker'[w].at = "count" /\ worker'[w].ok = FALSE
    BY <1>1, <1>6 DEF DocumentFails, TaskType
  <2> QED BY <1>1, <2>1 DEF TasksRecord
<1>7. CASE \/ FinishTask(w) \/ ReleaseMissed(w)
           \/ worker[w].at \in Uncounted /\ WorkerDies(w)
  BY <1>1, <1>2, <1>7 DEF FinishTask, ReleaseMissed, WorkerDies
<1>8. CASE DeleteProcessed(w) \/ CountProcessed(w) \/ CountFailed(w)
           \/ TaskRaises(w) \/ LockTimesOut(w) \/ RecordFailures(w)
  <2>1. /\ \A v \in Workers : v # w => worker'[v] = worker[v]
        /\ worker'[w].at \notin {"count", "tally"}
    BY <1>1, <1>8 DEF DeleteProcessed, CountProcessed, CountFailed,
       TaskRaises, LockTimesOut, RecordFailures, Step, TaskType
  <2> QED BY <1>2, <2>1
<1>9. CASE HandleTaskException(w)
  <2>1. CASE ~Persistent
    BY <1>1, <1>2, <1>9, <2>1 DEF HandleTaskException, Step, TaskType
  <2>2. CASE Persistent
    <3>1. /\ \A v \in Workers : v # w => worker'[v] = worker[v]
          /\ worker'[w].at = "tally" /\ worker'[w].doc = worker[w].doc
          /\ errors' = [errors EXCEPT ![worker[w].a] = @ \cup {worker[w].doc}]
      BY <1>1, <1>9, <2>2 DEF HandleTaskException, RecordError, Step, TaskType
    <3>2. worker'[w].doc \in AllErrors'
      BY <1>1, <3>1 DEF AllErrors
    <3> QED BY <1>1, <2>2, <3>1, <3>2 DEF TasksRecord
  <2> QED BY <2>1, <2>2
<1>10.
      \/ PickUp(w) \/ UsageLimitExceeded(w)
      \/ IndexBatch(w) \/ DocumentFails(w)
      \/ RecordFailures(w) \/ DeleteProcessed(w)
      \/ HandleTaskException(w) \/ FinishTask(w) \/ ReleaseMissed(w)
      \/ CountProcessed(w) \/ CountFailed(w)
      \/ TaskRaises(w) \/ LockTimesOut(w)
      \/ worker[w].at \in Uncounted /\ WorkerDies(w)
  BY WorkerCases
<1> QED BY <1>3, <1>4, <1>5, <1>6, <1>7, <1>8, <1>9, <1>10

(* Every step of docprocessing settles, with every attempt.                *)
LEMMA WorkerSettles ==
  ASSUME TypeOK, TypeOK', TasksRecord, CountedOnce, NEW w \in Workers,
         WorkerStep(w) \/ WorkerFault(w) \/ PickUpFault(w), NEW a \in Attempts
  PROVE  Settles(a)
<1>1. /\ worker \in [Workers -> TaskType] /\ worker[w].a \in Attempts
      /\ worker[w].n \in BatchNums
      /\ DOMAIN worker = Workers /\ completed \in [Attempts -> Nat]
      /\ files \in [Attempts -> [BatchNums -> Docs \cup {NoDoc}]]
  BY DEF TypeOK, ProcessTypeOK, RowTypeOK, BusTypeOK, TaskType
<1>2. Recorded \subseteq Recorded' /\ UNCHANGED fetchVars
  BY WorkerRecords, WorkerCases
<1>3. /\ {"index", "count"} \subseteq Uncounted
      /\ Uncounted \cap {"idle", "errors", "delete", "post"} = {}
      /\ Persistent => {"except", "tally"} \subseteq Uncounted
      /\ ~Persistent => Uncounted \cap {"except", "tally"} = {}
      /\ Idle.at = "idle"
  BY DEF Uncounted, Idle
<1>4. CASE \/ PickUp(w) \/ UsageLimitExceeded(w)
           \/ worker[w].at \in Uncounted /\ WorkerDies(w)
  <2>1. CASE UsageLimitExceeded(w)
    <3>1. PICK c \in Attempts, m \in BatchNums : TakeMessage(c, m)
      BY <2>1 DEF UsageLimitExceeded
    <3>2. UNCHANGED <<files, completed, worker>>
      BY <2>1 DEF UsageLimitExceeded
    <3> QED BY <1>2, <3>1, <3>2, TakenSettles
  <2> QED BY <1>2, <1>4, <2>1, PickUpSettles, DeathSettles
<1>5. CASE IndexBatch(w) \/ RecordFailures(w)
           \/ HandleTaskException(w) \/ TaskRaises(w) \/ LockTimesOut(w)
  <2>1. PICK p \in TaskPlaces :
           /\ Step(w, p)
           /\ worker[w].at \in {"index", "errors", "except", "count"}
           /\ worker[w].at \in {"errors", "except"} =>
                (p \in Uncounted <=> worker[w].at \in Uncounted)
    BY <1>3, <1>5 DEF IndexBatch, RecordFailures, HandleTaskException,
       TaskRaises, LockTimesOut, TooManyFailures, TaskPlaces
  <2>2. /\ worker'[w].at = p /\ worker'[w].a = worker[w].a
        /\ worker'[w].n = worker[w].n /\ worker'[w].doc = worker[w].doc
        /\ \A v \in Workers : v # w => worker'[v] = worker[v]
    BY <1>1, <2>1 DEF Step, TaskType
  <2>3. UNCHANGED <<files, queue, completed>>
    BY <1>5 DEF IndexBatch, RecordFailures, HandleTaskException,
       TaskRaises, LockTimesOut, rowVars, attemptVars, busVars
  <2>4. \A n \in BatchNums : files'[a][n] \in {files[a][n], NoDoc}
    BY <2>3
  <2>5. CASE p \in Uncounted <=> worker[w].at \in Uncounted
    BY <1>2, <2>1, <2>2, <2>3, <2>4, <2>5, StillCounts
  <2>6. CASE worker[w].at \in Uncounted /\ p \notin Uncounted
    <3>1. CASE worker[w].a = a
      BY <1>2, <2>2, <2>3, <2>6, <3>1, GiveUpSettles
    <3>2. CASE worker[w].a # a
      <4>1. w \notin Tasks(a) /\ w \notin Tasks(a)'
        BY <2>2, <3>2 DEF Tasks, InAttempt
      <4> QED BY <1>2, <2>2, <2>3, <2>4, <4>1, OtherSettles
    <3> QED BY <3>1, <3>2
  <2> QED BY <1>3, <2>1, <2>5, <2>6
<1>6. CASE DocumentFails(w)
  <2>1. /\ worker[w].at = "index" /\ worker'[w].at = "count"
        /\ worker'[w].a = worker[w].a
        /\ worker'[w].n = worker[w].n /\ worker'[w].doc = worker[w].doc
        /\ \A v \in Workers : v # w => worker'[v] = worker[v]
        /\ UNCHANGED <<files, queue, completed>>
    BY <1>1, <1>6 DEF DocumentFails, TaskType, rowVars, attemptVars, busVars
  <2>2. \A n \in BatchNums : files'[a][n] \in {files[a][n], NoDoc}
    BY <2>1
  <2> QED BY <1>2, <1>3, <2>1, <2>2, StillCounts
<1>7. CASE DeleteProcessed(w)
  <2>1. /\ worker[w].at = "delete" /\ worker'[w].at = "post"
        /\ worker'[w].a = worker[w].a
        /\ worker'[w].n = worker[w].n /\ worker'[w].doc = worker[w].doc
        /\ \A v \in Workers : v # w => worker'[v] = worker[v]
        /\ UNCHANGED <<queue, completed>>
    BY <1>1, <1>7 DEF DeleteProcessed, Step, TaskType, rowVars, attemptVars
  <2>2. \A n \in BatchNums : files'[a][n] \in {files[a][n], NoDoc}
    BY <1>1, <1>7 DEF DeleteProcessed, DeleteBatch
  <2> QED BY <1>2, <1>3, <2>1, <2>2, StillCounts
<1>8. CASE FinishTask(w) \/ ReleaseMissed(w)
  <2>1. /\ worker[w].at = "post" /\ worker'[w].at = "idle"
        /\ \A v \in Workers : v # w => worker'[v] = worker[v]
        /\ UNCHANGED <<files, queue, completed>>
    BY <1>1, <1>3, <1>8 DEF FinishTask, ReleaseMissed, rowVars, attemptVars,
       busVars
  <2>2. ToCount(a)' = ToCount(a)
    <3>1. w \notin ToCount(a) /\ w \notin ToCount(a)'
      BY <1>3, <2>1 DEF ToCount
    <3> QED BY <2>1, <3>1 DEF ToCount
  <2>3. \A v \in ToCount(a) : v \in Workers /\ v # w
    BY <1>3, <2>1 DEF ToCount
  <2>4. Untouched(a)
    BY <1>2, <2>1, <2>2, <2>3 DEF Untouched, fetchVars
  <2>5. \A n \in BatchNums : files'[a][n] \in {files[a][n], NoDoc}
    BY <2>1
  <2>6. Tasks(a)' \subseteq Tasks(a)
    BY <2>1 DEF Tasks, InAttempt
  <2> QED BY <1>1, <1>2, <2>1, <2>4, <2>5, <2>6, UntouchedOwes, OwedIsNat
          DEF Settles
<1>9. CASE CountProcessed(w) \/ CountFailed(w)
  <2>1. PICK c \in Attempts : c = worker[w].a
    BY <1>1
  <2>2. /\ worker[w].at \in Uncounted \ {"idle"}
        /\ worker'[w].at \notin Uncounted \cup {"idle"}
        /\ worker'[w].a = c
        /\ \A v \in Workers : v # w => worker'[v] = worker[v]
        /\ UNCHANGED <<files, queue>>
        /\ completed' = [completed EXCEPT ![c] = @ + 1]
        /\ worker[w].doc \in Recorded'
    <3>1. CASE CountProcessed(w)
      <4>1. /\ worker[w].at = "count"
            /\ worker'[w].at = IF worker[w].ok THEN "delete" ELSE "errors"
            /\ worker'[w].doc = worker[w].doc /\ worker'[w].a = c
            /\ \A v \in Workers : v # w => worker'[v] = worker[v]
            /\ UNCHANGED <<files, queue, indexed>>
            /\ completed' = [completed EXCEPT ![c] = @ + 1]
        BY <1>1, <2>1, <3>1 DEF CountProcessed, CountBatch, Step, TaskType,
           busVars
      <4>2. worker[w].doc \in Recorded'
        BY <4>1 DEF TasksRecord, Recorded
      <4> QED BY <1>3, <4>1, <4>2
    <3>2. CASE CountFailed(w)
      <4>1. /\ worker[w].at = "tally" /\ worker'[w].at = "post"
            /\ worker'[w].doc = worker[w].doc /\ worker'[w].a = c
            /\ \A v \in Workers : v # w => worker'[v] = worker[v]
            /\ UNCHANGED <<files, queue, errors>>
            /\ completed' = [completed EXCEPT ![c] = @ + 1]
        BY <1>1, <2>1, <3>2 DEF CountFailed, CountBatch, Step, TaskType,
           busVars
      <4>2. worker[w].doc \in Recorded' /\ Persistent
        BY <1>2, <4>1 DEF TasksRecord, Recorded
      <4> QED BY <1>3, <4>1, <4>2
    <3> QED BY <1>9, <3>1, <3>2
  <2>3. CASE a = c
    <3>1. completed'[a] = completed[a] + 1
      BY <1>1, <2>2, <2>3
    <3> QED BY <1>2, <2>1, <2>2, <2>3, <3>1, CountSettles
  <2>4. CASE a # c
    <3>1. completed'[a] = completed[a] /\ queue'[a] = queue[a]
      BY <1>1, <2>2, <2>4
    <3>2. w \notin Tasks(a) /\ w \notin Tasks(a)'
      BY <2>1, <2>2, <2>4 DEF Tasks, InAttempt
    <3>3. \A n \in BatchNums : files'[a][n] \in {files[a][n], NoDoc}
      BY <2>2
    <3> QED BY <1>2, <2>2, <3>1, <3>2, <3>3, OtherSettles
  <2> QED BY <2>3, <2>4
<1>10.
      \/ PickUp(w) \/ UsageLimitExceeded(w)
      \/ IndexBatch(w) \/ DocumentFails(w)
      \/ RecordFailures(w) \/ DeleteProcessed(w)
      \/ HandleTaskException(w) \/ FinishTask(w) \/ ReleaseMissed(w)
      \/ CountProcessed(w) \/ CountFailed(w)
      \/ TaskRaises(w) \/ LockTimesOut(w)
      \/ worker[w].at \in Uncounted /\ WorkerDies(w)
  BY WorkerCases
<1> QED BY <1>4, <1>5, <1>6, <1>7, <1>8, <1>9, <1>10

-----------------------------------------------------------------------------
(* Sets of stored batches are finite.                                      *)
LEMMA BatchesAreFinite ==
  ASSUME NEW S \in SUBSET (Attempts \X BatchNums)
  PROVE  IsFiniteSet(S) /\ Cardinality(S) \in Nat
<1>1. IsFiniteSet(Attempts) /\ IsFiniteSet(BatchNums)
  BY IndexAttemptAssumption, FS_Interval DEF Attempts, BatchNums
<1>2. IsFiniteSet(Attempts \X BatchNums)
  BY <1>1, FS_Product
<1> QED BY <1>2, FS_Subset, FS_CardinalityType

(* The numbers of an attempt                                               *)
LEMMA CountTypes ==
  ASSUME TypeOK, NEW a \in Attempts
  PROVE  /\ Owed(a) \in Nat /\ completed[a] \in Nat
         /\ job[a] \in JobType
         /\ job[a].num \in Nat /\ job[a].carried \in Nat
         /\ IsFiniteSet(job[a].old) /\ Cardinality(job[a].old) \in Nat
         /\ (total[a] # None => total[a] \in Nat)
<1>1. job[a].old \in SUBSET (Attempts \X BatchNums)
  BY DEF TypeOK, FetchTypeOK, JobType
<1> QED BY <1>1, OwedIsNat, BatchesAreFinite
        DEF TypeOK, RowTypeOK, FetchTypeOK, JobType

(* A step that settles with an attempt, and leaves its process alone       *)
LEMMA SettledCounts ==
  ASSUME TypeOK, TypeOK', NEW a \in Attempts, CountsAreOwed(a), Settles(a),
         UNCHANGED fetchVars, total'[a] = total[a]
  PROVE  CountsAreOwed(a)'
<1>1. completed'[a] \in Nat
  BY DEF TypeOK, RowTypeOK
<1>2. /\ UNCHANGED <<process, job>>
      /\ Owed(a)' + completed'[a] <= Owed(a) + completed[a]
  BY DEF Settles, fetchVars
<1>3. process'[a] \in Unsent =>
         /\ Waiting(a)' = {} /\ Tasks(a)' = {} /\ completed'[a] = 0
         /\ job'[a].num = 0 /\ (process'[a] # "adopt" => job'[a].carried = 0)
  BY <1>2 DEF CountsAreOwed, Settles
<1>4. process'[a] = "reissue" =>
         Owed(a)' + Cardinality(job'[a].old) + completed'[a] + job'[a].carried
           <= job'[a].num
  BY <1>1, <1>2, CountTypes, OwedStaysNat DEF CountsAreOwed
<1>5. process'[a] \in {"save", "run", "got", "chunk", "stored"} =>
         Owed(a)' + completed'[a] <= job'[a].num
  BY <1>1, <1>2, CountTypes, OwedStaysNat DEF CountsAreOwed
<1>6. total'[a] # None => /\ process'[a] \in {"done", "dead"}
                          /\ Owed(a)' + completed'[a] <= total'[a]
  BY <1>1, <1>2, CountTypes, OwedStaysNat DEF CountsAreOwed
<1> QED BY <1>3, <1>4, <1>5, <1>6 DEF CountsAreOwed

(* A worker's step leaves the locals of the processes as they are,         *)
LEMMA WorkerCounts ==
  ASSUME TypeOK, TypeOK', TasksRecord, CountedOnce, NEW w \in Workers,
         WorkerStep(w) \/ WorkerFault(w) \/ PickUpFault(w),
         NEW a \in Attempts, CountsAreOwed(a)
  PROVE  CountsAreOwed(a)'
<1>1. Settles(a) /\ UNCHANGED fetchVars
  BY WorkerSettles, WorkerCases
<1>2. total' = total
  BY WorkerCases DEF PickUp, Receives, UsageLimitExceeded, IndexBatch,
     DocumentFails, RecordFailures, DeleteProcessed, HandleTaskException,
     FinishTask, ReleaseMissed, CountProcessed, CountFailed, TaskRaises,
     LockTimesOut, WorkerDies, rowVars, attemptVars
<1> QED BY <1>1, <1>2, SettledCounts

(* and so does the broker.                                                 *)
LEMMA BrokerCounts ==
  ASSUME TypeOK, TypeOK', NEW c \in Attempts, BrokerFault(c),
         NEW a \in Attempts, CountsAreOwed(a)
  PROVE  CountsAreOwed(a)'
<1>1. PICK m \in BatchNums : LoseMessage(c, m)
  BY DEF BrokerFault
<1>2. /\ TakeMessage(c, m)
      /\ UNCHANGED <<files, completed, worker, fetchVars, total, indexed,
                     errors>>
  BY <1>1 DEF BrokerFault, LoseMessage, workerOnly, processVars, rowVars,
     attemptVars
<1>3. Recorded' = Recorded
  BY <1>2 DEF Recorded, AllErrors
<1>4. Settles(a)
  BY <1>2, <1>3, TakenSettles
<1> QED BY <1>2, <1>4, SettledCounts

(* An attempt left alone                                                   *)
LEMMA LeftAlone ==
  ASSUME TypeOK, TypeOK', NEW a \in Attempts, CountsAreOwed(a),
         UNCHANGED worker, queue'[a] = queue[a],
         \A n \in BatchNums : files'[a][n] \in {files[a][n], NoDoc},
         Recorded \subseteq Recorded', completed'[a] = completed[a],
         total'[a] = total[a], job'[a].num = job[a].num,
         \/ /\ process'[a] = process[a]
            /\ job'[a].old = job[a].old /\ job'[a].carried = job[a].carried
         \/ /\ process[a] \in Unsent \ {"adopt"} /\ process'[a] \in Unsent
            /\ process'[a] # "adopt" => job'[a].carried = job[a].carried
         \/ /\ process[a] \in {"save", "run", "chunk"}
            /\ process'[a] \in {"run", "got", "chunk"}
         \/ /\ process'[a] \in {"raised", "marking", "error", "done",
                                "dead"}
            /\ process[a] \in {"done", "dead"} =>
                 process'[a] \in {"done", "dead"}
  PROVE  CountsAreOwed(a)'
<1>1. Waiting(a)' = Waiting(a) /\ Tasks(a)' = Tasks(a)
      /\ ToCount(a)' = ToCount(a)
  BY DEF Waiting, Tasks, InAttempt, ToCount
<1>2. ASSUME process[a] \in {"stored", "reissue"} =>
               process'[a] = process[a] /\ job'[a].old = job[a].old
      PROVE  Owed(a)' <= Owed(a)
  <2>1. Untouched(a)
    BY <1>1, <1>2 DEF Untouched
  <2> QED BY <2>1, UntouchedOwes
<1>3. completed'[a] \in Nat
  BY DEF TypeOK, RowTypeOK
<1>4. process'[a] \in Unsent =>
         /\ Waiting(a)' = {} /\ Tasks(a)' = {} /\ completed'[a] = 0
         /\ job'[a].num = 0 /\ (process'[a] # "adopt" => job'[a].carried = 0)
  BY <1>1 DEF CountsAreOwed, Unsent
<1>5. process'[a] = "reissue" =>
         Owed(a)' + Cardinality(job'[a].old) + completed'[a] + job'[a].carried
           <= job'[a].num
  BY <1>2, <1>3, CountTypes, OwedStaysNat DEF CountsAreOwed, Unsent
<1>6. process'[a] \in {"save", "run", "got", "chunk", "stored"} =>
         Owed(a)' + completed'[a] <= job'[a].num
  BY <1>2, <1>3, CountTypes, OwedStaysNat DEF CountsAreOwed, Unsent
<1>7. total'[a] # None => /\ process'[a] \in {"done", "dead"}
                          /\ Owed(a)' + completed'[a] <= total'[a]
  BY <1>2, <1>3, CountTypes, OwedStaysNat DEF CountsAreOwed, Unsent
<1> QED BY <1>4, <1>5, <1>6, <1>7 DEF CountsAreOwed

(* The store emptied, the run starts with nothing to count.                *)
LEMMA DiscardCounts ==
  ASSUME TypeOK, TypeOK', NEW a \in Attempts, CountsAreOwed(a),
         DiscardOldBatches(a), UNCHANGED worker
  PROVE  CountsAreOwed(a)'
<1>1. /\ process[a] = "connect" /\ process'[a] = "save"
      /\ files' = NoFiles
      /\ UNCHANGED <<queue, completed, total>>
      /\ job'[a].num = job[a].num
  BY CountTypes DEF DiscardOldBatches, CleanupAllBatches, Goto, TypeOK,
     FetchTypeOK, JobType, rowVars, attemptVars
<1>2. /\ Waiting(a) = {} /\ Tasks(a) = {} /\ completed[a] = 0
      /\ job[a].num = 0 /\ total[a] = None
  BY <1>1 DEF CountsAreOwed, Unsent
<1>3. Waiting(a)' = {} /\ ToCount(a)' = {}
  BY <1>1, <1>2 DEF Waiting, Tasks, InAttempt, ToCount, Uncounted
<1>4. Dropped(a)' = {}
  BY <1>1 DEF Dropped, HasFile, NoFiles
<1>5. Owed(a)' = 0
  BY <1>3, <1>4, FS_EmptySet DEF Owed
<1> QED BY <1>1, <1>2, <1>5 DEF CountsAreOwed, Unsent

(* The batches adopted are all to be sent again, and numbered behind.      *)
LEMMA AdoptCounts ==
  ASSUME TypeOK, TypeOK', NEW a \in Attempts, CountsAreOwed(a),
         AdoptOldBatches(a), UNCHANGED worker
  PROVE  CountsAreOwed(a)'
<1>1. PICK pick \in [{b[2] : b \in StoredBatches} -> Attempts] :
        /\ \A n \in DOMAIN pick : HasFile(pick[n], n)
        /\ files' = [NoFiles EXCEPT ![a] =
                       [n \in BatchNums |-> IF n \in DOMAIN pick
                                           THEN files[pick[n]][n]
                                           ELSE NoDoc]]
  BY DEF AdoptOldBatches, AdoptBatches
<1>2. /\ process[a] = "adopt" /\ process'[a] = "reissue"
      /\ UNCHANGED <<queue, completed, total>>
      /\ job'[a].old = StoredBatches
      /\ job'[a].num = Cardinality(StoredBatches) + job[a].carried
      /\ job'[a].carried = job[a].carried
  BY CountTypes DEF AdoptOldBatches, Goto, TypeOK, FetchTypeOK, JobType,
     rowVars, attemptVars
<1>3. /\ Waiting(a) = {} /\ Tasks(a) = {} /\ completed[a] = 0
      /\ job[a].num = 0 /\ total[a] = None
  BY <1>2 DEF CountsAreOwed, Unsent
<1>4. Waiting(a)' = {} /\ ToCount(a)' = {}
  BY <1>2, <1>3 DEF Waiting, Tasks, InAttempt, ToCount, Uncounted
<1>5. Dropped(a)' = {}
  <2> SUFFICES ASSUME NEW n \in BatchNums, HasFile(a, n)'
               PROVE  OnItsWay(a, n)'
    BY DEF Dropped
  <2>1. n \in {b[2] : b \in StoredBatches}
    BY <1>1 DEF HasFile, NoFiles
  <2> QED BY <1>2, <2>1 DEF OnItsWay
<1>6. Owed(a)' = 0
  BY <1>4, <1>5, FS_EmptySet DEF Owed
<1>7. Cardinality(StoredBatches) \in Nat /\ job[a].carried \in Nat
  BY StoredBatchesFinite, CountTypes
<1> QED BY <1>2, <1>3, <1>6, <1>7 DEF CountsAreOwed, Unsent

(* A batch sent again is owed instead of still to be sent.                 *)
LEMMA ReissueCounts ==
  ASSUME TypeOK, TypeOK', NEW a \in Attempts, CountsAreOwed(a),
         ReissueBatch(a), UNCHANGED <<worker, indexed>>
  PROVE  CountsAreOwed(a)'
<1>1. PICK b \in job[a].old :
        /\ job' = [job EXCEPT ![a].old = @ \ {b}, ![a].counted = FALSE]
        /\ SendMessage(a, b[2])
  BY DEF ReissueBatch
<1>2. /\ process[a] = "reissue" /\ process'[a] = "reissue"
      /\ UNCHANGED <<files, completed, total, indexed, errors>>
      /\ job'[a].old = job[a].old \ {b} /\ job'[a].num = job[a].num
      /\ job'[a].carried = job[a].carried
      /\ b[2] \in BatchNums
      /\ total[a] = None
  BY <1>1, CountTypes DEF ReissueBatch, TypeOK, FetchTypeOK, JobType,
     rowVars, attemptVars, CountsAreOwed
<1>3. Cardinality(Waiting(a)') = Cardinality(Waiting(a)) + 1
  BY <1>1, <1>2, MessageAdded DEF SendMessage
<1>4. ToCount(a)' = ToCount(a)
  BY DEF ToCount
<1>5. Recorded' = Recorded
  BY <1>2 DEF Recorded, AllErrors
<1>6. Carries(a, {})
  <2>1. queue'[a][b[2]] > 0 /\ \A n \in BatchNums : queue'[a][n] >= queue[a][n]
    BY <1>1, <1>2 DEF SendMessage, TypeOK, BusTypeOK
  <2>2. ASSUME NEW n \in BatchNums, OnItsWay(a, n) PROVE OnItsWay(a, n)'
    <3>1. CASE queue[a][n] > 0
      BY <2>1, <3>1 DEF OnItsWay, TypeOK, BusTypeOK
    <3>2. CASE \E w \in ToCount(a) : /\ worker[w].n = n
                                     /\ worker[w].doc = files[a][n]
      BY <1>2, <1>4, <3>2 DEF OnItsWay
    <3>3. CASE \E c \in job[a].old : c[2] = n
      BY <1>2, <2>1, <3>3 DEF OnItsWay
    <3> QED BY <1>2, <2>2, <3>1, <3>2, <3>3 DEF OnItsWay
  <2> QED BY <1>2, <1>5, <2>2 DEF Carries
<1>7. Owed(a)' <= Owed(a) + 1
  BY <1>3, <1>4, <1>6, DroppedShrinks, OwedIsNat DEF Owed
<1>8. Cardinality(job'[a].old) = Cardinality(job[a].old) - 1
  BY <1>1, <1>2, CountTypes, OneLess
<1>9. Owed(a)' + Cardinality(job'[a].old) + completed'[a] + job'[a].carried
        <= job'[a].num
  BY <1>2, <1>7, <1>8, CountTypes, OwedStaysNat DEF CountsAreOwed
<1> QED BY <1>2, <1>9 DEF CountsAreOwed, Unsent

(* The counts of the attempts it resumes from become its own.              *)
LEMMA CarryCounts ==
  ASSUME TypeOK, TypeOK', NEW a \in Attempts, CountsAreOwed(a),
         CarryCompleted(a), UNCHANGED <<worker, indexed>>
  PROVE  CountsAreOwed(a)'
<1>1. /\ process[a] = "reissue" /\ process'[a] = "save" /\ job[a].old = {}
      /\ UNCHANGED <<files, queue, total, errors, job>>
      /\ completed'[a] \in {completed[a], job[a].carried}
      /\ total[a] = None
  BY DEF CarryCompleted, Goto, TypeOK, FetchTypeOK, RowTypeOK, busVars,
     CountsAreOwed
<1>2. Recorded' = Recorded
  BY <1>1 DEF Recorded, AllErrors
<1>3. ToCount(a)' = ToCount(a) /\ Waiting(a)' = Waiting(a)
  BY <1>1 DEF ToCount, Waiting
<1>4. Carries(a, {})
  <2>1. ASSUME NEW n \in BatchNums, OnItsWay(a, n) PROVE OnItsWay(a, n)'
    BY <1>1, <1>3, <2>1 DEF OnItsWay
  <2> QED BY <1>1, <1>2, <2>1 DEF Carries
<1>5. Owed(a)' <= Owed(a)
  BY <1>3, <1>4, DroppedShrinks, OwedIsNat DEF Owed
<1>6. Owed(a)' + completed'[a] <= job'[a].num
  <2>1. Owed(a) + completed[a] + job[a].carried <= job[a].num
    BY <1>1, CountTypes, FS_EmptySet DEF CountsAreOwed
  <2> QED BY <1>1, <1>5, <2>1, CountTypes, OwedStaysNat
<1> QED BY <1>1, <1>6 DEF CountsAreOwed, Unsent

(* A batch is stored before it is sent.                                    *)
LEMMA StoreCounts ==
  ASSUME TypeOK, TypeOK', NEW a \in Attempts, CountsAreOwed(a),
         StoreFetchedBatch(a), UNCHANGED <<worker, indexed>>
  PROVE  CountsAreOwed(a)'
<1>1. /\ process[a] = "got" /\ process'[a] = "stored"
      /\ job[a].num \in BatchNums
      /\ files' = [files EXCEPT ![a][job[a].num] = job[a].pos + 1]
      /\ UNCHANGED <<queue, completed, total, errors, job>>
      /\ total[a] = None
  BY DEF StoreFetchedBatch, StoreBatch, Goto, TypeOK, FetchTypeOK, rowVars,
     attemptVars, CountsAreOwed
<1>2. Recorded' = Recorded
  BY <1>1 DEF Recorded, AllErrors
<1>3. ToCount(a)' = ToCount(a) /\ Waiting(a)' = Waiting(a)
  BY <1>1 DEF ToCount, Waiting
<1>4. Dropped(a)' \subseteq Dropped(a)
  <2> SUFFICES ASSUME NEW n \in BatchNums, n \in Dropped(a)'
               PROVE  n \in Dropped(a)
    BY DEF Dropped
  <2>1. HasFile(a, n)' /\ files'[a][n] \notin Recorded /\ ~OnItsWay(a, n)'
    BY <1>2 DEF Dropped
  <2>2. n # job[a].num
    BY <1>1, <2>1 DEF OnItsWay
  <2>3. files'[a][n] = files[a][n]
    BY <1>1, <2>2 DEF TypeOK, BusTypeOK
  <2>4. ~OnItsWay(a, n)
    BY <1>1, <1>3, <2>1, <2>3 DEF OnItsWay
  <2> QED BY <2>1, <2>3, <2>4 DEF Dropped, HasFile
<1>5. Owed(a)' <= Owed(a)
  <2>1. /\ Cardinality(Dropped(a)') <= Cardinality(Dropped(a))
        /\ Cardinality(Dropped(a)') \in Nat
    BY <1>4, OwedIsNat, FS_Subset, FS_CardinalityType
  <2> QED BY <1>3, <2>1, OwedIsNat DEF Owed
<1>6. Owed(a)' + completed'[a] <= job'[a].num
  BY <1>1, <1>5, CountTypes, OwedStaysNat DEF CountsAreOwed
<1> QED BY <1>1, <1>6 DEF CountsAreOwed, Unsent

(* A batch sent takes the next number.                                     *)
LEMMA QueueCounts ==
  ASSUME TypeOK, TypeOK', NEW a \in Attempts, CountsAreOwed(a),
         job[a].num \in BatchNums, QueueFetchedBatch(a),
         UNCHANGED <<worker, indexed>>
  PROVE  CountsAreOwed(a)'
<1>1. /\ process[a] = "stored" /\ process'[a] = "run"
      /\ queue' = [queue EXCEPT ![a][job[a].num] = @ + 1]
      /\ UNCHANGED <<files, completed, total, errors>>
      /\ job'[a].num = job[a].num + 1
      /\ total[a] = None
  BY CountTypes DEF QueueFetchedBatch, SendMessage, Goto, TypeOK, FetchTypeOK,
     JobType, rowVars, attemptVars, CountsAreOwed
<1>2. Recorded' = Recorded
  BY <1>1 DEF Recorded, AllErrors
<1>3. ToCount(a)' = ToCount(a)
  BY DEF ToCount
<1>4. Cardinality(Waiting(a)') = Cardinality(Waiting(a)) + 1
  BY <1>1, MessageAdded
<1>5. Carries(a, {})
  <2>1. /\ queue'[a][job[a].num] > 0
        /\ \A n \in BatchNums : queue[a][n] > 0 => queue'[a][n] > 0
    BY <1>1 DEF TypeOK, BusTypeOK
  <2>2. ASSUME NEW n \in BatchNums, OnItsWay(a, n) PROVE OnItsWay(a, n)'
    BY <1>1, <1>3, <2>1, <2>2 DEF OnItsWay
  <2> QED BY <1>1, <1>2, <2>2 DEF Carries
<1>6. Owed(a)' <= Owed(a) + 1
  BY <1>3, <1>4, <1>5, DroppedShrinks, OwedIsNat DEF Owed
<1>7. Owed(a)' + completed'[a] <= job'[a].num
  BY <1>1, <1>6, CountTypes, OwedStaysNat DEF CountsAreOwed
<1> QED BY <1>1, <1>7 DEF CountsAreOwed, Unsent

(* The total is the next number.                                           *)
LEMMA FinishCounts ==
  ASSUME TypeOK, TypeOK', NEW a \in Attempts, CountsAreOwed(a),
         FinishExtraction(a), UNCHANGED <<worker, indexed>>
  PROVE  CountsAreOwed(a)'
<1>1. /\ process[a] = "run" /\ process'[a] = "done"
      /\ UNCHANGED <<files, queue, completed, errors, job>>
      /\ total'[a] = job[a].num
  BY DEF FinishExtraction, Goto, TypeOK, FetchTypeOK, RowTypeOK, busVars
<1>2. Recorded' = Recorded
  BY <1>1 DEF Recorded, AllErrors
<1>3. ToCount(a)' = ToCount(a) /\ Waiting(a)' = Waiting(a)
  BY <1>1 DEF ToCount, Waiting
<1>4. Carries(a, {})
  <2>1. ASSUME NEW n \in BatchNums, OnItsWay(a, n) PROVE OnItsWay(a, n)'
    BY <1>1, <1>3, <2>1 DEF OnItsWay
  <2> QED BY <1>1, <1>2, <2>1 DEF Carries
<1>5. Owed(a)' <= Owed(a)
  BY <1>3, <1>4, DroppedShrinks, OwedIsNat DEF Owed
<1>6. Owed(a)' + completed'[a] <= total'[a]
  BY <1>1, <1>5, CountTypes, OwedStaysNat DEF CountsAreOwed
<1> QED BY <1>1, <1>6 DEF CountsAreOwed, Unsent

(* The steps of docfetching leave docprocessing alone, and forget nothing. *)
LEMMA FetchRecords ==
  ASSUME TypeOK, NEW a \in Attempts,
         ProxyStep(a) \/ FetchStep(a) \/ FetchFault(a)
  PROVE  /\ UNCHANGED <<worker, indexed, beat>>
         /\ Recorded \subseteq Recorded' /\ AllErrors \subseteq AllErrors'
<1>1. UNCHANGED <<worker, indexed, beat>>
  BY DEF ProxyStep, FetchStep, FetchFault, fetchOnly, processVars
<1>2. \A b \in Attempts : errors[b] \subseteq errors'[b]
  <2>0. errors \in [Attempts -> SUBSET Docs]
    BY DEF TypeOK, RowTypeOK
  <2>1. CASE ProxyStep(a)
    BY <2>1 DEF ProxyStep, SpawnProcess, DropRevoked, ProcessDone,
       ReportFailure, MarkReported, AttemptFinalized, TerminateProcess,
       rowVars, attemptVars
  <2>2. CASE FetchStep(a)
    BY <2>2 DEF FetchStep, VerifyAttempt, StartAttempt, RefuseStart,
       ChooseWindow, ResumeFromCheckpoint, DiscardOldBatches,
       AdoptOldBatches, CountBatchToSend, Counts, ReissueBatch,
       CarryCompleted, SaveFirstCheckpoint, SetCheckpoint, YieldBatch,
       YieldCheckpoint, StopOnSignal, RaiseNotRunning, StoreFetchedBatch,
       QueueFetchedBatch, SaveRunCheckpoint, FinishExtraction,
       HandleException, MarkRaised, rowVars, attemptVars
  <2>3. CASE FetchFault(a)
    BY <2>0, <2>3 DEF FetchFault, SpawnFails, YieldFailure, RecordError,
       ExtractionRaises, ValidationFails, ProcessDies, WorkerShutsDown,
       MemoryLimitExceeded, PodDies, CountingMissed, Counts, rowVars,
       attemptVars
  <2> QED BY <2>1, <2>2, <2>3
<1>3. AllErrors \subseteq AllErrors'
  BY <1>2 DEF AllErrors
<1> QED BY <1>1, <1>2, <1>3, RecordsStay

(* The steps of docfetching that matter to the count                       *)
CountingStep(a) ==
    \/ DiscardOldBatches(a) \/ AdoptOldBatches(a) \/ ReissueBatch(a)
    \/ CarryCompleted(a) \/ StoreFetchedBatch(a) \/ QueueFetchedBatch(a)
    \/ FinishExtraction(a)

(* What the others do to their attempt,                                    *)
LEMMA FetchAlone ==
  ASSUME TypeOK, NEW a \in Attempts,
         ProxyStep(a) \/ FetchStep(a) \/ FetchFault(a), ~CountingStep(a)
  PROVE  /\ UNCHANGED <<queue, files, completed, total>>
         /\ job'[a].num = job[a].num
         /\ \/ /\ process'[a] = process[a]
               /\ job'[a].old = job[a].old /\ job'[a].carried = job[a].carried
            \/ /\ process[a] \in Unsent \ {"adopt"} /\ process'[a] \in Unsent
               /\ process'[a] # "adopt" => job'[a].carried = job[a].carried
            \/ /\ process[a] \in {"save", "run", "chunk"}
               /\ process'[a] \in {"run", "got", "chunk"}
            \/ /\ process'[a] \in {"raised", "marking", "error", "done",
                                "dead"}
               /\ process[a] \in {"done", "dead"} =>
                    process'[a] \in {"done", "dead"}
<1>1. /\ job[a] \in JobType /\ job \in [Attempts -> JobType]
      /\ DOMAIN process = Attempts
  BY DEF TypeOK, FetchTypeOK
<1>2. CASE SpawnProcess(a) \/ DropRevoked(a) \/ ProcessDone(a)
           \/ ReportFailure(a) \/ MarkReported(a) \/ AttemptFinalized(a)
            \/ TerminateProcess(a)
  BY <1>1, <1>2 DEF SpawnProcess, DropRevoked, ProcessDone, ReportFailure,
     MarkReported, AttemptFinalized, TerminateProcess, Goto, Unsent, rowVars,
     attemptVars, busVars
<1>3. CASE VerifyAttempt(a) \/ StartAttempt(a) \/ RefuseStart(a)
           \/ SaveFirstCheckpoint(a) \/ SaveRunCheckpoint(a)
           \/ YieldBatch(a) \/ YieldCheckpoint(a)
  BY <1>1, <1>3 DEF VerifyAttempt, StartAttempt, RefuseStart,
     SaveFirstCheckpoint, SaveRunCheckpoint, SetCheckpoint, YieldBatch,
     YieldCheckpoint, Goto, Unsent, rowVars, attemptVars, busVars
<1>4. CASE ChooseWindow(a) \/ ResumeFromCheckpoint(a)
  BY <1>1, <1>4 DEF ChooseWindow, ResumeFromCheckpoint, Goto, Unsent, JobType,
     rowVars, attemptVars, busVars
<1>5. CASE StopOnSignal(a) \/ RaiseNotRunning(a) \/ HandleException(a)
           \/ MarkRaised(a)
           \/ SpawnFails(a) \/ ExtractionRaises(a) \/ ValidationFails(a)
           \/ ProcessDies(a) \/ WorkerShutsDown(a) \/ MemoryLimitExceeded(a)
           \/ PodDies(a)
  BY <1>1, <1>5 DEF StopOnSignal, RaiseNotRunning, HandleException, MarkRaised,
     SpawnFails, ExtractionRaises, ValidationFails, ProcessDies,
     WorkerShutsDown, MemoryLimitExceeded, PodDies, Goto, Extracting,
     Running, Preparing, rowVars, attemptVars, busVars
<1>6. CASE YieldFailure(a)
  BY <1>1, <1>6 DEF YieldFailure, Goto, JobType, rowVars, attemptVars, busVars
<1>7. CASE CountBatchToSend(a) \/ CountingMissed(a)
  BY <1>1, <1>7 DEF CountBatchToSend, CountingMissed, Counts, JobType,
     rowVars, attemptVars, busVars
<1> QED BY <1>2, <1>3, <1>4, <1>5, <1>6, <1>7
        DEF ProxyStep, FetchStep, FetchFault, CountingStep

(* and all of them to another attempt                                      *)
LEMMA FetchSpares ==
  ASSUME TypeOK, NEW a \in Attempts,
         ProxyStep(a) \/ FetchStep(a) \/ FetchFault(a),
         NEW b \in Attempts, b # a
  PROVE  /\ process'[b] = process[b] /\ job'[b] = job[b]
         /\ proxy'[b] = proxy[b]
         /\ queue'[b] = queue[b] /\ completed'[b] = completed[b]
         /\ total'[b] = total[b]
         /\ \A n \in BatchNums : files'[b][n] \in {files[b][n], NoDoc}
<1>1. /\ DOMAIN job = Attempts /\ DOMAIN process = Attempts
      /\ DOMAIN proxy = Attempts /\ DOMAIN queue = Attempts
      /\ DOMAIN completed = Attempts /\ DOMAIN total = Attempts
      /\ DOMAIN files = Attempts
  BY DEF TypeOK, FetchTypeOK, BusTypeOK, RowTypeOK
<1>2. process'[b] = process[b] /\ job'[b] = job[b] /\ proxy'[b] = proxy[b]
  <2>1. CASE ProxyStep(a)
    BY <1>1, <2>1 DEF ProxyStep, SpawnProcess, DropRevoked, ProcessDone,
       ReportFailure, MarkReported, AttemptFinalized, TerminateProcess, Goto
  <2>2. CASE FetchStep(a)
    BY <1>1, <2>2 DEF FetchStep, VerifyAttempt, StartAttempt, RefuseStart,
       ChooseWindow, ResumeFromCheckpoint, DiscardOldBatches,
       AdoptOldBatches, CountBatchToSend, Counts, ReissueBatch,
       CarryCompleted, SaveFirstCheckpoint, SetCheckpoint, YieldBatch,
       YieldCheckpoint, StopOnSignal, RaiseNotRunning, StoreFetchedBatch,
       QueueFetchedBatch, SaveRunCheckpoint, FinishExtraction,
       HandleException, MarkRaised, Goto
  <2>3. CASE FetchFault(a)
    BY <1>1, <2>3 DEF FetchFault, SpawnFails, YieldFailure,
       ExtractionRaises, ValidationFails, ProcessDies, WorkerShutsDown,
       MemoryLimitExceeded, PodDies, CountingMissed, Counts, Goto
  <2> QED BY <2>1, <2>2, <2>3
<1>3. CASE ~CountingStep(a)
  BY <1>2, <1>3, FetchAlone
<1>4. CASE DiscardOldBatches(a)
  BY <1>1, <1>2, <1>4 DEF DiscardOldBatches, CleanupAllBatches, NoFiles,
     rowVars, attemptVars
<1>5. CASE AdoptOldBatches(a)
  <2>1. PICK f : files' = [NoFiles EXCEPT ![a] = f]
    BY <1>5 DEF AdoptOldBatches, AdoptBatches
  <2>2. \A n \in BatchNums : files'[b][n] = NoDoc
    BY <2>1 DEF NoFiles
  <2> QED BY <1>2, <1>5, <2>2 DEF AdoptOldBatches, rowVars, attemptVars
<1>6. CASE ReissueBatch(a) \/ QueueFetchedBatch(a)
  <2>1. queue'[b] = queue[b]
    <3>1. PICK n : queue' = [queue EXCEPT ![a][n] = @ + 1]
      BY <1>6 DEF ReissueBatch, QueueFetchedBatch, SendMessage
    <3> QED BY <1>1, <3>1
  <2>2. UNCHANGED <<files, completed, total>>
    BY <1>6 DEF ReissueBatch, QueueFetchedBatch, rowVars, attemptVars
  <2> QED BY <1>2, <2>1, <2>2
<1>7. CASE CarryCompleted(a) \/ FinishExtraction(a)
  BY <1>1, <1>2, <1>7 DEF CarryCompleted, FinishExtraction, busVars
<1>8. CASE StoreFetchedBatch(a)
  BY <1>1, <1>2, <1>8 DEF StoreFetchedBatch, StoreBatch, rowVars, attemptVars
<1> QED BY <1>3, <1>4, <1>5, <1>6, <1>7, <1>8 DEF CountingStep

(* The steps of docfetching keep what is owed covered.                     *)
LEMMA FetchCounts ==
  ASSUME CompletionInv, TypeOK', NEW a \in Attempts,
         ProxyStep(a) \/ FetchStep(a) \/ FetchFault(a),
         NEW b \in Attempts
  PROVE  CountsAreOwed(b)'
<1>1. TypeOK /\ CountsAreOwed(a) /\ CountsAreOwed(b)
      /\ files \in [Attempts -> [BatchNums -> Docs \cup {NoDoc}]]
  BY DEF CompletionInv, SentInv, BacklogInv, IInv, LocalInv, TypeOK, BusTypeOK
<1>2. UNCHANGED <<worker, indexed>> /\ Recorded \subseteq Recorded'
  BY <1>1, FetchRecords
<1>3. CASE b # a
  BY <1>1, <1>2, <1>3, FetchSpares, LeftAlone
<1>4. CASE b = a
  <2>1. CASE ~CountingStep(a)
    <3>1. /\ queue'[a] = queue[a] /\ completed'[a] = completed[a]
          /\ total'[a] = total[a]
          /\ \A n \in BatchNums : files'[a][n] \in {files[a][n], NoDoc}
      BY <1>1, <2>1, FetchAlone
    <3>2. /\ job'[a].num = job[a].num
          /\ \/ /\ process'[a] = process[a]
                /\ job'[a].old = job[a].old
                /\ job'[a].carried = job[a].carried
             \/ /\ process[a] \in Unsent \ {"adopt"} /\ process'[a] \in Unsent
                /\ process'[a] # "adopt" => job'[a].carried = job[a].carried
             \/ /\ process[a] \in {"save", "run", "chunk"}
                /\ process'[a] \in {"run", "got", "chunk"}
             \/ /\ process'[a] \in {"raised", "marking", "error", "done",
                                "dead"}
                /\ process[a] \in {"done", "dead"} =>
                     process'[a] \in {"done", "dead"}
      BY <1>1, <2>1, FetchAlone
    <3> QED BY <1>1, <1>2, <1>4, <3>1, <3>2, LeftAlone
  <2>2. QueueFetchedBatch(a) => job[a].num \in BatchNums
    BY DEF CompletionInv, SentInv, BacklogInv, StoredHasNumber,
       QueueFetchedBatch
  <2> QED
    BY <1>1, <1>2, <1>4, <2>1, <2>2, DiscardCounts, AdoptCounts,
       ReissueCounts, CarryCounts, StoreCounts, QueueCounts, FinishCounts
       DEF CountingStep
<1> QED BY <1>3, <1>4

(* The steps of the beat task, the administrator and the heartbeats        *)
OtherStep ==
    \/ \E a \in Attempts : \/ KickoffStep(a) \/ ValidateAttempt(a)
                           \/ Monitor(a) \/ Heartbeat(a)
    \/ SendStep \/ MonitorStep \/ BeatFault \/ AdminStep

(* send the message of a new attempt, and may empty the store.             *)
LEMMA OthersSpare ==
  ASSUME SentInv, OtherStep, NEW a \in Attempts
  PROVE  /\ UNCHANGED <<processVars, queue, errors, completed, total, job,
                        proxy>>
         /\ \/ process'[a] = process[a]
            \/ process[a] = "none" /\ process'[a] = "queued"
         /\ \A n \in BatchNums : files'[a][n] \in {files[a][n], NoDoc}
<1>1. TypeOK
  BY DEF SentInv, BacklogInv, IInv, LocalInv
<1>2. UNCHANGED <<processVars, queue, job, proxy>>
  BY <1>1, OthersStay DEF OtherStep, MessagesStay, SentInv, BacklogInv,
     KickoffStep, ValidateAttempt, Monitor, Heartbeat, SendStep, MonitorStep,
     BeatFault, AdminStep, RaiseFence, RequestCancellation, PauseRow,
     ResumeConnector, beatOnly, adminOnly, fetchVars
<1>3. CASE \E b \in Attempts : \/ KickoffStep(b) \/ ValidateAttempt(b)
                               \/ Monitor(b) \/ Heartbeat(b)
  <2>1. PICK b \in Attempts : \/ KickoffStep(b) \/ ValidateAttempt(b)
                              \/ Monitor(b) \/ Heartbeat(b)
    BY <1>3
  <2>2. UNCHANGED <<errors, completed, total, files, process>>
    BY <2>1 DEF KickoffStep, Kickoff, ValidateAttempt, FailStale, FailLost,
       markFrame, Monitor, StartMonitoring, Heartbeat, beatOnly, fetchVars,
       busVars, attemptVars
  <2> QED BY <1>2, <2>2
<1>4. CASE SendStep
  <2>1. /\ process' = [process EXCEPT ![beat.a] = "queued"]
        /\ UNCHANGED <<errors, completed, total, files>>
        /\ process[beat.a] = "none"
    BY <1>4 DEF SendStep, SendFetching, Goto, rowVars, attemptVars, busVars,
       SentInv, SentOnce
  <2>2. DOMAIN process = Attempts
    BY <1>1 DEF TypeOK, FetchTypeOK
  <2> QED BY <1>2, <2>1, <2>2
<1>5. CASE MonitorStep \/ BeatFault
  <2>1. UNCHANGED <<errors, completed, total, process>>
    BY <1>5 DEF MonitorStep, BeatFault, CancelRequested, CheckCompletion,
       MarkCompleted, CleanupCompleted, SendFails, MonitoringFails, BeatDies,
       markFrame, rowVars, attemptVars, beatOnly, fetchVars
  <2>2. files' \in {files, NoFiles}
    BY <1>5 DEF MonitorStep, BeatFault, CancelRequested, CheckCompletion,
       MarkCompleted, CleanupCompleted, SendFails, MonitoringFails, BeatDies,
       CleanupAllBatches, busVars
  <2> QED BY <1>2, <2>1, <2>2 DEF NoFiles
<1>6. CASE AdminStep
  BY <1>2, <1>6 DEF AdminStep, RaiseFence, RequestCancellation, PauseRow,
     ResumeConnector, attemptVars, busVars, fetchVars
<1> QED BY <1>3, <1>4, <1>5, <1>6 DEF OtherStep

(* So they keep what is owed covered.                                      *)
LEMMA OthersCount ==
  ASSUME CompletionInv, TypeOK', OtherStep, NEW a \in Attempts
  PROVE  CountsAreOwed(a)'
<1>1. TypeOK /\ CountsAreOwed(a)
  BY DEF CompletionInv, SentInv, BacklogInv, IInv, LocalInv
<1>2. /\ UNCHANGED <<worker, indexed, queue, errors, completed, total, job>>
      /\ \/ process'[a] = process[a]
         \/ process[a] = "none" /\ process'[a] = "queued"
      /\ \A n \in BatchNums : files'[a][n] \in {files[a][n], NoDoc}
  BY OthersSpare DEF processVars, CompletionInv
<1>3. Recorded' = Recorded
  BY <1>2 DEF Recorded, AllErrors
<1> QED BY <1>1, <1>2, <1>3, LeftAlone DEF Unsent

(* A message is sent for a new attempt alone, whose row was just created.  *)
LEMMA SentStays ==
  ASSUME SentInv, TypeOK', Next
  PROVE  SentOnce'
<1>1. /\ TypeOK /\ ActorsHaveAttempts /\ SentOnce
      /\ DOMAIN process = Attempts /\ DOMAIN proxy = Attempts
      /\ beat.a \in Attempts /\ beat'.a \in Attempts
      /\ beat \in [at : BeatPlaces, a : Attempts, outcome : Succeeded]
  BY DEF SentInv, BacklogInv, IInv, LocalInv, TypeOK, FetchTypeOK,
     BeatTypeOK
<1>2. ASSUME NEW a \in Attempts,
             ProxyStep(a) \/ FetchStep(a) \/ FetchFault(a)
      PROVE  SentOnce'
  <2>1. UNCHANGED beat
    BY <1>1, <1>2, FetchRecords
  <2>2. process[a] # "none" /\ process'[a] # "none"
    <3>1. CASE ProxyStep(a)
      BY <1>1, <3>1 DEF SentOnce, ProxyStep, SpawnProcess, DropRevoked,
         ProcessDone, ReportFailure, MarkReported, AttemptFinalized,
         TerminateProcess, Goto
    <3>2. CASE FetchStep(a)
      BY <1>1, <3>2 DEF FetchStep, VerifyAttempt, StartAttempt, RefuseStart,
         ChooseWindow, ResumeFromCheckpoint, DiscardOldBatches,
         AdoptOldBatches, CountBatchToSend, Counts, HasToSend, ReissueBatch,
         CarryCompleted, SaveFirstCheckpoint, SetCheckpoint, YieldBatch,
         YieldCheckpoint, StopOnSignal, RaiseNotRunning, StoreFetchedBatch,
         QueueFetchedBatch, SaveRunCheckpoint, FinishExtraction,
         HandleException, MarkRaised, Goto
    <3>3. CASE FetchFault(a)
      BY <1>1, <3>3 DEF SentOnce, FetchFault, SpawnFails, YieldFailure,
         ExtractionRaises, ValidationFails, ProcessDies, WorkerShutsDown,
         MemoryLimitExceeded, PodDies, CountingMissed, Counts, HasToSend,
         Goto, Extracting, Running, Preparing
    <3> QED BY <1>2, <3>1, <3>2, <3>3
  <2>3. \A b \in Attempts : b # a =>
           process'[b] = process[b] /\ proxy'[b] = proxy[b]
    BY <1>1, <1>2, FetchSpares
  <2> QED BY <1>1, <2>1, <2>2, <2>3 DEF SentOnce
<1>3. CASE OtherStep
  <2>1. /\ \A b \in Attempts : \/ process'[b] = process[b]
                               \/ process[b] = "none"
                                  /\ process'[b] = "queued"
        /\ UNCHANGED proxy
    <3>1. ASSUME NEW b \in Attempts
          PROVE  /\ \/ process'[b] = process[b]
                    \/ process[b] = "none" /\ process'[b] = "queued"
                 /\ UNCHANGED proxy
      BY <1>3, <3>1, OthersSpare
    <3> QED BY <1>1, <3>1
  <2>2. ASSUME beat'.at = "send" PROVE process'[beat'.a] = "none"
    <3>1. CASE \E a \in Attempts : KickoffStep(a)
      <4>1. PICK a \in Attempts : KickoffStep(a)
        BY <3>1
      <4>2. /\ beat'.a = a /\ UNCHANGED process /\ Created = 1..(a - 1)
        BY <1>1, <4>1 DEF KickoffStep, Kickoff, CreateAttempt, InsertAttempt,
           beatOnly, fetchVars
      <4>3. ~Exists(a)
        BY <4>2 DEF Created, Exists, Attempts
      <4> QED BY <1>1, <4>2, <4>3 DEF ActorsHaveAttempts
    <3>2. CASE ~\E a \in Attempts : KickoffStep(a)
      <4>0. BeatIdle.at = "idle"
        BY DEF BeatIdle
      <4>1. beat' = beat /\ UNCHANGED process
        <5>1. ASSUME NEW a \in Attempts,
                     ValidateAttempt(a) \/ Monitor(a) \/ Heartbeat(a)
              PROVE  beat' = beat /\ UNCHANGED process
          <6>1. UNCHANGED process
            BY <5>1 DEF ValidateAttempt, Monitor, Heartbeat, beatOnly,
               fetchVars
          <6>2. CASE ValidateAttempt(a) \/ Heartbeat(a)
            BY <6>1, <6>2 DEF ValidateAttempt, FailStale, FailLost, Heartbeat
          <6>3. ~Monitor(a)
            BY <1>1, <2>2 DEF Monitor, StartMonitoring
          <6> QED BY <5>1, <6>2, <6>3
        <5>2. CASE SendStep \/ AdminStep
          BY <1>1, <2>2, <4>0, <5>2 DEF SendStep, SendFetching, AdminStep,
             adminOnly,
             RaiseFence, RequestCancellation, PauseRow, ResumeConnector,
             fetchVars
        <5>3. CASE MonitorStep
          BY <1>1, <2>2, <4>0, <5>3 DEF MonitorStep, CancelRequested,
             CheckCompletion, MarkCompleted, CleanupCompleted
        <5>4. CASE BeatFault
          BY <1>1, <2>2, <4>0, <5>4 DEF BeatFault, SendFails,
             MonitoringFails, BeatDies
        <5> QED BY <1>3, <3>2, <5>1, <5>2, <5>3, <5>4 DEF OtherStep
      <4> QED BY <1>1, <2>2, <4>1 DEF SentOnce
    <3> QED BY <3>1, <3>2
  <2> QED BY <1>1, <2>1, <2>2 DEF SentOnce
<1>4. CASE \/ \E a \in Attempts : BrokerFault(a)
           \/ \E w \in Workers :
                WorkerStep(w) \/ WorkerFault(w) \/ PickUpFault(w)
  BY <1>1, <1>4 DEF BrokerFault, WorkerStep, WorkerFault, PickUpFault,
     workerOnly, fetchVars, SentOnce
<1> QED BY <1>2, <1>3, <1>4 DEF Next, OtherStep

(* Docfetching moves on to the next batch, or to the total, only when the  *)
(* batch it counted is sent,                                               *)
LEMMA FetchPlaces ==
  ASSUME SentInv, TypeOK', NEW a \in Attempts,
         ProxyStep(a) \/ FetchStep(a) \/ FetchFault(a)
  PROVE  CountedInPlace'
<1>1. /\ TypeOK /\ CountedInPlace
      /\ job \in [Attempts -> JobType]
      /\ process \in [Attempts -> ProcessPlaces] /\ DOMAIN total = Attempts
  BY DEF SentInv, BacklogInv, IInv, LocalInv, TypeOK, FetchTypeOK, RowTypeOK
<1>2. /\ job[a].counted =>
           /\ process[a] \in {"reissue", "stored", "raised", "marking",
                              "error", "dead"}
           /\ process[a] = "reissue" => job[a].old # {}
      /\ total[a] # None => process[a] \in {"done", "dead"} /\ ~job[a].counted
  BY <1>1 DEF CountedInPlace
<1>3. \A b \in Attempts : b # a =>
        process'[b] = process[b] /\ job'[b] = job[b] /\ total'[b] = total[b]
  BY <1>1, FetchSpares
<1>4. SUFFICES
        /\ job'[a].counted =>
             /\ process'[a] \in {"reissue", "stored", "raised", "marking",
                                 "error", "dead"}
             /\ process'[a] = "reissue" => job'[a].old # {}
        /\ total'[a] # None =>
             process'[a] \in {"done", "dead"} /\ ~job'[a].counted
  BY <1>1, <1>3 DEF CountedInPlace
<1>5. CASE SpawnProcess(a) \/ DropRevoked(a) \/ ProcessDone(a)
           \/ ReportFailure(a) \/ MarkReported(a) \/ AttemptFinalized(a)
           \/ TerminateProcess(a)
  BY <1>1, <1>2, <1>5 DEF SpawnProcess, DropRevoked, ProcessDone,
     ReportFailure, MarkReported, AttemptFinalized, TerminateProcess, Goto,
     rowVars, attemptVars
<1>6. CASE VerifyAttempt(a) \/ StartAttempt(a) \/ RefuseStart(a)
           \/ SaveFirstCheckpoint(a) \/ SaveRunCheckpoint(a)
           \/ YieldBatch(a) \/ YieldCheckpoint(a)
  BY <1>1, <1>2, <1>6 DEF VerifyAttempt, StartAttempt, RefuseStart,
     SaveFirstCheckpoint, SaveRunCheckpoint, SetCheckpoint, YieldBatch,
     YieldCheckpoint, Goto, rowVars, attemptVars
<1>7. CASE ChooseWindow(a) \/ ResumeFromCheckpoint(a) \/ DiscardOldBatches(a)
           \/ AdoptOldBatches(a)
  BY <1>1, <1>2, <1>7 DEF ChooseWindow, ResumeFromCheckpoint,
     DiscardOldBatches, AdoptOldBatches, Goto, JobType, rowVars, attemptVars
<1>8. CASE CountBatchToSend(a) \/ CountingMissed(a)
  BY <1>1, <1>2, <1>8, CountsJob DEF CountBatchToSend, CountingMissed, Counts,
     HasToSend, JobType, rowVars, attemptVars
<1>9. CASE ReissueBatch(a)
  BY <1>1, <1>2, <1>9 DEF ReissueBatch, JobType, rowVars, attemptVars
<1>10. CASE CarryCompleted(a) \/ StoreFetchedBatch(a) \/ QueueFetchedBatch(a)
            \/ FinishExtraction(a)
  BY <1>1, <1>2, <1>10 DEF CarryCompleted, StoreFetchedBatch,
     QueueFetchedBatch, FinishExtraction, Goto, JobType, rowVars, attemptVars
<1>11. CASE StopOnSignal(a) \/ RaiseNotRunning(a) \/ HandleException(a)
            \/ MarkRaised(a) \/ SpawnFails(a) \/ ExtractionRaises(a)
            \/ ValidationFails(a) \/ ProcessDies(a) \/ WorkerShutsDown(a)
            \/ MemoryLimitExceeded(a) \/ PodDies(a)
  BY <1>1, <1>2, <1>11 DEF StopOnSignal, RaiseNotRunning, HandleException,
     MarkRaised, SpawnFails, ExtractionRaises, ValidationFails, ProcessDies,
     WorkerShutsDown, MemoryLimitExceeded, PodDies, Goto, Extracting,
     Running, Preparing, rowVars, attemptVars
<1>12. CASE YieldFailure(a)
  BY <1>1, <1>2, <1>12 DEF YieldFailure, Goto, JobType
<1> QED
  BY <1>5, <1>6, <1>7, <1>8, <1>9, <1>10, <1>11, <1>12
     DEF ProxyStep, FetchStep, FetchFault

(* and the others do not touch it.                                         *)
LEMMA PlacesStay ==
  ASSUME SentInv, TypeOK', Next
  PROVE  CountedInPlace'
<1>1. CASE \E a \in Attempts : ProxyStep(a) \/ FetchStep(a) \/ FetchFault(a)
  BY <1>1, FetchPlaces
<1>2. CASE OtherStep
  <2> SUFFICES ASSUME NEW a \in Attempts
               PROVE  /\ job'[a].counted =>
                           /\ process'[a] \in {"reissue", "stored", "raised",
                                               "marking", "error", "dead"}
                           /\ process'[a] = "reissue" => job'[a].old # {}
                      /\ total'[a] # None =>
                           process'[a] \in {"done", "dead"}
                             /\ ~job'[a].counted
    BY DEF CountedInPlace
  <2>1. /\ UNCHANGED <<job, total>>
        /\ \/ process'[a] = process[a]
           \/ process[a] = "none" /\ process'[a] = "queued"
    BY <1>2, OthersSpare
  <2> QED BY <2>1 DEF SentInv, CountedInPlace
<1>3. CASE \/ \E a \in Attempts : BrokerFault(a)
           \/ \E w \in Workers :
                WorkerStep(w) \/ WorkerFault(w) \/ PickUpFault(w)
  <2>1. UNCHANGED <<job, process>>
    BY <1>3 DEF BrokerFault, WorkerStep, WorkerFault, PickUpFault, workerOnly,
       fetchVars
  <2>2. UNCHANGED total
    BY <1>3 DEF BrokerFault, LoseMessage, WorkerStep, WorkerFault,
       PickUpFault, PickUpBatch, PickUpMissed, Receives, UsageLimitExceeded,
       IndexBatch, DocumentFails, RecordFailures, DeleteProcessed,
       HandleTaskException, FinishTask, ReleaseMissed, CountProcessed,
       CountFailed, TaskRaises, TaskRaisesLate, LockTimesOut, WorkerDies,
       rowVars, attemptVars
  <2> QED BY <2>1, <2>2 DEF SentInv, CountedInPlace
<1> QED BY <1>1, <1>2, <1>3 DEF Next, OtherStep

(* SentInv is inductive.                                                   *)
LEMMA SentInvStays ==
  ASSUME SentInv, [Next]_vars
  PROVE  SentInv'
<1>1. BacklogInv' /\ TypeOK'
  BY BacklogStays DEF SentInv, BacklogInv, IInv, LocalInv
<1>2. CASE Next
  BY <1>1, <1>2, SentStays, PlacesStay DEF SentInv
<1>3. CASE UNCHANGED vars
  BY <1>1, <1>3 DEF SentInv, SentOnce, CountedInPlace, vars, rowVars,
     attemptVars, fetchVars
<1> QED BY <1>2, <1>3

(* Nothing is counted, and nothing sent, at the start.                     *)
LEMMA InitSent == Init => SentInv
BY InitBacklog DEF Init, FetchInit, NewJob, BeatInit, BeatIdle, RowInit,
   SentInv, SentOnce, CountedInPlace

(* For any number of attempts, documents and workers: once extraction is   *)
(* over, the counters by which validate_active_indexing_attempts           *)
(* (background/celery/tasks/docprocessing/tasks.py) spares an attempt      *)
(* claim no message that is not in the queue and leave out no task, but    *)
(* for the pickups Redis failed to count and the messages the broker lost, *)
(* whatever dies between incr_pending and send_task.                       *)
THEOREM CountersTellTheTruth == Spec => []BacklogIsReal
<1>1. SentInv => BacklogIsReal
  <2> SUFFICES ASSUME SentInv, NEW a \in Attempts, IsActive(a),
                      total[a] # None
               PROVE  /\ pending[a] <= Cardinality(Waiting(a)) + missed[a]
                      /\ Cardinality(Tasks(a)) <= inFlight[a] + missed[a]
    BY DEF BacklogIsReal
  <2>1. TypeOK /\ missed[a] \in Nat /\ Counted(a) = 0
    BY DEF SentInv, CountedInPlace, Counted, BacklogInv, IInv, LocalInv,
       TypeOK
  <2>2. ~IsTerminal(a)
    BY DEF IsActive, IsTerminal, Active, Terminal, Succeeded, Resumable
  <2>3. Cardinality(Waiting(a)) \in Nat
    BY <2>1, WaitingIsFinite
  <2> QED BY <2>1, <2>2, <2>3 DEF SentInv, BacklogInv, PendingIsQueued,
             TasksAreInFlight
<1>2. SentInv /\ [Next]_vars => SentInv'
  BY SentInvStays
<1> QED BY <1>1, <1>2, InitSent, PTL DEF Spec

(* Every step lets the tasks keep to what they count.                      *)
LEMMA RecordStays ==
  ASSUME CompletionInv, CountedOnce, Next
  PROVE  TasksRecord'
<1>1. TypeOK /\ TasksRecord
  BY DEF CompletionInv, SentInv, BacklogInv, IInv, LocalInv
<1>2. ASSUME NEW a \in Attempts,
             ProxyStep(a) \/ FetchStep(a) \/ FetchFault(a)
      PROVE  TasksRecord'
  <2>1. UNCHANGED <<worker, indexed>>
    BY <1>1, <1>2, FetchRecords
  <2>2. AllErrors \subseteq AllErrors'
    BY <1>1, <1>2, FetchRecords
  <2> QED BY <1>1, <2>1, <2>2 DEF TasksRecord
<1>3. CASE OtherStep
  <2>1. UNCHANGED <<worker, indexed, errors>>
    <3>1. PICK a \in Attempts : TRUE
      BY IndexAttemptAssumption DEF Attempts
    <3> QED BY <1>3, OthersSpare DEF processVars, CompletionInv
  <2> QED BY <1>1, <2>1 DEF TasksRecord, AllErrors
<1>4. ASSUME NEW w \in Workers,
             WorkerStep(w) \/ WorkerFault(w) \/ PickUpFault(w)
      PROVE  TasksRecord'
  BY <1>1, <1>4, WorkerTasksRecord
<1>5. ASSUME NEW a \in Attempts, BrokerFault(a)
      PROVE  TasksRecord'
  BY <1>1, <1>5 DEF BrokerFault, LoseMessage, processVars, rowVars,
     attemptVars, TasksRecord, AllErrors
<1> QED BY <1>2, <1>3, <1>4, <1>5 DEF Next, OtherStep

(* At first nothing is owed.                                               *)
LEMMA InitCompletion == Init => CompletionInv
<1> SUFFICES ASSUME Init PROVE CompletionInv
  OBVIOUS
<1>1. SentInv
  BY InitSent
<1>2. TasksRecord
  BY DEF Init, ProcessInit, Idle, TasksRecord
<1>3. ASSUME NEW a \in Attempts PROVE CountsAreOwed(a)
  <2>1. /\ process[a] = "none" /\ total[a] = None /\ completed[a] = 0
        /\ job[a].num = 0 /\ job[a].carried = 0
    BY <1>3 DEF Init, FetchInit, RowInit, NewJob
  <2>2. Waiting(a) = {}
    BY <1>3 DEF Init, BusInit, Waiting
  <2>3. Tasks(a) = {}
    BY DEF Init, ProcessInit, Idle, Tasks, InAttempt
  <2> QED BY <2>1, <2>2, <2>3 DEF CountsAreOwed, Unsent
<1> QED BY <1>1, <1>2, <1>3 DEF CompletionInv

(* CompletionInv is inductive: a total covers the counts to come.          *)
LEMMA CompletionStays ==
  ASSUME CountedOnce, CompletionInv, [Next]_vars
  PROVE  CompletionInv'
<1>1. SentInv /\ SentInv' /\ TypeOK /\ TypeOK'
  BY SentInvStays DEF CompletionInv, SentInv, BacklogInv, IInv, LocalInv
<1>2. CASE Next
  <2>1. TasksRecord'
    BY <1>1, <1>2, RecordStays
  <2>2. ASSUME NEW a \in Attempts PROVE CountsAreOwed(a)'
    <3>1. CASE OtherStep
      BY <1>1, <3>1, OthersCount
    <3>2. CASE \E b \in Attempts :
                  ProxyStep(b) \/ FetchStep(b) \/ FetchFault(b)
      BY <1>1, <3>2, FetchCounts
    <3>3. CASE \E w \in Workers :
                  WorkerStep(w) \/ WorkerFault(w) \/ PickUpFault(w)
      BY <1>1, <3>3, WorkerCounts DEF CompletionInv
    <3>4. CASE \E b \in Attempts : BrokerFault(b)
      BY <1>1, <3>4, BrokerCounts DEF CompletionInv
    <3> QED BY <1>2, <3>1, <3>2, <3>3, <3>4 DEF Next, OtherStep
  <2> QED BY <1>1, <2>1, <2>2 DEF CompletionInv
<1>3. CASE UNCHANGED vars
  <2>1. UNCHANGED <<worker, indexed, errors, files, queue, completed, total,
                    process, proxy, job, beat>>
    BY <1>3 DEF vars, rowVars, attemptVars, busVars, fetchVars, processVars
  <2>2. TasksRecord'
    BY <2>1 DEF CompletionInv, TasksRecord, AllErrors
  <2>3. ASSUME NEW a \in Attempts PROVE CountsAreOwed(a)'
    <3>1. Recorded' = Recorded
      BY <2>1 DEF Recorded, AllErrors
    <3>2. \A n \in BatchNums : files'[a][n] \in {files[a][n], NoDoc}
      BY <2>1
    <3> QED BY <1>1, <2>1, <3>1, <3>2, LeftAlone DEF CompletionInv
  <2> QED BY <1>1, <2>2, <2>3 DEF CompletionInv
<1> QED BY <1>2, <1>3

(* So the total of every attempt covers what it has counted and what it    *)
(* will, in every state.                                                   *)
THEOREM CompletionInvariance ==
  ASSUME CountedOnce
  PROVE  Spec => []CompletionInv
<1>1. CompletionInv /\ [Next]_vars => CompletionInv'
  BY CompletionStays
<1> QED BY <1>1, InitCompletion, PTL DEF Spec

(* Once the attempt has been paid what it was owed, all it stored is       *)
(* recorded.                                                               *)
LEMMA CompleteIsRecorded ==
  ASSUME CompletionInv, NEW a \in Attempts, IsComplete(a),
         NEW n \in BatchNums, HasFile(a, n)
  PROVE  files[a][n] \in Recorded
<1>1. TypeOK /\ CountsAreOwed(a) /\ total[a] # None
      /\ total[a] <= completed[a]
  BY DEF CompletionInv, SentInv, BacklogInv, IInv, LocalInv, IsComplete
<1>2. /\ process[a] \in {"done", "dead"}
      /\ Owed(a) + completed[a] <= total[a]
  BY <1>1 DEF CountsAreOwed
<1>3. Owed(a) = 0
  BY <1>1, <1>2, CountTypes
<1>4. /\ Cardinality(Waiting(a)) = 0 /\ Cardinality(ToCount(a)) = 0
      /\ Cardinality(Dropped(a)) = 0
  BY <1>1, <1>3, OwedIsNat DEF Owed
<1>5. Waiting(a) = {} /\ ToCount(a) = {} /\ Dropped(a) = {}
  <2>1. /\ IsFiniteSet(Waiting(a)) /\ IsFiniteSet(ToCount(a))
        /\ IsFiniteSet(Dropped(a))
    BY <1>1, OwedIsNat, WaitingIsFinite
  <2>2. \A S : IsFiniteSet(S) /\ Cardinality(S) = 0 => S = {}
    BY FS_EmptySet
  <2> QED BY <1>4, <2>1, <2>2
<1>6. ~OnItsWay(a, n)
  <2>1. queue[a][n] \in Nat
    BY <1>1 DEF TypeOK, BusTypeOK
  <2>2. queue[a][n] = 0
    <3>1. queue[a][n] > 0 => <<n, 1>> \in Waiting(a)
      BY <2>1 DEF Waiting
    <3> QED BY <1>5, <2>1, <3>1
  <2> QED BY <1>2, <1>5, <2>2 DEF OnItsWay
<1> QED BY <1>5, <1>6 DEF Dropped

(* For any number of attempts, documents and workers: completed_batches    *)
(* reaches total_batches (check_indexing_completion) only once every       *)
(* stored batch is in the index, has its error row or is in a task that    *)
(* writes it, even when the store was trampled on, and whichever tasks     *)
(* fail, time out or die before they counted their batch.                  *)
THEOREM CompletedOnceProcessed ==
  ASSUME CountedOnce
  PROVE  Spec => []CompletionMeansProcessed
<1>1. CompletionInv => CompletionMeansProcessed
  <2> SUFFICES ASSUME CompletionInv, NEW a \in Attempts, IsComplete(a),
                      NEW n \in BatchNums, HasFile(a, n)
               PROVE  BatchDone(a, n)
    BY DEF CompletionMeansProcessed
  <2>1. files[a][n] \in Recorded
    BY CompleteIsRecorded
  <2>2. ASSUME NEW w \in Workers, worker[w].at = "errors"
        PROVE  worker[w].doc \in HeldDocs
    BY <2>2 DEF HeldDocs
  <2> QED BY <2>1, <2>2 DEF Recorded, BatchDone
<1> QED BY <1>1, CompletionInvariance, PTL
=============================================================================
