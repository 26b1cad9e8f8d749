---------------------- MODULE FetchedDocumentsProofs -----------------------
(***************************************************************************)
(* Proofs about IndexingPipeline: that no fetched document is lost, and    *)
(* that a success covers the source.                                       *)
(*                                                                         *)
(* The argument. Two things may go wrong with what an attempt counts as    *)
(* fetched: a batch is trampled on by a process that outlived its attempt, *)
(* or thrown away by a run from scratch; the history variables trampled    *)
(* and discarded say when. Otherwise the batches of the last attempt are   *)
(* Orderly: each stored batch has at most one message or task, and the     *)
(* task has its document. Every document the attempt counts is then        *)
(* recorded or in a batch of its own (FetchedIsKept), and every document a *)
(* checkpoint counts is recorded or in some batch (CheckpointIsSecured),   *)
(* for whoever resumes from it: the positions a run resumes from are saved *)
(* (PositionIsSaved), and adopting the batches makes them its own.         *)
(*                                                                         *)
(* An attempt completes once all its batches have been counted             *)
(* (CompletionInv), so that by then nothing can be lost any more: Excused. *)
(* No task may count twice (CountedOnce) and the connector has checkpoints *)
(* (Checkpointed); without them the properties fail (runs RecountCrash and *)
(* ThrownOut).                                                             *)
(***************************************************************************)
EXTENDS IndexingBatchProofs

(* The last attempt created                                                *)
Latest(a) == Exists(a) /\ \A b \in Attempts : b > a => ~Exists(b)

(* A task that has loaded its batch, and is not through with it            *)
Holds(w, a, n) ==
    /\ worker[w].at \notin {"idle", "post"}
    /\ worker[w].a = a
    /\ worker[w].n = n

(* Neither a message nor a task for batch n                                *)
Idles(a, n) == queue[a][n] = 0 /\ \A w \in Workers : ~Holds(w, a, n)

(* A stored batch whose tasks have its document in hand, and no other      *)
Safe(a, n) ==
    /\ HasFile(a, n)
    /\ \A w \in Workers : Holds(w, a, n) => worker[w].doc = files[a][n]

SafeDocs ==
    {d \in Docs : \E a \in Attempts, n \in BatchNums :
                     Safe(a, n) /\ files[a][n] = d}

OwnDocs(a) == {d \in Docs : \E n \in BatchNums : files[a][n] = d}

Settled == Recorded \cup discarded
Secured == Settled \cup SafeDocs

(* From here on nothing can be lost, or nothing is promised.               *)
Excused == trampled \/ Docs \subseteq Settled

(* A checkpoint that was saved covers p documents.                         *)
Saved(p) ==
    p = 0 \/ \E c \in Attempts : checkpoint[c] # None /\ p <= checkpoint[c]

-----------------------------------------------------------------------------
ActiveIsLatest == \A a \in Attempts : IsActive(a) => Latest(a)

BeatServesLatest == beat.at # "idle" => Latest(beat.a)

DeletesRecorded ==
    \A w \in Workers : worker[w].at = "delete" => worker[w].doc \in Recorded

PositionIsSaved(a) ==
    /\ process[a] \in Unsent \ {"adopt"} => job[a].pos = 0
    /\ process[a] \in Unsent \cup {"reissue", "save"} => checkpoint[a] = None
    /\ checkpoint[a] # None => checkpoint[a] <= job[a].pos
    /\ process[a] \in {"adopt", "reissue", "save"} => Saved(job[a].pos)
    /\ total[a] # None => job[a].pos = NDocs

SuccessIsExcused ==
    beat.at \in {"complete", "cleanup"}
      \/ (\E a \in Attempts : status[a] \in Succeeded)
    => Excused

(* Of each batch of the attempt there is one message or one task, which    *)
(* has its document.                                                       *)
Orderly(a) ==
    /\ \A w \in Workers, n \in BatchNums :
          Holds(w, a, n) => worker[w].doc = files[a][n]
    /\ \A w, v \in Workers, n \in BatchNums :
          Holds(w, a, n) /\ Holds(v, a, n) => w = v
    /\ \A n \in BatchNums :
          queue[a][n] > 0 => /\ HasFile(a, n) /\ queue[a][n] = 1
                             /\ \A w \in Workers : ~Holds(w, a, n)
    /\ process[a] = "reissue" =>
          \A b \in job[a].old :
             /\ HasFile(a, b[2]) /\ Idles(a, b[2])
             /\ \A c \in job[a].old : b[2] = c[2] => b = c
    /\ process[a] = "stored" =>
          files[a][job[a].num] = job[a].pos + 1 /\ Idles(a, job[a].num)

CheckpointIsSecured(c) ==
    /\ checkpoint[c] # None => 1..checkpoint[c] \subseteq Secured
    /\ process[c] = "chunk" => 1..job[c].pos \subseteq Secured

Fetching == {"reissue", "save", "run", "got", "stored", "chunk", "raised"}

FetchedIsKept(a) ==
    /\ process[a] \in Fetching \/ total[a] # None
         => 1..job[a].pos \subseteq Settled \cup OwnDocs(a)
    /\ \/ 1..job[a].pos \subseteq Settled \cup OwnDocs(a)
       \/ Saved(job[a].pos)

Covered ==
    /\ \A a \in Attempts : Latest(a) => Orderly(a) /\ FetchedIsKept(a)
    /\ \A c \in Attempts : CheckpointIsSecured(c)

(* The inductive invariant                                                 *)
FetchedInv ==
    /\ CompletionInv
    /\ ActiveIsLatest
    /\ BeatServesLatest
    /\ DeletesRecorded
    /\ \A a \in Attempts : PositionIsSaved(a)
    /\ SuccessIsExcused
    /\ Excused \/ Covered

-----------------------------------------------------------------------------
(* What the invariant says of types and actors                             *)
LEMMA FetchedTypes ==
  ASSUME FetchedInv
  PROVE  /\ TypeOK /\ IInv /\ ActorsHaveAttempts /\ DocumentsInHand
         /\ StoredHasNumber /\ TasksRecord /\ SentInv /\ SentOnce
         /\ \A a \in Attempts : CountsAreOwed(a)
BY DEF FetchedInv, CompletionInv, SentInv, BacklogInv, IInv, LocalInv

(* No status becomes NOT_STARTED but by a kickoff, nor a success but by    *)
(* MarkCompleted.                                                          *)
Verdicts == {"IN_PROGRESS"} \cup Resumable

(* What the others write is a verdict, or the start of the run.            *)
LEMMA StatusSteps ==
  ASSUME TypeOK, Next, ~(\E a \in Attempts : KickoffStep(a))
  PROVE  \/ \A b \in Attempts : status'[b] \in {status[b]} \cup Verdicts
         \/ MarkCompleted
<1> DEFINE Fine == \A b \in Attempts : status'[b] \in {status[b]} \cup Verdicts
<1>1. status \in [Attempts -> Statuses]
  BY DEF TypeOK, RowTypeOK
<1>2. ASSUME NEW a \in Attempts, NEW s \in Verdicts,
             status' = [status EXCEPT ![a] = s]
      PROVE  Fine
  BY <1>1, <1>2
<1>3. ASSUME NEW a \in Attempts,
             MarkInterrupted(a) \/ MarkCanceled(a) \/ Mark(a, "FAILED")
      PROVE  Fine
  BY <1>1, <1>2, <1>3 DEF MarkInterrupted, MarkCanceled, Mark,
     SetFinal, SetCanceled, markVars, Verdicts, Resumable
<1>4. ASSUME NEW a \in Attempts, ProxyStep(a) PROVE Fine
  BY <1>3, <1>4 DEF ProxyStep, SpawnProcess, DropRevoked, ProcessDone,
     ReportFailure, MarkReported, AttemptFinalized, TerminateProcess, rowVars,
     attemptVars
<1>5. ASSUME NEW a \in Attempts, FetchStep(a) PROVE Fine
  <2>1. CASE StartAttempt(a)
    BY <1>2, <2>1 DEF StartAttempt, TransitionToInProgress, Verdicts
  <2>2. CASE StopOnSignal(a) \/ MarkRaised(a)
    BY <1>3, <2>2 DEF StopOnSignal, MarkRaised
  <2> QED
    BY <1>5, <2>1, <2>2 DEF FetchStep, VerifyAttempt, RefuseStart,
       ChooseWindow, ResumeFromCheckpoint, DiscardOldBatches,
       AdoptOldBatches, ReissueBatch, CarryCompleted, SaveFirstCheckpoint,
       SetCheckpoint, YieldBatch, YieldCheckpoint,
       RaiseNotRunning, StoreFetchedBatch, QueueFetchedBatch,
       SaveRunCheckpoint, FinishExtraction, CountBatchToSend, HandleException,
       rowVars, attemptVars
<1>6. ASSUME NEW a \in Attempts, FetchFault(a) PROVE Fine
  BY <1>3, <1>6 DEF FetchFault, SpawnFails, YieldFailure, ExtractionRaises,
     ValidationFails, ProcessDies, WorkerShutsDown, MemoryLimitExceeded,
     PodDies, CountingMissed, rowVars, attemptVars
<1>7. ASSUME NEW w \in Workers, WorkerStep(w) \/ WorkerFault(w) \/ PickUpFault(w) PROVE Fine
  <2>1. CASE UsageLimitExceeded(w)
    BY <1>3, <2>1 DEF UsageLimitExceeded
  <2> QED
    BY <1>7, <2>1 DEF WorkerStep, WorkerFault, PickUpFault, PickUpBatch,
       PickUpMissed, Receives, ReleaseMissed, IndexBatch, DocumentFails,
       RecordFailures, DeleteProcessed, HandleTaskException, FinishTask,
       CountProcessed, CountFailed, TaskRaises, TaskRaisesLate, LockTimesOut,
       WorkerDies, rowVars, attemptVars
<1>8. ASSUME NEW a \in Attempts,
             ValidateAttempt(a) \/ Monitor(a) \/ Heartbeat(a)
      PROVE  Fine
  BY <1>3, <1>8 DEF ValidateAttempt, FailStale, FailLost, Monitor,
     StartMonitoring, Heartbeat, attemptVars
<1>9. CASE SendStep \/ AdminStep
  BY <1>9 DEF SendStep, SendFetching, AdminStep, RaiseFence,
     RequestCancellation, PauseRow, ResumeConnector, rowVars, attemptVars
<1>10. CASE MonitorStep \/ BeatFault
  <2>1. beat.a \in Attempts
    BY DEF TypeOK, BeatTypeOK
  <2>2. CASE CancelRequested \/ SendFails \/ MonitoringFails
    BY <1>3, <2>1, <2>2 DEF CancelRequested, SendFails, MonitoringFails
  <2> QED
    BY <1>10, <2>2 DEF MonitorStep, BeatFault, CheckCompletion,
       CleanupCompleted, BeatDies, rowVars, attemptVars
<1>11. ASSUME NEW a \in Attempts, BrokerFault(a) PROVE Fine
  BY <1>11 DEF BrokerFault, LoseMessage, rowVars, attemptVars
<1> QED
  BY <1>4, <1>5, <1>6, <1>7, <1>8, <1>9, <1>10, <1>11 DEF Next

(* So no other step changes which attempt is the last, or activates one.   *)
LEMMA LatestStays ==
  ASSUME IInv, Next, ~(\E a \in Attempts : KickoffStep(a)),
         NEW a \in Attempts
  PROVE  /\ Latest(a)' <=> Latest(a)
         /\ IsActive(a)' => IsActive(a)
<1>1. /\ RowsMove /\ TypeOK /\ status \in [Attempts -> Statuses]
      /\ beat.outcome \in Succeeded /\ beat.a \in Attempts
  BY NextMoves DEF IInv, LocalInv, TypeOK, RowTypeOK, BeatTypeOK
<1>2. \A b \in Attempts : status'[b] = status[b] \/ status'[b] # "NOT_STARTED"
  <2>1. CASE MarkCompleted
    BY <1>1, <2>1 DEF MarkCompleted, Mark, SetFinal, Succeeded
  <2> QED BY <1>1, <2>1, StatusSteps DEF Verdicts, Resumable
<1>3. \A b \in Attempts : /\ Exists(b)' <=> Exists(b)
                          /\ IsActive(b)' => IsActive(b)
  <2>1. CASE UNCHANGED status
    BY <2>1 DEF Exists, IsActive
  <2>2. ASSUME NEW c \in Attempts, Turn(c), status' # status
        PROVE  \A b \in Attempts : /\ Exists(b)' <=> Exists(b)
                                   /\ IsActive(b)' => IsActive(b)
    <3>1. CASE Lifecycle!Create(c)
      BY <1>1, <1>2, <3>1 DEF Lifecycle!Create, Lifecycle!Become
    <3>2. CASE Lifecycle!Begin(c)
      BY <1>1, <3>2 DEF Lifecycle!Begin, Lifecycle!Become, Exists, IsActive,
         Active
    <3>3. CASE \E s \in Terminal : Lifecycle!End(c, s)
      BY <1>1, <3>3 DEF Lifecycle!End, Lifecycle!Become, Exists, IsActive,
         Active, Terminal, Succeeded, Resumable
    <3> QED BY <2>2, <3>1, <3>2, <3>3 DEF Turn
  <2> QED BY <1>1, <2>1, <2>2 DEF RowsMove, RowWritten, RequestCancellation
<1> QED BY <1>3 DEF Latest

-----------------------------------------------------------------------------
(* What is recorded, discarded or trampled on stays so.                    *)
LEMMA TrampledStays ==
  ASSUME TypeOK, Next
  PROVE  trampled => trampled'
<1>1. ASSUME NEW a \in Attempts,
             ProxyStep(a) \/ FetchStep(a) \/ FetchFault(a)
      PROVE  trampled => trampled'
  <2>1. CASE ProxyStep(a)
    BY <2>1 DEF ProxyStep, SpawnProcess, DropRevoked, ProcessDone,
       ReportFailure, MarkReported, AttemptFinalized, TerminateProcess, busVars
  <2>2. CASE FetchStep(a)
    BY <2>2 DEF FetchStep, VerifyAttempt, StartAttempt, RefuseStart,
       ChooseWindow, ResumeFromCheckpoint, DiscardOldBatches,
       CleanupAllBatches, AdoptOldBatches, AdoptBatches, ReissueBatch,
       CarryCompleted, SaveFirstCheckpoint, SetCheckpoint, YieldBatch,
       YieldCheckpoint, StopOnSignal, RaiseNotRunning, StoreFetchedBatch,
       StoreBatch, QueueFetchedBatch, SaveRunCheckpoint, FinishExtraction,
       HandleException, CountBatchToSend, MarkRaised, busVars
  <2>3. CASE FetchFault(a)
    BY <2>3 DEF FetchFault, SpawnFails, YieldFailure, ExtractionRaises,
       ValidationFails, ProcessDies, WorkerShutsDown, MemoryLimitExceeded,
       PodDies, CountingMissed, busVars
  <2> QED BY <1>1, <2>1, <2>2, <2>3
<1>2. ASSUME NEW w \in Workers, WorkerStep(w) \/ WorkerFault(w) \/ PickUpFault(w)
      PROVE  trampled => trampled'
  BY <1>2 DEF WorkerStep, WorkerFault, PickUpFault, PickUpBatch, PickUpMissed,
     Receives, ReleaseMissed, IndexBatch, DocumentFails, RecordFailures,
     DeleteProcessed, HandleTaskException, FinishTask, CountProcessed,
     CountFailed, TaskRaises, TaskRaisesLate, LockTimesOut, WorkerDies,
     UsageLimitExceeded, busVars
<1>3. ASSUME NEW a \in Attempts,
             \/ KickoffStep(a) \/ ValidateAttempt(a) \/ Monitor(a)
             \/ Heartbeat(a)
      PROVE  trampled => trampled'
  BY <1>3 DEF KickoffStep, Kickoff, ValidateAttempt, FailStale, FailLost,
     Monitor, StartMonitoring, Heartbeat, busVars
<1>4. CASE SendStep \/ AdminStep
  BY <1>4 DEF SendStep, SendFetching, AdminStep, RaiseFence,
     RequestCancellation, PauseRow, ResumeConnector, busVars
<1>5. CASE MonitorStep \/ BeatFault
  BY <1>5 DEF MonitorStep, BeatFault, CancelRequested, CheckCompletion,
     MarkCompleted, CleanupCompleted, CleanupAllBatches, SendFails,
     MonitoringFails, BeatDies, busVars
<1>6. ASSUME NEW a \in Attempts, BrokerFault(a)
      PROVE  trampled => trampled'
  BY <1>6 DEF BrokerFault, LoseMessage
<1> QED BY <1>1, <1>2, <1>3, <1>4, <1>5, <1>6 DEF Next

(* What is discarded stays discarded, and docfetching alone discards.      *)
LEMMA DiscardedStays ==
  ASSUME Next
  PROVE  /\ discarded \subseteq discarded'
         /\ (\A a \in Attempts : ~FetchStep(a)) => UNCHANGED discarded
<1>1. ASSUME NEW a \in Attempts, FetchStep(a)
      PROVE  discarded \subseteq discarded'
  BY <1>1 DEF FetchStep
<1>2. CASE OtherStep
  BY <1>2 DEF OtherStep, KickoffStep, ValidateAttempt, Monitor, Heartbeat,
     SendStep, MonitorStep, BeatFault, AdminStep, beatOnly, adminOnly
<1>3. CASE \E a \in Attempts : ProxyStep(a) \/ FetchFault(a)
  BY <1>3 DEF ProxyStep, FetchFault
<1>4. CASE \E w \in Workers : WorkerStep(w) \/ WorkerFault(w) \/ PickUpFault(w)
  BY <1>4 DEF WorkerStep, WorkerFault, PickUpFault, workerOnly
<1>5. CASE \E a \in Attempts : BrokerFault(a)
  BY <1>5 DEF BrokerFault, workerOnly
<1> QED BY <1>1, <1>2, <1>3, <1>4, <1>5 DEF Next, OtherStep

(* So what is settled stays settled, and what is excused excused.          *)
LEMMA SettledStays ==
  ASSUME CompletionInv, CountedOnce, Next
  PROVE  /\ Recorded \subseteq Recorded' /\ Settled \subseteq Settled'
         /\ Excused => Excused'
<1>1. TypeOK /\ SentInv
  BY DEF CompletionInv, SentInv, BacklogInv, IInv, LocalInv
<1>2. ASSUME OtherStep PROVE Recorded \subseteq Recorded'
  <2>1. PICK a \in Attempts : TRUE
    BY IndexAttemptAssumption DEF Attempts
  <2>2. UNCHANGED <<processVars, errors>>
    BY <1>1, <1>2, OthersSpare
  <2> QED BY <2>2 DEF Recorded, AllErrors, processVars
<1>0. ASSUME NEW a \in Attempts, BrokerFault(a)
      PROVE  Recorded \subseteq Recorded'
  BY <1>0 DEF BrokerFault, LoseMessage, Recorded, AllErrors, processVars,
     rowVars, attemptVars
<1>3. Recorded \subseteq Recorded'
  BY <1>0, <1>1, <1>2, FetchRecords, WorkerRecords DEF Next, OtherStep
<1>4. Settled \subseteq Settled'
  BY <1>3, DiscardedStays DEF Settled
<1> QED BY <1>1, <1>3, <1>4, TrampledStays DEF Excused

-----------------------------------------------------------------------------
(* What a task deletes is recorded.                                        *)
LEMMA DeletesStep ==
  ASSUME FetchedInv, CountedOnce, Next
  PROVE  DeletesRecorded'
<1>1. /\ TypeOK /\ CompletionInv /\ SentInv /\ TasksRecord /\ DeletesRecorded
      /\ Recorded \subseteq Recorded'
      /\ worker \in [Workers -> TaskType]
      /\ errors \in [Attempts -> SUBSET Docs]
  BY FetchedTypes, SettledStays
     DEF FetchedInv, TypeOK, ProcessTypeOK, RowTypeOK
<1>2. ASSUME UNCHANGED worker PROVE DeletesRecorded'
  BY <1>1, <1>2 DEF DeletesRecorded
<1>3. CASE OtherStep
  <2>1. PICK a \in Attempts : TRUE
    BY IndexAttemptAssumption DEF Attempts
  <2>2. UNCHANGED worker
    BY <1>1, <1>3, OthersSpare DEF processVars
  <2> QED BY <1>2, <2>2
<1>4. ASSUME NEW a \in Attempts,
             ProxyStep(a) \/ FetchStep(a) \/ FetchFault(a)
      PROVE  DeletesRecorded'
  BY <1>1, <1>2, <1>4, FetchRecords
<1>5. ASSUME NEW w \in Workers, WorkerStep(w) \/ WorkerFault(w) \/ PickUpFault(w)
      PROVE  DeletesRecorded'
  <2>1. ASSUME \A v \in Workers : v # w => worker'[v] = worker[v],
               worker'[w].at = "delete" => worker'[w].doc \in Recorded'
        PROVE  DeletesRecorded'
    BY <1>1, <2>1 DEF DeletesRecorded
  <2>2. CASE PickUp(w)
    <3>1. PICK a \in Attempts, n \in BatchNums :
            worker' = [worker EXCEPT ![w] =
               [at |-> IF ~HasFile(a, n) THEN "post"
                       ELSE IF MayProcess(a) THEN "index" ELSE "except",
                a |-> a, n |-> n, doc |-> files[a][n], ok |-> TRUE]]
      BY <2>2, Zenon DEF PickUp, Receives
    <3>2. worker'[w].at \in {"post", "index", "except"}
      BY <1>1, <3>1
    <3> QED BY <1>1, <2>1, <3>1, <3>2
  <2>3. CASE UsageLimitExceeded(w)
    BY <1>2, <2>3 DEF UsageLimitExceeded
  <2>4. CASE CountProcessed(w)
    <3>1. /\ worker[w].at = "count"
          /\ worker' = [worker EXCEPT ![w].at =
                          IF worker[w].ok THEN "delete" ELSE "errors"]
      BY <2>4 DEF CountProcessed, Step
    <3>2. worker'[w].at = "delete" =>
             worker[w].ok /\ worker'[w].doc = worker[w].doc
      BY <1>1, <3>1 DEF TaskType
    <3>3. worker'[w].at = "delete" => worker'[w].doc \in indexed
      BY <1>1, <3>1, <3>2 DEF TasksRecord
    <3>4. indexed \subseteq indexed'
      BY <1>1, <1>5, WorkerRecords
    <3> QED BY <1>1, <2>1, <3>1, <3>3, <3>4 DEF Recorded
  <2>5. CASE RecordFailures(w)
    <3>1. /\ \A v \in Workers : v # w => worker'[v] = worker[v]
          /\ worker'[w].doc = worker[w].doc /\ worker[w].a \in Attempts
          /\ errors' = [errors EXCEPT ![worker[w].a] = @ \cup {worker[w].doc}]
      BY <1>1, <2>5 DEF RecordFailures, RecordError, Step, TaskType
    <3>2. worker'[w].doc \in AllErrors'
      BY <1>1, <3>1 DEF AllErrors
    <3> QED BY <2>1, <3>1, <3>2 DEF Recorded
  <2>6. CASE IndexBatch(w) \/ DocumentFails(w) \/ DeleteProcessed(w)
             \/ HandleTaskException(w) \/ FinishTask(w) \/ ReleaseMissed(w)
             \/ CountFailed(w) \/ TaskRaises(w) \/ LockTimesOut(w) \/ WorkerDies(w)
    BY <1>1, <2>1, <2>6 DEF IndexBatch, DocumentFails, DeleteProcessed,
       HandleTaskException, FinishTask, ReleaseMissed, CountFailed, TaskRaises,
       LockTimesOut, WorkerDies, Step, TaskType, Idle
  <2> QED
    BY <1>5, <2>2, <2>3, <2>4, <2>5, <2>6, WorkerCases
<1>6. ASSUME NEW a \in Attempts, BrokerFault(a)
      PROVE  DeletesRecorded'
  BY <1>2, <1>6 DEF BrokerFault, processVars
<1> QED BY <1>3, <1>4, <1>5, <1>6 DEF Next, OtherStep

-----------------------------------------------------------------------------
(* A kickoff creates a row, and touches nothing else.                      *)
LEMMA KickoffCreates ==
  ASSUME FetchedInv, NEW a \in Attempts, KickoffStep(a)
  PROVE  /\ UNCHANGED <<processVars, fetchVars, busVars, total, completed,
                        checkpoint, errors, discarded>>
         /\ beat.at = "idle" /\ beat'.at = "send" /\ beat'.a = a
         /\ ~Exists(a) /\ Latest(a)'
         /\ \A b \in Attempts : b # a => ~Latest(b)'
         /\ \A b \in Attempts : ~IsActive(b)
         /\ \A b \in Attempts : IsActive(b)' => b = a
         /\ \A b \in Attempts :
               status'[b] \in Succeeded => status[b] \in Succeeded
<1>1. /\ status \in [Attempts -> Statuses]
      /\ beat \in [at : BeatPlaces, a : Attempts, outcome : Succeeded]
  BY FetchedTypes DEF TypeOK, RowTypeOK, BeatTypeOK
<1>2. /\ UNCHANGED <<processVars, fetchVars, busVars, total, completed,
                     checkpoint, errors, discarded>>
      /\ beat.at = "idle" /\ beat' = [beat EXCEPT !.at = "send", !.a = a]
      /\ \A b \in Attempts : ~IsActive(b)
      /\ Created = 1..(a - 1)
      /\ status' = [status EXCEPT ![a] = "NOT_STARTED"]
  BY DEF KickoffStep, Kickoff, CreateAttempt, InsertAttempt, beatOnly
<1>3. \A b \in Attempts : Exists(b) <=> b < a
  BY <1>2 DEF Created, Exists, Attempts
<1>4. \A b \in Attempts : Exists(b)' <=> b < a \/ b = a
  BY <1>1, <1>2, <1>3 DEF Exists
<1>5. Latest(a)' /\ \A b \in Attempts : b # a => ~Latest(b)'
  BY <1>4 DEF Latest, Attempts
<1>6. \A b \in Attempts : b # a => status'[b] = status[b]
  BY <1>1, <1>2
<1>7. status'[a] = "NOT_STARTED"
  BY <1>1, <1>2
<1> QED
  BY <1>1, <1>2, <1>3, <1>5, <1>6, <1>7 DEF IsActive, Active, Succeeded,
     Attempts

-----------------------------------------------------------------------------
(* The other steps of the beat task and the administrator leave what is    *)
(* fetched alone, unless an attempt is complete.                           *)
LEMMA OthersLeave ==
  ASSUME TypeOK, OtherStep
  PROVE  /\ UNCHANGED <<checkpoint, discarded>>
         /\ beat.at \in {"complete", "cleanup"} \/ UNCHANGED files
<1>1. ASSUME NEW b \in Attempts,
             \/ KickoffStep(b) \/ ValidateAttempt(b)
             \/ Monitor(b) \/ Heartbeat(b)
      PROVE  UNCHANGED <<checkpoint, discarded, files>>
  BY <1>1 DEF KickoffStep, Kickoff, ValidateAttempt, FailStale, FailLost,
     markFrame, Monitor, StartMonitoring, Heartbeat, beatOnly, busVars,
     attemptVars
<1>2. CASE SendStep
  BY <1>2 DEF SendStep, SendFetching, rowVars, attemptVars, busVars
<1>3. CASE MonitorStep \/ BeatFault
  BY <1>3 DEF MonitorStep, BeatFault, CancelRequested, CheckCompletion,
     MarkCompleted, CleanupCompleted, SendFails, MonitoringFails, BeatDies,
     markFrame, rowVars, attemptVars, busVars, beatOnly
<1>4. CASE AdminStep
  BY <1>4 DEF AdminStep, RaiseFence, RequestCancellation, PauseRow,
     ResumeConnector, attemptVars, busVars, adminOnly
<1> QED BY <1>1, <1>2, <1>3, <1>4 DEF OtherStep

(* The tasks leave the processes, the totals and the checkpoints alone.    *)
LEMMA WorkersLeave ==
  ASSUME CountedOnce, NEW w \in Workers, WorkerStep(w) \/ WorkerFault(w) \/ PickUpFault(w)
  PROVE  UNCHANGED <<fetchVars, process, job, total, checkpoint, discarded,
                     trampled, beat>>
<1>1. UNCHANGED <<fetchVars, discarded, beat>>
  BY DEF WorkerStep, WorkerFault, PickUpFault, workerOnly
<1>2. UNCHANGED <<total, checkpoint, trampled>>
  BY WorkerCases DEF PickUp, Receives, ReleaseMissed, UsageLimitExceeded,
     IndexBatch, DocumentFails, RecordFailures, DeleteProcessed,
     HandleTaskException, FinishTask, CountProcessed, CountFailed, TaskRaises,
     LockTimesOut, WorkerDies, rowVars, attemptVars, busVars
<1> QED BY <1>1, <1>2 DEF fetchVars

(* Nor does the broker.                                                    *)
LEMMA BrokerLeaves ==
  ASSUME NEW a \in Attempts, BrokerFault(a)
  PROVE  /\ UNCHANGED <<fetchVars, process, job, total, checkpoint, discarded,
                        trampled, beat, worker, indexed, files, errors>>
         /\ \E n \in BatchNums : TakeMessage(a, n)
BY DEF BrokerFault, LoseMessage, workerOnly, fetchVars, processVars, rowVars,
   attemptVars

(* The steps of docfetching that move documents, or count them             *)
MovingStep(a) ==
    \/ /\ FetchStep(a)
       /\ \/ ResumeFromCheckpoint(a) \/ DiscardOldBatches(a)
          \/ AdoptOldBatches(a) \/ ReissueBatch(a)
          \/ SaveFirstCheckpoint(a) \/ SaveRunCheckpoint(a)
          \/ YieldCheckpoint(a) \/ StoreFetchedBatch(a)
          \/ QueueFetchedBatch(a) \/ FinishExtraction(a)
    \/ FetchFault(a) /\ YieldFailure(a)

Early == Unsent \ {"adopt"}
Over  == {"raised", "marking", "error", "done", "dead"}

(* What the others do                                                      *)
LEMMA FetchQuiet ==
  ASSUME TypeOK, NEW a \in Attempts,
         ProxyStep(a) \/ FetchStep(a) \/ FetchFault(a), ~MovingStep(a)
  PROVE  /\ UNCHANGED <<files, queue, total, checkpoint, errors, discarded,
                        trampled>>
         /\ job'[a].pos = job[a].pos /\ job'[a].old = job[a].old
         /\ job'[a].num = job[a].num
         /\ \/ process'[a] = process[a]
            \/ process[a] \in Early /\ process'[a] \in Early
            \/ process[a] = "reissue" /\ process'[a] = "save"
            \/ process[a] = "run" /\ process'[a] = "got"
            \/ process'[a] \in Over
<1>1. /\ job[a] \in JobType /\ job \in [Attempts -> JobType]
      /\ DOMAIN process = Attempts
  BY DEF TypeOK, FetchTypeOK
<1> DEFINE Frame ==
      UNCHANGED <<files, queue, total, checkpoint, errors, trampled>>
<1> DEFINE Rest ==
         /\ job'[a].pos = job[a].pos /\ job'[a].old = job[a].old
         /\ job'[a].num = job[a].num
         /\ \/ process'[a] = process[a]
            \/ process[a] \in Early /\ process'[a] \in Early
            \/ process[a] = "reissue" /\ process'[a] = "save"
            \/ process[a] = "run" /\ process'[a] = "got"
            \/ process'[a] \in Over
<1>2. ASSUME SpawnProcess(a) \/ DropRevoked(a) \/ ProcessDone(a)
             \/ ReportFailure(a) \/ MarkReported(a) \/ AttemptFinalized(a)
             \/ TerminateProcess(a)
      PROVE  Frame /\ Rest
  BY <1>1, <1>2 DEF SpawnProcess, DropRevoked, ProcessDone, ReportFailure,
     MarkReported, AttemptFinalized, TerminateProcess, Goto, Unsent, Early,
     Over, rowVars, attemptVars, busVars
<1>3. ASSUME VerifyAttempt(a) \/ StartAttempt(a) \/ RefuseStart(a)
             \/ ChooseWindow(a)
      PROVE  Frame /\ Rest /\ process[a] # "connect"
  BY <1>1, <1>3 DEF VerifyAttempt, StartAttempt, RefuseStart, ChooseWindow,
     JobType, Goto, Unsent, Early, Over, rowVars, attemptVars, busVars
<1>4. ASSUME YieldBatch(a) \/ StopOnSignal(a) \/ RaiseNotRunning(a)
             \/ HandleException(a) \/ CarryCompleted(a) \/ CountBatchToSend(a)
             \/ MarkRaised(a)
      PROVE  Frame /\ Rest /\ process[a] # "connect"
  BY <1>1, <1>4 DEF YieldBatch, StopOnSignal, RaiseNotRunning,
     HandleException, CarryCompleted, CountBatchToSend, Counts, HasToSend,
     MarkRaised, JobType, Goto, Over, rowVars, attemptVars, busVars
<1>5. ASSUME SpawnFails(a) \/ ExtractionRaises(a) \/ ValidationFails(a)
             \/ ProcessDies(a) \/ WorkerShutsDown(a) \/ MemoryLimitExceeded(a)
             \/ PodDies(a) \/ CountingMissed(a)
      PROVE  Frame /\ Rest
  BY <1>1, <1>5 DEF SpawnFails, ExtractionRaises, ValidationFails,
     ProcessDies, WorkerShutsDown, MemoryLimitExceeded, PodDies,
     CountingMissed, Counts, JobType, Goto, Over, rowVars, attemptVars,
     busVars
<1>6. CASE ProxyStep(a)
  <2>1. UNCHANGED discarded
    BY <1>6 DEF ProxyStep
  <2> QED BY <1>2, <1>6, <2>1 DEF ProxyStep
<1>7. CASE FetchStep(a)
  <2>1. Frame /\ Rest /\ process[a] # "connect"
    BY <1>3, <1>4, <1>7 DEF FetchStep, MovingStep
  <2>2. Discards(a) = {}
    BY <2>1 DEF Discards
  <2>3. UNCHANGED discarded
    BY <1>7, <2>2 DEF FetchStep
  <2> QED BY <2>1, <2>3
<1>8. CASE FetchFault(a)
  <2>1. UNCHANGED discarded
    BY <1>8 DEF FetchFault
  <2> QED BY <1>5, <1>8, <2>1 DEF FetchFault, MovingStep
<1> QED BY <1>6, <1>7, <1>8

(* Each of them in turn                                                    *)
LEMMA ResumeDoes ==
  ASSUME TypeOK, NEW a \in Attempts, FetchStep(a), ResumeFromCheckpoint(a)
  PROVE  /\ UNCHANGED <<files, queue, total, checkpoint, errors, discarded,
                        trampled>>
         /\ process[a] = "connect" /\ process'[a] = "adopt"
         /\ job'[a].pos = LatestCheckpoint(a)
<1>1. /\ process[a] = "connect" /\ process'[a] = "adopt"
      /\ UNCHANGED <<files, queue, total, checkpoint, errors, trampled>>
  BY DEF ResumeFromCheckpoint, Goto, TypeOK, FetchTypeOK, rowVars,
     attemptVars, busVars
<1>2. job'[a].pos = LatestCheckpoint(a)
  BY DEF ResumeFromCheckpoint, TypeOK, FetchTypeOK, JobType
<1>3. Discards(a) = {}
  BY <1>1 DEF Discards
<1> QED BY <1>1, <1>2, <1>3 DEF FetchStep

(* A run from scratch begins at document 0, and takes every batch away.    *)
LEMMA DiscardDoes ==
  ASSUME TypeOK, Checkpointed, NEW a \in Attempts, FetchStep(a),
         DiscardOldBatches(a)
  PROVE  /\ UNCHANGED <<queue, total, checkpoint, errors>>
         /\ process[a] = "connect" /\ process'[a] = "save"
         /\ job'[a].pos = 0 /\ files' = NoFiles
         /\ discarded' = discarded
                           \cup {d \in StoredDocs : CountsAsFetched(d)}
         /\ trampled' = (trampled \/ TakesLaterBatch(a))
<1>1. /\ process[a] = "connect" /\ process'[a] = "save"
      /\ UNCHANGED <<queue, total, checkpoint, errors>>
      /\ files' = NoFiles /\ trampled' = (trampled \/ TakesLaterBatch(a))
  BY DEF DiscardOldBatches, CleanupAllBatches, Goto, TypeOK, FetchTypeOK,
     rowVars, attemptVars
<1>2. job'[a].pos = 0
  <2>1. job'[a].pos = IF StartsOver(a) THEN 0 ELSE LatestCheckpoint(a)
    BY DEF DiscardOldBatches, TypeOK, FetchTypeOK, JobType
  <2>2. ~StartsOver(a) => LatestCheckpoint(a) = 0
    BY DEF DiscardOldBatches, Resumes, LatestCheckpoint
  <2> QED BY <2>1, <2>2
<1> QED BY <1>1, <1>2 DEF FetchStep, Discards

(* A resumed run renames every batch to itself, unless two have one        *)
(* number.                                                                 *)
LEMMA AdoptDoes ==
  ASSUME TypeOK, NEW a \in Attempts, FetchStep(a), AdoptOldBatches(a)
  PROVE  /\ UNCHANGED <<queue, total, checkpoint, errors, discarded>>
         /\ process[a] = "adopt" /\ process'[a] = "reissue"
         /\ job'[a].pos = job[a].pos /\ job'[a].old = StoredBatches
         /\ \A b \in Attempts \ {a}, n \in BatchNums : files'[b][n] = NoDoc
         /\ trampled' = \/ trampled
                        \/ TakesLaterBatch(a)
                        \/ \E b, c \in StoredBatches : b # c /\ b[2] = c[2]
         /\ ~trampled' =>
              \A b \in StoredBatches : files'[a][b[2]] = files[b[1]][b[2]]
<1>1. /\ process[a] = "adopt" /\ process'[a] = "reissue"
      /\ UNCHANGED <<queue, total, checkpoint, errors>>
      /\ trampled' = \/ trampled
                     \/ TakesLaterBatch(a)
                     \/ \E b, c \in StoredBatches : b # c /\ b[2] = c[2]
  BY DEF AdoptOldBatches, AdoptBatches, Goto, TypeOK, FetchTypeOK,
     rowVars, attemptVars
<1>2. job'[a].pos = job[a].pos /\ job'[a].old = StoredBatches
  BY DEF AdoptOldBatches, TypeOK, FetchTypeOK, JobType
<1>3. UNCHANGED discarded
  BY <1>1 DEF FetchStep, Discards
<1>4. PICK pick \in [{b[2] : b \in StoredBatches} -> Attempts] :
        /\ \A n \in DOMAIN pick : HasFile(pick[n], n)
        /\ files' = [NoFiles EXCEPT ![a] =
                       [n \in BatchNums |-> IF n \in DOMAIN pick
                                           THEN files[pick[n]][n]
                                           ELSE NoDoc]]
  BY DEF AdoptOldBatches, AdoptBatches
<1>5. \A b \in Attempts \ {a}, n \in BatchNums : files'[b][n] = NoDoc
  BY <1>4 DEF NoFiles
<1>6. ASSUME ~trampled', NEW b \in StoredBatches
      PROVE  files'[a][b[2]] = files[b[1]][b[2]]
  <2>1. b \in Attempts \X BatchNums /\ b[2] \in DOMAIN pick
    BY <1>4 DEF StoredBatches
  <2>2. /\ HasFile(pick[b[2]], b[2])
        /\ files'[a][b[2]] = files[pick[b[2]]][b[2]]
        /\ pick[b[2]] \in Attempts
    BY <1>4, <2>1 DEF NoFiles
  <2> DEFINE c == <<pick[b[2]], b[2]>>
  <2>3. c \in StoredBatches /\ c[2] = b[2] /\ c[1] = pick[b[2]]
    BY <2>1, <2>2 DEF StoredBatches
  <2>4. b = c
    BY <1>1, <1>6, <2>3
  <2> QED BY <2>2, <2>3, <2>4
<1> QED BY <1>1, <1>2, <1>3, <1>5, <1>6

(* It sends one message for one of them.                                   *)
LEMMA ReissueDoes ==
  ASSUME TypeOK, NEW a \in Attempts, FetchStep(a), ReissueBatch(a)
  PROVE  /\ UNCHANGED <<process, files, total, checkpoint, errors, discarded,
                        trampled>>
         /\ process[a] = "reissue" /\ job'[a].pos = job[a].pos
         /\ \E b \in job[a].old :
               /\ b[2] \in BatchNums
               /\ job'[a].old = job[a].old \ {b}
               /\ queue' = [queue EXCEPT ![a][b[2]] = @ + 1]
<1>1. /\ process[a] = "reissue"
      /\ UNCHANGED <<process, files, total, checkpoint, errors, trampled>>
  BY DEF ReissueBatch, rowVars, attemptVars
<1>2. PICK b \in job[a].old :
        /\ job' = [job EXCEPT ![a].old = @ \ {b}, ![a].counted = FALSE]
        /\ SendMessage(a, b[2])
  BY DEF ReissueBatch
<1>3. /\ job'[a].pos = job[a].pos /\ job'[a].old = job[a].old \ {b}
      /\ b[2] \in BatchNums
      /\ queue' = [queue EXCEPT ![a][b[2]] = @ + 1]
  BY <1>2 DEF TypeOK, FetchTypeOK, JobType, SendMessage
<1>4. UNCHANGED discarded
  BY <1>1 DEF FetchStep, Discards
<1> QED BY <1>1, <1>3, <1>4

(* A checkpoint is saved where the process stands.                         *)
LEMMA SaveDoes ==
  ASSUME TypeOK, NEW a \in Attempts, FetchStep(a),
         SaveFirstCheckpoint(a) \/ SaveRunCheckpoint(a)
  PROVE  /\ UNCHANGED <<files, queue, job, total, errors, discarded, trampled>>
         /\ process[a] \in {"save", "chunk"} /\ process'[a] = "run"
         /\ checkpoint' = [checkpoint EXCEPT ![a] = job[a].pos]
<1>1. /\ UNCHANGED <<files, queue, job, total, errors, trampled>>
      /\ process[a] \in {"save", "chunk"} /\ process'[a] = "run"
      /\ checkpoint' = [checkpoint EXCEPT ![a] = job[a].pos]
  BY DEF SaveFirstCheckpoint, SaveRunCheckpoint, SetCheckpoint, Goto, TypeOK,
     FetchTypeOK, busVars
<1>2. UNCHANGED discarded
  BY <1>1 DEF FetchStep, Discards
<1> QED BY <1>1, <1>2

(* Only a running attempt yields one.                                      *)
LEMMA YieldsDo ==
  ASSUME TypeOK, NEW a \in Attempts, FetchStep(a), YieldCheckpoint(a)
  PROVE  /\ UNCHANGED <<files, queue, job, total, checkpoint, errors,
                        discarded, trampled>>
         /\ process[a] = "run" /\ process'[a] = "chunk"
         /\ IsActive(a)
<1>1. /\ UNCHANGED <<files, queue, job, total, checkpoint, errors, trampled>>
      /\ process[a] = "run" /\ process'[a] = "chunk"
  BY DEF YieldCheckpoint, Goto, TypeOK, FetchTypeOK, rowVars, attemptVars,
     busVars
<1>2. IsActive(a)
  BY DEF YieldCheckpoint, MayGoOn, NotRunning, IsActive, Active
<1>3. UNCHANGED discarded
  BY <1>1 DEF FetchStep, Discards
<1> QED BY <1>1, <1>2, <1>3

(* A document that cannot be fetched gets an error row.                    *)
LEMMA FailureDoes ==
  ASSUME TypeOK, NEW a \in Attempts, FetchFault(a), YieldFailure(a)
  PROVE  /\ UNCHANGED <<files, queue, total, checkpoint, discarded, trampled>>
         /\ process[a] = "run" /\ process'[a] \in {"run", "raised"}
         /\ job[a].pos < NDocs /\ job'[a].pos = job[a].pos + 1
         /\ errors' = [errors EXCEPT ![a] = @ \cup {job[a].pos + 1}]
<1>1. /\ UNCHANGED <<files, queue, total, checkpoint, trampled>>
      /\ process[a] = "run" /\ process'[a] \in {"run", "raised"}
      /\ job[a].pos < NDocs
      /\ errors' = [errors EXCEPT ![a] = @ \cup {job[a].pos + 1}]
  BY DEF YieldFailure, RecordError, HasMore, Goto, TypeOK, FetchTypeOK,
     busVars
<1>2. job'[a].pos = job[a].pos + 1
  BY DEF YieldFailure, TypeOK, FetchTypeOK, JobType
<1> QED BY <1>1, <1>2 DEF FetchFault

(* A fetched document is stored,                                           *)
LEMMA StoreDoes ==
  ASSUME TypeOK, NEW a \in Attempts, FetchStep(a), StoreFetchedBatch(a)
  PROVE  /\ UNCHANGED <<queue, job, total, checkpoint, errors, discarded>>
         /\ process[a] = "got" /\ process'[a] = "stored"
         /\ job[a].num \in BatchNums
         /\ files' = [files EXCEPT ![a][job[a].num] = job[a].pos + 1]
         /\ trampled' = (trampled \/ HasFile(a, job[a].num))
<1>1. /\ UNCHANGED <<queue, job, total, checkpoint, errors>>
      /\ process[a] = "got" /\ process'[a] = "stored"
      /\ job[a].num \in BatchNums
      /\ files' = [files EXCEPT ![a][job[a].num] = job[a].pos + 1]
      /\ trampled' = (trampled \/ HasFile(a, job[a].num))
  BY DEF StoreFetchedBatch, StoreBatch, Goto, TypeOK, FetchTypeOK, rowVars,
     attemptVars
<1>2. UNCHANGED discarded
  BY <1>1 DEF FetchStep, Discards
<1> QED BY <1>1, <1>2

(* and sent.                                                               *)
LEMMA QueueDoes ==
  ASSUME TypeOK, StoredHasNumber, NEW a \in Attempts, FetchStep(a),
         QueueFetchedBatch(a)
  PROVE  /\ UNCHANGED <<files, total, checkpoint, errors, discarded, trampled>>
         /\ process[a] = "stored" /\ process'[a] = "run"
         /\ job[a].num \in BatchNums
         /\ queue' = [queue EXCEPT ![a][job[a].num] = @ + 1]
         /\ job'[a].pos = job[a].pos + 1
<1>1. /\ UNCHANGED <<files, total, checkpoint, errors, trampled>>
      /\ process[a] = "stored" /\ process'[a] = "run"
      /\ job[a].num \in BatchNums
      /\ queue' = [queue EXCEPT ![a][job[a].num] = @ + 1]
  BY DEF QueueFetchedBatch, SendMessage, Goto, TypeOK, FetchTypeOK, rowVars,
     attemptVars, StoredHasNumber
<1>2. job'[a].pos = job[a].pos + 1
  BY DEF QueueFetchedBatch, TypeOK, FetchTypeOK, JobType
<1>3. UNCHANGED discarded
  BY <1>1 DEF FetchStep, Discards
<1> QED BY <1>1, <1>2, <1>3

(* Extraction is over once the source is.                                  *)
LEMMA FinishDoes ==
  ASSUME TypeOK, NEW a \in Attempts, FetchStep(a), FinishExtraction(a)
  PROVE  /\ UNCHANGED <<files, queue, job, checkpoint, errors, discarded,
                        trampled>>
         /\ process[a] = "run" /\ process'[a] = "done"
         /\ job[a].pos = NDocs
         /\ \A b \in Attempts : b # a => total'[b] = total[b]
<1>1. /\ UNCHANGED <<files, queue, job, checkpoint, errors, trampled>>
      /\ process[a] = "run" /\ process'[a] = "done"
      /\ ~(job[a].pos < NDocs)
      /\ \A b \in Attempts : b # a => total'[b] = total[b]
  BY DEF FinishExtraction, HasMore, Goto, TypeOK, FetchTypeOK, RowTypeOK,
     busVars
<1>2. job[a].pos = NDocs
  <2>1. job[a].pos \in 0..NDocs /\ NDocs \in Nat
    BY IndexAttemptAssumption DEF TypeOK, FetchTypeOK, JobType
  <2> QED BY <1>1, <2>1
<1>3. UNCHANGED discarded
  BY <1>1 DEF FetchStep, Discards
<1> QED BY <1>1, <1>2, <1>3

-----------------------------------------------------------------------------
(* Checkpoints are saved, and only move on.                                *)
LEMMA CheckpointsStay ==
  ASSUME FetchedInv, CountedOnce, Checkpointed, Next
  PROVE  \/ UNCHANGED checkpoint
         \/ \E a \in Attempts :
               /\ process[a] \in {"save", "chunk"} /\ process'[a] = "run"
               /\ UNCHANGED job
               /\ \A c \in Attempts \ {a} : process'[c] = process[c]
               /\ checkpoint' = [checkpoint EXCEPT ![a] = job[a].pos]
<1>1. TypeOK /\ StoredHasNumber
  BY FetchedTypes
<1>2. ASSUME NEW a \in Attempts,
             ProxyStep(a) \/ FetchStep(a) \/ FetchFault(a),
             ~(FetchStep(a)
                 /\ (SaveFirstCheckpoint(a) \/ SaveRunCheckpoint(a)))
      PROVE  UNCHANGED checkpoint
  BY <1>1, <1>2, FetchQuiet, ResumeDoes, DiscardDoes, AdoptDoes, ReissueDoes,
     YieldsDo, FailureDoes, StoreDoes, QueueDoes, FinishDoes DEF MovingStep
<1>3. ASSUME NEW a \in Attempts, FetchStep(a),
             SaveFirstCheckpoint(a) \/ SaveRunCheckpoint(a)
      PROVE  /\ process[a] \in {"save", "chunk"} /\ process'[a] = "run"
             /\ UNCHANGED job
             /\ \A c \in Attempts \ {a} : process'[c] = process[c]
             /\ checkpoint' = [checkpoint EXCEPT ![a] = job[a].pos]
  BY <1>1, <1>3, SaveDoes, FetchSpares
<1>4. ASSUME NEW w \in Workers, WorkerStep(w) \/ WorkerFault(w) \/ PickUpFault(w)
      PROVE  UNCHANGED checkpoint
  BY <1>4, WorkersLeave
<1>5. CASE OtherStep
  BY <1>1, <1>5, OthersLeave
<1>6. ASSUME NEW a \in Attempts, BrokerFault(a)
      PROVE  UNCHANGED checkpoint
  BY <1>6, BrokerLeaves
<1> QED BY <1>2, <1>3, <1>4, <1>5, <1>6 DEF Next, OtherStep

StillSaved(p) ==
    p = 0 \/ \E c \in Attempts : checkpoint'[c] # None /\ p <= checkpoint'[c]

(* So a position that was saved stays so.                                  *)
LEMMA SavedStays ==
  ASSUME FetchedInv, CountedOnce, Checkpointed, Next, NEW p \in Nat, Saved(p)
  PROVE  StillSaved(p)
<1>1. /\ checkpoint \in [Attempts -> 0..NDocs \cup {None}]
      /\ job \in [Attempts -> JobType] /\ NDocs \in Nat
      /\ \A a \in Attempts : PositionIsSaved(a)
  BY FetchedTypes, IndexAttemptAssumption
     DEF FetchedInv, TypeOK, RowTypeOK, FetchTypeOK
<1>2. CASE UNCHANGED checkpoint
  BY <1>2 DEF Saved, StillSaved
<1>3. CASE p # 0 /\ ~UNCHANGED checkpoint
  <2>1. PICK a \in Attempts :
               /\ checkpoint' = [checkpoint EXCEPT ![a] = job[a].pos]
    BY <1>3, CheckpointsStay
  <2>2. PICK c \in Attempts : checkpoint[c] # None /\ p <= checkpoint[c]
    BY <1>3 DEF Saved, StillSaved
  <2>3. job[a].pos \in 0..NDocs /\ None \notin Nat
    BY <1>1, IndexAttemptAssumption DEF JobType
  <2>4. CASE c = a
    <3>1. checkpoint[a] <= job[a].pos
      BY <1>1, <2>2, <2>4 DEF PositionIsSaved
    <3>2. checkpoint[a] \in 0..NDocs
      BY <1>1, <2>2, <2>4
    <3>3. checkpoint'[a] = job[a].pos /\ p <= job[a].pos
      BY <1>1, <2>1, <2>2, <2>3, <2>4, <3>1, <3>2
    <3> QED BY <2>3, <3>3 DEF Saved, StillSaved
  <2>5. CASE c # a
    <3>1. checkpoint'[c] = checkpoint[c]
      BY <1>1, <2>1, <2>5
    <3> QED BY <2>2, <3>1 DEF Saved, StillSaved
  <2> QED BY <2>4, <2>5
<1> QED BY <1>2, <1>3 DEF Saved, StillSaved

(* Where a process stands, a checkpoint or its own batches say.            *)
LEMMA PositionStep ==
  ASSUME FetchedInv, CountedOnce, Checkpointed, Next, NEW b \in Attempts
  PROVE  PositionIsSaved(b)'
<1>1. /\ TypeOK /\ SentInv /\ StoredHasNumber /\ PositionIsSaved(b) /\ CountsAreOwed(b)
      /\ job[b].pos \in 0..NDocs /\ NDocs \in Nat /\ None \notin Nat
      /\ checkpoint[b] \in 0..NDocs \cup {None} /\ DOMAIN checkpoint = Attempts
  BY FetchedTypes, IndexAttemptAssumption
     DEF FetchedInv, TypeOK, RowTypeOK, FetchTypeOK, JobType
<1>2. Saved(job[b].pos) => StillSaved(job[b].pos)
  BY <1>1, SavedStays
<1>3. ASSUME checkpoint'[b] = checkpoint[b], total'[b] = total[b],
             job'[b].pos = job[b].pos,
             \/ process'[b] = process[b]
             \/ process[b] \in Early /\ process'[b] \in Early
             \/ process[b] = "reissue" /\ process'[b] = "save"
             \/ process[b] = "adopt" /\ process'[b] = "reissue"
             \/ process'[b] \in Over \cup {"got", "chunk", "stored"}
      PROVE  PositionIsSaved(b)'
  <2>1. process'[b] \in {"adopt", "reissue", "save"} => StillSaved(job'[b].pos)
    BY <1>1, <1>2, <1>3 DEF PositionIsSaved, Early, Over, Unsent
  <2> QED
    BY <1>1, <1>3, <2>1
       DEF PositionIsSaved, Saved, StillSaved, Early, Over, Unsent
<1>4. ASSUME NEW w \in Workers, WorkerStep(w) \/ WorkerFault(w) \/ PickUpFault(w)
      PROVE  PositionIsSaved(b)'
  BY <1>3, <1>4, WorkersLeave
<1>5. CASE OtherStep
  <2>1. /\ job'[b] = job[b] /\ total'[b] = total[b]
        /\ \/ process'[b] = process[b]
           \/ process[b] = "none" /\ process'[b] = "queued"
    BY <1>1, <1>5, OthersSpare
  <2> QED
    BY <1>1, <1>3, <1>5, <2>1, OthersLeave DEF Early, Unsent
<1>6. ASSUME NEW a \in Attempts,
             ProxyStep(a) \/ FetchStep(a) \/ FetchFault(a)
      PROVE  PositionIsSaved(b)'
  <2>1. CASE b # a
    <3>1. /\ process'[b] = process[b] /\ job'[b] = job[b]
          /\ total'[b] = total[b]
      BY <1>1, <1>6, <2>1, FetchSpares
    <3>2. checkpoint'[b] = checkpoint[b]
      <4>1. CASE FetchStep(a)
                 /\ (SaveFirstCheckpoint(a) \/ SaveRunCheckpoint(a))
        BY <1>1, <2>1, <4>1, SaveDoes
      <4>2. CASE ~(FetchStep(a)
                   /\ (SaveFirstCheckpoint(a) \/ SaveRunCheckpoint(a)))
        BY <1>1, <1>6, <4>2, FetchQuiet, ResumeDoes, DiscardDoes, AdoptDoes,
           ReissueDoes, YieldsDo, FailureDoes, StoreDoes, QueueDoes,
           FinishDoes DEF MovingStep
      <4> QED BY <4>1, <4>2
    <3> QED BY <1>3, <3>1, <3>2
  <2>2. CASE b = a /\ ~MovingStep(a)
    BY <1>3, <1>1, <1>6, <2>2, FetchQuiet
  <2>3. CASE b = a /\ FetchStep(a) /\ ResumeFromCheckpoint(a)
    <3>1. /\ UNCHANGED <<total, checkpoint>> /\ process[a] = "connect"
          /\ process'[a] = "adopt" /\ job'[a].pos = LatestCheckpoint(a)
      BY <1>1, <2>3, ResumeDoes
    <3>2. StillSaved(LatestCheckpoint(a))
      <4>1. CASE Candidates(a) = {}
        BY <4>1 DEF LatestCheckpoint, StillSaved
      <4>2. CASE Candidates(a) # {}
        <5> DEFINE c == CHOOSE e \in MostRecentOf(Candidates(a)) : TRUE
        <5>1. MostRecentOf(Candidates(a)) # {}
          BY <4>2, LastUpdated, FetchedTypes
             DEF IInv, Candidates, Finished, IsTerminal, Created, Terminal,
                 Succeeded, Resumable
        <5>2. c \in Attempts /\ checkpoint[c] # None
          BY <5>1 DEF MostRecentOf, Candidates, Finished
        <5>3. LatestCheckpoint(a) = checkpoint[c]
          BY <4>2 DEF LatestCheckpoint
        <5>4. checkpoint[c] \in Nat
          BY <1>1, <5>2 DEF TypeOK, RowTypeOK
        <5>5. /\ c \in Attempts /\ checkpoint'[c] # None
              /\ LatestCheckpoint(a) <= checkpoint'[c]
          <6> HIDE DEF c
          <6> QED BY <3>1, <5>2, <5>3, <5>4
        <5>6. \E e \in Attempts : /\ checkpoint'[e] # None
                                  /\ LatestCheckpoint(a) <= checkpoint'[e]
          <6> HIDE DEF c
          <6> QED BY <5>5
        <5> QED BY <5>6, Zenon DEF StillSaved
      <4> QED BY <4>1, <4>2
    <3>3. total[a] = None
      BY <1>1, <2>3, <3>1 DEF CountsAreOwed
    <3> QED
      BY <1>1, <2>3, <3>1, <3>2, <3>3
         DEF PositionIsSaved, StillSaved, Saved, Unsent
  <2>4. CASE b = a /\ FetchStep(a) /\ DiscardOldBatches(a)
    <3>1. /\ UNCHANGED <<total, checkpoint>> /\ process[a] = "connect"
          /\ process'[a] = "save" /\ job'[a].pos = 0
      BY <1>1, <2>4, DiscardDoes
    <3>2. total[a] = None
      BY <1>1, <2>4, <3>1 DEF CountsAreOwed
    <3> QED
      BY <1>1, <2>4, <3>1, <3>2 DEF PositionIsSaved, Saved, Unsent
  <2>5. CASE b = a /\ FetchStep(a)
             /\ (\/ AdoptOldBatches(a) \/ ReissueBatch(a)
                 \/ YieldCheckpoint(a) \/ StoreFetchedBatch(a))
    BY <1>1, <1>3, <2>5, AdoptDoes, ReissueDoes, YieldsDo, StoreDoes
  <2>6. CASE b = a /\ FetchStep(a)
             /\ (SaveFirstCheckpoint(a) \/ SaveRunCheckpoint(a))
    <3>1. /\ UNCHANGED <<job, total>> /\ process[a] \in {"save", "chunk"}
          /\ process'[a] = "run" /\ checkpoint'[a] = job[a].pos
      BY <1>1, <2>6, SaveDoes
    <3>2. total[a] = None
      BY <1>1, <2>6, <3>1 DEF CountsAreOwed
    <3> QED
      BY <1>1, <2>6, <3>1, <3>2 DEF PositionIsSaved, Unsent
  <2>7. CASE \/ b = a /\ FetchStep(a) /\ QueueFetchedBatch(a)
             \/ b = a /\ FetchFault(a) /\ YieldFailure(a)
    <3>1. /\ UNCHANGED <<total, checkpoint>>
          /\ process[a] \in {"stored", "run"}
          /\ process'[a] \in {"run", "raised"} /\ job'[a].pos = job[a].pos + 1
      BY <1>1, <2>7, QueueDoes, FailureDoes
    <3>2. total[a] = None
      BY <1>1, <2>7, <3>1 DEF CountsAreOwed
    <3>3. checkpoint[b] # None => checkpoint[b] <= job[b].pos + 1
      BY <1>1 DEF PositionIsSaved
    <3> QED
      BY <1>1, <2>7, <3>1, <3>2, <3>3 DEF PositionIsSaved, Unsent
  <2>8. CASE b = a /\ FetchStep(a) /\ FinishExtraction(a)
    <3>1. /\ UNCHANGED <<job, checkpoint>> /\ process'[a] = "done"
          /\ job[a].pos = NDocs
      BY <1>1, <2>8, FinishDoes
    <3> QED
      BY <1>1, <2>8, <3>1 DEF PositionIsSaved, Unsent
  <2> QED
    BY <2>1, <2>2, <2>3, <2>4, <2>5, <2>6, <2>7, <2>8 DEF MovingStep
<1>7. ASSUME NEW a \in Attempts, BrokerFault(a)
      PROVE  PositionIsSaved(b)'
  BY <1>3, <1>7, BrokerLeaves
<1> QED BY <1>4, <1>5, <1>6, <1>7 DEF Next, OtherStep

-----------------------------------------------------------------------------
(* Only the last attempt is active,                                        *)
LEMMA ActiveStep ==
  ASSUME FetchedInv, Next
  PROVE  ActiveIsLatest'
<1>1. IInv /\ ActiveIsLatest
  BY FetchedTypes DEF FetchedInv
<1> SUFFICES ASSUME NEW b \in Attempts, IsActive(b)'
             PROVE  Latest(b)'
  BY DEF ActiveIsLatest
<1>2. ASSUME NEW a \in Attempts, KickoffStep(a) PROVE Latest(b)'
  BY <1>2, KickoffCreates
<1>3. CASE ~\E a \in Attempts : KickoffStep(a)
  BY <1>1, <1>3, LatestStays DEF ActiveIsLatest
<1> QED BY <1>2, <1>3

(* and only the last attempt served by the beat task.                      *)
LEMMA BeatStep ==
  ASSUME FetchedInv, Next
  PROVE  BeatServesLatest'
<1>1. /\ TypeOK /\ IInv /\ ActiveIsLatest /\ BeatServesLatest
      /\ beat \in [at : BeatPlaces, a : Attempts, outcome : Succeeded]
  BY FetchedTypes DEF FetchedInv, TypeOK, BeatTypeOK
<1>2. ASSUME NEW a \in Attempts, KickoffStep(a) PROVE BeatServesLatest'
  BY <1>2, KickoffCreates DEF BeatServesLatest
<1>3. CASE ~\E a \in Attempts : KickoffStep(a)
  <2>1. beat'.at # "idle" => beat'.a \in Attempts /\ Latest(beat'.a)
    <3>1. ASSUME NEW a \in Attempts,
                 \/ ProxyStep(a) \/ FetchStep(a) \/ FetchFault(a)
                 \/ ValidateAttempt(a) \/ Heartbeat(a)
          PROVE  UNCHANGED beat
      BY <3>1 DEF ProxyStep, FetchStep, FetchFault, fetchOnly,
         ValidateAttempt, FailStale, FailLost, Heartbeat
    <3>2. ASSUME NEW a \in Attempts, Monitor(a)
          PROVE  beat'.a = a /\ IsActive(a)
      BY <1>1, <3>2 DEF Monitor, StartMonitoring
    <3>3. ASSUME NEW w \in Workers, WorkerStep(w) \/ WorkerFault(w) \/ PickUpFault(w)
          PROVE  UNCHANGED beat
      BY <3>3 DEF WorkerStep, WorkerFault, PickUpFault, workerOnly
    <3>6. ASSUME NEW a \in Attempts, BrokerFault(a)
          PROVE  UNCHANGED beat
      BY <3>6, BrokerLeaves
    <3>4. CASE AdminStep
      BY <1>1, <3>4 DEF AdminStep, adminOnly, BeatServesLatest
    <3>5. CASE SendStep \/ MonitorStep \/ BeatFault
      <4>1. \/ beat'.at = "idle"
            \/ beat'.a = beat.a /\ beat.at # "idle"
        <5>1. \/ beat' = BeatIdle
              \/ /\ beat.at # "idle"
                 /\ \/ \E o \in Succeeded :
                          beat' = [beat EXCEPT !.at = "complete",
                                               !.outcome = o]
                    \/ beat' = [beat EXCEPT !.at = "cleanup"]
          <6>1. CASE CheckCompletion
            BY <6>1 DEF CheckCompletion, Succeeded
          <6>2. CASE MarkCompleted
            BY <6>2 DEF MarkCompleted
          <6> QED
            BY <3>5, <6>1, <6>2 DEF SendStep, SendFetching, MonitorStep,
               CancelRequested, CleanupCompleted, BeatFault, SendFails,
               MonitoringFails, BeatDies
        <5>2. CASE beat' = BeatIdle
          BY <5>2 DEF BeatIdle
        <5>3. ASSUME NEW o \in Succeeded,
                     beat' = [beat EXCEPT !.at = "complete", !.outcome = o]
              PROVE  beat'.a = beat.a
          BY <1>1, <5>3
        <5>4. ASSUME beat' = [beat EXCEPT !.at = "cleanup"]
              PROVE  beat'.a = beat.a
          BY <1>1, <5>4
        <5> QED BY <5>1, <5>2, <5>3, <5>4
      <4> QED BY <1>1, <4>1 DEF BeatServesLatest
    <3> QED
      BY <1>1, <1>3, <3>1, <3>2, <3>3, <3>4, <3>5, <3>6
         DEF Next, ActiveIsLatest, BeatServesLatest
  <2>2. \A a \in Attempts : Latest(a)' <=> Latest(a)
    BY <1>1, <1>3, LatestStays
  <2> QED BY <2>1, <2>2 DEF BeatServesLatest, Latest, Exists
<1> QED BY <1>2, <1>3

(* An attempt that is complete left nothing behind.                        *)
LEMMA SuccessStep ==
  ASSUME FetchedInv, CountedOnce, Next
  PROVE  SuccessIsExcused'
<1>1. /\ TypeOK /\ CompletionInv /\ SuccessIsExcused /\ BeatServesLatest
      /\ Excused \/ Covered
      /\ beat \in [at : BeatPlaces, a : Attempts, outcome : Succeeded]
      /\ Settled \subseteq Settled'
      /\ Excused => Excused'
  BY FetchedTypes, SettledStays DEF FetchedInv, TypeOK, BeatTypeOK
<1>2. CASE Excused
  BY <1>1, <1>2 DEF SuccessIsExcused
<1>3. CASE ~Excused
  <2>1. /\ beat.at \notin {"complete", "cleanup"}
        /\ \A a \in Attempts : status[a] \notin Succeeded
    BY <1>1, <1>3 DEF SuccessIsExcused
  <2>2. \A a \in Attempts : status'[a] \notin Succeeded
    <3>1. ASSUME NEW a \in Attempts, KickoffStep(a)
          PROVE  \A b \in Attempts : status'[b] \notin Succeeded
      BY <2>1, <3>1, KickoffCreates
    <3>2. CASE ~\E a \in Attempts : KickoffStep(a)
      <4>1. ~MarkCompleted
        BY <2>1 DEF MarkCompleted
      <4>2. \A b \in Attempts : status'[b] \in {status[b]} \cup Verdicts
        BY <1>1, <3>2, <4>1, StatusSteps
      <4> QED BY <2>1, <4>2 DEF Verdicts, Resumable, Succeeded
    <3> QED BY <3>1, <3>2
  <2>3. ASSUME beat'.at \in {"complete", "cleanup"}
        PROVE  CheckCompletion /\ IsComplete(beat.a)
    <3>1. ~\E a \in Attempts : KickoffStep(a)
      BY <2>3, KickoffCreates
    <3>2. beat' # beat
      BY <2>1, <2>3
    <3>3. \A a \in Attempts : /\ ~ProxyStep(a) /\ ~FetchStep(a)
                              /\ ~FetchFault(a) /\ ~ValidateAttempt(a)
                              /\ ~Heartbeat(a)
      BY <3>2 DEF ProxyStep, FetchStep, FetchFault, fetchOnly,
         ValidateAttempt, FailStale, FailLost, Heartbeat
    <3>4. \A w \in Workers : ~WorkerStep(w) /\ ~WorkerFault(w)
                            /\ ~PickUpFault(w)
      BY <3>2 DEF WorkerStep, WorkerFault, PickUpFault, workerOnly
    <3>9. \A a \in Attempts : ~BrokerFault(a)
      BY <3>2, BrokerLeaves
    <3>5. ~AdminStep
      BY <3>2 DEF AdminStep, adminOnly
    <3>6. \A a \in Attempts : ~Monitor(a)
      BY <1>1, <2>3 DEF Monitor, StartMonitoring
    <3>7. ~SendStep /\ ~BeatFault
      BY <2>3 DEF SendStep, SendFetching, BeatFault, SendFails,
         MonitoringFails, BeatDies, BeatIdle
    <3>8. CheckCompletion
      BY <2>1, <2>3, <3>1, <3>3, <3>4, <3>5, <3>6, <3>7, <3>9
         DEF Next, MonitorStep, CancelRequested, MarkCompleted,
             CleanupCompleted, BeatIdle
    <3> QED BY <2>3, <3>8 DEF CheckCompletion, BeatIdle
  <2>4. ASSUME beat'.at \in {"complete", "cleanup"} PROVE Excused'
    <3>1. PICK a \in Attempts : a = beat.a
      BY <1>1
    <3>2. /\ IsComplete(a) /\ Latest(a) /\ total[a] # None
      BY <1>1, <2>3, <2>4, <3>1
         DEF CheckCompletion, BeatServesLatest, IsComplete
    <3>3. job[a].pos = NDocs
      BY <3>2 DEF FetchedInv, PositionIsSaved
    <3>4. Docs \subseteq Settled \cup OwnDocs(a)
      BY <1>1, <1>3, <3>2, <3>3 DEF Covered, FetchedIsKept, Docs
    <3>5. OwnDocs(a) \subseteq Recorded
      <4> SUFFICES ASSUME NEW n \in BatchNums, files[a][n] \in Docs
                   PROVE  files[a][n] \in Recorded
        BY DEF OwnDocs
      <4>1. HasFile(a, n)
        BY IndexAttemptAssumption DEF HasFile, NoDoc, Docs
      <4> QED BY <1>1, <3>2, <4>1, CompleteIsRecorded
    <3>6. Docs \subseteq Settled
      BY <3>4, <3>5 DEF Settled
    <3>7. Docs \subseteq Settled'
      BY <1>1, <3>6
    <3> QED BY <3>7 DEF Excused, Docs
  <2> QED BY <2>2, <2>4 DEF SuccessIsExcused
<1> QED BY <1>2, <1>3

-----------------------------------------------------------------------------
(* A step that moves no document, and at most sends or creates an attempt, *)
(* covers what was covered.                                                *)
LEMMA QuietCovers ==
  ASSUME Covered,
         UNCHANGED <<worker, indexed, files, queue, errors, total, checkpoint,
                     discarded, job>>,
         \A a \in Attempts : \/ process'[a] = process[a]
                             \/ process[a] = "none" /\ process'[a] = "queued",
         \A a \in Attempts :
            \/ Latest(a)' => Latest(a)
            \/ /\ process[a] = "none" /\ total[a] = None /\ job[a].pos = 0
               /\ \A n \in BatchNums : queue[a][n] = 0
               /\ \A w \in Workers, n \in BatchNums : ~Holds(w, a, n)
  PROVE  Covered'
<1>1. /\ \A w \in Workers, a \in Attempts, n \in BatchNums :
            Holds(w, a, n)' <=> Holds(w, a, n)
      /\ \A a \in Attempts, n \in BatchNums : HasFile(a, n)' <=> HasFile(a, n)
      /\ \A a \in Attempts : OwnDocs(a)' = OwnDocs(a)
      /\ \A p : Saved(p) <=> StillSaved(p)
  BY DEF Holds, HasFile, OwnDocs, Saved, StillSaved
<1>2. SafeDocs' = SafeDocs
  BY DEF SafeDocs, Safe, Holds, HasFile
<1>3. Settled' = Settled
  BY DEF Settled, Recorded, AllErrors
<1>4. Secured' = Secured
  BY <1>2, <1>3 DEF Secured
<1>5. ASSUME NEW c \in Attempts PROVE CheckpointIsSecured(c)'
  BY <1>4 DEF Covered, CheckpointIsSecured
<1>6. ASSUME NEW a \in Attempts, Latest(a)'
      PROVE  Orderly(a)' /\ FetchedIsKept(a)'
  <2>1. CASE Latest(a)
    <3>1. Orderly(a) /\ FetchedIsKept(a)
      BY <2>1 DEF Covered
    <3>2. Orderly(a)'
      BY <3>1 DEF Orderly, Holds, HasFile, Idles
    <3>3. FetchedIsKept(a)'
      BY <1>1, <1>3, <3>1 DEF FetchedIsKept, Fetching, Saved
    <3> QED BY <3>2, <3>3
  <2>2. CASE /\ process[a] = "none" /\ total[a] = None /\ job[a].pos = 0
             /\ \A n \in BatchNums : queue[a][n] = 0
             /\ \A w \in Workers, n \in BatchNums : ~Holds(w, a, n)
    <3>1. Orderly(a)'
      BY <1>1, <2>2 DEF Orderly
    <3>2. FetchedIsKept(a)'
      BY <2>2 DEF FetchedIsKept, Fetching, Saved
    <3> QED BY <3>1, <3>2
  <2> QED BY <1>6, <2>1, <2>2
<1> QED BY <1>5, <1>6 DEF Covered

(* The steps of the beat task, the administrator and the heartbeats        *)
LEMMA OthersCover ==
  ASSUME FetchedInv, ~Excused, Next, OtherStep
  PROVE  Covered'
<1>1. /\ TypeOK /\ IInv /\ CompletionInv /\ SentInv /\ ActorsHaveAttempts
      /\ SuccessIsExcused /\ Covered /\ StoredHasNumber
  BY FetchedTypes DEF FetchedInv
<1>2. UNCHANGED <<checkpoint, discarded, files>>
  BY <1>1, OthersLeave DEF SuccessIsExcused
<1>3. UNCHANGED <<worker, indexed, queue, errors, total, job>>
  <2>1. PICK a \in Attempts : TRUE
    BY IndexAttemptAssumption DEF Attempts
  <2> QED BY <1>1, OthersSpare DEF processVars
<1>4. ASSUME NEW a \in Attempts
      PROVE  \/ process'[a] = process[a]
             \/ process[a] = "none" /\ process'[a] = "queued"
  BY <1>1, OthersSpare
<1>5. ASSUME NEW a \in Attempts
      PROVE  \/ Latest(a)' => Latest(a)
             \/ /\ process[a] = "none" /\ total[a] = None /\ job[a].pos = 0
                /\ \A n \in BatchNums : queue[a][n] = 0
                /\ \A w \in Workers, n \in BatchNums : ~Holds(w, a, n)
  <2>1. CASE ~\E b \in Attempts : KickoffStep(b)
    BY <1>1, <2>1, LatestStays
  <2>2. ASSUME NEW b \in Attempts, KickoffStep(b), b # a
        PROVE  ~Latest(a)'
    BY <2>2, KickoffCreates
  <2>3. CASE KickoffStep(a)
    <3>1. ~Exists(a)
      BY <2>3, KickoffCreates
    <3>2. /\ process[a] = "none"
          /\ \A n \in BatchNums : queue[a][n] \in Nat /\ ~(queue[a][n] > 0)
          /\ \A w \in Workers, n \in BatchNums : ~Holds(w, a, n)
      BY <1>1, <3>1 DEF ActorsHaveAttempts, TypeOK, BusTypeOK, Holds
    <3>3. total[a] = None
      BY <3>2, FetchedTypes DEF CountsAreOwed
    <3>4. job[a].pos = 0
      BY <3>2 DEF FetchedInv, PositionIsSaved, Unsent
    <3> QED BY <3>2, <3>3, <3>4
  <2> QED BY <2>1, <2>2, <2>3
<1> QED BY <1>1, <1>2, <1>3, <1>4, <1>5, QuietCovers

-----------------------------------------------------------------------------
(* Tasks that take their documents from the store, one to a batch, cover   *)
(* what was covered.                                                       *)
LEMMA TasksCover ==
  ASSUME TypeOK, StoredHasNumber, Covered,
         UNCHANGED <<files, process, job, total, checkpoint>>,
         Settled \subseteq Settled',
         \A a \in Attempts : Latest(a)' => Latest(a),
         \A v \in Workers, a \in Attempts, n \in BatchNums :
            Holds(v, a, n)' =>
               \/ worker'[v].doc = files[a][n]
               \/ Holds(v, a, n) /\ worker'[v].doc = worker[v].doc,
         \A a \in Attempts : Latest(a) =>
            /\ \A v, u \in Workers, n \in BatchNums :
                  Holds(v, a, n)' /\ Holds(u, a, n)' => v = u
            /\ \A n \in BatchNums :
                  queue'[a][n] > 0 => /\ HasFile(a, n) /\ queue'[a][n] = 1
                                      /\ \A v \in Workers : ~Holds(v, a, n)'
            /\ \A n \in BatchNums :
                  Idles(a, n) =>
                     /\ queue'[a][n] = 0
                     /\ \A v \in Workers : ~Holds(v, a, n)'
  PROVE  Covered'
<1>1. /\ \A a \in Attempts, n \in BatchNums : HasFile(a, n)' <=> HasFile(a, n)
      /\ \A a \in Attempts : OwnDocs(a)' = OwnDocs(a)
  BY DEF HasFile, OwnDocs
<1>2. SafeDocs \subseteq SafeDocs'
  <2> SUFFICES ASSUME NEW a \in Attempts, NEW n \in BatchNums, Safe(a, n)
               PROVE  Safe(a, n)'
    BY DEF SafeDocs
  <2>1. HasFile(a, n)'
    BY <1>1 DEF Safe
  <2>2. ASSUME NEW v \in Workers, Holds(v, a, n)'
        PROVE  worker'[v].doc = files'[a][n]
    BY <2>2 DEF Safe
  <2> QED BY <2>1, <2>2 DEF Safe
<1>3. Secured \subseteq Secured'
  BY <1>2 DEF Secured
<1>4. ASSUME NEW c \in Attempts PROVE CheckpointIsSecured(c)'
  <2>1. CheckpointIsSecured(c)
    BY DEF Covered
  <2> QED BY <1>3, <2>1 DEF CheckpointIsSecured
<1>5. ASSUME NEW a \in Attempts, Latest(a)'
      PROVE  Orderly(a)' /\ FetchedIsKept(a)'
  <2>1. Latest(a) /\ Orderly(a) /\ FetchedIsKept(a)
    BY <1>5 DEF Covered
  <2>2. ASSUME NEW v \in Workers, NEW n \in BatchNums, Holds(v, a, n)'
        PROVE  worker'[v].doc = files'[a][n]
    BY <2>1, <2>2 DEF Orderly
  <2>3. \A n \in BatchNums : Idles(a, n) => Idles(a, n)'
    BY <2>1 DEF Idles
  <2>4. process'[a] = "reissue" =>
          \A b \in job'[a].old :
             /\ HasFile(a, b[2])' /\ Idles(a, b[2])'
             /\ \A c \in job'[a].old : b[2] = c[2] => b = c
    <3> SUFFICES ASSUME process[a] = "reissue", NEW b \in job[a].old
                 PROVE  /\ HasFile(a, b[2])' /\ Idles(a, b[2])'
                        /\ \A c \in job'[a].old : b[2] = c[2] => b = c
      OBVIOUS
    <3>1. /\ HasFile(a, b[2]) /\ Idles(a, b[2])
          /\ \A c \in job[a].old : b[2] = c[2] => b = c
      BY <2>1 DEF Orderly
    <3>2. b[2] \in BatchNums
      BY DEF TypeOK, FetchTypeOK, JobType
    <3>3. HasFile(a, b[2])' /\ Idles(a, b[2])'
      BY <1>1, <2>3, <3>1, <3>2
    <3> QED BY <3>1, <3>3
  <2>5. process'[a] = "stored" =>
           /\ files'[a][job'[a].num] = job'[a].pos + 1
           /\ Idles(a, job[a].num)'
    BY <2>1, <2>3 DEF Orderly, StoredHasNumber
  <2>6. Orderly(a)'
    BY <1>1, <2>1, <2>2, <2>4, <2>5 DEF Orderly
  <2>7. FetchedIsKept(a)'
    BY <1>1, <2>1 DEF FetchedIsKept, Fetching, Saved
  <2> QED BY <2>6, <2>7
<1> QED BY <1>4, <1>5 DEF Covered

(* A message that is taken and not worked on covers what was covered.      *)
LEMMA TakenCovers ==
  ASSUME TypeOK, StoredHasNumber, Covered,
         NEW e \in Attempts, NEW m \in BatchNums, TakeMessage(e, m),
         UNCHANGED <<files, worker, process, job, total, checkpoint>>,
         Settled \subseteq Settled',
         \A a \in Attempts : Latest(a)' => Latest(a)
  PROVE  Covered'
<1>1. /\ \A a \in Attempts, n \in BatchNums : a # e \/ n # m
           => queue'[a][n] = queue[a][n]
      /\ queue'[e][m] = queue[e][m] - 1 /\ queue[e][m] > 0
  BY DEF TakeMessage, TypeOK, BusTypeOK
<1>2. ASSUME NEW a \in Attempts, Latest(a)
      PROVE  /\ \A v, u \in Workers, n \in BatchNums :
                   Holds(v, a, n)' /\ Holds(u, a, n)' => v = u
             /\ \A n \in BatchNums : queue'[a][n] > 0 =>
                   /\ HasFile(a, n) /\ queue'[a][n] = 1
                   /\ \A v \in Workers : ~Holds(v, a, n)'
             /\ \A n \in BatchNums : Idles(a, n) =>
                   /\ queue'[a][n] = 0
                   /\ \A v \in Workers : ~Holds(v, a, n)'
  <2>1. Orderly(a)
    BY <1>2 DEF Covered
  <2>2. \A v \in Workers, n \in BatchNums :
           Holds(v, a, n)' <=> Holds(v, a, n)
    BY DEF Holds
  <2>3. a = e => queue'[e][m] = 0
    BY <1>1, <2>1 DEF Orderly
  <2>4. ASSUME NEW n \in BatchNums, queue'[a][n] > 0
        PROVE  queue'[a][n] = queue[a][n]
    BY <1>1, <2>3, <2>4
  <2>5. ASSUME NEW n \in BatchNums, Idles(a, n)
        PROVE  queue'[a][n] = 0
    BY <1>1, <2>3, <2>5 DEF Idles
  <2> QED BY <2>1, <2>2, <2>4, <2>5 DEF Orderly, Idles
<1>3. \A v \in Workers, a \in Attempts, n \in BatchNums :
         Holds(v, a, n)' =>
            \/ worker'[v].doc = files[a][n]
            \/ Holds(v, a, n) /\ worker'[v].doc = worker[v].doc
  BY DEF Holds
<1> QED BY <1>2, <1>3, TasksCover

(* A task deletes the batch only it holds, whose document is recorded.     *)
LEMMA DeletionCovers ==
  ASSUME TypeOK, StoredHasNumber, DeletesRecorded, Covered,
         NEW w \in Workers, DeleteProcessed(w),
         UNCHANGED <<process, job, total, checkpoint>>,
         Recorded \subseteq Recorded', Settled \subseteq Settled',
         \A a \in Attempts : Latest(a)' => Latest(a)
  PROVE  Covered'
<1>1. PICK e \in Attempts, m \in BatchNums :
        worker[w].a = e /\ worker[w].n = m
  BY DEF TypeOK, ProcessTypeOK, TaskType
<1>2. /\ worker[w].at = "delete" /\ Holds(w, e, m)
      /\ worker[w].doc \in Recorded
      /\ worker'[w].at = "post" /\ UNCHANGED queue
      /\ \A v \in Workers : v # w => worker'[v] = worker[v]
      /\ worker \in [Workers -> TaskType]
  BY <1>1 DEF DeleteProcessed, Step, DeletesRecorded, Holds, TypeOK,
     ProcessTypeOK, TaskType
<1>3. /\ files' = [files EXCEPT ![e][m] = NoDoc]
      /\ files \in [Attempts -> [BatchNums -> Docs \cup {NoDoc}]]
  BY <1>1 DEF DeleteProcessed, DeleteBatch, TypeOK, BusTypeOK
<1>4. ASSUME NEW a \in Attempts, NEW n \in BatchNums, a # e \/ n # m
      PROVE  files'[a][n] = files[a][n]
  BY <1>3, <1>4
<1>5. ASSUME NEW v \in Workers, NEW a \in Attempts, NEW n \in BatchNums,
             Holds(v, a, n)'
      PROVE  v # w /\ Holds(v, a, n) /\ worker'[v] = worker[v]
  <2>1. v # w
    BY <1>2, <1>5 DEF Holds
  <2> QED BY <1>2, <1>5, <2>1 DEF Holds
<1>6. Secured \subseteq Secured'
  <2> SUFFICES ASSUME NEW a \in Attempts, NEW n \in BatchNums, Safe(a, n),
                      files[a][n] \in Docs
               PROVE  files[a][n] \in Secured'
    BY DEF Secured, SafeDocs
  <2>1. CASE a = e /\ n = m
    <3>1. files[a][n] = worker[w].doc
      BY <1>2, <2>1 DEF Safe
    <3> QED BY <1>2, <3>1 DEF Secured, Settled
  <2>2. CASE a # e \/ n # m
    <3>1. files'[a][n] = files[a][n]
      BY <1>4, <2>2
    <3>2. Safe(a, n)'
      BY <1>5, <3>1 DEF Safe, HasFile
    <3>3. files'[a][n] \in SafeDocs'
      BY <3>1, <3>2 DEF SafeDocs
    <3> QED BY <3>1, <3>3 DEF Secured
  <2> QED BY <2>1, <2>2
<1>7. ASSUME NEW c \in Attempts PROVE CheckpointIsSecured(c)'
  <2>1. CheckpointIsSecured(c)
    BY DEF Covered
  <2> QED BY <1>6, <2>1 DEF CheckpointIsSecured
<1>8. ASSUME NEW a \in Attempts, Latest(a)'
      PROVE  Orderly(a)' /\ FetchedIsKept(a)'
  <2>1. Latest(a) /\ Orderly(a) /\ FetchedIsKept(a)
    BY <1>8 DEF Covered
  <2>2. ASSUME NEW n \in BatchNums,
               Idles(a, n) \/ queue[a][n] > 0
                 \/ \E v \in Workers : v # w /\ Holds(v, a, n)
        PROVE  files'[a][n] = files[a][n]
    <3>1. a # e \/ n # m
      BY <1>2, <2>1, <2>2 DEF Orderly, Idles
    <3> QED BY <1>4, <3>1
  <2>3. \A n \in BatchNums : Idles(a, n) =>
           /\ Idles(a, n)' /\ files'[a][n] = files[a][n]
           /\ HasFile(a, n)' <=> HasFile(a, n)
    BY <1>2, <1>5, <2>2 DEF Idles, HasFile
  <2>4. ASSUME NEW v \in Workers, NEW n \in BatchNums, Holds(v, a, n)'
        PROVE  worker'[v].doc = files'[a][n]
    BY <1>5, <2>1, <2>2, <2>4 DEF Orderly
  <2>5. ASSUME NEW v \in Workers, NEW u \in Workers, NEW n \in BatchNums,
               Holds(v, a, n)', Holds(u, a, n)'
        PROVE  v = u
    BY <1>5, <2>1, <2>5 DEF Orderly
  <2>6. ASSUME NEW n \in BatchNums, queue'[a][n] > 0
        PROVE  /\ HasFile(a, n)' /\ queue'[a][n] = 1
               /\ \A v \in Workers : ~Holds(v, a, n)'
    BY <1>2, <1>5, <2>1, <2>2, <2>6 DEF Orderly, HasFile
  <2>7. process'[a] = "reissue" =>
          \A b \in job'[a].old :
             /\ HasFile(a, b[2])' /\ Idles(a, b[2])'
             /\ \A c \in job'[a].old : b[2] = c[2] => b = c
    <3> SUFFICES ASSUME process[a] = "reissue", NEW b \in job[a].old
                 PROVE  /\ HasFile(a, b[2])' /\ Idles(a, b[2])'
                        /\ \A c \in job'[a].old : b[2] = c[2] => b = c
      OBVIOUS
    <3>1. /\ HasFile(a, b[2]) /\ Idles(a, b[2])
          /\ \A c \in job[a].old : b[2] = c[2] => b = c
      BY <2>1 DEF Orderly
    <3>2. b[2] \in BatchNums
      BY DEF TypeOK, FetchTypeOK, JobType
    <3>3. HasFile(a, b[2])' /\ Idles(a, b[2])'
      BY <2>3, <3>1, <3>2
    <3> QED BY <3>1, <3>3
  <2>8. process'[a] = "stored" =>
           /\ files'[a][job'[a].num] = job'[a].pos + 1
           /\ Idles(a, job[a].num)'
    BY <2>1, <2>3 DEF Orderly, StoredHasNumber
  <2>9. Orderly(a)'
    BY <2>4, <2>5, <2>6, <2>7, <2>8 DEF Orderly
  <2>10. OwnDocs(a) \subseteq Settled' \cup OwnDocs(a)'
    <3> SUFFICES ASSUME NEW n \in BatchNums, files[a][n] \in Docs
                 PROVE  files[a][n] \in Settled' \cup OwnDocs(a)'
      BY DEF OwnDocs
    <3>1. CASE a = e /\ n = m
      BY <1>2, <2>1, <3>1 DEF Orderly, Settled
    <3>2. CASE a # e \/ n # m
      BY <1>4, <3>2 DEF OwnDocs
    <3> QED BY <3>1, <3>2
  <2>11. FetchedIsKept(a)'
    BY <2>1, <2>10 DEF FetchedIsKept, Fetching, Saved
  <2> QED BY <2>9, <2>11
<1> QED BY <1>7, <1>8 DEF Covered

(* Every step of docprocessing covers what was covered.                    *)
LEMMA WorkerCovers ==
  ASSUME FetchedInv, CountedOnce, ~Excused, Next, NEW w \in Workers,
         WorkerStep(w) \/ WorkerFault(w) \/ PickUpFault(w)
  PROVE  Covered'
<1>1. /\ TypeOK /\ IInv /\ CompletionInv /\ Covered /\ StoredHasNumber
      /\ DeletesRecorded /\ DocumentsInHand
      /\ worker \in [Workers -> TaskType]
      /\ queue \in [Attempts -> [BatchNums -> Nat]]
  BY FetchedTypes DEF FetchedInv, TypeOK, ProcessTypeOK, BusTypeOK
<1>2. /\ UNCHANGED <<process, job, total, checkpoint>>
      /\ Recorded \subseteq Recorded' /\ Settled \subseteq Settled'
  BY <1>1, WorkersLeave, SettledStays
<1>3. \A a \in Attempts : Latest(a)' => Latest(a)
  <2>1. ~\E a \in Attempts : KickoffStep(a)
    BY WorkersLeave, KickoffCreates
  <2> QED BY <1>1, <2>1, LatestStays
<1>4. \A a \in Attempts : Latest(a) => Orderly(a)
  BY <1>1 DEF Covered
<1>5. ASSUME UNCHANGED <<files, queue>>,
             \A v \in Workers, a \in Attempts, n \in BatchNums :
                Holds(v, a, n)'
                  => Holds(v, a, n) /\ worker'[v].doc = worker[v].doc
      PROVE  Covered'
  <2>1. ASSUME NEW a \in Attempts, Latest(a)
        PROVE  /\ \A v, u \in Workers, n \in BatchNums :
                     Holds(v, a, n)' /\ Holds(u, a, n)' => v = u
               /\ \A n \in BatchNums : queue'[a][n] > 0 =>
                     /\ HasFile(a, n) /\ queue'[a][n] = 1
                     /\ \A v \in Workers : ~Holds(v, a, n)'
               /\ \A n \in BatchNums : Idles(a, n) =>
                     /\ queue'[a][n] = 0
                     /\ \A v \in Workers : ~Holds(v, a, n)'
    BY <1>4, <1>5, <2>1 DEF Orderly, Idles
  <2> QED BY <1>1, <1>2, <1>3, <1>5, <2>1, TasksCover
<1>6. CASE IndexBatch(w) \/ DocumentFails(w) \/ RecordFailures(w)
           \/ HandleTaskException(w) \/ FinishTask(w) \/ ReleaseMissed(w)
           \/ CountProcessed(w) \/ CountFailed(w) \/ TaskRaises(w) \/ LockTimesOut(w)
  <2>1. /\ UNCHANGED <<files, queue>>
        /\ \A v \in Workers : v # w => worker'[v] = worker[v]
        /\ worker'[w].at \notin {"idle", "post"} =>
             /\ worker[w].at \notin {"idle", "post"}
             /\ worker'[w].a = worker[w].a /\ worker'[w].n = worker[w].n
             /\ worker'[w].doc = worker[w].doc
    BY <1>1, <1>6 DEF IndexBatch, DocumentFails, RecordFailures,
       HandleTaskException, FinishTask, ReleaseMissed, CountProcessed,
       CountFailed, TaskRaises, LockTimesOut, Step, TaskType, Idle, busVars
  <2>2. \A v \in Workers, a \in Attempts, n \in BatchNums :
           Holds(v, a, n)'
             => Holds(v, a, n) /\ worker'[v].doc = worker[v].doc
    BY <2>1 DEF Holds
  <2> QED BY <1>5, <2>1, <2>2
<1>7. CASE PickUp(w)
  <2>1. PICK e \in Attempts, m \in BatchNums :
          /\ queue[e][m] > 0
          /\ queue' = [queue EXCEPT ![e][m] = @ - 1]
          /\ worker' = [worker EXCEPT ![w] =
                [at |-> IF ~HasFile(e, m) THEN "post"
                        ELSE IF MayProcess(e) THEN "index" ELSE "except",
                 a |-> e, n |-> m, doc |-> files[e][m], ok |-> TRUE]]
    BY <1>7, Zenon DEF PickUp, Receives, TakeMessage
  <2>2. /\ worker[w].at = "idle" /\ UNCHANGED files
        /\ \A v \in Workers : v # w => worker'[v] = worker[v]
        /\ worker'[w].a = e /\ worker'[w].n = m
        /\ worker'[w].doc = files[e][m]
    BY <1>1, <1>7, <2>1 DEF PickUp, Receives
  <2>3. ASSUME NEW v \in Workers, NEW a \in Attempts, NEW n \in BatchNums,
               Holds(v, a, n)'
        PROVE  \/ v = w /\ a = e /\ n = m /\ worker'[v].doc = files[a][n]
               \/ Holds(v, a, n) /\ worker'[v].doc = worker[v].doc
    BY <2>2, <2>3 DEF Holds
  <2>4. \A a \in Attempts, n \in BatchNums : a # e \/ n # m
           => queue'[a][n] = queue[a][n]
    BY <1>1, <2>1
  <2>5. queue'[e][m] = queue[e][m] - 1
    BY <1>1, <2>1
  <2>6. ASSUME NEW a \in Attempts, Latest(a)
        PROVE  /\ \A v, u \in Workers, n \in BatchNums :
                     Holds(v, a, n)' /\ Holds(u, a, n)' => v = u
               /\ \A n \in BatchNums : queue'[a][n] > 0 =>
                     /\ HasFile(a, n) /\ queue'[a][n] = 1
                     /\ \A v \in Workers : ~Holds(v, a, n)'
               /\ \A n \in BatchNums : Idles(a, n) =>
                     /\ queue'[a][n] = 0
                     /\ \A v \in Workers : ~Holds(v, a, n)'
    <3>1. Orderly(a)
      BY <1>4, <2>6
    <3>2. a = e => \A v \in Workers : ~Holds(v, e, m)
      BY <2>1, <3>1 DEF Orderly
    <3>3. a = e => queue'[e][m] = 0
      BY <2>1, <2>5, <3>1 DEF Orderly
    <3>4. ASSUME NEW v \in Workers, NEW u \in Workers, NEW n \in BatchNums,
                 Holds(v, a, n)', Holds(u, a, n)'
          PROVE  v = u
      <4>1. CASE a = e /\ n = m
        BY <2>3, <3>2, <3>4, <4>1
      <4>2. CASE a # e \/ n # m
        <5>1. Holds(v, a, n) /\ Holds(u, a, n)
          BY <2>3, <3>4, <4>2
        <5> QED BY <3>1, <5>1 DEF Orderly
      <4> QED BY <4>1, <4>2
    <3>5. ASSUME NEW n \in BatchNums, queue'[a][n] > 0
          PROVE  /\ HasFile(a, n) /\ queue'[a][n] = 1
                 /\ \A v \in Workers : ~Holds(v, a, n)'
      <4>1. a # e \/ n # m
        BY <3>3, <3>5
      <4>2. queue[a][n] > 0 /\ queue'[a][n] = queue[a][n]
        BY <2>4, <3>5, <4>1
      <4> QED BY <2>3, <3>1, <4>1, <4>2 DEF Orderly
    <3>6. ASSUME NEW n \in BatchNums, Idles(a, n)
          PROVE  /\ queue'[a][n] = 0
                 /\ \A v \in Workers : ~Holds(v, a, n)'
      <4>1. a # e \/ n # m
        BY <2>1, <3>6 DEF Idles
      <4> QED BY <2>3, <2>4, <3>6, <4>1 DEF Idles
    <3> QED BY <3>4, <3>5, <3>6
  <2>7. \A v \in Workers, a \in Attempts, n \in BatchNums :
           Holds(v, a, n)' =>
              \/ worker'[v].doc = files[a][n]
              \/ Holds(v, a, n) /\ worker'[v].doc = worker[v].doc
    BY <2>3
  <2> QED BY <1>1, <1>2, <1>3, <2>2, <2>6, <2>7, TasksCover
<1>8. CASE DeleteProcessed(w)
  BY <1>1, <1>2, <1>3, <1>8, DeletionCovers
<1>9. CASE worker[w].at \in Uncounted /\ WorkerDies(w)
  <2>1. PICK e \in Attempts, m \in BatchNums :
          worker[w].a = e /\ worker[w].n = m
    BY <1>1 DEF TaskType
  <2>2. /\ UNCHANGED files /\ queue' = [queue EXCEPT ![e][m] = @ + 1]
        /\ \A v \in Workers : v # w => worker'[v] = worker[v]
        /\ worker'[w].at = "idle"
        /\ Holds(w, e, m)
    BY <1>1, <1>9, <2>1 DEF WorkerDies, Idle, Holds, Uncounted
  <2>3. ASSUME NEW v \in Workers, NEW a \in Attempts, NEW n \in BatchNums,
               Holds(v, a, n)'
        PROVE  v # w /\ Holds(v, a, n) /\ worker'[v].doc = worker[v].doc
    <3>1. v # w
      BY <2>2, <2>3 DEF Holds
    <3> QED BY <2>2, <2>3, <3>1 DEF Holds
  <2>4. /\ \A a \in Attempts, n \in BatchNums : a # e \/ n # m
             => queue'[a][n] = queue[a][n]
        /\ queue'[e][m] = queue[e][m] + 1
    BY <1>1, <2>2
  <2>5. ASSUME NEW a \in Attempts, Latest(a)
        PROVE  /\ \A v, u \in Workers, n \in BatchNums :
                     Holds(v, a, n)' /\ Holds(u, a, n)' => v = u
               /\ \A n \in BatchNums : queue'[a][n] > 0 =>
                     /\ HasFile(a, n) /\ queue'[a][n] = 1
                     /\ \A v \in Workers : ~Holds(v, a, n)'
               /\ \A n \in BatchNums : Idles(a, n) =>
                     /\ queue'[a][n] = 0
                     /\ \A v \in Workers : ~Holds(v, a, n)'
    <3>1. Orderly(a)
      BY <1>4, <2>5
    <3>2. ASSUME NEW v \in Workers, NEW u \in Workers, NEW n \in BatchNums,
                 Holds(v, a, n)', Holds(u, a, n)'
          PROVE  v = u
      BY <2>3, <3>1, <3>2 DEF Orderly
    <3>3. ASSUME NEW n \in BatchNums, queue'[a][n] > 0
          PROVE  /\ HasFile(a, n) /\ queue'[a][n] = 1
                 /\ \A v \in Workers : ~Holds(v, a, n)'
      <4>1. CASE a = e /\ n = m
        <5>1. worker[w].doc # NoDoc /\ worker[w].doc = files[a][n]
          BY <1>1, <2>2, <3>1, <4>1 DEF DocumentsInHand, Holds, Orderly
        <5>2. ~(queue[a][n] > 0)
          BY <2>2, <3>1, <4>1 DEF Orderly
        <5>3. queue[a][n] \in Nat
          BY <1>1
        <5>4. queue'[a][n] = 1
          BY <2>4, <4>1, <5>2, <5>3
        <5>5. ASSUME NEW v \in Workers PROVE ~Holds(v, a, n)'
          BY <2>2, <2>3, <3>1, <4>1 DEF Orderly
        <5> QED BY <5>1, <5>4, <5>5 DEF HasFile
      <4>2. CASE a # e \/ n # m
        BY <2>3, <2>4, <3>1, <3>3, <4>2 DEF Orderly
      <4> QED BY <4>1, <4>2
    <3>4. ASSUME NEW n \in BatchNums, Idles(a, n)
          PROVE  /\ queue'[a][n] = 0
                 /\ \A v \in Workers : ~Holds(v, a, n)'
      <4>1. a # e \/ n # m
        BY <2>2, <3>4 DEF Idles
      <4> QED BY <2>3, <2>4, <3>4, <4>1 DEF Idles
    <3> QED BY <3>2, <3>3, <3>4
  <2>6. \A v \in Workers, a \in Attempts, n \in BatchNums :
           Holds(v, a, n)' =>
              \/ worker'[v].doc = files[a][n]
              \/ Holds(v, a, n) /\ worker'[v].doc = worker[v].doc
    BY <2>3
  <2> QED BY <1>1, <1>2, <1>3, <2>2, <2>5, <2>6, TasksCover
<1>10. CASE UsageLimitExceeded(w)
  <2>1. PICK e \in Attempts, m \in BatchNums : TakeMessage(e, m)
    BY <1>10 DEF UsageLimitExceeded
  <2>2. UNCHANGED <<files, worker>>
    BY <1>10 DEF UsageLimitExceeded
  <2> QED BY <1>1, <1>2, <1>3, <2>1, <2>2, TakenCovers
<1> QED BY <1>6, <1>7, <1>8, <1>9, <1>10, WorkerCases

(* So does the loss of a message.                                          *)
LEMMA BrokerCovers ==
  ASSUME FetchedInv, CountedOnce, ~Excused, Next, NEW a \in Attempts,
         BrokerFault(a)
  PROVE  Covered'
<1>1. /\ TypeOK /\ IInv /\ Covered /\ StoredHasNumber /\ CompletionInv
      /\ UNCHANGED <<files, worker, process, job, total, checkpoint>>
  BY FetchedTypes, BrokerLeaves DEF FetchedInv
<1>2. Settled \subseteq Settled'
  BY <1>1, SettledStays
<1>3. \A b \in Attempts : Latest(b)' => Latest(b)
  <2>1. ~\E b \in Attempts : KickoffStep(b)
    BY BrokerLeaves, KickoffCreates
  <2> QED BY <1>1, <2>1, LatestStays
<1>4. PICK m \in BatchNums : TakeMessage(a, m)
  BY BrokerLeaves
<1> QED BY <1>1, <1>2, <1>3, <1>4, TakenCovers

-----------------------------------------------------------------------------
(* The steps of docfetching that change the store                          *)
LEMMA StoreSteps ==
  ASSUME FetchedInv, Checkpointed, NEW a \in Attempts,
         ProxyStep(a) \/ FetchStep(a) \/ FetchFault(a)
  PROVE  \/ UNCHANGED files
         \/ FetchStep(a) /\ DiscardOldBatches(a)
         \/ FetchStep(a) /\ AdoptOldBatches(a)
         \/ FetchStep(a) /\ StoreFetchedBatch(a)
<1>1. TypeOK /\ StoredHasNumber
  BY FetchedTypes
<1> QED
  BY <1>1, FetchQuiet, ResumeDoes, ReissueDoes, SaveDoes, YieldsDo,
     FailureDoes, QueueDoes, FinishDoes DEF MovingStep

(* take nothing from a later attempt, unless they trample on it.           *)
LEMMA LaterSpared ==
  ASSUME FetchedInv, Checkpointed, NEW a \in Attempts,
         ProxyStep(a) \/ FetchStep(a) \/ FetchFault(a), ~trampled',
         NEW b \in Attempts, b > a, NEW n \in BatchNums
  PROVE  files'[b][n] = files[b][n]
<1>1. /\ TypeOK /\ files \in [Attempts -> [BatchNums -> Docs \cup {NoDoc}]]
      /\ a # b
  BY FetchedTypes DEF TypeOK, BusTypeOK, Attempts
<1>2. ASSUME ~TakesLaterBatch(a) PROVE files[b][n] = NoDoc
  <2>1. HasFile(b, n) => <<b, n>> \in StoredBatches
    BY DEF StoredBatches
  <2>2. \A c \in StoredBatches : ~(c[1] > a)
    BY <1>2 DEF TakesLaterBatch
  <2>3. <<b, n>>[1] = b
    OBVIOUS
  <2>4. ~HasFile(b, n)
    BY <2>1, <2>2, <2>3
  <2> QED BY <2>4 DEF HasFile
<1>3. CASE FetchStep(a) /\ DiscardOldBatches(a)
  <2>1. files' = NoFiles /\ trampled' = (trampled \/ TakesLaterBatch(a))
    BY <1>1, <1>3, DiscardDoes
  <2>2. ~TakesLaterBatch(a)
    BY <2>1
  <2>3. NoFiles[b][n] = NoDoc
    BY DEF NoFiles
  <2> QED BY <1>2, <2>1, <2>2, <2>3
<1>4. CASE FetchStep(a) /\ AdoptOldBatches(a)
  <2>1. /\ \A c \in Attempts \ {a}, m \in BatchNums : files'[c][m] = NoDoc
        /\ trampled' = \/ trampled
                       \/ TakesLaterBatch(a)
                       \/ \E e, c \in StoredBatches : e # c /\ e[2] = c[2]
    BY <1>1, <1>4, AdoptDoes
  <2>2. ~TakesLaterBatch(a)
    BY <2>1
  <2>3. files'[b][n] = NoDoc
    BY <1>1, <2>1
  <2> QED BY <1>2, <2>2, <2>3
<1>5. CASE FetchStep(a) /\ StoreFetchedBatch(a)
  BY <1>1, <1>5, StoreDoes
<1> QED BY <1>3, <1>4, <1>5, StoreSteps

(* What a checkpoint counts is secured,                                    *)
LEMMA CountedIsSecured ==
  ASSUME Covered, NEW d \in Docs, CountsAsFetched(d)
  PROVE  d \in Secured
<1>1. d \in Nat /\ 1 <= d
  BY IndexAttemptAssumption DEF Docs
<1>2. ASSUME NEW c \in Attempts, checkpoint[c] # None, d <= checkpoint[c],
             checkpoint[c] \in Nat
      PROVE  d \in Secured
  BY <1>1, <1>2 DEF Covered, CheckpointIsSecured
<1> QED BY <1>1, <1>2 DEF Covered, CheckpointIsSecured, CountsAsFetched

(* and stays so.                                                           *)
LEMMA FetchSecures ==
  ASSUME FetchedInv, CountedOnce, Checkpointed, Next, NEW a \in Attempts,
         ProxyStep(a) \/ FetchStep(a) \/ FetchFault(a), ~trampled',
         NEW d \in Secured, CountsAsFetched(d) \/ ~DiscardOldBatches(a)
  PROVE  d \in Secured'
<1>1. /\ TypeOK /\ CompletionInv /\ Settled \subseteq Settled'
      /\ files \in [Attempts -> [BatchNums -> Docs \cup {NoDoc}]]
      /\ UNCHANGED worker
  BY FetchedTypes, SettledStays, FetchRecords
     DEF FetchedInv, TypeOK, BusTypeOK
<1>2. CASE d \in Settled
  BY <1>1, <1>2 DEF Secured
<1>3. CASE d \in SafeDocs
  <2>1. PICK c \in Attempts, n \in BatchNums :
           Safe(c, n) /\ files[c][n] = d
    BY <1>3 DEF SafeDocs
  <2>2. d \in Docs
    BY <1>3 DEF SafeDocs
  <2>3. ASSUME files'[c][n] = files[c][n] PROVE d \in Secured'
    <3>1. Safe(c, n)'
      BY <1>1, <2>1, <2>3 DEF Safe, Holds, HasFile
    <3> QED BY <2>1, <2>2, <2>3, <3>1 DEF Secured, SafeDocs
  <2>4. CASE UNCHANGED files
    BY <2>3, <2>4
  <2>5. CASE FetchStep(a) /\ DiscardOldBatches(a)
    <3>1. <<c, n>> \in StoredBatches
      BY <2>1 DEF Safe, StoredBatches
    <3>2. d \in StoredDocs
      BY <2>1, <3>1 DEF StoredDocs
    <3>3. d \in discarded'
      BY <1>1, <2>5, <3>2, DiscardDoes
    <3> QED BY <3>3 DEF Secured, Settled
  <2>6. CASE FetchStep(a) /\ AdoptOldBatches(a)
    <3>1. <<c, n>> \in StoredBatches
      BY <2>1 DEF Safe, StoredBatches
    <3>2. files'[a][n] = d
      BY <1>1, <2>1, <2>6, <3>1, AdoptDoes
    <3>3. Tasks(a) = {}
      BY <1>1, <2>6, AdoptDoes, FetchedTypes DEF CountsAreOwed, Unsent
    <3>4. \A w \in Workers : ~Holds(w, a, n)'
      BY <1>1, <3>3 DEF Tasks, InAttempt, Holds
    <3>5. Safe(a, n)'
      BY <1>1, <2>1, <3>2, <3>4 DEF Safe, HasFile
    <3> QED BY <2>2, <3>2, <3>5 DEF Secured, SafeDocs
  <2>7. CASE FetchStep(a) /\ StoreFetchedBatch(a)
    <3>1. c # a \/ n # job[a].num
      BY <1>1, <2>1, <2>7, StoreDoes DEF Safe
    <3>2. files'[c][n] = files[c][n]
      BY <1>1, <2>7, <3>1, StoreDoes
    <3> QED BY <2>3, <3>2
  <2> QED BY <1>1, <2>4, <2>5, <2>6, <2>7, StoreSteps
<1> QED BY <1>2, <1>3 DEF Secured

(* Whatever a run skips is secured; a checkpoint is yielded when every     *)
(* document before it is.                                                  *)
LEMMA FetchChecks ==
  ASSUME FetchedInv, CountedOnce, Checkpointed, Next, ~Excused,
         NEW a \in Attempts,
         ProxyStep(a) \/ FetchStep(a) \/ FetchFault(a), ~trampled',
         NEW c \in Attempts
  PROVE  CheckpointIsSecured(c)'
<1> DEFINE Skips(p) == 1..p \subseteq Secured'
<1>1. /\ TypeOK /\ StoredHasNumber /\ Covered
      /\ \A b \in Attempts : job[b].pos \in 0..NDocs
      /\ checkpoint \in [Attempts -> 0..NDocs \cup {None}]
      /\ process \in [Attempts -> ProcessPlaces]
      /\ NDocs \in Nat /\ None \notin Nat
  BY FetchedTypes, IndexAttemptAssumption
     DEF FetchedInv, TypeOK, RowTypeOK, FetchTypeOK, JobType
<1>2. ASSUME NEW p \in 0..NDocs,
             \A d \in Docs : d <= p => CountsAsFetched(d)
      PROVE  Skips(p)
  <2> SUFFICES ASSUME NEW d \in 1..p PROVE d \in Secured'
    OBVIOUS
  <2>1. d \in Docs /\ d <= p
    BY <1>1 DEF Docs
  <2>2. CountsAsFetched(d)
    BY <1>2, <2>1
  <2>3. d \in Secured
    BY <1>1, <2>1, <2>2, CountedIsSecured
  <2> QED BY <2>2, <2>3, FetchSecures
<1>3. ASSUME NEW b \in Attempts, checkpoint[b] # None
      PROVE  Skips(checkpoint[b])
  <2>1. /\ checkpoint[b] \in 0..NDocs
        /\ \A d \in Docs : d <= checkpoint[b] => CountsAsFetched(d)
    BY <1>1, <1>3 DEF CountsAsFetched
  <2> QED BY <1>2, <2>1
<1>4. ASSUME NEW b \in Attempts,
             \/ process[b] = "chunk"
             \/ process[b] = "save" /\ Saved(job[b].pos)
      PROVE  Skips(job[b].pos)
  <2>1. CASE process[b] = "chunk"
    <3>1. \A d \in Docs : d <= job[b].pos => CountsAsFetched(d)
      BY <2>1 DEF CountsAsFetched
    <3> QED BY <1>1, <1>2, <3>1
  <2>2. CASE job[b].pos = 0
    BY <2>2
  <2>3. ASSUME NEW e \in Attempts, checkpoint[e] # None,
               job[b].pos <= checkpoint[e]
        PROVE  Skips(job[b].pos)
    <3>1. 1..checkpoint[e] \subseteq Secured'
      BY <1>3, <2>3
    <3>2. checkpoint[e] \in Nat /\ job[b].pos \in Nat
      BY <1>1, <2>3
    <3>3. 1..job[b].pos \subseteq 1..checkpoint[e]
      BY <2>3, <3>2
    <3> QED BY <3>1, <3>3
  <2> QED BY <1>4, <2>1, <2>2, <2>3 DEF Saved
<1>0. \A p : Skips(p) <=> 1..p \subseteq Secured'
  OBVIOUS
<1> HIDE DEF Skips
<1>5. CASE FetchStep(a) /\ (SaveFirstCheckpoint(a) \/ SaveRunCheckpoint(a))
  <2>1. /\ UNCHANGED job /\ process[a] \in {"save", "chunk"}
        /\ process'[a] = "run"
        /\ checkpoint' = [checkpoint EXCEPT ![a] = job[a].pos]
    BY <1>1, <1>5, SaveDoes
  <2>2. process[a] = "save" => Saved(job[a].pos)
    BY DEF FetchedInv, PositionIsSaved
  <2>3. checkpoint'[a] = job[a].pos
        /\ \A b \in Attempts : b # a => checkpoint'[b] = checkpoint[b]
    BY <1>1, <2>1
  <2>4. c # a => process'[c] = process[c]
    BY <1>1, <1>5, FetchSpares
  <2>5. Skips(job[a].pos)
    BY <1>4, <2>1, <2>2
  <2>6. checkpoint'[c] # None => Skips(checkpoint'[c])
    <3>1. CASE c = a
      BY <2>3, <2>5, <3>1
    <3>2. CASE c # a
      BY <1>3, <2>3, <3>2
    <3> QED BY <3>1, <3>2
  <2>7. process'[c] = "chunk" => Skips(job'[c].pos)
    <3>1. ASSUME process'[c] = "chunk"
          PROVE  process[c] = "chunk" /\ job'[c].pos = job[c].pos
      BY <2>1, <2>4, <3>1
    <3> QED BY <1>4, <3>1
  <2> QED BY <1>0, <2>6, <2>7 DEF CheckpointIsSecured
<1>6. CASE FetchStep(a) /\ YieldCheckpoint(a)
  <2>1. /\ UNCHANGED <<files, job, checkpoint>>
        /\ process[a] = "run" /\ IsActive(a)
    BY <1>1, <1>6, YieldsDo
  <2>2. Latest(a)
    BY <2>1 DEF FetchedInv, ActiveIsLatest
  <2>3. Orderly(a) /\ FetchedIsKept(a)
    BY <1>1, <2>2 DEF Covered
  <2>4. OwnDocs(a) \subseteq SafeDocs
    <3> SUFFICES ASSUME NEW n \in BatchNums, files[a][n] \in Docs
                 PROVE  files[a][n] \in SafeDocs
      BY DEF OwnDocs
    <3>1. HasFile(a, n)
      BY IndexAttemptAssumption DEF HasFile, NoDoc, Docs
    <3>2. Safe(a, n)
      BY <2>3, <3>1 DEF Safe, Orderly
    <3> QED BY <3>2 DEF SafeDocs
  <2>5. 1..job[a].pos \subseteq Secured
    BY <2>1, <2>3, <2>4 DEF FetchedIsKept, Fetching, Secured
  <2>6. ~DiscardOldBatches(a)
    BY <2>1 DEF DiscardOldBatches
  <2>7. Skips(job'[a].pos)
    BY <1>0, <2>1, <2>5, <2>6, FetchSecures
  <2>8. c # a => process'[c] = process[c]
    BY <1>1, <1>6, FetchSpares
  <2>9. checkpoint'[c] # None => Skips(checkpoint'[c])
    BY <1>3, <2>1
  <2>10. process'[c] = "chunk" => Skips(job'[c].pos)
    <3>1. CASE c = a
      BY <2>7, <3>1
    <3>2. CASE c # a
      <4>1. ASSUME process'[c] = "chunk"
            PROVE  process[c] = "chunk" /\ job'[c].pos = job[c].pos
        BY <2>1, <2>8, <3>2, <4>1
      <4> QED BY <1>4, <4>1
    <3> QED BY <3>1, <3>2
  <2> QED BY <1>0, <2>9, <2>10 DEF CheckpointIsSecured
<1>7. CASE ~(FetchStep(a) /\ (\/ SaveFirstCheckpoint(a)
                              \/ SaveRunCheckpoint(a) \/ YieldCheckpoint(a)))
  <2>1. /\ UNCHANGED checkpoint
        /\ process'[a] = "chunk" =>
              process[a] = "chunk" /\ job'[a].pos = job[a].pos
    BY <1>1, <1>7, FetchQuiet, ResumeDoes, DiscardDoes, AdoptDoes,
       ReissueDoes, FailureDoes, StoreDoes, QueueDoes, FinishDoes
       DEF MovingStep, Early, Over, Unsent
  <2>2. c # a => process'[c] = process[c] /\ job'[c] = job[c]
    BY <1>1, FetchSpares
  <2>3. process'[c] = "chunk" => Skips(job'[c].pos)
    <3>1. ASSUME process'[c] = "chunk"
          PROVE  process[c] = "chunk" /\ job'[c].pos = job[c].pos
      BY <2>1, <2>2, <3>1
    <3> QED BY <1>4, <3>1
  <2> QED BY <1>0, <1>3, <2>1, <2>3 DEF CheckpointIsSecured
<1> QED BY <1>5, <1>6, <1>7

-----------------------------------------------------------------------------
(* An attempt whose batches, messages and place are left alone stays       *)
(* orderly,                                                                *)
LEMMA OrderlyFrame ==
  ASSUME TypeOK, StoredHasNumber, NEW a \in Attempts, Orderly(a),
         UNCHANGED worker, queue'[a] = queue[a],
         \A n \in BatchNums : files'[a][n] = files[a][n],
         process'[a] \in {"reissue", "stored"} =>
            /\ process'[a] = process[a] /\ job'[a].old = job[a].old
            /\ job'[a].num = job[a].num /\ job'[a].pos = job[a].pos
  PROVE  Orderly(a)'
<1>1. \A n \in BatchNums : /\ HasFile(a, n)' <=> HasFile(a, n)
                           /\ Idles(a, n)' <=> Idles(a, n)
                           /\ \A w \in Workers :
                                 Holds(w, a, n)' <=> Holds(w, a, n)
  BY DEF HasFile, Idles, Holds
<1>2. ASSUME process'[a] = "reissue", NEW b \in job'[a].old
      PROVE  /\ HasFile(a, b[2])' /\ Idles(a, b[2])'
             /\ \A c \in job'[a].old : b[2] = c[2] => b = c
  <2>1. process[a] = "reissue" /\ job'[a].old = job[a].old
    BY <1>2
  <2>2. b \in job[a].old /\ b[2] \in BatchNums
    BY <1>2, <2>1 DEF TypeOK, FetchTypeOK, JobType
  <2>3. /\ HasFile(a, b[2]) /\ Idles(a, b[2])
        /\ \A c \in job[a].old : b[2] = c[2] => b = c
    BY <2>1, <2>2 DEF Orderly
  <2> QED BY <1>1, <2>1, <2>2, <2>3
<1>3. ASSUME process'[a] = "stored"
      PROVE  /\ files'[a][job'[a].num] = job'[a].pos + 1
             /\ Idles(a, job[a].num)'
  <2>1. /\ process[a] = "stored" /\ job'[a].num = job[a].num
        /\ job'[a].pos = job[a].pos /\ job[a].num \in BatchNums
    BY <1>3 DEF StoredHasNumber
  <2>2. files[a][job[a].num] = job[a].pos + 1 /\ Idles(a, job[a].num)
    BY <2>1 DEF Orderly
  <2>3. \A n \in BatchNums : Idles(a, n) => Idles(a, n)'
    BY <1>1
  <2> QED BY <2>1, <2>2, <2>3 DEF Idles, Holds
<1> QED BY <1>1, <1>2, <1>3 DEF Orderly

(* and keeps what it fetched.                                              *)
LEMMA KeptFrame ==
  ASSUME NEW a \in Attempts, FetchedIsKept(a), Settled \subseteq Settled',
         OwnDocs(a) \subseteq Settled' \cup OwnDocs(a)',
         job'[a].pos = job[a].pos,
         Saved(job[a].pos) => StillSaved(job[a].pos),
         process'[a] \in Fetching => process[a] \in Fetching,
         total'[a] # None => total[a] # None \/ process[a] \in Fetching
  PROVE  FetchedIsKept(a)'
<1>1. Saved(job[a].pos) => Saved(job[a].pos)'
  BY DEF Saved, StillSaved
<1> QED BY <1>1 DEF FetchedIsKept, Fetching

(* Whoever steps has an attempt.                                           *)
LEMMA FetcherExists ==
  ASSUME FetchedInv, NEW a \in Attempts,
         ProxyStep(a) \/ FetchStep(a) \/ FetchFault(a)
  PROVE  Exists(a)
<1>1. process[a] # "none" \/ proxy[a] # "off"
  <2>1. CASE ProxyStep(a)
    BY <2>1 DEF ProxyStep, SpawnProcess, DropRevoked, ProcessDone,
       ReportFailure, MarkReported, AttemptFinalized, TerminateProcess
  <2>2. CASE FetchStep(a)
    BY <2>2 DEF FetchStep, VerifyAttempt, StartAttempt, RefuseStart,
       ChooseWindow, ResumeFromCheckpoint, DiscardOldBatches,
       AdoptOldBatches, ReissueBatch, CarryCompleted, SaveFirstCheckpoint,
       YieldBatch, YieldCheckpoint, StopOnSignal, RaiseNotRunning,
       StoreFetchedBatch, QueueFetchedBatch, SaveRunCheckpoint,
       FinishExtraction, HandleException, CountBatchToSend, Counts, HasToSend,
       MarkRaised
  <2>3. CASE FetchFault(a)
    BY <2>3 DEF FetchFault, SpawnFails, YieldFailure, ExtractionRaises,
       ValidationFails, ProcessDies, WorkerShutsDown, MemoryLimitExceeded,
       PodDies, CountingMissed, Counts, HasToSend, Extracting, Running,
       Preparing
  <2> QED BY <2>1, <2>2, <2>3
<1> QED BY <1>1, FetchedTypes DEF ActorsHaveAttempts

(* So the last attempt is spared by the processes of the others.           *)
LEMMA LastSpared ==
  ASSUME FetchedInv, CountedOnce, Checkpointed, Next, ~Excused,
         NEW a \in Attempts, ProxyStep(a) \/ FetchStep(a) \/ FetchFault(a),
         ~trampled', NEW b \in Attempts, b # a, Latest(b)
  PROVE  Orderly(b)' /\ FetchedIsKept(b)'
<1>1. /\ TypeOK /\ StoredHasNumber /\ Orderly(b) /\ FetchedIsKept(b)
      /\ UNCHANGED worker /\ Settled \subseteq Settled'
      /\ job[b].pos \in Nat
  BY FetchedTypes, FetchRecords, SettledStays
     DEF FetchedInv, Covered, TypeOK, FetchTypeOK, JobType
<1>2. b > a
  BY FetcherExists DEF Latest, Attempts
<1>3. /\ process'[b] = process[b] /\ job'[b] = job[b] /\ queue'[b] = queue[b]
      /\ total'[b] = total[b]
  BY <1>1, FetchSpares
<1>4. \A n \in BatchNums : files'[b][n] = files[b][n]
  BY <1>2, LaterSpared
<1>5. Orderly(b)'
  BY <1>1, <1>3, <1>4, OrderlyFrame
<1>6. OwnDocs(b)' = OwnDocs(b)
  BY <1>4 DEF OwnDocs
<1>7. Saved(job[b].pos) => StillSaved(job[b].pos)
  BY <1>1, SavedStays
<1>8. FetchedIsKept(b)'
  BY <1>1, <1>3, <1>6, <1>7, KeptFrame
<1> QED BY <1>5, <1>8

-----------------------------------------------------------------------------
(* Nothing of an attempt that has sent nothing is under way.               *)
LEMMA UnsentIdles ==
  ASSUME FetchedInv, NEW a \in Attempts, process[a] \in Unsent
  PROVE  /\ total[a] = None
         /\ \A n \in BatchNums : queue[a][n] = 0
         /\ \A w \in Workers, n \in BatchNums : ~Holds(w, a, n)
<1>1. /\ Waiting(a) = {} /\ Tasks(a) = {} /\ total[a] = None
      /\ queue \in [Attempts -> [BatchNums -> Nat]]
  BY FetchedTypes DEF CountsAreOwed, Unsent, TypeOK, BusTypeOK
<1>2. ASSUME NEW n \in BatchNums PROVE queue[a][n] = 0
  <2>1. queue[a][n] \in Nat
    BY <1>1
  <2>2. queue[a][n] # 0 => <<n, 1>> \in Waiting(a)
    BY <2>1 DEF Waiting
  <2> QED BY <1>1, <2>2
<1>3. ASSUME NEW w \in Workers, NEW n \in BatchNums PROVE ~Holds(w, a, n)
  BY <1>1 DEF Tasks, InAttempt, Holds
<1> QED BY <1>1, <1>2, <1>3

(* An exception is raised while documents are fetched.                     *)
LEMMA RaisedWasFetching ==
  ASSUME TypeOK, NEW a \in Attempts,
         ProxyStep(a) \/ FetchStep(a) \/ FetchFault(a), ~MovingStep(a),
         process'[a] = "raised"
  PROVE  process[a] \in Fetching
<1>1. DOMAIN process = Attempts
  BY DEF TypeOK, FetchTypeOK
<1>2. CASE ProxyStep(a)
  BY <1>1, <1>2 DEF ProxyStep, SpawnProcess, DropRevoked, ProcessDone,
     ReportFailure, MarkReported, AttemptFinalized, TerminateProcess, Goto,
     Fetching
<1>3. CASE FetchStep(a)
  BY <1>1, <1>3 DEF FetchStep, MovingStep, VerifyAttempt, StartAttempt,
     RefuseStart, ChooseWindow, CarryCompleted, YieldBatch, StopOnSignal,
     RaiseNotRunning, HandleException, CountBatchToSend, Counts, MarkRaised,
     Goto, Fetching
<1>4. CASE FetchFault(a)
  BY <1>1, <1>4 DEF FetchFault, MovingStep, SpawnFails, ExtractionRaises,
     ValidationFails, ProcessDies, WorkerShutsDown, MemoryLimitExceeded,
     PodDies, CountingMissed, Counts, Goto, Fetching, Extracting
<1> QED BY <1>2, <1>3, <1>4

(* What a saved position skips is secured.                                 *)
LEMMA SavedIsSecured ==
  ASSUME FetchedInv, ~Excused, NEW p \in Nat, Saved(p)
  PROVE  1..p \subseteq Secured
<1>1. /\ Covered /\ checkpoint \in [Attempts -> 0..NDocs \cup {None}]
      /\ NDocs \in Nat /\ None \notin Nat
  BY FetchedTypes, IndexAttemptAssumption DEF FetchedInv, TypeOK, RowTypeOK
<1>2. CASE p = 0
  BY <1>2
<1>3. ASSUME NEW c \in Attempts, checkpoint[c] # None, p <= checkpoint[c]
      PROVE  1..p \subseteq Secured
  <2>1. 1..checkpoint[c] \subseteq Secured /\ checkpoint[c] \in Nat
    BY <1>1, <1>3 DEF Covered, CheckpointIsSecured
  <2>2. 1..p \subseteq 1..checkpoint[c]
    BY <1>3, <2>1
  <2> QED BY <2>1, <2>2
<1> QED BY <1>2, <1>3 DEF Saved

(* What a step of its process does to the last attempt: most leave its     *)
(* batches alone;                                                          *)
LEMMA QuietKeeps ==
  ASSUME FetchedInv, CountedOnce, Checkpointed, Next, NEW a \in Attempts,
         Orderly(a), FetchedIsKept(a),
         ProxyStep(a) \/ FetchStep(a) \/ FetchFault(a),
         \/ ~MovingStep(a)
         \/ FetchStep(a) /\ (\/ SaveFirstCheckpoint(a) \/ SaveRunCheckpoint(a)
                             \/ YieldCheckpoint(a) \/ FinishExtraction(a))
  PROVE  Orderly(a)' /\ FetchedIsKept(a)'
<1>1. /\ TypeOK /\ StoredHasNumber /\ UNCHANGED worker
      /\ Settled \subseteq Settled' /\ job[a].pos \in Nat
  BY FetchedTypes, FetchRecords, SettledStays
     DEF FetchedInv, TypeOK, FetchTypeOK, JobType
<1>2. Saved(job[a].pos) => StillSaved(job[a].pos)
  BY <1>1, SavedStays
<1>3. /\ UNCHANGED <<files, queue>>
      /\ job'[a].pos = job[a].pos
      /\ process'[a] \in {"reissue", "stored"} =>
            /\ process'[a] = process[a] /\ job'[a].old = job[a].old
            /\ job'[a].num = job[a].num
      /\ process'[a] \in Fetching => process[a] \in Fetching
      /\ total'[a] # None => total[a] # None \/ process[a] \in Fetching
  <2>1. CASE ~MovingStep(a)
    BY <1>1, <2>1, FetchQuiet, RaisedWasFetching
       DEF Early, Over, Unsent, Fetching
  <2>2. CASE FetchStep(a) /\ (SaveFirstCheckpoint(a) \/ SaveRunCheckpoint(a))
    BY <1>1, <2>2, SaveDoes DEF Fetching
  <2>3. CASE FetchStep(a) /\ YieldCheckpoint(a)
    BY <1>1, <2>3, YieldsDo DEF Fetching
  <2>4. CASE FetchStep(a) /\ FinishExtraction(a)
    BY <1>1, <2>4, FinishDoes DEF Fetching
  <2> QED BY <2>1, <2>2, <2>3, <2>4
<1>4. Orderly(a)'
  BY <1>1, <1>3, OrderlyFrame
<1>5. OwnDocs(a)' = OwnDocs(a)
  BY <1>3 DEF OwnDocs
<1>6. FetchedIsKept(a)'
  BY <1>1, <1>2, <1>3, <1>5, KeptFrame
<1> QED BY <1>4, <1>6

(* a run that resumes skips what a checkpoint covers, and one that starts  *)
(* over skips nothing;                                                     *)
LEMMA StartKeeps ==
  ASSUME FetchedInv, CountedOnce, Checkpointed, Next, NEW a \in Attempts,
         FetchStep(a), ResumeFromCheckpoint(a) \/ DiscardOldBatches(a)
  PROVE  Orderly(a)' /\ FetchedIsKept(a)'
<1>1. /\ TypeOK /\ UNCHANGED worker /\ PositionIsSaved(a)'
      /\ process[a] = "connect" /\ process'[a] \in {"adopt", "save"}
      /\ UNCHANGED <<queue, total>>
      /\ process'[a] = "save" => job'[a].pos = 0
  BY FetchedTypes, FetchRecords, PositionStep, ResumeDoes, DiscardDoes
<1>2. /\ total[a] = None
      /\ \A n \in BatchNums : queue[a][n] = 0
      /\ \A w \in Workers, n \in BatchNums : ~Holds(w, a, n)
  BY <1>1, UnsentIdles DEF Unsent
<1>3. \A w \in Workers, n \in BatchNums : ~Holds(w, a, n)'
  BY <1>1, <1>2 DEF Holds
<1>4. Orderly(a)'
  BY <1>1, <1>2, <1>3 DEF Orderly
<1>5. Saved(job[a].pos)'
  BY <1>1 DEF PositionIsSaved, Saved
<1>6. process'[a] \notin Fetching \/ job'[a].pos = 0
  BY <1>1 DEF Fetching
<1>7. job'[a].pos = 0 => 1..job'[a].pos = {}
  OBVIOUS
<1>8. FetchedIsKept(a)'
  BY <1>1, <1>2, <1>5, <1>6, <1>7 DEF FetchedIsKept
<1> QED BY <1>4, <1>8

(* a run that adopts the stored batches has what it skips;                 *)
LEMMA AdoptKeeps ==
  ASSUME FetchedInv, CountedOnce, Checkpointed, Next, ~Excused, ~trampled',
         NEW a \in Attempts, FetchStep(a), AdoptOldBatches(a)
  PROVE  Orderly(a)' /\ FetchedIsKept(a)'
<1>0. /\ TypeOK /\ PositionIsSaved(a) /\ Settled \subseteq Settled'
      /\ job[a].pos \in Nat
  BY FetchedTypes, SettledStays
     DEF FetchedInv, TypeOK, FetchTypeOK, JobType
<1>1. /\ UNCHANGED <<worker, queue>>
      /\ process[a] = "adopt" /\ process'[a] = "reissue"
      /\ job'[a].pos = job[a].pos /\ job'[a].old = StoredBatches
      /\ ~\E b, c \in StoredBatches : b # c /\ b[2] = c[2]
      /\ \A b \in StoredBatches : files'[a][b[2]] = files[b[1]][b[2]]
  BY <1>0, FetchRecords, AdoptDoes
<1>2. /\ \A n \in BatchNums : queue[a][n] = 0
      /\ \A w \in Workers, n \in BatchNums : ~Holds(w, a, n)
  BY <1>1, UnsentIdles DEF Unsent
<1>3. \A w \in Workers, n \in BatchNums : ~Holds(w, a, n)'
  BY <1>1, <1>2 DEF Holds
<1>4. ASSUME NEW b \in job'[a].old
      PROVE  /\ HasFile(a, b[2])' /\ Idles(a, b[2])'
             /\ \A c \in job'[a].old : b[2] = c[2] => b = c
  <2>1. b \in StoredBatches
    BY <1>1, <1>4
  <2>2. b[2] \in BatchNums /\ files[b[1]][b[2]] # NoDoc
    BY <2>1 DEF StoredBatches, HasFile
  <2>3. HasFile(a, b[2])'
    BY <1>1, <2>1, <2>2 DEF HasFile
  <2>4. Idles(a, b[2])'
    BY <1>1, <1>2, <1>3, <2>2 DEF Idles
  <2> QED BY <1>1, <2>1, <2>3, <2>4
<1>5. Orderly(a)'
  BY <1>1, <1>2, <1>3, <1>4 DEF Orderly
<1>6. 1..job[a].pos \subseteq Secured
  BY <1>0, <1>1, SavedIsSecured DEF PositionIsSaved
<1>7. SafeDocs \subseteq OwnDocs(a)'
  <2> SUFFICES ASSUME NEW c \in Attempts, NEW n \in BatchNums, Safe(c, n),
                      files[c][n] \in Docs
               PROVE  files[c][n] \in OwnDocs(a)'
    BY DEF SafeDocs
  <2>1. <<c, n>> \in StoredBatches
    BY DEF Safe, StoredBatches
  <2>2. files'[a][n] = files[c][n]
    BY <1>1, <2>1
  <2> QED BY <2>2 DEF OwnDocs
<1>8. 1..job'[a].pos \subseteq Settled' \cup OwnDocs(a)'
  BY <1>0, <1>1, <1>6, <1>7 DEF Secured
<1> QED BY <1>5, <1>8 DEF FetchedIsKept

(* it reissues each of them once;                                          *)
LEMMA ReissueKeeps ==
  ASSUME FetchedInv, CountedOnce, Checkpointed, Next, NEW a \in Attempts,
         Orderly(a), FetchedIsKept(a), FetchStep(a), ReissueBatch(a)
  PROVE  Orderly(a)' /\ FetchedIsKept(a)'
<1>1. /\ TypeOK /\ UNCHANGED <<worker, process, files, total>>
      /\ process[a] = "reissue" /\ job'[a].pos = job[a].pos
      /\ Settled \subseteq Settled' /\ job[a].pos \in Nat
      /\ queue \in [Attempts -> [BatchNums -> Nat]]
  BY FetchedTypes, FetchRecords, SettledStays, ReissueDoes
     DEF FetchedInv, TypeOK, FetchTypeOK, JobType, BusTypeOK
<1>2. PICK b \in job[a].old :
        /\ b[2] \in BatchNums
        /\ job'[a].old = job[a].old \ {b}
        /\ queue' = [queue EXCEPT ![a][b[2]] = @ + 1]
  BY <1>1, ReissueDoes
<1>3. /\ HasFile(a, b[2]) /\ Idles(a, b[2])
      /\ \A c \in job[a].old : b[2] = c[2] => b = c
  BY <1>1 DEF Orderly
<1>4. /\ queue'[a][b[2]] = 1
      /\ \A n \in BatchNums : n # b[2] => queue'[a][n] = queue[a][n]
  BY <1>1, <1>2, <1>3 DEF Idles
<1>5. \A n \in BatchNums : /\ HasFile(a, n)' <=> HasFile(a, n)
                           /\ \A w \in Workers :
                                 Holds(w, a, n)' <=> Holds(w, a, n)
  BY <1>1 DEF HasFile, Holds
<1>6. ASSUME NEW n \in BatchNums, queue'[a][n] > 0
      PROVE  /\ HasFile(a, n)' /\ queue'[a][n] = 1
             /\ \A w \in Workers : ~Holds(w, a, n)'
  <2>1. CASE n = b[2]
    BY <1>3, <1>4, <1>5, <2>1 DEF Idles
  <2>2. CASE n # b[2]
    BY <1>4, <1>5, <1>6, <2>2 DEF Orderly
  <2> QED BY <2>1, <2>2
<1>7. ASSUME NEW c \in job'[a].old
      PROVE  /\ HasFile(a, c[2])' /\ Idles(a, c[2])'
             /\ \A e \in job'[a].old : c[2] = e[2] => c = e
  <2>1. c \in job[a].old /\ c # b
    BY <1>2, <1>7
  <2>2. /\ HasFile(a, c[2]) /\ Idles(a, c[2])
        /\ \A e \in job[a].old : c[2] = e[2] => c = e
    BY <1>1, <2>1 DEF Orderly
  <2>3. c[2] # b[2]
    BY <1>3, <2>1
  <2>4. c[2] \in BatchNums
    BY <1>1, <2>1 DEF TypeOK, FetchTypeOK, JobType
  <2>5. Idles(a, c[2])'
    BY <1>4, <1>5, <2>2, <2>3, <2>4 DEF Idles
  <2> QED BY <1>2, <1>5, <2>2, <2>4, <2>5
<1>8. /\ \A w \in Workers, n \in BatchNums :
            Holds(w, a, n)' => worker'[w].doc = files'[a][n]
      /\ \A w, v \in Workers, n \in BatchNums :
            Holds(w, a, n)' /\ Holds(v, a, n)' => w = v
  BY <1>1, <1>5 DEF Orderly
<1>9. process'[a] # "stored"
  BY <1>1
<1>10. Orderly(a)'
  BY <1>6, <1>7, <1>8, <1>9 DEF Orderly
<1>11. OwnDocs(a)' = OwnDocs(a)
  BY <1>1 DEF OwnDocs
<1>12. Saved(job[a].pos) => StillSaved(job[a].pos)
  BY <1>1, SavedStays
<1>13. FetchedIsKept(a)'
  BY <1>1, <1>11, <1>12, KeptFrame
<1> QED BY <1>10, <1>13

(* it stores a document under a number that is free,                       *)
LEMMA StoreKeeps ==
  ASSUME FetchedInv, CountedOnce, Checkpointed, Next, ~trampled',
         NEW a \in Attempts, Orderly(a), FetchedIsKept(a),
         FetchStep(a), StoreFetchedBatch(a)
  PROVE  Orderly(a)' /\ FetchedIsKept(a)'
<1> DEFINE m == job[a].num
<1>1. /\ TypeOK /\ DocumentsInHand /\ Settled \subseteq Settled'
      /\ job[a].pos \in Nat
      /\ files \in [Attempts -> [BatchNums -> Docs \cup {NoDoc}]]
      /\ queue \in [Attempts -> [BatchNums -> Nat]]
  BY FetchedTypes, SettledStays
     DEF FetchedInv, TypeOK, FetchTypeOK, JobType, BusTypeOK
<1>2. /\ UNCHANGED <<worker, queue, job, total>>
      /\ process[a] = "got" /\ process'[a] = "stored" /\ m \in BatchNums
      /\ files' = [files EXCEPT ![a][m] = job[a].pos + 1]
      /\ ~HasFile(a, m)
  BY <1>1, FetchRecords, StoreDoes
<1>3. /\ files'[a][m] = job[a].pos + 1
      /\ \A n \in BatchNums : n # m => files'[a][n] = files[a][n]
  BY <1>1, <1>2
<1>4. Idles(a, m)
  <2>1. queue[a][m] = 0
    BY <1>1, <1>2 DEF Orderly
  <2>2. ASSUME NEW w \in Workers, Holds(w, a, m) PROVE FALSE
    <3>1. worker[w].doc = files[a][m]
      BY <1>2, <2>2 DEF Orderly
    <3> QED BY <1>1, <1>2, <2>2, <3>1 DEF DocumentsInHand, Holds, HasFile
  <2> QED BY <2>1, <2>2 DEF Idles
<1>5. \A w \in Workers, n \in BatchNums :
         /\ Holds(w, a, n)' <=> Holds(w, a, n)
         /\ Holds(w, a, n) => n # m
  BY <1>2, <1>4 DEF Holds, Idles
<1>6. Idles(a, m)'
  BY <1>2, <1>4, <1>5 DEF Idles
<1> HIDE DEF m
<1>7. ASSUME NEW w \in Workers, NEW n \in BatchNums, Holds(w, a, n)'
      PROVE  worker'[w].doc = files'[a][n]
  <2>1. Holds(w, a, n) /\ files'[a][n] = files[a][n]
    BY <1>3, <1>5, <1>7
  <2> QED BY <1>2, <2>1 DEF Orderly
<1>8. ASSUME NEW n \in BatchNums, queue'[a][n] > 0
      PROVE  /\ HasFile(a, n)' /\ queue'[a][n] = 1
             /\ \A w \in Workers : ~Holds(w, a, n)'
  <2>1. queue[a][n] > 0 /\ n # m
    BY <1>2, <1>4, <1>8 DEF Idles
  <2>2. HasFile(a, n) /\ queue[a][n] = 1
    BY <2>1 DEF Orderly
  <2>3. HasFile(a, n)'
    BY <1>3, <2>1, <2>2 DEF HasFile
  <2>4. \A w \in Workers : ~Holds(w, a, n)
    BY <2>1 DEF Orderly
  <2> QED BY <1>2, <1>5, <2>2, <2>3, <2>4
<1>9. \A w, v \in Workers, n \in BatchNums :
         Holds(w, a, n)' /\ Holds(v, a, n)' => w = v
  BY <1>5 DEF Orderly
<1>10. /\ process'[a] # "reissue" /\ job'[a].num = m
       /\ job'[a].pos = job[a].pos
  BY <1>2 DEF m
<1>11. /\ files'[a][job'[a].num] = job'[a].pos + 1
       /\ Idles(a, job[a].num)'
  BY <1>3, <1>6, <1>10 DEF m
<1>12. Orderly(a)'
  BY <1>7, <1>8, <1>9, <1>10, <1>11 DEF Orderly
<1>13. OwnDocs(a) \subseteq OwnDocs(a)'
  <2> SUFFICES ASSUME NEW n \in BatchNums, files[a][n] \in Docs
               PROVE  files[a][n] \in OwnDocs(a)'
    BY DEF OwnDocs
  <2>1. n # m
    BY <1>2, IndexAttemptAssumption DEF HasFile, NoDoc, Docs
  <2> QED BY <1>3, <2>1 DEF OwnDocs
<1>14. Saved(job[a].pos) => StillSaved(job[a].pos)
  BY <1>1, SavedStays
<1>15. FetchedIsKept(a)'
  BY <1>1, <1>2, <1>10, <1>13, <1>14, KeptFrame DEF Fetching
<1> QED BY <1>12, <1>15

(* and sends it;                                                           *)
LEMMA QueueKeeps ==
  ASSUME FetchedInv, CountedOnce, Checkpointed, Next, NEW a \in Attempts,
         Orderly(a), FetchedIsKept(a), FetchStep(a), QueueFetchedBatch(a)
  PROVE  Orderly(a)' /\ FetchedIsKept(a)'
<1> DEFINE m == job[a].num
<1>1. /\ TypeOK /\ StoredHasNumber /\ DocumentsInHand
      /\ Settled \subseteq Settled' /\ job[a].pos \in Nat
      /\ queue \in [Attempts -> [BatchNums -> Nat]] /\ NDocs \in Nat
  BY FetchedTypes, SettledStays, IndexAttemptAssumption
     DEF FetchedInv, TypeOK, FetchTypeOK, JobType, BusTypeOK
<1>2. /\ UNCHANGED <<worker, files, total>>
      /\ process[a] = "stored" /\ process'[a] = "run" /\ m \in BatchNums
      /\ queue' = [queue EXCEPT ![a][m] = @ + 1]
      /\ job'[a].pos = job[a].pos + 1
  BY <1>1, FetchRecords, QueueDoes
<1>3. files[a][m] = job[a].pos + 1 /\ Idles(a, m)
  BY <1>2 DEF Orderly
<1>4. /\ queue'[a][m] = 1
      /\ \A n \in BatchNums : n # m => queue'[a][n] = queue[a][n]
  BY <1>1, <1>2, <1>3 DEF Idles
<1>5. job[a].pos + 1 \in Docs
  BY <1>1, <1>2 DEF DocumentsInHand, Docs
<1> HIDE DEF m
<1>6. \A n \in BatchNums : /\ HasFile(a, n)' <=> HasFile(a, n)
                           /\ \A w \in Workers :
                                 Holds(w, a, n)' <=> Holds(w, a, n)
  BY <1>2 DEF HasFile, Holds
<1>7. HasFile(a, m)
  BY <1>3, <1>5, IndexAttemptAssumption DEF HasFile, NoDoc, Docs
<1>8. ASSUME NEW n \in BatchNums, queue'[a][n] > 0
      PROVE  /\ HasFile(a, n)' /\ queue'[a][n] = 1
             /\ \A w \in Workers : ~Holds(w, a, n)'
  <2>1. CASE n = m
    BY <1>3, <1>4, <1>6, <1>7, <2>1 DEF Idles
  <2>2. CASE n # m
    BY <1>4, <1>6, <1>8, <2>2 DEF Orderly
  <2> QED BY <2>1, <2>2
<1>9. /\ \A w \in Workers, n \in BatchNums :
            Holds(w, a, n)' => worker'[w].doc = files'[a][n]
      /\ \A w, v \in Workers, n \in BatchNums :
            Holds(w, a, n)' /\ Holds(v, a, n)' => w = v
  BY <1>2, <1>6 DEF Orderly
<1>10. Orderly(a)'
  BY <1>2, <1>8, <1>9 DEF Orderly
<1>11. OwnDocs(a)' = OwnDocs(a) /\ job[a].pos + 1 \in OwnDocs(a)
  BY <1>2, <1>3, <1>5 DEF OwnDocs
<1>12. 1..job[a].pos \subseteq Settled \cup OwnDocs(a)
  BY <1>2 DEF FetchedIsKept, Fetching
<1>13. 1..(job[a].pos + 1) = 1..job[a].pos \cup {job[a].pos + 1}
  BY <1>1
<1>14. 1..job'[a].pos \subseteq Settled' \cup OwnDocs(a)'
  BY <1>1, <1>2, <1>11, <1>12, <1>13
<1>15. FetchedIsKept(a)'
  BY <1>14 DEF FetchedIsKept
<1> QED BY <1>10, <1>15

(* and a document it could not fetch has its error row.                    *)
LEMMA FailureKeeps ==
  ASSUME FetchedInv, CountedOnce, Checkpointed, Next, NEW a \in Attempts,
         Orderly(a), FetchedIsKept(a), FetchFault(a), YieldFailure(a)
  PROVE  Orderly(a)' /\ FetchedIsKept(a)'
<1>1. /\ TypeOK /\ StoredHasNumber /\ Settled \subseteq Settled'
      /\ job[a].pos \in Nat /\ NDocs \in Nat
      /\ errors \in [Attempts -> SUBSET Docs]
  BY FetchedTypes, SettledStays, IndexAttemptAssumption
     DEF FetchedInv, TypeOK, FetchTypeOK, JobType, RowTypeOK
<1>2. /\ UNCHANGED <<worker, files, queue, total>>
      /\ process[a] = "run" /\ process'[a] \in {"run", "raised"}
      /\ job[a].pos < NDocs /\ job'[a].pos = job[a].pos + 1
      /\ errors' = [errors EXCEPT ![a] = @ \cup {job[a].pos + 1}]
  BY <1>1, FetchRecords, FailureDoes
<1>3. Orderly(a)'
  BY <1>1, <1>2, OrderlyFrame
<1>4. job[a].pos + 1 \in AllErrors'
  BY <1>1, <1>2 DEF AllErrors
<1>5. job[a].pos + 1 \in Settled'
  BY <1>4 DEF Settled, Recorded
<1>6. OwnDocs(a)' = OwnDocs(a)
  BY <1>2 DEF OwnDocs
<1>7. 1..job[a].pos \subseteq Settled \cup OwnDocs(a)
  BY <1>2 DEF FetchedIsKept, Fetching
<1>8. 1..(job[a].pos + 1) = 1..job[a].pos \cup {job[a].pos + 1}
  BY <1>1
<1>9. 1..job'[a].pos \subseteq Settled' \cup OwnDocs(a)'
  BY <1>1, <1>2, <1>5, <1>6, <1>7, <1>8
<1>10. FetchedIsKept(a)'
  BY <1>9 DEF FetchedIsKept
<1> QED BY <1>3, <1>10

(* Every step of docfetching covers what was covered.                      *)
LEMMA FetchCovers ==
  ASSUME FetchedInv, CountedOnce, Checkpointed, Next, ~Excused, ~trampled',
         NEW a \in Attempts, ProxyStep(a) \/ FetchStep(a) \/ FetchFault(a)
  PROVE  Covered'
<1>1. IInv /\ UNCHANGED beat /\ Covered
  BY FetchedTypes, FetchRecords DEF FetchedInv
<1>2. \A b \in Attempts : ~KickoffStep(b)
  BY <1>1, KickoffCreates
<1>3. ASSUME NEW b \in Attempts, Latest(b)'
      PROVE  Orderly(b)' /\ FetchedIsKept(b)'
  <2>1. /\ Latest(b) /\ Orderly(b) /\ FetchedIsKept(b)
    BY <1>1, <1>2, <1>3, LatestStays DEF Covered
  <2>2. CASE b # a
    BY <2>1, <2>2, LastSpared
  <2>3. CASE b = a
    BY <2>1, <2>3, QuietKeeps, StartKeeps, AdoptKeeps, ReissueKeeps,
       StoreKeeps, QueueKeeps, FailureKeeps DEF MovingStep
  <2> QED BY <2>2, <2>3
<1> QED BY <1>3, FetchChecks DEF Covered

-----------------------------------------------------------------------------
(* The invariant holds at first,                                           *)
LEMMA InitFetched == Init => FetchedInv
<1> SUFFICES ASSUME Init PROVE FetchedInv
  OBVIOUS
<1>1. CompletionInv
  BY InitCompletion
<1>2. /\ \A a \in Attempts : /\ status[a] = "ABSENT" /\ total[a] = None
                             /\ checkpoint[a] = None
                             /\ process[a] = "none" /\ job[a].pos = 0
      /\ \A a \in Attempts, n \in BatchNums :
            queue[a][n] = 0 /\ files[a][n] = NoDoc
      /\ \A w \in Workers : worker[w].at = "idle"
      /\ beat.at = "idle"
  BY DEF Init, RowInit, BusInit, NoFiles, FetchInit, NewJob, ProcessInit,
     Idle, BeatInit, BeatIdle
<1>3. ActiveIsLatest /\ BeatServesLatest /\ DeletesRecorded
  BY <1>2 DEF ActiveIsLatest, IsActive, Active, BeatServesLatest,
     DeletesRecorded
<1>4. \A a \in Attempts : PositionIsSaved(a)
  BY <1>2 DEF PositionIsSaved, Unsent
<1>5. SuccessIsExcused
  BY <1>2 DEF SuccessIsExcused, Succeeded
<1>6. Covered
  BY <1>2 DEF Covered, Latest, Exists, CheckpointIsSecured
<1> QED BY <1>1, <1>3, <1>4, <1>5, <1>6 DEF FetchedInv

(* and every step keeps it.                                                *)
LEMMA FetchedStays ==
  ASSUME CountedOnce, Checkpointed, FetchedInv, [Next]_vars
  PROVE  FetchedInv'
<1>1. CompletionInv'
  BY CompletionStays DEF FetchedInv
<1>2. CASE Next
  <2>1. /\ DeletesRecorded' /\ ActiveIsLatest' /\ BeatServesLatest'
        /\ SuccessIsExcused'
    BY <1>2, DeletesStep, ActiveStep, BeatStep, SuccessStep
  <2>2. \A a \in Attempts : PositionIsSaved(a)'
    BY <1>2, PositionStep
  <2>3. Excused' \/ Covered'
    <3>1. CASE Excused
      BY <1>2, <3>1, SettledStays DEF FetchedInv
    <3>2. CASE trampled'
      BY <3>2 DEF Excused
    <3>3. CASE ~Excused /\ ~trampled'
      <4>1. CASE OtherStep
        BY <1>2, <3>3, <4>1, OthersCover
      <4>2. CASE \E a \in Attempts :
                    ProxyStep(a) \/ FetchStep(a) \/ FetchFault(a)
        BY <1>2, <3>3, <4>2, FetchCovers
      <4>3. CASE \E w \in Workers : WorkerStep(w) \/ WorkerFault(w) \/ PickUpFault(w)
        BY <1>2, <3>3, <4>3, WorkerCovers
      <4>4. CASE \E a \in Attempts : BrokerFault(a)
        BY <1>2, <3>3, <4>4, BrokerCovers
      <4> QED BY <1>2, <4>1, <4>2, <4>3, <4>4 DEF Next, OtherStep
    <3> QED BY <3>1, <3>2, <3>3
  <2> QED BY <1>1, <2>1, <2>2, <2>3 DEF FetchedInv
<1>3. CASE UNCHANGED vars
  <2>1. UNCHANGED <<worker, indexed, files, queue, errors, total, checkpoint,
                    discarded, job, process, status, beat, trampled>>
    BY <1>3 DEF vars, rowVars, attemptVars, busVars, fetchVars, processVars
  <2>2. \A a \in Attempts : /\ Latest(a)' <=> Latest(a)
                            /\ IsActive(a)' <=> IsActive(a)
    BY <2>1 DEF Latest, Exists, IsActive
  <2>3. /\ DeletesRecorded' /\ ActiveIsLatest' /\ BeatServesLatest'
        /\ Recorded' = Recorded /\ Settled' = Settled
    BY <2>1, <2>2 DEF FetchedInv, DeletesRecorded, ActiveIsLatest,
       BeatServesLatest, Recorded, AllErrors, Settled, Latest, Exists
  <2>4. Excused' <=> Excused
    BY <2>1, <2>3 DEF Excused
  <2>5. SuccessIsExcused'
    BY <2>1, <2>4 DEF FetchedInv, SuccessIsExcused
  <2>6. \A a \in Attempts : PositionIsSaved(a)'
    BY <2>1 DEF FetchedInv, PositionIsSaved, Saved
  <2>7. Covered => Covered'
    BY <2>1, <2>2, QuietCovers
  <2> QED BY <1>1, <2>3, <2>4, <2>5, <2>6, <2>7 DEF FetchedInv
<1> QED BY <1>2, <1>3

(* FetchedInv is inductive, whatever crashes, times out or raises, as long *)
(* as no task counts its batch twice, and the connector has checkpoints.   *)
THEOREM FetchedInvariance ==
  ASSUME CountedOnce, Checkpointed
  PROVE  Spec => []FetchedInv
<1>1. FetchedInv /\ [Next]_vars => FetchedInv'
  BY FetchedStays
<1> QED BY <1>1, InitFetched, PTL DEF Spec

-----------------------------------------------------------------------------
(* What the invariant counts, the properties do.                           *)
LEMMA SettledIsAccounted ==
         /\ Settled \subseteq indexed \cup AllErrors \cup HeldDocs
                                \cup discarded
         /\ Secured \subseteq Accounted \cup discarded
         /\ \A a \in Attempts : OwnDocs(a) \subseteq Accounted
<1>1. {worker[w].doc : w \in {x \in Workers : worker[x].at = "errors"}}
        \subseteq HeldDocs
  BY DEF HeldDocs
<1>2. ASSUME NEW a \in Attempts, NEW n \in BatchNums, files[a][n] \in Docs
      PROVE  files[a][n] \in StoredDocs
  <2>1. <<a, n>> \in StoredBatches
    BY <1>2, IndexAttemptAssumption DEF StoredBatches, HasFile, NoDoc, Docs
  <2> QED BY <2>1 DEF StoredDocs
<1>3. \A a \in Attempts : OwnDocs(a) \subseteq StoredDocs
  BY <1>2 DEF OwnDocs
<1>4. SafeDocs \subseteq StoredDocs
  BY <1>2 DEF SafeDocs
<1> QED BY <1>1, <1>3, <1>4 DEF Settled, Secured, Recorded, Accounted

(* For any number of attempts, documents and workers: what the running     *)
(* attempt of a checkpointed connector counts as fetched, itself or by     *)
(* the attempts it resumed from, is in the index, has an error row, or is  *)
(* in a batch that is stored or held by a task, whichever processes, tasks *)
(* and pods fail; unless a batch was trampled on, or a run from scratch    *)
(* discarded what a checkpoint counted.                                    *)
THEOREM NothingFetchedIsLost ==
  ASSUME CountedOnce, Checkpointed
  PROVE  Spec => []NoDocumentLost
<1>1. FetchedInv => NoDocumentLost
  <2> SUFFICES ASSUME FetchedInv, ~trampled, NEW a \in Attempts, PastStart(a)
               PROVE  1..job[a].pos \subseteq Accounted \cup discarded
    BY DEF NoDocumentLost
  <2>1. /\ job[a].pos \in 0..NDocs /\ NDocs \in Nat
        /\ process[a] \in ProcessPlaces
    BY FetchedTypes, IndexAttemptAssumption DEF TypeOK, FetchTypeOK, JobType
  <2>2. 1..job[a].pos \subseteq Docs
    BY <2>1 DEF Docs
  <2>3. CASE Excused
    BY <2>2, <2>3, SettledIsAccounted DEF Excused, Accounted
  <2>4. CASE ~Excused
    <3>1. /\ Covered /\ SuccessIsExcused /\ ActiveIsLatest
          /\ PositionIsSaved(a)
      BY <2>4 DEF FetchedInv
    <3>2. status[a] = "IN_PROGRESS"
      BY <2>4, <3>1 DEF PastStart, SuccessIsExcused
    <3>3. FetchedIsKept(a)
      BY <3>1, <3>2 DEF Covered, ActiveIsLatest, IsActive, Active
    <3>4. CASE 1..job[a].pos \subseteq Settled \cup OwnDocs(a)
      BY <3>4, SettledIsAccounted DEF Accounted
    <3>5. CASE Saved(job[a].pos)
      <4>1. 1..job[a].pos \subseteq Secured
        BY <2>1, <2>4, <3>5, SavedIsSecured
      <4> QED BY <4>1, SettledIsAccounted
    <3> QED BY <3>3, <3>4, <3>5 DEF FetchedIsKept
  <2> QED BY <2>3, <2>4
<1> QED BY <1>1, FetchedInvariance, PTL

(* Under the same hypotheses, an attempt that succeeded leaves no document *)
(* of the source to a batch that only waits in the file store: each is in  *)
(* the index, has an error row, or is in a task, and the next poll window  *)
(* may start where this one ended.                                         *)
THEOREM SuccessMeansCovered ==
  ASSUME CountedOnce, Checkpointed
  PROVE  Spec => []SuccessCoversSource
<1>1. FetchedInv => SuccessCoversSource
  <2> SUFFICES ASSUME FetchedInv, ~trampled, NEW a \in Attempts,
                      status[a] \in Succeeded
               PROVE  Docs \subseteq indexed \cup AllErrors \cup HeldDocs
                                       \cup discarded
    BY DEF SuccessCoversSource
  <2>1. Excused
    BY DEF FetchedInv, SuccessIsExcused
  <2> QED BY <2>1, SettledIsAccounted DEF Excused
<1> QED BY <1>1, FetchedInvariance, PTL
=============================================================================
