----------------------- MODULE IndexingPipelineProofs -----------------------
(***************************************************************************)
(* Proofs about IndexingPipeline: its types, that at most one attempt is   *)
(* active (db/indexing_coordination.py), and that its rows implement the   *)
(* life cycle of AttemptLifecycle.                                         *)
(*                                                                         *)
(* The argument.  A row leaves "ABSENT" in CreateAttempt alone, so the     *)
(* steps that mark or touch a row refine End and leave Created alone only  *)
(* if the row exists: whatever acts for an attempt must act for one that   *)
(* was created (ActorsHaveAttempts).  The updates stay in a strict total   *)
(* order, which makes the CHOOSE of LatestCheckpoint well defined, because *)
(* a request to cancel touches every active attempt in one transaction,    *)
(* and there is one at most.  Types, actors, the one active attempt and    *)
(* the order of updates are therefore proved together, as IInv.            *)
(***************************************************************************)
EXTENDS IndexingProperties, GreatestNumber, FiniteSetTheorems, TLAPS

Exists(a) == status[a] # "ABSENT"

(* Whatever acts for an attempt, or waits to, acts for one that was        *)
(* created.                                                                *)
ActorsHaveAttempts ==
    /\ \A a \in Attempts : process[a] # "none" \/ proxy[a] # "off" => Exists(a)
    /\ \A a \in Attempts, n \in BatchNums : queue[a][n] > 0 => Exists(a)
    /\ \A w \in Workers : worker[w].at # "idle" => Exists(worker[w].a)
    /\ beat.at # "idle" => Exists(beat.a)

(* A batch in hand is a document of the source.                            *)
DocumentsInHand ==
    /\ \A a \in Attempts : process[a] \in {"got", "stored"}
                             => job[a].pos < NDocs
    /\ \A w \in Workers : worker[w].at \notin {"idle", "post"}
                             => worker[w].doc # NoDoc

(* The attempts are in a strict total order of their last update.          *)
UpdatesAreOrdered ==
    /\ newer \subseteq Created \X Created
    /\ \A a \in Attempts : <<a, a>> \notin newer
    /\ \A a, b \in Created : a # b => <<a, b>> \in newer \/ <<b, a>> \in newer
    /\ \A a, b, c \in Created :
         <<a, b>> \in newer /\ <<b, c>> \in newer => <<a, c>> \in newer

LocalInv ==
    /\ TypeOK
    /\ ActorsHaveAttempts
    /\ DocumentsInHand

IInv ==
    /\ LocalInv
    /\ OneActiveAttempt
    /\ UpdatesAreOrdered

-----------------------------------------------------------------------------
(* Of a nonempty set of created attempts, one was updated last.            *)
LEMMA LastUpdated ==
  ASSUME UpdatesAreOrdered, NEW T \in SUBSET Created, T # {}
  PROVE  MostRecentOf(T) # {}
<1> DEFINE Later(a) == {b \in T : <<b, a>> \in newer}
           Sizes == {Cardinality(Later(a)) : a \in T}
<1>1. T \subseteq Attempts /\ IsFiniteSet(T)
  <2>1. IsFiniteSet(Attempts)
    BY IndexAttemptAssumption, FS_Interval DEF Attempts
  <2>2. T \subseteq Attempts
    BY DEF Created
  <2> QED BY <2>1, <2>2, FS_Subset
<1>2. \A a \in T : IsFiniteSet(Later(a)) /\ Cardinality(Later(a)) \in Nat
  BY <1>1, FS_Subset, FS_CardinalityType
<1>3. Sizes \in SUBSET Nat /\ Sizes # {}
  BY <1>2
<1>4. PICK d \in Sizes : \A c \in Sizes : d <= c
  <2> HIDE DEF Sizes
  <2> QED BY <1>3, LeastNatural
<1>5. PICK a \in T : d = Cardinality(Later(a))
  OBVIOUS
<1>6. ASSUME NEW b \in T, <<b, a>> \in newer PROVE FALSE
  <2>1. Later(b) \subseteq Later(a) /\ b \in Later(a) /\ b \notin Later(b)
    BY <1>1, <1>6 DEF UpdatesAreOrdered
  <2>2. Cardinality(Later(b)) \in Sizes
    OBVIOUS
  <2> HIDE DEF Later, Sizes
  <2>3. Later(b) # Later(a)
    BY <2>1
  <2>4. Cardinality(Later(b)) < Cardinality(Later(a))
    BY <1>2, <2>1, <2>3, FS_Subset
  <2> QED BY <1>2, <1>3, <1>4, <1>5, <2>2, <2>4
<1>7. a \in MostRecentOf(T)
  BY <1>6 DEF UpdatesAreOrdered, MostRecentOf
<1> QED BY <1>7

-----------------------------------------------------------------------------
(* Touch keeps the order of updates one of attempts.                       *)
LEMMA TouchType ==
  ASSUME newer \subseteq Attempts \X Attempts, NEW a \in Attempts, Touch(a)
  PROVE  newer' \subseteq Attempts \X Attempts
  BY DEF Touch, Created

(* An error row names an attempt and a document.                           *)
LEMMA RecordErrorType ==
  ASSUME TypeOK, NEW a \in Attempts, NEW d \in Docs, RecordError(a, d)
  PROVE  errors' \in [Attempts -> SUBSET Docs]
  BY DEF TypeOK, RowTypeOK, RecordError

(* The queues after a message of attempt a                                 *)
Enqueued(a) ==
    /\ queue' \in [Attempts -> [BatchNums -> Nat]]
    /\ \A b \in Attempts : b # a => queue'[b] = queue[b]

(* A message that is sent adds to its own attempt's queue alone.           *)
LEMMA SendType ==
  ASSUME TypeOK, NEW a \in Attempts, NEW n, SendMessage(a, n)
  PROVE  Enqueued(a)
<1>1. queue[a] \in [BatchNums -> Nat]
  BY DEF TypeOK, BusTypeOK
<1>2. [queue[a] EXCEPT ![n] = queue[a][n] + 1] \in [BatchNums -> Nat]
  <2>1. CASE n \in BatchNums
    BY <1>1, <2>1
  <2>2. CASE n \notin BatchNums
    BY <1>1, <2>2
  <2> QED BY <2>1, <2>2
<1> QED BY <1>1, <1>2 DEF TypeOK, BusTypeOK, SendMessage, Enqueued

(* One that is taken, or lost, was in it.                                  *)
LEMMA TakeType ==
  ASSUME TypeOK, NEW a \in Attempts, NEW n \in BatchNums, TakeMessage(a, n)
  PROVE  /\ queue[a][n] > 0
         /\ queue' \in [Attempts -> [BatchNums -> Nat]]
         /\ \A b \in Attempts, m \in BatchNums : queue'[b][m] <= queue[b][m]
  BY DEF TypeOK, BusTypeOK, TakeMessage

(* The rows and the counters after a verdict                               *)
Marked ==
    /\ status' \in [Attempts -> Statuses]
    /\ taskId' \in [Attempts -> BOOLEAN]
    /\ newer' \subseteq Attempts \X Attempts
    /\ pending' \in [Attempts -> Nat]
    /\ inFlight' \in [Attempts -> Nat]
    /\ \A a \in Attempts : Exists(a) => Exists(a)'

(* mark_attempt_*: what the verdicts leave typed, whatever the row said.   *)
LEMMA MarkType ==
  ASSUME TypeOK, NEW a \in Attempts, NEW s \in Terminal, Mark(a, s)
  PROVE  Marked
  BY TouchType DEF TypeOK, RowTypeOK, BusTypeOK, Mark, SetFinal, ResetCounters,
     Statuses, Terminal, Succeeded, Resumable, Marked, Exists

(* mark_attempt_canceled, likewise.                                        *)
LEMMA MarkCanceledType ==
  ASSUME TypeOK, NEW a \in Attempts, MarkCanceled(a)
  PROVE  Marked
  BY TouchType DEF TypeOK, RowTypeOK, BusTypeOK, MarkCanceled, SetCanceled,
     ResetCounters, Statuses, Terminal, Resumable, Marked, Exists

(* mark_attempt_interrupted, which may do nothing.                         *)
LEMMA MarkInterruptedType ==
  ASSUME TypeOK, NEW a \in Attempts, MarkInterrupted(a)
  PROVE  Marked
  BY MarkType DEF MarkInterrupted, markVars, Terminal, Resumable, Marked,
     TypeOK, RowTypeOK, BusTypeOK, Exists

(* A docprocessing task that moves on keeps its attempt and its document.  *)
LEMMA StepType ==
  ASSUME TypeOK, NEW w \in Workers, NEW p \in TaskPlaces, Step(w, p)
  PROVE  /\ worker' \in [Workers -> TaskType]
         /\ worker'[w].at = p
         /\ worker'[w].a = worker[w].a
         /\ worker'[w].doc = worker[w].doc
         /\ \A v \in Workers : v # w => worker'[v] = worker[v]
<1>1. worker[w] \in TaskType /\ worker \in [Workers -> TaskType]
  BY DEF TypeOK, ProcessTypeOK
<1>2. [worker[w] EXCEPT !.at = p] \in TaskType
  BY <1>1 DEF TaskType
<1>3. worker' = [worker EXCEPT ![w] = [worker[w] EXCEPT !.at = p]]
  BY DEF Step
<1>4. /\ worker' \in [Workers -> TaskType]
      /\ worker'[w] = [worker[w] EXCEPT !.at = p]
      /\ \A v \in Workers : v # w => worker'[v] = worker[v]
  BY <1>1, <1>2, <1>3
<1> QED BY <1>1, <1>4 DEF TaskType

(* The threads after one of them took a step                               *)
MovedOn ==
    /\ worker' \in [Workers -> TaskType]
    /\ \A v \in Workers :
         /\ worker'[v].at # "idle" => /\ worker[v].at # "idle"
                                     /\ worker'[v].a = worker[v].a
         /\ worker'[v].at \notin {"idle", "post"}
              => /\ worker[v].at \notin {"idle", "post"}
                 /\ worker'[v].doc = worker[v].doc

(* A task that moves on is one that was busy with the same document.       *)
LEMMA StepMovesOn ==
  ASSUME TypeOK, NEW w \in Workers, NEW p \in TaskPlaces, Step(w, p),
         worker[w].at \notin {"idle", "post"}
  PROVE  MovedOn
  BY StepType DEF MovedOn

(* So is one whose document fails.                                         *)
LEMMA DocumentFailsMovesOn ==
  ASSUME TypeOK, NEW w \in Workers, DocumentFails(w)
  PROVE  MovedOn
<1> DEFINE t == [worker[w] EXCEPT !.at = "count", !.ok = FALSE]
<1>1. worker[w] \in TaskType /\ worker \in [Workers -> TaskType]
  BY DEF TypeOK, ProcessTypeOK
<1>2. t \in TaskType /\ t.a = worker[w].a /\ t.doc = worker[w].doc
  BY <1>1 DEF TaskType, TaskPlaces
<1>3. worker' = [worker EXCEPT ![w] = t]
  BY DEF DocumentFails
<1>4. worker[w].at = "index"
  BY DEF DocumentFails
<1> HIDE DEF t
<1> QED BY <1>1, <1>2, <1>3, <1>4 DEF MovedOn

(* An idle thread has the type of a task.                                  *)
LEMMA IdleType == Idle \in TaskType
  BY IndexAttemptAssumption DEF Idle, TaskType, TaskPlaces, Attempts,
     BatchNums, NoDoc

(* A task that ends leaves the other threads alone.                        *)
LEMMA TaskEnds ==
  ASSUME TypeOK, NEW w \in Workers, worker' = [worker EXCEPT ![w] = Idle]
  PROVE  MovedOn
<1>1. worker \in [Workers -> TaskType]
  BY DEF TypeOK, ProcessTypeOK
<1>2. worker' \in [Workers -> TaskType] /\ worker'[w] = Idle
      /\ \A v \in Workers : v # w => worker'[v] = worker[v]
  BY <1>1, IdleType
<1>3. Idle.at = "idle"
  BY DEF Idle
<1> QED BY <1>2, <1>3 DEF MovedOn

-----------------------------------------------------------------------------
(* What docfetching reads and computes has the type of what it is kept in  *)
LEMMA WindowType ==
  ASSUME TypeOK, NEW a \in Attempts, NEW p \in Attempts \cup {None}
  PROVE  [start |-> WindowStart(a), end |-> WindowEnd(a, p)] \in Window
<1>1. \A b \in Attempts : window[b] # None => window[b].end \in Attempts
  BY DEF TypeOK, RowTypeOK, Window
<1>2. LastSuccessEnds \in SUBSET Attempts
  BY <1>1 DEF LastSuccessEnds
<1>3. WindowStart(a) \in 0..MaxAttempts
  <2>1. CASE fromBeginning[a] \/ LastSuccessEnds = {}
    BY <2>1, IndexAttemptAssumption DEF WindowStart
  <2>2. CASE ~fromBeginning[a] /\ LastSuccessEnds # {}
    <3> DEFINE e == CHOOSE e \in LastSuccessEnds :
                      \A f \in LastSuccessEnds : f <= e
    <3>1. e \in LastSuccessEnds
      BY <1>2, <2>2, GreatestUpTo, IndexAttemptAssumption DEF Attempts
    <3>2. WindowStart(a) = e
      BY <2>2 DEF WindowStart
    <3> HIDE DEF e
    <3> QED BY <1>2, <3>1, <3>2, IndexAttemptAssumption DEF Attempts
  <2> QED BY <2>1, <2>2
<1>4. WindowEnd(a, p) \in Attempts
  BY <1>1 DEF WindowEnd
<1> QED BY <1>3, <1>4 DEF Window

(* The checkpoint a run starts from is a position in the source.           *)
LEMMA LatestCheckpointType ==
  ASSUME IInv, NEW a \in Attempts
  PROVE  LatestCheckpoint(a) \in 0..NDocs
<1>1. CASE Candidates(a) = {}
  BY <1>1, IndexAttemptAssumption DEF LatestCheckpoint
<1>2. CASE Candidates(a) # {}
  <2> DEFINE c == CHOOSE c \in MostRecentOf(Candidates(a)) : TRUE
  <2>1. Candidates(a) \in SUBSET Created
    BY DEF Candidates, Finished, IsTerminal, Terminal, Succeeded, Resumable,
       Created
  <2>2. c \in Candidates(a)
    BY <1>2, <2>1, LastUpdated DEF IInv, MostRecentOf
  <2>3. LatestCheckpoint(a) = checkpoint[c]
    BY <1>2 DEF LatestCheckpoint
  <2> HIDE DEF c
  <2> QED
    BY <2>2, <2>3 DEF IInv, LocalInv, TypeOK, RowTypeOK, Candidates, Finished
<1> QED BY <1>1, <1>2

(* The stored batches are finitely many.                                   *)
LEMMA StoredBatchesFinite ==
  /\ StoredBatches \in SUBSET (Attempts \X BatchNums)
  /\ Cardinality(StoredBatches) \in Nat
<1>1. IsFiniteSet(Attempts) /\ IsFiniteSet(BatchNums)
  BY IndexAttemptAssumption, FS_Interval DEF Attempts, BatchNums
<1>2. IsFiniteSet(Attempts \X BatchNums)
  BY <1>1, FS_Product
<1>3. StoredBatches \in SUBSET (Attempts \X BatchNums)
  BY DEF StoredBatches
<1> QED BY <1>2, <1>3, FS_Subset, FS_CardinalityType

(* Renaming keeps the store typed, whichever batch survives a clash.       *)
LEMMA AdoptBatchesType ==
  ASSUME TypeOK, NEW a \in Attempts, AdoptBatches(a)
  PROVE  /\ files' \in [Attempts -> [BatchNums -> Docs \cup {NoDoc}]]
         /\ trampled' \in BOOLEAN
<1>1. PICK pick \in [{b[2] : b \in StoredBatches} -> Attempts] :
          files' = [NoFiles EXCEPT ![a] =
                         [n \in BatchNums |-> IF n \in DOMAIN pick
                                             THEN files[pick[n]][n]
                                             ELSE NoDoc]]
  BY DEF AdoptBatches
<1>2. [n \in BatchNums |-> IF n \in DOMAIN pick THEN files[pick[n]][n]
                                               ELSE NoDoc]
         \in [BatchNums -> Docs \cup {NoDoc}]
  BY DEF TypeOK, BusTypeOK
<1>3. files' \in [Attempts -> [BatchNums -> Docs \cup {NoDoc}]]
  BY <1>1, <1>2 DEF NoFiles
<1> QED BY <1>3 DEF AdoptBatches, TypeOK, BusTypeOK

(* The actions of docfetching that write to the locals of its process      *)
JobWritten(a) ==
    /\ job' \in [Attempts -> JobType]
    /\ \A b \in Attempts : b # a => job'[b] = job[b]

(* A process writes to its own locals alone.                               *)
LEMMA JobUpdate ==
  ASSUME TypeOK, NEW a \in Attempts, NEW j \in JobType,
         job' = [job EXCEPT ![a] = j]
  PROVE  JobWritten(a)
  BY DEF TypeOK, FetchTypeOK, JobWritten

(* The locals of a process and the number of documents.                    *)
LEMMA JobIsTyped ==
  ASSUME TypeOK, NEW a \in Attempts
  PROVE  job[a] \in JobType /\ NDocs \in Nat
  BY IndexAttemptAssumption DEF TypeOK, FetchTypeOK

(* The locals stay typed when the window is chosen,                        *)
LEMMA ChooseWindowJob ==
  ASSUME TypeOK, NEW a \in Attempts, NEW p \in Attempts \cup {None},
         job' = [job EXCEPT ![a].prev = p]
  PROVE  JobWritten(a) /\ job'[a].pos = job[a].pos
<1> DEFINE j == [job[a] EXCEPT !.prev = p]
<1>1. j \in JobType /\ j.pos = job[a].pos
  BY JobIsTyped DEF JobType
<1>2. job' = [job EXCEPT ![a] = j]
  OBVIOUS
<1>3. job'[a] = j
  BY <1>2 DEF TypeOK, FetchTypeOK
<1> HIDE DEF j
<1> QED BY <1>1, <1>2, <1>3, JobUpdate

(* when a run resumes,                                                     *)
LEMMA ResumeFromCheckpointJob ==
  ASSUME IInv, NEW a \in Attempts, ResumeFromCheckpoint(a)
  PROVE  JobWritten(a)
<1>1. TypeOK /\ job[a] \in JobType /\ NDocs \in Nat
  BY JobIsTyped DEF IInv, LocalInv
<1>2. LatestCheckpoint(a) \in 0..NDocs
  BY LatestCheckpointType
<1>3. job[a].prev # None => completed[job[a].prev] \in Nat
  BY <1>1 DEF TypeOK, RowTypeOK, JobType
<1> DEFINE j == [job[a] EXCEPT !.pos = LatestCheckpoint(a),
                    !.carried = IF job[a].prev = None THEN 0
                                ELSE completed[job[a].prev]]
<1>4. j \in JobType
  BY <1>1, <1>2, <1>3 DEF JobType
<1>5. job' = [job EXCEPT ![a] = j]
  BY DEF ResumeFromCheckpoint
<1> HIDE DEF j
<1> QED BY <1>1, <1>4, <1>5, JobUpdate

(* when it discards the batches it found,                                  *)
LEMMA DiscardOldBatchesJob ==
  ASSUME IInv, NEW a \in Attempts, DiscardOldBatches(a)
  PROVE  JobWritten(a)
<1>1. TypeOK /\ job[a] \in JobType /\ NDocs \in Nat
  BY JobIsTyped DEF IInv, LocalInv
<1>2. LatestCheckpoint(a) \in 0..NDocs
  BY LatestCheckpointType
<1> DEFINE j == [job[a] EXCEPT !.pos = IF StartsOver(a) THEN 0
                                             ELSE LatestCheckpoint(a)]
<1>3. j \in JobType
  BY <1>1, <1>2 DEF JobType
<1>4. job' = [job EXCEPT ![a] = j]
  BY DEF DiscardOldBatches
<1> HIDE DEF j
<1> QED BY <1>1, <1>3, <1>4, JobUpdate

(* when it adopts them,                                                    *)
LEMMA AdoptOldBatchesJob ==
  ASSUME IInv, NEW a \in Attempts, AdoptOldBatches(a)
  PROVE  JobWritten(a)
<1>1. TypeOK /\ job[a] \in JobType /\ NDocs \in Nat
  BY JobIsTyped DEF IInv, LocalInv
<1>2. /\ StoredBatches \in SUBSET (Attempts \X BatchNums)
      /\ Cardinality(StoredBatches) \in Nat
  BY StoredBatchesFinite
<1>3. Cardinality(StoredBatches) + job[a].carried \in Nat
  BY <1>1, <1>2 DEF JobType
<1> DEFINE j == [job[a] EXCEPT !.old = StoredBatches,
                    !.num = Cardinality(StoredBatches) + job[a].carried]
<1>4. j \in JobType
  BY <1>1, <1>2, <1>3 DEF JobType
<1>5. job' = [job EXCEPT ![a] = j]
  BY DEF AdoptOldBatches
<1> HIDE DEF j
<1> QED BY <1>1, <1>4, <1>5, JobUpdate

(* when it counts the next batch to send,                                  *)
LEMMA CountsJob ==
  ASSUME TypeOK, NEW a \in Attempts, Counts(a)
  PROVE  JobWritten(a) /\ job'[a].pos = job[a].pos
<1> DEFINE j == [job[a] EXCEPT !.counted = TRUE]
<1>1. j \in JobType /\ j.pos = job[a].pos
  BY JobIsTyped DEF JobType
<1>2. job' = [job EXCEPT ![a] = j]
  BY DEF Counts
<1>3. job'[a] = j
  BY <1>2 DEF TypeOK, FetchTypeOK
<1> HIDE DEF j
<1> QED BY <1>1, <1>2, <1>3, JobUpdate

(* when it sends one of them again,                                        *)
LEMMA ReissueBatchJob ==
  ASSUME IInv, NEW a \in Attempts, ReissueBatch(a)
  PROVE  JobWritten(a)
<1>1. TypeOK /\ job[a] \in JobType
  BY JobIsTyped DEF IInv, LocalInv
<1>2. PICK b \in job[a].old :
        job' = [job EXCEPT ![a].old = @ \ {b}, ![a].counted = FALSE]
  BY DEF ReissueBatch
<1> DEFINE j == [job[a] EXCEPT !.old = job[a].old \ {b}, !.counted = FALSE]
<1>3. j \in JobType
  BY <1>1 DEF JobType
<1>4. job' = [job EXCEPT ![a] = j]
  BY <1>2
<1> HIDE DEF j
<1> QED BY <1>1, <1>3, <1>4, JobUpdate

(* when it has queued a batch, of a document that was still to come,       *)
LEMMA QueueFetchedBatchJob ==
  ASSUME IInv, NEW a \in Attempts, QueueFetchedBatch(a)
  PROVE  JobWritten(a)
<1>1. TypeOK /\ job[a] \in JobType /\ NDocs \in Nat
  BY JobIsTyped DEF IInv, LocalInv
<1>2. job[a].pos < NDocs
  BY DEF IInv, LocalInv, DocumentsInHand, QueueFetchedBatch
<1>3. job[a].pos + 1 \in 0..NDocs /\ job[a].num + 1 \in Nat
  BY <1>1, <1>2 DEF JobType
<1> DEFINE j == [job[a] EXCEPT !.pos = job[a].pos + 1, !.num = job[a].num + 1,
                    !.counted = FALSE]
<1>4. j \in JobType
  BY <1>1, <1>2, <1>3 DEF JobType
<1>5. job' = [job EXCEPT ![a] = j]
  BY DEF QueueFetchedBatch
<1> HIDE DEF j
<1> QED BY <1>1, <1>4, <1>5, JobUpdate

(* and when the connector yields a failure instead of one.                 *)
LEMMA YieldFailureJob ==
  ASSUME IInv, NEW a \in Attempts, YieldFailure(a)
  PROVE  JobWritten(a)
<1>1. TypeOK /\ job[a] \in JobType /\ NDocs \in Nat
  BY JobIsTyped DEF IInv, LocalInv
<1>2. job[a].pos < NDocs
  BY DEF YieldFailure, HasMore
<1>3. job[a].pos + 1 \in 0..NDocs /\ job[a].failures + 1 \in Nat
  BY <1>1, <1>2 DEF JobType
<1> DEFINE j == [job[a] EXCEPT !.pos = job[a].pos + 1,
                    !.failures = job[a].failures + 1]
<1>4. j \in JobType
  BY <1>1, <1>2, <1>3 DEF JobType
<1>5. job' = [job EXCEPT ![a] = j]
  BY DEF YieldFailure
<1> HIDE DEF j
<1> QED BY <1>1, <1>4, <1>5, JobUpdate

(* The beat task's own variable is typed at rest,                          *)
LEMMA BeatIdleType ==
  /\ BeatIdle \in [at : BeatPlaces, a : Attempts, outcome : Succeeded]
  /\ BeatIdle.at = "idle"
  BY IndexAttemptAssumption DEF BeatIdle, BeatPlaces, Attempts, Succeeded

(* and while it works on an attempt.                                       *)
LEMMA BeatGoesOn ==
  ASSUME TypeOK, NEW a \in Attempts, NEW p \in BeatPlaces,
         NEW o \in Succeeded
  PROVE  /\ [beat EXCEPT !.at = p, !.a = a]
              \in [at : BeatPlaces, a : Attempts, outcome : Succeeded]
         /\ [beat EXCEPT !.at = p, !.a = a].a = a
         /\ [beat EXCEPT !.at = p, !.outcome = o]
              \in [at : BeatPlaces, a : Attempts, outcome : Succeeded]
         /\ [beat EXCEPT !.at = p, !.outcome = o].a = beat.a
         /\ [beat EXCEPT !.at = p]
              \in [at : BeatPlaces, a : Attempts, outcome : Succeeded]
         /\ [beat EXCEPT !.at = p].a = beat.a
  BY DEF TypeOK, BeatTypeOK

(* What a run from scratch discards are documents.                         *)
LEMMA DiscardsType ==
  ASSUME TypeOK, NEW a \in Attempts
  PROVE  Discards(a) \subseteq Docs
BY DEF Discards, StoredDocs, StoredBatches, HasFile, TypeOK, BusTypeOK

(* Types, actors and documents after a step of the docfetching task,       *)
LEMMA ProxyStepLocal ==
  ASSUME IInv, NEW a \in Attempts, ProxyStep(a)
  PROVE  LocalInv'
<1> USE DEF IInv, LocalInv, TypeOK, RowTypeOK, BusTypeOK, FetchTypeOK,
        ProcessTypeOK, BeatTypeOK, TaskType, ActorsHaveAttempts,
        DocumentsInHand, Exists, rowVars, attemptVars, ccVars, busVars,
        fetchVars, processVars,
        fetchOnly, Goto, ProcessPlaces, Running, Preparing, Extracting,
        ProxyPlaces
<1>0. /\ UNCHANGED <<processVars, beat, admin>> /\ faults' \in Nat
      /\ discarded' \subseteq Docs /\ missed' \in [Attempts -> Nat]
  BY DEF ProxyStep
<1>1. CASE SpawnProcess(a)
  BY <1>0, <1>1 DEF SpawnProcess
<1>2. CASE DropRevoked(a)
  BY <1>0, <1>2 DEF DropRevoked
<1>3. CASE ProcessDone(a)
  BY <1>0, <1>3 DEF ProcessDone
<1>4. CASE ReportFailure(a)
  BY <1>0, <1>4 DEF ReportFailure
<1>5. CASE AttemptFinalized(a)
  BY <1>0, <1>5 DEF AttemptFinalized
<1>6. CASE TerminateProcess(a)
  BY <1>0, <1>6 DEF TerminateProcess
<1>7. CASE MarkReported(a)
  <2>1. Marked
    BY <1>7, MarkType DEF MarkReported, Terminal, Resumable
  <2> QED
    BY <1>0, <1>7, <2>1 DEF MarkReported, Marked
<1> QED
  BY <1>1, <1>2, <1>3, <1>4, <1>5, <1>6, <1>7 DEF ProxyStep

(* of its process,                                                         *)
LEMMA FetchStepLocal ==
  ASSUME IInv, NEW a \in Attempts, FetchStep(a)
  PROVE  LocalInv'
<1> USE DEF IInv, LocalInv, TypeOK, RowTypeOK, BusTypeOK, FetchTypeOK,
        ProcessTypeOK, BeatTypeOK, TaskType, ActorsHaveAttempts,
        DocumentsInHand, Exists, rowVars, attemptVars, ccVars, busVars,
        fetchVars, processVars,
        fetchOnly, Goto, ProcessPlaces, Running, Preparing, Extracting,
        ProxyPlaces
<1>0. /\ UNCHANGED <<processVars, beat, admin>> /\ faults' \in Nat
      /\ discarded' \subseteq Docs /\ missed' \in [Attempts -> Nat]
  BY DiscardsType DEF FetchStep
<1>1. CASE VerifyAttempt(a)
  BY <1>0, <1>1 DEF VerifyAttempt
<1>2. CASE StartAttempt(a)
  <2>1. newer' \subseteq Attempts \X Attempts
    BY <1>2, TouchType DEF StartAttempt, TransitionToInProgress
  <2> QED
    BY <1>0, <1>2, <2>1 DEF StartAttempt, TransitionToInProgress, Statuses,
         Active
<1>3. CASE RefuseStart(a)
  BY <1>0, <1>3 DEF RefuseStart
<1>4. CASE ChooseWindow(a)
  <2>1. PICK p \in Attempts \cup {None} :
          /\ job' = [job EXCEPT ![a].prev = p]
          /\ window' = [window EXCEPT ![a] = [start |-> WindowStart(a),
                                              end |-> WindowEnd(a, p)]]
    BY <1>4 DEF ChooseWindow, MostRecentOf, Finished
  <2>2. newer' \subseteq Attempts \X Attempts
    BY <1>4, TouchType DEF ChooseWindow
  <2>3. window' \in [Attempts -> Window \cup {None}]
    BY <2>1, WindowType
  <2>4. JobWritten(a)
    BY <2>1, ChooseWindowJob
  <2> QED
    BY <1>0, <1>4, <2>2, <2>3, <2>4 DEF ChooseWindow, JobWritten
<1>5. CASE ResumeFromCheckpoint(a)
  <2>1. JobWritten(a)
    BY <1>5, ResumeFromCheckpointJob
  <2> QED
    BY <1>0, <1>5, <2>1 DEF ResumeFromCheckpoint, JobWritten
<1>6. CASE DiscardOldBatches(a)
  <2>1. JobWritten(a)
    BY <1>6, DiscardOldBatchesJob
  <2> QED
    BY <1>0, <1>6, <2>1 DEF DiscardOldBatches, JobWritten, CleanupAllBatches,
         NoFiles
<1>7. CASE AdoptOldBatches(a)
  <2>1. JobWritten(a)
    BY <1>7, AdoptOldBatchesJob
  <2>2. /\ files' \in [Attempts -> [BatchNums -> Docs \cup {NoDoc}]]
        /\ trampled' \in BOOLEAN
    BY <1>7, AdoptBatchesType DEF AdoptOldBatches
  <2> QED
    BY <1>0, <1>7, <2>1, <2>2 DEF AdoptOldBatches, JobWritten
<1>8. CASE ReissueBatch(a)
  <2>1. JobWritten(a)
    BY <1>8, ReissueBatchJob
  <2>2. Enqueued(a)
    BY <1>8, SendType DEF ReissueBatch
  <2> QED
    BY <1>0, <1>8, <2>1, <2>2 DEF ReissueBatch, JobWritten, Enqueued
<1>9. CASE CarryCompleted(a)
  <2>1. newer' \subseteq Attempts \X Attempts
    BY <1>9, TouchType DEF CarryCompleted
  <2>2. job[a] \in JobType
    BY <1>9
  <2> QED
    BY <1>0, <1>9, <2>1, <2>2 DEF CarryCompleted, JobType
<1>10. CASE SaveFirstCheckpoint(a)
  <2>1. newer' \subseteq Attempts \X Attempts
    BY <1>10, TouchType DEF SaveFirstCheckpoint, SetCheckpoint
  <2> QED
    BY <1>0, <1>10, <2>1 DEF SaveFirstCheckpoint, SetCheckpoint, JobType
<1>11. CASE YieldBatch(a)
  BY <1>0, <1>11 DEF YieldBatch, HasMore
<1>12. CASE YieldCheckpoint(a)
  BY <1>0, <1>12 DEF YieldCheckpoint
<1>13. CASE StopOnSignal(a)
  <2>1. Marked
    BY <1>13, MarkCanceledType DEF StopOnSignal
  <2> QED
    BY <1>0, <1>13, <2>1 DEF StopOnSignal, Marked
<1>14. CASE RaiseNotRunning(a)
  BY <1>0, <1>14 DEF RaiseNotRunning
<1>15. CASE StoreFetchedBatch(a)
  <2>1. NDocs \in Nat
    BY IndexAttemptAssumption
  <2> QED
    BY <1>0, <1>15, <2>1 DEF StoreFetchedBatch, StoreBatch, HasFile, Docs,
         JobType
<1>16. CASE QueueFetchedBatch(a)
  <2>1. JobWritten(a)
    BY <1>16, QueueFetchedBatchJob
  <2>2. Enqueued(a)
    BY <1>16, SendType DEF QueueFetchedBatch
  <2> QED
    BY <1>0, <1>16, <2>1, <2>2 DEF QueueFetchedBatch, JobWritten, Enqueued
<1>17. CASE SaveRunCheckpoint(a)
  <2>1. newer' \subseteq Attempts \X Attempts
    BY <1>17, TouchType DEF SaveRunCheckpoint, SetCheckpoint
  <2> QED
    BY <1>0, <1>17, <2>1 DEF SaveRunCheckpoint, SetCheckpoint, JobType
<1>18. CASE FinishExtraction(a)
  <2>1. newer' \subseteq Attempts \X Attempts
    BY <1>18, TouchType DEF FinishExtraction
  <2> QED
    BY <1>0, <1>18, <2>1 DEF FinishExtraction, JobType
<1>19. CASE HandleException(a)
  BY <1>0, <1>19 DEF HandleException
<1>20. CASE MarkRaised(a)
  <2>1. Marked
    BY <1>20, MarkType DEF MarkRaised, Terminal, Resumable
  <2> QED
    BY <1>0, <1>20, <2>1 DEF MarkRaised, Marked
<1>21. CASE CountBatchToSend(a)
  <2>1. JobWritten(a) /\ job'[a].pos = job[a].pos
    BY <1>21, CountsJob DEF CountBatchToSend
  <2>2. pending' \in [Attempts -> Nat]
    BY <1>21 DEF CountBatchToSend, IncrPending
  <2> QED
    BY <1>0, <1>21, <2>1, <2>2 DEF CountBatchToSend, JobWritten
<1> QED
  BY <1>1, <1>2, <1>3, <1>4, <1>5, <1>6, <1>7, <1>8, <1>9, <1>10, <1>11,
     <1>12, <1>13, <1>14, <1>15, <1>16, <1>17, <1>18, <1>19, <1>20, <1>21
     DEF FetchStep

(* after a fault of either,                                                *)
LEMMA FetchFaultLocal ==
  ASSUME IInv, NEW a \in Attempts, FetchFault(a)
  PROVE  LocalInv'
<1> USE DEF IInv, LocalInv, TypeOK, RowTypeOK, BusTypeOK, FetchTypeOK,
        ProcessTypeOK, BeatTypeOK, TaskType, ActorsHaveAttempts,
        DocumentsInHand, Exists, rowVars, attemptVars, ccVars, busVars,
        fetchVars, processVars,
        fetchOnly, Goto, ProcessPlaces, Running, Preparing, Extracting,
        ProxyPlaces
<1>0. /\ UNCHANGED <<processVars, beat, admin>> /\ faults' \in Nat
      /\ discarded' \subseteq Docs /\ missed' \in [Attempts -> Nat]
  BY DEF FetchFault, Fault
<1>1. CASE SpawnFails(a)
  BY <1>0, <1>1 DEF SpawnFails
<1>2. CASE YieldFailure(a)
  <2>1. JobWritten(a)
    BY <1>2, YieldFailureJob
  <2>2. job[a].pos + 1 \in Docs
    BY <1>2, JobIsTyped DEF YieldFailure, HasMore, Docs, JobType
  <2>3. errors' \in [Attempts -> SUBSET Docs]
    BY <1>2, <2>2, RecordErrorType DEF YieldFailure
  <2> QED
    BY <1>0, <1>2, <2>1, <2>3 DEF YieldFailure, JobWritten
<1>3. CASE ExtractionRaises(a)
  BY <1>0, <1>3 DEF ExtractionRaises
<1>4. CASE ValidationFails(a)
  <2>1. Marked
    BY <1>4, MarkCanceledType DEF ValidationFails
  <2> QED
    BY <1>0, <1>4, <2>1 DEF ValidationFails, Marked
<1>5. CASE ProcessDies(a)
  BY <1>0, <1>5 DEF ProcessDies
<1>6. CASE WorkerShutsDown(a)
  <2>1. Marked
    BY <1>6, MarkInterruptedType DEF WorkerShutsDown
  <2> QED
    BY <1>0, <1>6, <2>1 DEF WorkerShutsDown, Marked
<1>7. CASE MemoryLimitExceeded(a)
  <2>1. Marked
    BY <1>7, MarkType DEF MemoryLimitExceeded, Terminal, Resumable
  <2> QED
    BY <1>0, <1>7, <2>1 DEF MemoryLimitExceeded, Marked
<1>8. CASE PodDies(a)
  BY <1>0, <1>8 DEF PodDies
<1>9. CASE CountingMissed(a)
  <2>1. JobWritten(a) /\ job'[a].pos = job[a].pos
    BY <1>9, CountsJob DEF CountingMissed
  <2> QED
    BY <1>0, <1>9, <2>1 DEF CountingMissed, JobWritten
<1> QED
  BY <1>1, <1>2, <1>3, <1>4, <1>5, <1>6, <1>7, <1>8, <1>9 DEF FetchFault

(* A message that is received belongs to an attempt that was created.      *)
LEMMA ReceivesLocal ==
  ASSUME IInv, NEW w \in Workers, NEW a \in Attempts, NEW n \in BatchNums,
         Receives(w, a, n), UNCHANGED <<fetchVars, beat, admin>>,
         pending' \in [Attempts -> Nat], inFlight' \in [Attempts -> Nat],
         faults' \in Nat, discarded' \subseteq Docs,
         missed' \in [Attempts -> Nat]
  PROVE  LocalInv'
<1> USE DEF IInv, LocalInv, TypeOK, RowTypeOK, BusTypeOK, FetchTypeOK,
        ProcessTypeOK, BeatTypeOK, TaskType, ActorsHaveAttempts,
        DocumentsInHand, Exists, ccVars, fetchVars
<1>1. /\ TakeMessage(a, n)
      /\ Touch(a)
      /\ worker' = [worker EXCEPT ![w] =
            [at |-> IF ~HasFile(a, n) THEN "post"
                    ELSE IF MayProcess(a) THEN "index" ELSE "except",
             a |-> a, n |-> n, doc |-> files[a][n], ok |-> TRUE]]
  BY DEF Receives
<1>2. newer' \subseteq Attempts \X Attempts
  BY <1>1, TouchType
<1>3. /\ worker' \in [Workers -> TaskType]
      /\ worker'[w].a = a
      /\ worker'[w].at \notin {"idle", "post"} => worker'[w].doc # NoDoc
      /\ \A v \in Workers : v # w => worker'[v] = worker[v]
  BY <1>1 DEF TaskPlaces, HasFile
<1>4. /\ queue[a][n] > 0
      /\ queue' \in [Attempts -> [BatchNums -> Nat]]
      /\ \A b \in Attempts, m \in BatchNums : queue'[b][m] <= queue[b][m]
  BY <1>1, TakeType
<1> QED
  BY <1>2, <1>3, <1>4 DEF Receives

(* after a step of a docprocessing task,                                   *)
LEMMA WorkerStepLocal ==
  ASSUME IInv, NEW w \in Workers, WorkerStep(w)
  PROVE  LocalInv'
<1> USE DEF IInv, LocalInv, TypeOK, RowTypeOK, BusTypeOK, FetchTypeOK,
        ProcessTypeOK, BeatTypeOK, TaskType, ActorsHaveAttempts,
        DocumentsInHand, Exists, rowVars, attemptVars, ccVars, busVars,
        fetchVars, processVars,
        workerOnly
<1>0. /\ UNCHANGED <<fetchVars, beat, admin>> /\ faults' \in Nat
      /\ discarded' \subseteq Docs /\ missed' \in [Attempts -> Nat]
  BY DEF WorkerStep
<1>1. CASE PickUpBatch(w)
  <2>1. PICK a \in Attempts, n \in BatchNums :
          Receives(w, a, n) /\ CountPickup(a)
    BY <1>1 DEF PickUpBatch
  <2>2. pending' \in [Attempts -> Nat] /\ inFlight' \in [Attempts -> Nat]
    BY <2>1 DEF CountPickup, Decr
  <2> QED
    BY <1>0, <2>1, <2>2, ReceivesLocal
<1>2. CASE IndexBatch(w)
  <2>1. MovedOn
    BY <1>2, StepMovesOn DEF IndexBatch, TaskPlaces
  <2> QED
    BY <1>0, <1>2, <2>1 DEF IndexBatch, MovedOn
<1>3. CASE CountProcessed(w)
  <2>1. MovedOn
    BY <1>3, StepMovesOn DEF CountProcessed, TaskPlaces
  <2>2. newer' \subseteq Attempts \X Attempts
    BY <1>3, TouchType DEF CountProcessed, CountBatch
  <2> QED
    BY <1>0, <1>3, <2>1, <2>2 DEF CountProcessed, MovedOn, CountBatch
<1>4. CASE RecordFailures(w)
  <2>1. MovedOn
    BY <1>4, StepMovesOn DEF RecordFailures, TaskPlaces
  <2> QED
    BY <1>0, <1>4, <2>1 DEF RecordFailures, MovedOn, RecordError
<1>5. CASE DeleteProcessed(w)
  <2>1. MovedOn
    BY <1>5, StepMovesOn DEF DeleteProcessed, TaskPlaces
  <2> QED
    BY <1>0, <1>5, <2>1 DEF DeleteProcessed, MovedOn, DeleteBatch, NoDoc
<1>6. CASE HandleTaskException(w)
  <2>1. MovedOn
    BY <1>6, StepMovesOn DEF HandleTaskException, TaskPlaces
  <2>2. worker[w].a \in Attempts /\ worker[w].doc \in Docs
    BY <1>6 DEF HandleTaskException
  <2>3. RecordError(worker[w].a, worker[w].doc) \/ errors' = errors
    BY <1>6, Zenon DEF HandleTaskException
  <2>4. errors' \in [Attempts -> SUBSET Docs]
    BY <1>6, <2>2, <2>3, RecordErrorType
  <2> QED
    BY <1>0, <1>6, <2>1, <2>2, <2>3, <2>4 DEF HandleTaskException, MovedOn
<1>7. CASE CountFailed(w)
  <2>1. MovedOn
    BY <1>7, StepMovesOn DEF CountFailed, TaskPlaces
  <2>2. newer' \subseteq Attempts \X Attempts
    BY <1>7, TouchType DEF CountFailed, CountBatch
  <2> QED
    BY <1>0, <1>7, <2>1, <2>2 DEF CountFailed, MovedOn, CountBatch
<1>8. CASE FinishTask(w)
  <2>1. MovedOn
    BY <1>8, TaskEnds DEF FinishTask
  <2> QED
    BY <1>0, <1>8, <2>1 DEF FinishTask, MovedOn, CountRelease, Decr
<1> QED
  BY <1>1, <1>2, <1>3, <1>4, <1>5, <1>6, <1>7, <1>8 DEF WorkerStep

(* after a fault of it,                                                    *)
LEMMA WorkerFaultLocal ==
  ASSUME IInv, NEW w \in Workers, WorkerFault(w)
  PROVE  LocalInv'
<1> USE DEF IInv, LocalInv, TypeOK, RowTypeOK, BusTypeOK, FetchTypeOK,
        ProcessTypeOK, BeatTypeOK, TaskType, ActorsHaveAttempts,
        DocumentsInHand, Exists, rowVars, attemptVars, ccVars, busVars,
        fetchVars, processVars,
        workerOnly
<1>0. /\ UNCHANGED <<fetchVars, beat, admin>> /\ faults' \in Nat
      /\ discarded' \subseteq Docs /\ missed' \in [Attempts -> Nat]
  BY DEF WorkerFault, Fault
<1>1. CASE DocumentFails(w)
  <2>1. MovedOn
    BY <1>1, DocumentFailsMovesOn
  <2> QED
    BY <1>0, <1>1, <2>1 DEF DocumentFails, MovedOn
<1>2. CASE TaskRaises(w)
  <2>1. MovedOn
    BY <1>2, StepMovesOn DEF TaskRaises, TaskPlaces
  <2> QED
    BY <1>0, <1>2, <2>1 DEF TaskRaises, MovedOn
<1>3. CASE TaskRaisesLate(w)
  <2>1. MovedOn
    BY <1>3, StepMovesOn DEF TaskRaisesLate, TaskPlaces
  <2> QED
    BY <1>0, <1>3, <2>1 DEF TaskRaisesLate, MovedOn
<1>4. CASE LockTimesOut(w)
  <2>1. MovedOn
    BY <1>4, StepMovesOn DEF LockTimesOut, TaskPlaces
  <2> QED
    BY <1>0, <1>4, <2>1 DEF LockTimesOut, MovedOn
<1>5. CASE WorkerDies(w)
  <2>1. MovedOn
    BY <1>5, TaskEnds DEF WorkerDies
  <2> QED
    BY <1>0, <1>5, <2>1 DEF WorkerDies, MovedOn
<1>6. CASE UsageLimitExceeded(w)
  <2>1. PICK a \in Attempts, n \in BatchNums :
          TakeMessage(a, n) /\ Mark(a, "FAILED")
    BY <1>6 DEF UsageLimitExceeded
  <2>2. Marked
    BY <2>1, MarkType DEF Terminal, Resumable
  <2>3. /\ queue' \in [Attempts -> [BatchNums -> Nat]]
        /\ \A b \in Attempts, m \in BatchNums : queue'[b][m] <= queue[b][m]
    BY <2>1, TakeType
  <2> QED
    BY <1>0, <1>6, <2>2, <2>3 DEF UsageLimitExceeded, Marked
<1>7. CASE ReleaseMissed(w)
  <2>1. MovedOn
    BY <1>7, TaskEnds DEF ReleaseMissed
  <2> QED
    BY <1>0, <1>7, <2>1 DEF ReleaseMissed, MovedOn
<1> QED
  BY <1>1, <1>2, <1>3, <1>4, <1>5, <1>6, <1>7 DEF WorkerFault

(* after a pickup that Redis failed to count,                              *)
LEMMA PickUpFaultLocal ==
  ASSUME IInv, NEW w \in Workers, PickUpFault(w)
  PROVE  LocalInv'
<1>1. PICK a \in Attempts, n \in BatchNums :
        Receives(w, a, n) /\ UNCHANGED <<pending, inFlight>> /\ Misses(a)
  BY DEF PickUpFault, PickUpMissed
<1>2. /\ UNCHANGED <<fetchVars, beat, admin, discarded>>
      /\ TypeOK
      /\ missed' \in [Attempts -> Nat] /\ faults' \in Nat
  BY <1>1 DEF PickUpFault, Fault, Misses, workerOnly, IInv, LocalInv, TypeOK
<1> QED BY <1>1, <1>2, ReceivesLocal DEF TypeOK, BusTypeOK

(* after the broker lost a message,                                        *)
LEMMA BrokerFaultLocal ==
  ASSUME IInv, NEW a \in Attempts, BrokerFault(a)
  PROVE  LocalInv'
<1>1. PICK n \in BatchNums : LoseMessage(a, n)
  BY DEF BrokerFault
<1>2. /\ TypeOK
      /\ missed' \in [Attempts -> Nat] /\ faults' \in Nat
  BY DEF BrokerFault, Fault, Misses, IInv, LocalInv, TypeOK
<1>3. /\ queue' \in [Attempts -> [BatchNums -> Nat]]
      /\ \A b \in Attempts, m \in BatchNums : queue'[b][m] <= queue[b][m]
  BY <1>1, <1>2, TakeType DEF LoseMessage
<1> QED
  BY <1>1, <1>2, <1>3 DEF BrokerFault, LoseMessage, workerOnly, IInv, LocalInv,
     TypeOK, RowTypeOK, BusTypeOK, FetchTypeOK, ProcessTypeOK, BeatTypeOK,
     TaskType, ActorsHaveAttempts, DocumentsInHand, Exists, rowVars,
     attemptVars, ccVars, fetchVars, processVars

(* after the beat task creates an attempt,                                 *)
LEMMA KickoffLocal ==
  ASSUME IInv, NEW a \in Attempts, KickoffStep(a)
  PROVE  LocalInv'
<1>1. PICK reindex \in BOOLEAN : Kickoff(a, reindex)
  BY CheckForIndexingAssumption DEF KickoffStep
<1>2. TypeOK /\ newer' \subseteq Attempts \X Attempts
  BY <1>1, TouchType DEF Kickoff, CreateAttempt, InsertAttempt, IInv, LocalInv,
     TypeOK, RowTypeOK
<1>3. /\ status' = [status EXCEPT ![a] = "NOT_STARTED"]
      /\ taskId' = [taskId EXCEPT ![a] = TRUE]
      /\ fromBeginning' = [fromBeginning EXCEPT ![a] = reindex]
      /\ beat' = [beat EXCEPT !.at = "send", !.a = a]
      /\ UNCHANGED <<busVars, ccVars, cancel, total, completed, window,
                     checkpoint, errors, fetchVars, processVars, admin,
                     faults, discarded, missed>>
  BY <1>1 DEF KickoffStep, Kickoff, CreateAttempt, InsertAttempt, beatOnly
<1>4. BeatTypeOK' /\ beat'.a = a
  <2>1. "send" \in BeatPlaces /\ beat.outcome \in Succeeded
    BY <1>2 DEF TypeOK, BeatTypeOK, BeatPlaces
  <2> QED BY <1>2, <1>3, <2>1, BeatGoesOn DEF BeatTypeOK
<1> QED
  BY <1>1, <1>2, <1>3, <1>4 DEF IInv, LocalInv, TypeOK, RowTypeOK, BusTypeOK,
     FetchTypeOK, ProcessTypeOK, TaskType, ActorsHaveAttempts,
     DocumentsInHand, Exists, ccVars, busVars, fetchVars, processVars,
     Statuses, Active

(* after it validates one,                                                 *)
LEMMA ValidateLocal ==
  ASSUME IInv, NEW a \in Attempts, ValidateAttempt(a)
  PROVE  LocalInv'
<1> USE DEF IInv, LocalInv, TypeOK, RowTypeOK, BusTypeOK, FetchTypeOK,
        ProcessTypeOK, BeatTypeOK, TaskType, ActorsHaveAttempts,
        DocumentsInHand, Exists, rowVars, attemptVars, ccVars, busVars,
        fetchVars, processVars,
        beatOnly, markFrame
<1>0. /\ UNCHANGED <<fetchVars, processVars, admin>> /\ faults' \in Nat
      /\ discarded' \subseteq Docs /\ missed' \in [Attempts -> Nat]
  BY DEF ValidateAttempt
<1>1. CASE FailStale(a, Beating(a))
  <2>1. Marked
    BY <1>1, MarkType DEF FailStale, Terminal, Resumable
  <2> QED
    BY <1>0, <1>1, <2>1 DEF FailStale, Marked
<1>2. CASE FailLost(a, MessageLives(a))
  <2>1. Marked
    BY <1>2, MarkType DEF FailLost, Terminal, Resumable
  <2> QED
    BY <1>0, <1>2, <2>1 DEF FailLost, Marked
<1> QED
  BY <1>1, <1>2 DEF ValidateAttempt

(* after it starts to monitor one,                                         *)
LEMMA MonitorLocal ==
  ASSUME IInv, NEW a \in Attempts, Monitor(a)
  PROVE  LocalInv'
<1> USE DEF IInv, LocalInv, TypeOK, Monitor, StartMonitoring
<1>1. BeatTypeOK' /\ beat'.a = a
  <2>1. "monitor" \in BeatPlaces /\ beat.outcome \in Succeeded
    BY DEF BeatTypeOK, BeatPlaces
  <2> QED BY <2>1, BeatGoesOn DEF BeatTypeOK
<1>2. Exists(a)
  BY DEF Exists, IsActive, Active
<1> QED
  BY <1>1, <1>2 DEF beatOnly, RowTypeOK, BusTypeOK, FetchTypeOK, ProcessTypeOK,
     TaskType, ActorsHaveAttempts, DocumentsInHand, Exists, attemptVars,
     busVars, fetchVars, processVars, CCStatuses, ActiveCC

(* after a heartbeat,                                                      *)
LEMMA HeartbeatLocal ==
  ASSUME IInv, NEW a \in Attempts, Heartbeat(a)
  PROVE  LocalInv'
<1>1. newer' \subseteq Attempts \X Attempts
  BY TouchType DEF Heartbeat, IInv, LocalInv, TypeOK, RowTypeOK
<1> QED
  BY <1>1 DEF Heartbeat, IInv, LocalInv, TypeOK, beatOnly, RowTypeOK,
     BusTypeOK, FetchTypeOK, ProcessTypeOK, BeatTypeOK, TaskType,
     ActorsHaveAttempts, DocumentsInHand, Exists, ccVars, busVars,
     fetchVars, processVars

(* after the docfetching message is sent,                                  *)
LEMMA SendLocal ==
  ASSUME IInv, SendStep
  PROVE  LocalInv'
<1>1. beat.a \in Attempts /\ Exists(beat.a)
  BY DEF IInv, LocalInv, TypeOK, BeatTypeOK, ActorsHaveAttempts, SendStep,
     SendFetching
<1>2. BeatTypeOK' /\ beat'.at = "idle"
  BY BeatIdleType DEF BeatTypeOK, SendStep, SendFetching
<1> QED
  BY <1>1, <1>2 DEF SendStep, SendFetching, Goto, IInv, LocalInv, TypeOK,
     RowTypeOK, BusTypeOK, FetchTypeOK, ProcessTypeOK, TaskType,
     ActorsHaveAttempts, DocumentsInHand, Exists, rowVars, attemptVars, ccVars,
     busVars, processVars, ProcessPlaces

(* after a step of the monitoring,                                         *)
LEMMA MonitorStepLocal ==
  ASSUME IInv, MonitorStep
  PROVE  LocalInv'
<1> USE DEF IInv, LocalInv, TypeOK, RowTypeOK, BusTypeOK, FetchTypeOK,
        ProcessTypeOK, BeatTypeOK, TaskType, ActorsHaveAttempts,
        DocumentsInHand, Exists, rowVars, attemptVars, ccVars, busVars,
        fetchVars, processVars,
        beatOnly, markFrame
<1>0. /\ UNCHANGED <<fetchVars, processVars, admin>> /\ faults' \in Nat
      /\ discarded' \subseteq Docs /\ missed' \in [Attempts -> Nat]
  BY DEF MonitorStep
<1>1. CASE CancelRequested
  <2>1. Marked
    BY <1>1, MarkCanceledType DEF CancelRequested
  <2>2. BeatTypeOK' /\ beat'.at = "idle"
    BY <1>1, BeatIdleType DEF CancelRequested
  <2> QED
    BY <1>0, <1>1, <2>1, <2>2 DEF CancelRequested, Marked
<1>2. CASE CheckCompletion
  <2>1. BeatTypeOK' /\ beat'.a \in {beat.a, BeatIdle.a}
        /\ (beat'.at # "idle" => beat'.a = beat.a)
    <3>1. CASE IsComplete(beat.a)
      <4> DEFINE o == IF errors[beat.a] = {} THEN "SUCCESS"
                      ELSE "COMPLETED_WITH_ERRORS"
      <4>1. o \in Succeeded /\ "complete" \in BeatPlaces
        BY DEF Succeeded, BeatPlaces
      <4>2. beat' = [beat EXCEPT !.at = "complete", !.outcome = o]
        BY <1>2, <3>1 DEF CheckCompletion
      <4> HIDE DEF o
      <4> QED BY <4>1, <4>2, BeatGoesOn
    <3>2. CASE ~IsComplete(beat.a)
      BY <1>2, <3>2, BeatIdleType DEF CheckCompletion
    <3> QED BY <3>1, <3>2
  <2> QED
    BY <1>0, <1>2, <2>1 DEF CheckCompletion
<1>3. CASE MarkCompleted
  <2>1. Marked
    BY <1>3, MarkType DEF MarkCompleted, Terminal
  <2>2. BeatTypeOK' /\ beat'.a = beat.a
    BY <1>3, BeatGoesOn DEF MarkCompleted, BeatPlaces
  <2> QED
    BY <1>0, <1>3, <2>1, <2>2 DEF MarkCompleted, Marked, CCStatuses, ActiveCC
<1>4. CASE CleanupCompleted
  <2>1. BeatTypeOK' /\ beat'.at = "idle"
    BY <1>4, BeatIdleType DEF CleanupCompleted
  <2> QED
    BY <1>0, <1>4, <2>1 DEF CleanupCompleted, CleanupAllBatches, NoFiles
<1> QED
  BY <1>1, <1>2, <1>3, <1>4 DEF MonitorStep

(* after a fault of the beat task,                                         *)
LEMMA BeatFaultLocal ==
  ASSUME IInv, BeatFault
  PROVE  LocalInv'
<1> USE DEF IInv, LocalInv, TypeOK, RowTypeOK, BusTypeOK, FetchTypeOK,
        ProcessTypeOK, BeatTypeOK, TaskType, ActorsHaveAttempts,
        DocumentsInHand, Exists, rowVars, attemptVars, ccVars, busVars,
        fetchVars, processVars,
        beatOnly, markFrame
<1>0. /\ UNCHANGED <<fetchVars, processVars, admin>> /\ faults' \in Nat
      /\ discarded' \subseteq Docs /\ missed' \in [Attempts -> Nat]
  BY DEF BeatFault, Fault
<1>1. CASE SendFails
  <2>1. Marked
    BY <1>1, MarkType DEF SendFails, Terminal, Resumable
  <2>2. BeatTypeOK' /\ beat'.at = "idle"
    BY <1>1, BeatIdleType DEF SendFails
  <2> QED
    BY <1>0, <1>1, <2>1, <2>2 DEF SendFails, Marked
<1>2. CASE MonitoringFails
  <2>1. Marked
    BY <1>2, MarkType DEF MonitoringFails, Terminal, Resumable
  <2>2. BeatTypeOK' /\ beat'.at = "idle"
    BY <1>2, BeatIdleType DEF MonitoringFails
  <2> QED
    BY <1>0, <1>2, <2>1, <2>2 DEF MonitoringFails, Marked, CleanupAllBatches,
         NoFiles
<1>3. CASE BeatDies
  <2>1. BeatTypeOK' /\ beat'.at = "idle"
    BY <1>3, BeatIdleType DEF BeatDies
  <2> QED
    BY <1>0, <1>3, <2>1 DEF BeatDies
<1> QED
  BY <1>1, <1>2, <1>3 DEF BeatFault

(* and after a step of a pause or a resume.                                *)
LEMMA AdminLocal ==
  ASSUME IInv, AdminStep
  PROVE  LocalInv'
<1> USE DEF IInv, LocalInv, TypeOK, RowTypeOK, BusTypeOK, FetchTypeOK,
        ProcessTypeOK, BeatTypeOK, TaskType, ActorsHaveAttempts,
        DocumentsInHand, Exists, rowVars, attemptVars, ccVars, busVars,
        fetchVars, processVars,
        AdminPlaces
<1>0. /\ UNCHANGED <<fetchVars, processVars, beat>> /\ faults' \in Nat
      /\ discarded' \subseteq Docs /\ missed' \in [Attempts -> Nat]
  BY DEF AdminStep, adminOnly, Fault, RaiseFence, RequestCancellation,
     PauseRow, ResumeConnector
<1>1. CASE RaiseFence
  BY <1>0, <1>1 DEF RaiseFence
<1>2. CASE RequestCancellation
  <2>1. newer' \subseteq Attempts \X Attempts
    BY <1>2 DEF RequestCancellation, Created
  <2>2. cancel' \in [Attempts -> BOOLEAN]
    BY <1>2 DEF RequestCancellation
  <2> QED
    BY <1>0, <1>2, <2>1, <2>2 DEF RequestCancellation
<1>3. CASE PauseRow
  BY <1>0, <1>3 DEF PauseRow, CCStatuses
<1>4. CASE ResumeConnector
  BY <1>0, <1>4 DEF ResumeConnector, CCStatuses, ActiveCC
<1> QED
  BY <1>1, <1>2, <1>3, <1>4 DEF AdminStep

-----------------------------------------------------------------------------
(* What a step does to the status and to the order of the updates: nothing,*)
(* a transaction on one row that takes at most one turn of the abstract    *)
(* life cycle, or a request to cancel.                                     *)
Turn(a) ==
    \/ UNCHANGED status
    \/ Lifecycle!Create(a)
    \/ Lifecycle!Begin(a)
    \/ \E s \in Terminal : Lifecycle!End(a, s)

RowWritten(a) == Touch(a) /\ Exists(a)' /\ Turn(a)

RowsMove ==
    \/ UNCHANGED <<status, newer>>
    \/ \E a \in Attempts : RowWritten(a)
    \/ RequestCancellation

(* A verdict on a row that exists ends it; INTERRUPTED only an active one. *)
LEMMA MarkWrites ==
  ASSUME TypeOK, NEW a \in Attempts, Exists(a), NEW s \in Terminal,
         s = "INTERRUPTED" => IsActive(a), Mark(a, s)
  PROVE  RowWritten(a)
<1>1. status' = [status EXCEPT ![a] = s] /\ Touch(a)
  BY DEF Mark, SetFinal
<1>2. Lifecycle!End(a, s)
  BY <1>1 DEF Lifecycle!End, Lifecycle!Become, Lifecycle!Active, IsActive,
     Active, Exists
<1>3. Exists(a)'
  BY <1>1 DEF Exists, TypeOK, RowTypeOK, Terminal, Succeeded, Resumable
<1> QED BY <1>1, <1>2, <1>3 DEF RowWritten, Turn

(* A cancellation ends it, whatever its status.                            *)
LEMMA MarkCanceledWrites ==
  ASSUME TypeOK, NEW a \in Attempts, Exists(a), MarkCanceled(a)
  PROVE  RowWritten(a)
<1>1. status' = [status EXCEPT ![a] = "CANCELED"] /\ Touch(a)
  BY DEF MarkCanceled, SetCanceled
<1>2. "CANCELED" \in Terminal /\ Lifecycle!End(a, "CANCELED")
  BY <1>1 DEF Lifecycle!End, Lifecycle!Become, Exists, Terminal, Resumable
<1>3. Exists(a)'
  BY <1>1 DEF Exists, TypeOK, RowTypeOK
<1> QED BY <1>1, <1>2, <1>3 DEF RowWritten, Turn

(* mark_attempt_interrupted leaves a row that ended alone.                 *)
LEMMA MarkInterruptedWrites ==
  ASSUME TypeOK, NEW a \in Attempts, Exists(a), MarkInterrupted(a)
  PROVE  RowWritten(a) \/ UNCHANGED <<status, newer>>
<1>1. CASE IsTerminal(a)
  BY <1>1 DEF MarkInterrupted, markVars
<1>2. CASE ~IsTerminal(a)
  <2>1. IsActive(a)
    BY <1>2 DEF TypeOK, RowTypeOK, Statuses, IsTerminal, IsActive, Exists
  <2> QED BY <1>2, <2>1, MarkWrites DEF MarkInterrupted, Terminal, Resumable
<1> QED BY <1>1, <1>2

(* Any other update of a row leaves its status.                            *)
LEMMA TouchWrites ==
  ASSUME NEW a \in Attempts, Exists(a), Touch(a), UNCHANGED status
  PROVE  RowWritten(a)
  BY DEF RowWritten, Turn, Exists

(* try_create_index_attempt creates the next row, when none is active.     *)
LEMMA CreateWrites ==
  ASSUME TypeOK, NEW a \in Attempts, NEW reindex, CreateAttempt(a, reindex)
  PROVE  RowWritten(a)
<1>1. /\ Touch(a)
      /\ status' = [status EXCEPT ![a] = "NOT_STARTED"]
      /\ \A b \in Attempts : ~IsActive(b)
      /\ Created = 1..(a - 1)
  BY DEF CreateAttempt, InsertAttempt
<1>2. \A b \in Attempts : Exists(b) <=> b < a
  BY <1>1 DEF Created, Exists, Attempts
<1>3. Lifecycle!Create(a)
  BY <1>1, <1>2 DEF Lifecycle!Create, Lifecycle!Become, Lifecycle!Active,
     Lifecycle!Attempts, Attempts, IsActive, Active, Exists
<1> QED BY <1>1, <1>3 DEF RowWritten, Turn, Exists, TypeOK, RowTypeOK

(* What the docfetching task does to the rows is one such move,            *)
LEMMA ProxyStepMoves ==
  ASSUME IInv, NEW a \in Attempts, ProxyStep(a)
  PROVE  RowsMove
<1>1. TypeOK /\ (process[a] # "none" \/ proxy[a] # "off" => Exists(a))
  BY DEF IInv, LocalInv, ActorsHaveAttempts
<1>2. CASE SpawnProcess(a) \/ DropRevoked(a) \/ ProcessDone(a)
           \/ ReportFailure(a) \/ AttemptFinalized(a) \/ TerminateProcess(a)
  BY <1>2 DEF SpawnProcess, DropRevoked, ProcessDone, ReportFailure,
     AttemptFinalized,
     TerminateProcess, rowVars, attemptVars, RowsMove
<1>3. CASE MarkReported(a)
  BY <1>1, <1>3, MarkWrites DEF MarkReported, RowsMove, Terminal, Resumable
<1> QED BY <1>2, <1>3 DEF ProxyStep

(* and so is what its process does,                                        *)
LEMMA FetchStepMoves ==
  ASSUME IInv, NEW a \in Attempts, FetchStep(a)
  PROVE  RowsMove
<1>1. TypeOK /\ (process[a] # "none" => Exists(a))
  BY DEF IInv, LocalInv, ActorsHaveAttempts
<1>2. CASE VerifyAttempt(a) \/ RefuseStart(a) \/ ResumeFromCheckpoint(a)
           \/ DiscardOldBatches(a) \/ AdoptOldBatches(a) \/ ReissueBatch(a)
           \/ YieldBatch(a) \/ YieldCheckpoint(a) \/ RaiseNotRunning(a)
           \/ StoreFetchedBatch(a) \/ QueueFetchedBatch(a)
           \/ CountBatchToSend(a) \/ HandleException(a)
  BY <1>2 DEF VerifyAttempt, RefuseStart, ResumeFromCheckpoint,
     DiscardOldBatches, AdoptOldBatches, ReissueBatch, YieldBatch,
     YieldCheckpoint, RaiseNotRunning, StoreFetchedBatch, QueueFetchedBatch,
     CountBatchToSend, HandleException,
     rowVars, attemptVars, RowsMove
<1>3. CASE StartAttempt(a)
  <2>1. /\ status[a] = "NOT_STARTED"
        /\ status' = [status EXCEPT ![a] = "IN_PROGRESS"]
        /\ Touch(a)
    BY <1>3 DEF StartAttempt, TransitionToInProgress
  <2>2. Lifecycle!Begin(a)
    BY <2>1 DEF Lifecycle!Begin, Lifecycle!Become
  <2>3. Exists(a)'
    BY <1>1, <2>1 DEF Exists, TypeOK, RowTypeOK
  <2> QED BY <2>1, <2>2, <2>3 DEF RowWritten, Turn, RowsMove
<1>4. CASE ChooseWindow(a) \/ SaveFirstCheckpoint(a) \/ SaveRunCheckpoint(a)
           \/ FinishExtraction(a)
  BY <1>1, <1>4, TouchWrites DEF ChooseWindow, SaveFirstCheckpoint,
     SaveRunCheckpoint, SetCheckpoint, FinishExtraction, RowsMove
<1>5. CASE CarryCompleted(a)
  BY <1>1, <1>5, TouchWrites DEF CarryCompleted, RowsMove
<1>6. CASE StopOnSignal(a)
  BY <1>1, <1>6, MarkCanceledWrites DEF StopOnSignal, RowsMove
<1>7. CASE MarkRaised(a)
  BY <1>1, <1>7, MarkWrites DEF MarkRaised, RowsMove, Terminal, Resumable
<1> QED BY <1>2, <1>3, <1>4, <1>5, <1>6, <1>7 DEF FetchStep

(* what their faults do,                                                   *)
LEMMA FetchFaultMoves ==
  ASSUME IInv, NEW a \in Attempts, FetchFault(a)
  PROVE  RowsMove
<1>1. TypeOK /\ (process[a] # "none" \/ proxy[a] # "off" => Exists(a))
  BY DEF IInv, LocalInv, ActorsHaveAttempts
<1>2. CASE SpawnFails(a) \/ ExtractionRaises(a) \/ ProcessDies(a) \/ PodDies(a)
           \/ CountingMissed(a)
  BY <1>2 DEF SpawnFails, ExtractionRaises, ProcessDies, PodDies,
     CountingMissed, rowVars, attemptVars, RowsMove
<1>3. CASE YieldFailure(a)
  BY <1>3 DEF YieldFailure, RowsMove
<1>4. CASE ValidationFails(a)
  BY <1>1, <1>4, MarkCanceledWrites DEF ValidationFails, Extracting, RowsMove
<1>5. CASE WorkerShutsDown(a)
  BY <1>1, <1>5, MarkInterruptedWrites DEF WorkerShutsDown, RowsMove
<1>6. CASE MemoryLimitExceeded(a)
  BY <1>1, <1>6, MarkWrites DEF MemoryLimitExceeded, RowsMove, Terminal,
     Resumable
<1> QED BY <1>2, <1>3, <1>4, <1>5, <1>6 DEF FetchFault

(* what a docprocessing task does,                                         *)
LEMMA WorkerMoves ==
  ASSUME IInv, NEW w \in Workers, WorkerStep(w) \/ WorkerFault(w) \/ PickUpFault(w)
  PROVE  RowsMove
<1>1. /\ TypeOK
      /\ worker[w].at # "idle" => Exists(worker[w].a)
      /\ worker[w].a \in Attempts
      /\ \A a \in Attempts, n \in BatchNums : queue[a][n] > 0 => Exists(a)
  BY DEF IInv, LocalInv, ActorsHaveAttempts, TypeOK, ProcessTypeOK, TaskType
<1>2. CASE IndexBatch(w) \/ RecordFailures(w) \/ DeleteProcessed(w)
           \/ HandleTaskException(w) \/ FinishTask(w)
  BY <1>2 DEF IndexBatch, RecordFailures, DeleteProcessed,
     HandleTaskException, FinishTask, rowVars, attemptVars, RowsMove
<1>3. CASE DocumentFails(w) \/ TaskRaises(w) \/ TaskRaisesLate(w)
           \/ LockTimesOut(w) \/ WorkerDies(w) \/ ReleaseMissed(w)
  BY <1>3 DEF DocumentFails, TaskRaises, TaskRaisesLate, LockTimesOut,
     WorkerDies, ReleaseMissed, rowVars, attemptVars, RowsMove
<1>4. CASE PickUpBatch(w) \/ \E a \in Attempts : PickUpMissed(w, a)
  BY <1>1, <1>4, TouchWrites DEF PickUpBatch, PickUpMissed, Receives,
     TakeMessage, RowsMove
<1>5. CASE CountProcessed(w) \/ CountFailed(w)
  BY <1>1, <1>5, TouchWrites DEF CountProcessed, CountFailed, CountBatch,
     RowsMove
<1>6. CASE UsageLimitExceeded(w)
  BY <1>1, <1>6, MarkWrites DEF UsageLimitExceeded, TakeMessage, RowsMove, Terminal,
     Resumable
<1> QED BY <1>2, <1>3, <1>4, <1>5, <1>6 DEF WorkerStep, WorkerFault,
     PickUpFault

(* what the beat task does between two rows,                               *)
LEMMA BeatMoves ==
  ASSUME IInv, NEW a \in Attempts,
         KickoffStep(a) \/ ValidateAttempt(a) \/ Monitor(a) \/ Heartbeat(a)
  PROVE  RowsMove
<1>1. TypeOK
  BY DEF IInv, LocalInv
<1>2. CASE KickoffStep(a)
  BY <1>1, <1>2, CreateWrites DEF KickoffStep, Kickoff, RowsMove
<1>3. CASE ValidateAttempt(a)
  BY <1>1, <1>3, MarkWrites DEF ValidateAttempt, FailStale, FailLost, Exists,
     RowsMove, Terminal, Resumable
<1>4. CASE Monitor(a)
  BY <1>4 DEF Monitor, StartMonitoring, attemptVars, RowsMove
<1>5. CASE Heartbeat(a)
  <2>1. Exists(a)
    BY <1>5 DEF Heartbeat, Beating, InAttempt, Running, Preparing, Extracting,
       IInv, LocalInv, ActorsHaveAttempts
  <2> QED BY <1>5, <2>1, TouchWrites DEF Heartbeat, RowsMove
<1> QED BY <1>2, <1>3, <1>4, <1>5

(* what it does to the row it monitors,                                    *)
LEMMA MonitorMoves ==
  ASSUME IInv, SendStep \/ MonitorStep \/ BeatFault
  PROVE  RowsMove
<1>1. TypeOK /\ beat.a \in Attempts /\ beat.outcome \in Succeeded
      /\ (beat.at # "idle" => Exists(beat.a))
  BY DEF IInv, LocalInv, ActorsHaveAttempts, TypeOK, BeatTypeOK
<1>2. CASE SendFetching \/ CheckCompletion \/ CleanupCompleted \/ BeatDies
  BY <1>2 DEF SendFetching, CheckCompletion, CleanupCompleted, BeatDies,
     rowVars, attemptVars, RowsMove
<1>3. CASE CancelRequested
  BY <1>1, <1>3, MarkCanceledWrites DEF CancelRequested, RowsMove
<1>4. CASE MarkCompleted
  BY <1>1, <1>4, MarkWrites DEF MarkCompleted, RowsMove, Terminal, Succeeded
<1>5. CASE SendFails \/ MonitoringFails
  BY <1>1, <1>5, MarkWrites DEF SendFails, MonitoringFails, RowsMove, Terminal,
     Resumable
<1> QED BY <1>2, <1>3, <1>4, <1>5 DEF SendStep, MonitorStep, BeatFault

(* what a lost message does,                                               *)
LEMMA BrokerMoves ==
  ASSUME NEW a \in Attempts, BrokerFault(a)
  PROVE  RowsMove
  BY DEF BrokerFault, LoseMessage, rowVars, attemptVars, RowsMove

(* what a pause or a resume does,                                          *)
LEMMA AdminMoves ==
  ASSUME AdminStep
  PROVE  RowsMove
  BY DEF AdminStep, RaiseFence, PauseRow, ResumeConnector, attemptVars,
     RowsMove

(* and therefore what any step does.                                       *)
LEMMA NextMoves ==
  ASSUME IInv, Next
  PROVE  RowsMove
  BY ProxyStepMoves, FetchStepMoves, FetchFaultMoves, WorkerMoves, BeatMoves, BrokerMoves,
     MonitorMoves, AdminMoves DEF Next

-----------------------------------------------------------------------------
(* Every step keeps types, actors and documents.                           *)
LEMMA LocalStep ==
  ASSUME IInv, [Next]_vars
  PROVE  LocalInv'
<1>1. CASE UNCHANGED vars
  BY <1>1 DEF IInv, LocalInv, vars, TypeOK, RowTypeOK, BusTypeOK, FetchTypeOK,
     ProcessTypeOK, BeatTypeOK, ActorsHaveAttempts, DocumentsInHand, Exists,
     rowVars, attemptVars, ccVars, busVars,
        fetchVars, processVars
<1>2. CASE Next
  BY <1>2, ProxyStepLocal, FetchStepLocal, FetchFaultLocal, WorkerStepLocal,
     WorkerFaultLocal, PickUpFaultLocal, BrokerFaultLocal, KickoffLocal, ValidateLocal, MonitorLocal,
     HeartbeatLocal, SendLocal, MonitorStepLocal, BeatFaultLocal, AdminLocal
     DEF Next
<1> QED BY <1>1, <1>2

(* Every step, and every stutter, moves the rows so.                       *)
LEMMA RowsStep ==
  ASSUME IInv, [Next]_vars
  PROVE  RowsMove
  BY NextMoves DEF vars, rowVars, attemptVars, RowsMove

(* A move of the rows is a step of the life cycle, or none.                *)
LEMMA LifecycleStep ==
  ASSUME RowsMove
  PROVE  [Lifecycle!Next]_status
  BY DEF RowsMove, RowWritten, Turn, RequestCancellation, Lifecycle!Next,
     Lifecycle!Attempts, Attempts, Lifecycle!Terminal, Lifecycle!Succeeded,
     Lifecycle!Resumable, Terminal, Succeeded, Resumable

(* Only a creation makes an attempt active, and only when none is.         *)
LEMMA OneActiveStep ==
  ASSUME IInv, RowsMove
  PROVE  OneActiveAttempt'
<1>1. status \in [Attempts -> Statuses] /\ OneActiveAttempt
  BY DEF IInv, LocalInv, TypeOK, RowTypeOK
<1>2. CASE UNCHANGED status
  BY <1>1, <1>2 DEF OneActiveAttempt, IsActive
<1>3. ASSUME NEW a \in Attempts, Turn(a) PROVE OneActiveAttempt'
  <2>1. CASE Lifecycle!Create(a)
    BY <1>1, <2>1 DEF Lifecycle!Create, Lifecycle!Become, Lifecycle!Attempts,
       Lifecycle!Active, OneActiveAttempt, IsActive, Active, Attempts
  <2>2. CASE Lifecycle!Begin(a)
    BY <1>1, <2>2 DEF Lifecycle!Begin, Lifecycle!Become, OneActiveAttempt,
       IsActive, Active
  <2>3. ASSUME NEW s \in Terminal, Lifecycle!End(a, s) PROVE OneActiveAttempt'
    BY <1>1, <2>3 DEF Lifecycle!End, Lifecycle!Become, OneActiveAttempt,
       IsActive, Active, Terminal, Succeeded, Resumable
  <2> QED BY <1>2, <1>3, <2>1, <2>2, <2>3 DEF Turn
<1> QED BY <1>2, <1>3 DEF RowsMove, RowWritten, RequestCancellation

(* A row that is written becomes the last updated, above all others; a     *)
(* request to cancel raises the one active attempt above the rest.         *)
LEMMA UpdatesStep ==
  ASSUME IInv, RowsMove
  PROVE  UpdatesAreOrdered'
<1>1. /\ status \in [Attempts -> Statuses]
      /\ OneActiveAttempt
      /\ UpdatesAreOrdered
  BY DEF IInv, LocalInv, TypeOK, RowTypeOK
<1>2. CASE UNCHANGED <<status, newer>>
  BY <1>1, <1>2 DEF UpdatesAreOrdered, Created
<1>3. ASSUME NEW a \in Attempts, RowWritten(a) PROVE UpdatesAreOrdered'
  <2>1. Created' = Created \cup {a}
    BY <1>1, <1>3 DEF RowWritten, Turn, Created, Exists, Lifecycle!Create,
       Lifecycle!Begin, Lifecycle!End, Lifecycle!Become, Terminal, Succeeded,
       Resumable
  <2>2. newer' = {p \in newer : p[2] # a}
                   \cup {<<a, b>> : b \in Created \ {a}}
    BY <1>3 DEF RowWritten, Touch
  <2>3. \A x, y : <<x, y>> \in newer'
                    <=> /\ y # a
                        /\ \/ <<x, y>> \in newer
                           \/ x = a /\ y \in Created
    BY <2>2
  <2>4. newer' \subseteq Created' \X Created'
    BY <1>1, <2>1, <2>2 DEF UpdatesAreOrdered, Created
  <2> QED
    BY <1>1, <2>1, <2>3, <2>4 DEF UpdatesAreOrdered
<1>4. CASE RequestCancellation
  <2>1. Created' = Created /\ Created \subseteq Attempts
    BY <1>4 DEF RequestCancellation, Created
  <2>2. newer' = {p \in newer : ~IsActive(p[2])}
                  \cup {p \in Created \X Created :
                          IsActive(p[1]) /\ ~IsActive(p[2])}
    BY <1>4 DEF RequestCancellation
  <2>3. \A x, y \in Created : <<x, y>> \in newer'
                    <=> /\ ~IsActive(y)
                        /\ <<x, y>> \in newer \/ IsActive(x)
    BY <2>2
  <2>4. newer' \subseteq Created' \X Created'
    BY <1>1, <2>1, <2>2 DEF UpdatesAreOrdered
  <2>5. \A x, y \in Created : IsActive(x) /\ IsActive(y) => x = y
    BY <1>1, <2>1 DEF OneActiveAttempt
  <2>6. \A x \in Attempts : <<x, x>> \notin newer'
    BY <1>1, <2>1, <2>3, <2>4 DEF UpdatesAreOrdered
  <2> QED
    BY <1>1, <2>1, <2>3, <2>4, <2>5, <2>6 DEF UpdatesAreOrdered
<1> QED BY <1>2, <1>3, <1>4 DEF RowsMove

(* The invariant holds at the start.                                       *)
LEMMA InitIInv == Init => IInv
<1> SUFFICES ASSUME Init PROVE IInv
  OBVIOUS
<1>1. TypeOK
  <2>1. RowTypeOK
    BY IndexAttemptAssumption DEF Init, RowInit, RowTypeOK, Statuses,
       CCStatuses, ActiveCC
  <2>2. BusTypeOK
    BY DEF Init, BusInit, BusTypeOK, NoFiles
  <2>3. FetchTypeOK
    <3>1. NewJob \in JobType
      BY IndexAttemptAssumption DEF NewJob, JobType
    <3>2. "none" \in ProcessPlaces /\ "off" \in ProxyPlaces
      BY DEF ProcessPlaces, ProxyPlaces
    <3> QED BY <3>1, <3>2 DEF Init, FetchInit, FetchTypeOK
  <2>4. ProcessTypeOK
    BY IdleType DEF Init, ProcessInit, ProcessTypeOK
  <2>5. BeatTypeOK
    BY BeatIdleType DEF Init, BeatInit, BeatTypeOK
  <2> QED
    BY <2>1, <2>2, <2>3, <2>4, <2>5 DEF Init, TypeOK, AdminPlaces
<1>2. ActorsHaveAttempts /\ DocumentsInHand
  BY BeatIdleType DEF Init, BusInit, FetchInit, ProcessInit, BeatInit,
     ActorsHaveAttempts, DocumentsInHand, Idle
<1>3. OneActiveAttempt /\ UpdatesAreOrdered
  BY DEF Init, RowInit, OneActiveAttempt, IsActive, Active, UpdatesAreOrdered,
     Created
<1> QED BY <1>1, <1>2, <1>3 DEF IInv, LocalInv

(* The inductive invariant                                                 *)
THEOREM Invariance == Spec => []IInv
<1>1. IInv /\ [Next]_vars => IInv'
  BY LocalStep, RowsStep, OneActiveStep, UpdatesStep DEF IInv
<1> QED BY InitIInv, <1>1, PTL DEF Spec

(* Every variable of the pipeline keeps its type.                          *)
THEOREM TypeCorrect == Spec => []TypeOK
<1>1. IInv => TypeOK
  BY DEF IInv, LocalInv
<1> QED BY Invariance, <1>1, PTL

(* try_create_index_attempt keeps two attempts of a cc_pair from being     *)
(* active at once, for any number of attempts, documents and workers and   *)
(* with every kind of fault.                                               *)
THEOREM OneActive == Spec => []OneActiveAttempt
<1>1. IInv => OneActiveAttempt
  BY DEF IInv
<1> QED BY Invariance, <1>1, PTL

(* The pipeline implements the life cycle of an attempt: no task, process, *)
(* fault or late message makes an attempt that ended run again.            *)
THEOREM ImplementsLifecycle == Spec => LifecycleSpec
<1>1. Init => Lifecycle!Init
  BY DEF Init, RowInit, Lifecycle!Init, Lifecycle!Attempts, Attempts
<1>2. IInv /\ [Next]_vars => [Lifecycle!Next]_status
  BY RowsStep, LifecycleStep
<1> QED BY Invariance, <1>1, <1>2, PTL DEF Spec, LifecycleSpec, Lifecycle!Spec
=============================================================================
