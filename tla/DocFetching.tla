---------------------------- MODULE DocFetching ----------------------------
(***************************************************************************)
(* Docfetching: the celery proxy task that watches over a spawned process  *)
(* (background/celery/tasks/docfetching/tasks.py), and the process, which  *)
(* runs the connector, stores its batches and queues them                  *)
(* (background/indexing/run_docfetching.py).  One proxy and one process    *)
(* per attempt; those of an older attempt may still be running when a      *)
(* newer attempt starts.                                                   *)
(***************************************************************************)
EXTENDS BatchTransport

CONSTANT Checkpointed   (* the connector is a CheckpointedConnector        *)

ASSUME DocFetchingAssumption == Checkpointed \in BOOLEAN

VARIABLES
    process,  (* process[a]: where the spawned process is                  *)
    proxy,    (* proxy[a]: where the proxy task is                         *)
    job       (* job[a]: the process's local variables                     *)

fetchVars == <<process, proxy, job>>

(* Where a process runs.  An exception in Preparing leaves the row to the  *)
(* proxy; one in Extracting is caught (raised), and the attempt marked.    *)
Preparing  == {"spawned", "verified", "window", "connect", "adopt", "reissue",
               "save"}
Extracting == {"run", "got", "stored", "chunk"}
Running    == Preparing \cup Extracting \cup {"raised", "marking"}
ProcessPlaces == Running \cup {"none", "queued", "done", "error", "dead"}
ProxyPlaces   == {"off", "watch", "failing", "marking", "kill"}

(* prev: most_recent_attempt; carried: its completed_batches; old: batches *)
(* still to reissue; pos: documents already yielded; num: batch_num;       *)
(* failures: total_failures of the run; counted: incr_pending was called   *)
(* for a batch whose message is not sent                                   *)
NewJob == [prev |-> None, carried |-> 0, old |-> {}, pos |-> 0, num |-> 0,
           failures |-> 0, counted |-> FALSE]

JobType == [prev : Attempts \cup {None}, carried : Nat,
            old : SUBSET (Attempts \X BatchNums), pos : 0..NDocs, num : Nat,
            failures : Nat, counted : BOOLEAN]

FetchTypeOK ==
    /\ process \in [Attempts -> ProcessPlaces]
    /\ proxy \in [Attempts -> ProxyPlaces]
    /\ job \in [Attempts -> JobType]

FetchInit ==
    /\ process = [a \in Attempts |-> "none"]
    /\ proxy = [a \in Attempts |-> "off"]
    /\ job = [a \in Attempts |-> NewJob]

Goto(a, place) == process' = [process EXCEPT ![a] = place]

-----------------------------------------------------------------------------
(* docfetching_proxy_task takes its message, acknowledged on receipt, and  *)
(* spawns the process.                                                     *)
SpawnProcess(a) ==
    /\ process[a] = "queued"
    /\ Goto(a, "spawned")
    /\ proxy' = [proxy EXCEPT ![a] = "watch"]
    /\ UNCHANGED <<job, rowVars, busVars>>

(* SPAWN_FAILED and SPAWN_NOT_ALIVE return and leave the row as it is.     *)
SpawnFails(a) ==
    /\ process[a] = "queued"
    /\ Goto(a, "dead")
    /\ UNCHANGED <<proxy, job, rowVars, busVars>>

(* A pause revokes the message; a worker that has heard of it drops it.    *)
DropRevoked(a) ==
    /\ process[a] = "queued"
    /\ cancel[a]
    /\ Goto(a, "dead")
    /\ UNCHANGED <<proxy, job, rowVars, busVars>>

(* _docfetching_task: the stop fence and _verify_indexing_attempt, then    *)
(* the transition, which looks at the status alone.  Both exit with an     *)
(* error when what they ask for does not hold.                             *)
MayStart(a) == ~stopFence /\ ~cancel[a] /\ IsActive(a)

VerifyAttempt(a) ==
    /\ process[a] = "spawned"
    /\ MayStart(a)
    /\ Goto(a, "verified")
    /\ UNCHANGED <<proxy, job, rowVars, busVars>>

StartAttempt(a) ==
    /\ process[a] = "verified"
    /\ TransitionToInProgress(a)
    /\ Goto(a, "window")
    /\ UNCHANGED <<proxy, job, busVars, ccVars, taskId, cancel, total,
                   completed, fromBeginning, window, checkpoint, errors>>

RefuseStart(a) ==
    /\ \/ process[a] = "spawned" /\ ~MayStart(a)
       \/ process[a] = "verified" /\ status[a] # "NOT_STARTED"
    /\ Goto(a, "error")
    /\ UNCHANGED <<proxy, job, rowVars, busVars>>

(* The poll window starts where the last SUCCESS ended and ends now, or    *)
(* where the last attempt's did if that one stopped before finishing.      *)
LastSuccessEnds ==
    {window[s].end : s \in {b \in Attempts : /\ status[b] = "SUCCESS"
                                             /\ window[b] # None}}

WindowStart(a) ==
    IF fromBeginning[a] \/ LastSuccessEnds = {} THEN 0
    ELSE CHOOSE e \in LastSuccessEnds : \A f \in LastSuccessEnds : f <= e

WindowEnd(a, p) ==
    IF p # None /\ status[p] \in Resumable /\ window[p] # None
    THEN window[p].end
    ELSE a

ChooseWindow(a) ==
    /\ process[a] = "window"
    /\ \E p \in IF Finished = {} THEN {None} ELSE MostRecentOf(Finished) :
          /\ job' = [job EXCEPT ![a].prev = p]
          /\ window' = [window EXCEPT ![a] = [start |-> WindowStart(a),
                                              end |-> WindowEnd(a, p)]]
    /\ Touch(a)
    /\ Goto(a, "connect")
    /\ UNCHANGED <<proxy, busVars, ccVars, status, taskId, cancel, total,
                   completed, fromBeginning, checkpoint, errors>>

(* get_latest_valid_checkpoint                                             *)
Candidates(a) ==
    {c \in Finished : /\ status[c] \in Resumable
                      /\ window[c] = window[a]
                      /\ checkpoint[c] # None}

LatestCheckpoint(a) ==
    IF Candidates(a) = {} THEN 0
    ELSE checkpoint[CHOOSE c \in MostRecentOf(Candidates(a)) : TRUE]

StartsOver(a) ==
    \/ fromBeginning[a]
    \/ job[a].prev # None /\ status[job[a].prev] \in Succeeded

(* Mutant: the second disjunct dropped                                     *)
ResumesCheckpointedOnly(a) == Checkpointed /\ Candidates(a) # {}

(* Mutant: the first disjunct dropped                                      *)
ResumesFinishedOnly(a) ==
    LET p == job[a].prev
    IN  p # None /\ total[p] # None /\ LatestCheckpoint(a) = NDocs

(* What makes a run reissue the batches it finds instead of deleting them  *)
Resumes(a) ==
    LET p == job[a].prev
    IN  \/ Checkpointed /\ Candidates(a) # {}
        \/ /\ p # None
           /\ total[p] # None
           /\ LatestCheckpoint(a) = NDocs

(* The connector is up: read the checkpoint, and decide what becomes of    *)
(* the batches in the file store.                                          *)
ResumeFromCheckpoint(a) ==
    /\ process[a] = "connect"
    /\ ~StartsOver(a) /\ Resumes(a)
    /\ job' = [job EXCEPT ![a].pos = LatestCheckpoint(a),
                          ![a].carried = IF job[a].prev = None THEN 0
                                         ELSE completed[job[a].prev]]
    /\ Goto(a, "adopt")
    /\ UNCHANGED <<proxy, rowVars, busVars>>

DiscardOldBatches(a) ==
    /\ process[a] = "connect"
    /\ StartsOver(a) \/ ~Resumes(a)
    /\ job' = [job EXCEPT ![a].pos = IF StartsOver(a) THEN 0
                                     ELSE LatestCheckpoint(a)]
    /\ CleanupAllBatches(a)
    /\ Goto(a, "save")
    /\ UNCHANGED <<proxy, rowVars, queue, pending, inFlight>>

(* reissue_old_batches: list and rename, then one message per batch, then  *)
(* completed_batches is set (the session writes it only if it is not 0).   *)
AdoptOldBatches(a) ==
    /\ process[a] = "adopt"
    /\ AdoptBatches(a)
    /\ job' = [job EXCEPT
                 ![a].old = StoredBatches,
                 ![a].num = Cardinality(StoredBatches) + job[a].carried]
    /\ Goto(a, "reissue")
    /\ UNCHANGED <<proxy, rowVars, queue, pending, inFlight>>

(* The next batch, reissued or just stored, is counted before its message  *)
(* is sent; a Redis that fails is passed over.                             *)
HasToSend(a) ==
    \/ process[a] = "reissue" /\ job[a].old # {}
    \/ process[a] = "stored"

Counts(a) ==
    /\ HasToSend(a)
    /\ ~job[a].counted
    /\ job' = [job EXCEPT ![a].counted = TRUE]

CountBatchToSend(a) ==
    /\ Counts(a)
    /\ IncrPending(a)
    /\ UNCHANGED <<process, proxy, rowVars, files, queue, inFlight, trampled>>

CountingMissed(a) ==
    /\ Counts(a)
    /\ UNCHANGED <<process, proxy, rowVars, busVars>>

(* Mutant: no message for a renamed batch                                  *)
ReissueBatchSilently(a) ==
    /\ process[a] = "reissue"
    /\ job[a].counted
    /\ \E b \in job[a].old :
          job' = [job EXCEPT ![a].old = @ \ {b}, ![a].counted = FALSE]
    /\ UNCHANGED <<process, proxy, rowVars, busVars>>

ReissueBatch(a) ==
    /\ process[a] = "reissue"
    /\ job[a].counted
    /\ \E b \in job[a].old :
          /\ job' = [job EXCEPT ![a].old = @ \ {b}, ![a].counted = FALSE]
          /\ SendMessage(a, b[2])
    /\ UNCHANGED <<process, proxy, rowVars, files, pending, inFlight, trampled>>

CarryCompleted(a) ==
    /\ process[a] = "reissue"
    /\ job[a].old = {}
    /\ IF job[a].carried = 0
       THEN UNCHANGED <<completed, newer>>
       ELSE /\ completed' = [completed EXCEPT ![a] = job[a].carried]
            /\ Touch(a)
    /\ Goto(a, "save")
    /\ UNCHANGED <<proxy, job, busVars, ccVars, status, taskId, cancel, total,
                   fromBeginning, window, checkpoint, errors>>

SetCheckpoint(a) ==
    /\ checkpoint' = [checkpoint EXCEPT ![a] = job[a].pos]
    /\ Touch(a)
    /\ Goto(a, "run")
    /\ UNCHANGED <<proxy, job, busVars, ccVars, status, taskId, cancel, total,
                   completed, fromBeginning, window, errors>>

SaveFirstCheckpoint(a) == process[a] = "save" /\ SetCheckpoint(a)

-----------------------------------------------------------------------------
(* The extraction loop.  Whatever the connector yields, a batch, a failure *)
(* or the run's checkpoint, is looked at only after the stop fence, the    *)
(* cc_pair and the attempt have been checked.                              *)
HasMore(a) == job[a].pos < NDocs

StopSignal(a) == stopFence \/ ccStatus = "PAUSED" \/ status[a] = "CANCELED"
NotRunning(a) == status[a] # "IN_PROGRESS" \/ ~taskId[a]

MayGoOn(a) == ~StopSignal(a) /\ ~NotRunning(a)

YieldBatch(a) ==
    /\ process[a] = "run"
    /\ HasMore(a)
    /\ MayGoOn(a)
    /\ Goto(a, "got")
    /\ UNCHANGED <<proxy, job, rowVars, busVars>>

(* The run's last yield is its checkpoint: a checkpointed connector ends a *)
(* run where it likes, any other when it has yielded all it has.           *)
YieldCheckpoint(a) ==
    /\ process[a] = "run"
    /\ checkpoint[a] # job[a].pos
    /\ Checkpointed \/ ~HasMore(a)
    /\ MayGoOn(a)
    /\ Goto(a, "chunk")
    /\ UNCHANGED <<proxy, job, rowVars, busVars>>

(* A document the connector could not fetch; too many end the run.         *)
YieldFailure(a) ==
    /\ process[a] = "run"
    /\ HasMore(a)
    /\ MayGoOn(a)
    /\ RecordError(a, job[a].pos + 1)
    /\ job' = [job EXCEPT ![a].pos = @ + 1, ![a].failures = @ + 1]
    /\ Goto(a, IF TooManyFailures(job[a].failures + 1) THEN "raised"
               ELSE "run")
    /\ UNCHANGED <<proxy, busVars, ccVars, status, taskId, cancel, total,
                   completed, fromBeginning, window, checkpoint, newer>>

(* ConnectorStopSignal: mark_attempt_canceled, and a clean exit.           *)
StopOnSignal(a) ==
    /\ process[a] = "run"
    /\ HasMore(a) \/ checkpoint[a] # job[a].pos
    /\ StopSignal(a)
    /\ MarkCanceled(a)
    /\ Goto(a, "done")
    /\ UNCHANGED <<proxy, job, ccVars, cancel, total, completed, fromBeginning,
                   window, checkpoint, errors, files, queue, trampled>>

RaiseNotRunning(a) ==
    /\ process[a] = "run"
    /\ HasMore(a) \/ checkpoint[a] # job[a].pos
    /\ ~StopSignal(a) /\ NotRunning(a)
    /\ Goto(a, "raised")
    /\ UNCHANGED <<proxy, job, rowVars, busVars>>

StoreFetchedBatch(a) ==
    /\ process[a] = "got"
    /\ job[a].num \in BatchNums
    /\ StoreBatch(a, job[a].num, job[a].pos + 1)
    /\ Goto(a, "stored")
    /\ UNCHANGED <<proxy, job, rowVars, queue, pending, inFlight>>

QueueFetchedBatch(a) ==
    /\ process[a] = "stored"
    /\ job[a].counted
    /\ SendMessage(a, job[a].num)
    /\ job' = [job EXCEPT ![a].pos = @ + 1, ![a].num = @ + 1,
                          ![a].counted = FALSE]
    /\ Goto(a, "run")
    /\ UNCHANGED <<proxy, rowVars, files, pending, inFlight, trampled>>

SaveRunCheckpoint(a) == process[a] = "chunk" /\ SetCheckpoint(a)

(* set_total_batches: extraction is over.                                  *)
FinishExtraction(a) ==
    /\ process[a] = "run"
    /\ ~HasMore(a)
    /\ checkpoint[a] = job[a].pos
    /\ total' = [total EXCEPT ![a] = job[a].num]
    /\ Touch(a)
    /\ Goto(a, "done")
    /\ UNCHANGED <<proxy, job, busVars, ccVars, status, taskId, cancel,
                   completed, fromBeginning, window, checkpoint, errors>>

(* An exception inside the extraction loop                                 *)
ExtractionRaises(a) ==
    /\ process[a] \in Extracting
    /\ Goto(a, "raised")
    /\ UNCHANGED <<proxy, job, rowVars, busVars>>

(* It is handled in two transactions: the status is looked at, and the     *)
(* attempt marked if it was not terminal then.                             *)
HandleException(a) ==
    /\ process[a] = "raised"
    /\ Goto(a, IF IsTerminal(a) THEN "error" ELSE "marking")
    /\ UNCHANGED <<proxy, job, rowVars, busVars>>

MarkRaised(a) ==
    /\ process[a] = "marking"
    /\ Mark(a, "FAILED")
    /\ Goto(a, "error")
    /\ UNCHANGED <<proxy, job, ccVars, cancel, total, completed, fromBeginning,
                   window, checkpoint, errors, files, queue, trampled>>

(* A ConnectorValidationError cancels the attempt, and is raised again.    *)
ValidationFails(a) ==
    /\ process[a] \in Extracting
    /\ MarkCanceled(a)
    /\ Goto(a, "error")
    /\ UNCHANGED <<proxy, job, ccVars, cancel, total, completed, fromBeginning,
                   window, checkpoint, errors, files, queue, trampled>>

(* An exception before the loop (bad credentials, say), or a kill          *)
ProcessDies(a) ==
    /\ process[a] \in Running
    /\ Goto(a, "error")
    /\ UNCHANGED <<proxy, job, rowVars, busVars>>

-----------------------------------------------------------------------------
(* The proxy's loop, every 5 seconds.  Marking and terminating the process *)
(* are two steps.                                                          *)
WorkerShutsDown(a) ==
    /\ proxy[a] = "watch"
    /\ MarkInterrupted(a)
    /\ proxy' = [proxy EXCEPT ![a] = "kill"]
    /\ UNCHANGED <<process, job, ccVars, cancel, total, completed,
                   fromBeginning, window, checkpoint, errors, files, queue,
                   trampled>>

(* process_job_result: an error exit counts as success once total is set.  *)
ProcessDone(a) ==
    /\ proxy[a] = "watch"
    /\ process[a] \in {"done", "error"}
    /\ proxy' = [proxy EXCEPT ![a] =
                   IF process[a] = "error" /\ total[a] = None THEN "failing"
                   ELSE "off"]
    /\ UNCHANGED <<process, job, rowVars, busVars>>

(* As in HandleException, the check and the mark are two transactions.     *)
ReportFailure(a) ==
    /\ proxy[a] = "failing"
    /\ proxy' = [proxy EXCEPT ![a] = IF IsTerminal(a) THEN "off"
                                     ELSE "marking"]
    /\ UNCHANGED <<process, job, rowVars, busVars>>

MarkReported(a) ==
    /\ proxy[a] = "marking"
    /\ Mark(a, "FAILED")
    /\ proxy' = [proxy EXCEPT ![a] = "off"]
    /\ UNCHANGED <<process, job, ccVars, cancel, total, completed,
                   fromBeginning, window, checkpoint, errors, files, queue,
                   trampled>>

MemoryLimitExceeded(a) ==
    /\ proxy[a] = "watch"
    /\ process[a] \in Running
    /\ Mark(a, "FAILED")
    /\ proxy' = [proxy EXCEPT ![a] = "kill"]
    /\ UNCHANGED <<process, job, ccVars, cancel, total, completed,
                   fromBeginning, window, checkpoint, errors, files, queue,
                   trampled>>

AttemptFinalized(a) ==
    /\ proxy[a] = "watch"
    /\ process[a] \in Running
    /\ IsTerminal(a)
    /\ proxy' = [proxy EXCEPT ![a] = "kill"]
    /\ UNCHANGED <<process, job, rowVars, busVars>>

TerminateProcess(a) ==
    /\ proxy[a] = "kill"
    /\ Goto(a, "dead")
    /\ proxy' = [proxy EXCEPT ![a] = "off"]
    /\ UNCHANGED <<job, rowVars, busVars>>

(* The pod dies: the message was acknowledged, so nothing runs it again.   *)
PodDies(a) ==
    /\ proxy[a] # "off"
    /\ Goto(a, "dead")
    /\ proxy' = [proxy EXCEPT ![a] = "off"]
    /\ UNCHANGED <<job, rowVars, busVars>>
=============================================================================
