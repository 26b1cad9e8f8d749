-------------------------- MODULE IndexingPipeline --------------------------
(***************************************************************************)
(* The indexing pipeline of one cc_pair under one search setting: the beat *)
(* task that creates and finalizes attempts, the docfetching proxies and   *)
(* processes, the docprocessing workers, and an administrator who pauses   *)
(* and resumes the connector.  They share the rows of IndexAttempt and the *)
(* transport of BatchTransport; a step of one leaves the locals of the     *)
(* others alone.                                                           *)
(***************************************************************************)
EXTENDS DocFetching, DocProcessing, CheckForIndexing

CONSTANTS
    Faults,      (* the kinds of fault that may happen in a behaviour      *)
    CrashPoints, (* where WorkerDies may strike a docprocessing task       *)
    MaxFaults    (* bound: faults, and pauses, in a behaviour              *)

FaultKinds == {"kickoff", "spawn", "connector", "validation", "memory",
               "process", "shutdown", "pod", "document", "task", "late_task",
               "lock", "worker", "usage", "monitor", "beat", "fetch", "pause",
               "redis", "broker"}

ASSUME IndexingPipelineAssumption ==
    /\ Faults \subseteq FaultKinds
    /\ CrashPoints \subseteq TaskPlaces
    /\ MaxFaults \in Nat

VARIABLES
    admin,   (* how far update_cc_pair_status has come with a pause        *)
    faults,  (* faults so far                                              *)
    discarded, (* history: documents of batches that a run from scratch
                 threw away though a checkpoint counts them as fetched     *)
    missed   (* history: missed[a] counts the pickups that Redis failed to
                 count, and the messages that the broker lost              *)

vars == <<rowVars, busVars, fetchVars, processVars, beat, admin, faults,
          discarded, missed>>

AdminPlaces == {"idle", "fenced", "canceled"}

TypeOK ==
    /\ RowTypeOK
    /\ BusTypeOK
    /\ FetchTypeOK
    /\ ProcessTypeOK
    /\ BeatTypeOK
    /\ admin \in AdminPlaces
    /\ faults \in Nat
    /\ discarded \subseteq Docs
    /\ missed \in [Attempts -> Nat]

Init ==
    /\ RowInit
    /\ BusInit
    /\ FetchInit
    /\ ProcessInit
    /\ BeatInit
    /\ admin = "idle"
    /\ faults = 0
    /\ discarded = {}
    /\ missed = [a \in Attempts |-> 0]

-----------------------------------------------------------------------------
(* A fault of this kind is enabled, and the budget allows one more.        *)
Fault(kind) ==
    /\ kind \in Faults
    /\ faults < MaxFaults
    /\ faults' = faults + 1

beatOnly   == <<fetchVars, processVars, admin, discarded, missed>>
fetchOnly  == <<processVars, beat, admin, missed>>
workerOnly == <<fetchVars, beat, admin, discarded>>
adminOnly  == <<processVars, beat, discarded, missed>>

(* What makes the attempt's heartbeat advance: the heartbeat threads of    *)
(* its process and of its tasks.                                           *)
Beating(a) ==
    \/ process[a] \in Running
    \/ \E w \in Workers : InAttempt(w, a)

(* A heartbeat, which updates the row of an attempt whose verdict may long *)
(* have been given.                                                        *)
Heartbeat(a) ==
    /\ Beating(a)
    /\ Touch(a)
    /\ UNCHANGED <<status, taskId, cancel, total, completed, fromBeginning,
                   window, checkpoint, errors, ccVars, busVars, beatOnly,
                   beat, faults>>

(* The docfetching message is in the queue or held by its proxy.           *)
MessageLives(a) == process[a] = "queued" \/ proxy[a] # "off"

KickoffStep(a) ==
    /\ \E reindex \in ReindexModes : Kickoff(a, reindex)
    /\ UNCHANGED <<beatOnly, faults>>

ValidateAttempt(a) ==
    /\ \/ FailStale(a, Beating(a))
       \/ FailLost(a, MessageLives(a))
    /\ UNCHANGED <<beatOnly, faults>>

Monitor(a) ==
    /\ StartMonitoring(a)
    /\ UNCHANGED <<beatOnly, faults>>

SendStep ==
    /\ SendFetching
    /\ Goto(beat.a, "queued")
    /\ UNCHANGED <<proxy, job, processVars, admin, faults, discarded, missed>>

MonitorStep ==
    /\ \/ CancelRequested
       \/ CheckCompletion
       \/ MarkCompleted
       \/ CleanupCompleted
    /\ UNCHANGED <<beatOnly, faults>>

BeatFault ==
    /\ \/ Fault("kickoff") /\ SendFails
       \/ Fault("monitor") /\ MonitoringFails
       \/ Fault("beat") /\ BeatDies
    /\ UNCHANGED beatOnly

-----------------------------------------------------------------------------
ProxyStep(a) ==
    /\ \/ SpawnProcess(a)
       \/ DropRevoked(a)
       \/ ProcessDone(a)
       \/ ReportFailure(a)
       \/ MarkReported(a)
       \/ AttemptFinalized(a)
       \/ TerminateProcess(a)
    /\ UNCHANGED <<fetchOnly, faults, discarded>>

(* A checkpoint, saved or about to be, counts the document as fetched.     *)
CountsAsFetched(d) ==
    \E c \in Attempts :
       \/ checkpoint[c] # None /\ d <= checkpoint[c]
       \/ process[c] = "chunk" /\ d <= job[c].pos

(* What a run that starts from scratch takes away from the checkpoints: in *)
(* the step from "connect" to "save" it discards all batches.              *)
Discards(a) ==
    IF process[a] = "connect" /\ process'[a] = "save" /\ job'[a].pos = 0
    THEN {d \in StoredDocs : CountsAsFetched(d)}
    ELSE {}

FetchStep(a) ==
    /\ \/ VerifyAttempt(a)
       \/ StartAttempt(a)
       \/ RefuseStart(a)
       \/ ChooseWindow(a)
       \/ ResumeFromCheckpoint(a)
       \/ DiscardOldBatches(a)
       \/ AdoptOldBatches(a)
       \/ CountBatchToSend(a)
       \/ ReissueBatch(a)
       \/ CarryCompleted(a)
       \/ SaveFirstCheckpoint(a)
       \/ YieldBatch(a)
       \/ YieldCheckpoint(a)
       \/ StopOnSignal(a)
       \/ RaiseNotRunning(a)
       \/ StoreFetchedBatch(a)
       \/ QueueFetchedBatch(a)
       \/ SaveRunCheckpoint(a)
       \/ FinishExtraction(a)
       \/ HandleException(a)
       \/ MarkRaised(a)
    /\ discarded' = discarded \cup Discards(a)
    /\ UNCHANGED <<fetchOnly, faults>>

FetchFault(a) ==
    /\ \/ Fault("spawn") /\ SpawnFails(a)
       \/ Fault("fetch") /\ YieldFailure(a)
       \/ Fault("connector") /\ ExtractionRaises(a)
       \/ Fault("validation") /\ ValidationFails(a)
       \/ Fault("process") /\ ProcessDies(a)
       \/ Fault("shutdown") /\ WorkerShutsDown(a)
       \/ Fault("memory") /\ MemoryLimitExceeded(a)
       \/ Fault("pod") /\ PodDies(a)
       \/ Fault("redis") /\ CountingMissed(a)
    /\ UNCHANGED <<fetchOnly, discarded>>

-----------------------------------------------------------------------------
WorkerStep(w) ==
    /\ \/ PickUpBatch(w)
       \/ IndexBatch(w)
       \/ CountProcessed(w)
       \/ RecordFailures(w)
       \/ DeleteProcessed(w)
       \/ HandleTaskException(w)
       \/ CountFailed(w)
       \/ FinishTask(w)
    /\ UNCHANGED <<workerOnly, faults, missed>>

Misses(a) == missed' = [missed EXCEPT ![a] = @ + 1]

WorkerFault(w) ==
    /\ \/ Fault("document") /\ DocumentFails(w)
       \/ Fault("task") /\ TaskRaises(w)
       \/ Fault("late_task") /\ TaskRaisesLate(w)
       \/ Fault("lock") /\ LockTimesOut(w)
       \/ Fault("worker") /\ worker[w].at \in CrashPoints /\ WorkerDies(w)
       \/ Fault("usage") /\ UsageLimitExceeded(w)
       \/ Fault("redis") /\ ReleaseMissed(w)
    /\ UNCHANGED <<workerOnly, missed>>

PickUpFault(w) ==
    /\ Fault("redis")
    /\ \E a \in Attempts : PickUpMissed(w, a) /\ Misses(a)
    /\ UNCHANGED workerOnly

BrokerFault(a) ==
    /\ Fault("broker")
    /\ \E n \in BatchNums : LoseMessage(a, n)
    /\ Misses(a)
    /\ UNCHANGED <<processVars, workerOnly>>

-----------------------------------------------------------------------------
(* update_cc_pair_status to PAUSED: the stop fence; cancellation requested *)
(* for the attempts that are active now, and their messages revoked; then  *)
(* the cc_pair row.  Three stores, three steps.                            *)
RaiseFence ==
    /\ admin = "idle"
    /\ ccStatus # "PAUSED"
    /\ stopFence' = TRUE
    /\ admin' = "fenced"
    /\ UNCHANGED <<attemptVars, ccStatus, busVars, fetchVars>>

RequestCancellation ==
    /\ admin = "fenced"
    /\ cancel' = [a \in Attempts |-> cancel[a] \/ IsActive(a)]
    /\ newer' = {p \in newer : ~IsActive(p[2])}
                  \cup {p \in Created \X Created :
                          IsActive(p[1]) /\ ~IsActive(p[2])}
    /\ admin' = "canceled"
    /\ UNCHANGED <<status, taskId, total, completed, fromBeginning, window,
                   checkpoint, errors, ccVars, busVars, fetchVars>>

PauseRow ==
    /\ admin = "canceled"
    /\ ccStatus' = "PAUSED"
    /\ admin' = "idle"
    /\ UNCHANGED <<attemptVars, stopFence, busVars, fetchVars>>

ResumeConnector ==
    /\ admin = "idle"
    /\ ccStatus = "PAUSED"
    /\ stopFence' = FALSE
    /\ ccStatus' = "ACTIVE"
    /\ UNCHANGED <<attemptVars, busVars, fetchVars, admin>>

AdminStep ==
    /\ \/ Fault("pause") /\ RaiseFence
       \/ (RequestCancellation \/ PauseRow \/ ResumeConnector)
          /\ UNCHANGED faults
    /\ UNCHANGED adminOnly

-----------------------------------------------------------------------------
Next ==
    \/ \E a \in Attempts : \/ KickoffStep(a)
                           \/ ValidateAttempt(a)
                           \/ Monitor(a)
                           \/ ProxyStep(a)
                           \/ FetchStep(a)
                           \/ FetchFault(a)
                           \/ Heartbeat(a)
                           \/ BrokerFault(a)
    \/ SendStep
    \/ MonitorStep
    \/ BeatFault
    \/ \E w \in Workers : WorkerStep(w) \/ WorkerFault(w) \/ PickUpFault(w)
    \/ AdminStep

Spec == Init /\ [][Next]_vars

(* Celery consumers, the spawned process, the proxy's loop and the beat    *)
(* schedule each keep taking their next step; nothing makes a fault        *)
(* happen, and nothing makes an administrator resume a connector.          *)
Fairness ==
    /\ \A a \in Attempts : /\ WF_vars(ProxyStep(a))
                           /\ WF_vars(FetchStep(a))
    /\ \A w \in Workers : WF_vars(WorkerStep(w))
    /\ SF_vars(\E a \in Attempts : ValidateAttempt(a))
    /\ WF_vars(\E a \in Attempts : Monitor(a))
    /\ WF_vars(SendStep)
    /\ WF_vars(MonitorStep)
    /\ WF_vars(RequestCancellation /\ UNCHANGED <<adminOnly, faults>>)
    /\ WF_vars(PauseRow /\ UNCHANGED <<adminOnly, faults>>)

FairSpec == Spec /\ Fairness

(* Moreover the schedule finds the connector due again and again, and a    *)
(* paused connector is resumed.                                            *)
ScheduledSpec ==
    /\ FairSpec
    /\ SF_vars(\E a \in Attempts : KickoffStep(a))
    /\ WF_vars(ResumeConnector /\ UNCHANGED <<adminOnly, faults>>)
=============================================================================
