-------------------------- MODULE CheckForIndexing --------------------------
(***************************************************************************)
(* The beat task check_for_indexing                                        *)
(* (background/celery/tasks/docprocessing/tasks.py): it creates attempts,  *)
(* fails the ones that are lost or no longer beating, and finalizes the    *)
(* ones that are complete.  Its Redis lock keeps runs from overlapping, so *)
(* there is one of it.                                                     *)
(***************************************************************************)
EXTENDS BatchTransport

CONSTANT ReindexModes   (* from_beginning values a kickoff may ask for      *)

ASSUME CheckForIndexingAssumption == ReindexModes \subseteq BOOLEAN

VARIABLE beat   (* where the task is: creating or monitoring attempt beat.a,
                   with the outcome it read off the coordination status    *)

BeatPlaces == {"idle", "send", "monitor", "complete", "cleanup"}
BeatIdle   == [at |-> "idle", a |-> 1, outcome |-> "SUCCESS"]
BeatTypeOK == beat \in [at : BeatPlaces, a : Attempts, outcome : Succeeded]
BeatInit   == beat = BeatIdle

-----------------------------------------------------------------------------
(* _kickoff_indexing_tasks and try_creating_docfetching_task: an indexable *)
(* cc_pair without an active attempt gets one.  When it is due is left to  *)
(* the schedule.  The row is committed before the message is sent.         *)
Kickoff(a, reindex) ==
    /\ beat.at = "idle"
    /\ ccStatus \in ActiveCC
    /\ CreateAttempt(a, reindex)
    /\ beat' = [beat EXCEPT !.at = "send", !.a = a]
    /\ UNCHANGED <<busVars, ccVars, cancel, total, completed, window,
                   checkpoint, errors>>

SendFetching ==
    /\ beat.at = "send"
    /\ beat' = BeatIdle
    /\ UNCHANGED <<rowVars, busVars>>

markFrame == <<ccVars, cancel, total, completed, fromBeginning, window,
               checkpoint, errors, queue>>

(* send_task raised: the attempt just created is failed.                   *)
SendFails ==
    /\ beat.at = "send"
    /\ Mark(beat.a, "FAILED")
    /\ beat' = BeatIdle
    /\ UNCHANGED <<markFrame, files, trampled>>

(* Mutant: the counters not read                                           *)
OnlyBacklogOnceFetched(a) == total[a] # None

(* validate_active_indexing_attempts.  alive: some process or task of the  *)
(* attempt runs a heartbeat thread.  The half hour without a heartbeat is  *)
(* taken to pass only when none does; batches that only wait in the queue  *)
(* once extraction is over are left alone.                                 *)
OnlyBacklog(a) == total[a] # None /\ inFlight[a] = 0 /\ pending[a] > 0

FailStale(a, alive) ==
    /\ beat.at = "idle"
    /\ status[a] = "IN_PROGRESS" /\ taskId[a]
    /\ ~alive
    /\ ~OnlyBacklog(a)
    /\ Mark(a, "FAILED")
    /\ UNCHANGED <<beat, markFrame, files, trampled>>

(* After NOT_STARTED_SCAN_THRESHOLD_HOURS.  live: the docfetching message  *)
(* is queued or a worker holds it.                                         *)
FailLost(a, live) ==
    /\ beat.at = "idle"
    /\ status[a] = "NOT_STARTED" /\ taskId[a]
    /\ ~live
    /\ Mark(a, "FAILED")
    /\ UNCHANGED <<beat, markFrame, files, trampled>>

-----------------------------------------------------------------------------
(* monitor_indexing_attempt_progress, for an attempt that was active when  *)
(* the attempts were listed                                                *)
StartMonitoring(a) ==
    /\ beat.at = "idle"
    /\ IsActive(a) /\ taskId[a]
    /\ beat' = [beat EXCEPT !.at = "monitor", !.a = a]
    /\ ccStatus' = IF ccStatus = "SCHEDULED" THEN "INITIAL_INDEXING"
                   ELSE ccStatus
    /\ UNCHANGED <<attemptVars, busVars, stopFence>>

(* Mutant: total_batches NULL taken for complete                           *)
IsCompleteOnceStarted(a) == total[a] = None \/ completed[a] >= total[a]

(* Mutant: the last batch not waited for                                   *)
IsCompleteOffByOne(a) == total[a] # None /\ completed[a] + 1 >= total[a]

IsComplete(a) == total[a] # None /\ completed[a] >= total[a]

CancelRequested ==
    /\ beat.at = "monitor"
    /\ cancel[beat.a]
    /\ MarkCanceled(beat.a)
    /\ beat' = BeatIdle
    /\ UNCHANGED <<markFrame, files, trampled>>

(* get_coordination_status and the test of check_indexing_completion       *)
CheckCompletion ==
    /\ beat.at = "monitor"
    /\ ~cancel[beat.a]
    /\ beat' = IF IsComplete(beat.a)
               THEN [beat EXCEPT !.at = "complete",
                                 !.outcome = IF errors[beat.a] = {}
                                             THEN "SUCCESS"
                                             ELSE "COMPLETED_WITH_ERRORS"]
               ELSE BeatIdle
    /\ UNCHANGED <<rowVars, busVars>>

MarkCompleted ==
    /\ beat.at = "complete"
    /\ Mark(beat.a, beat.outcome)
    /\ ccStatus' = IF ccStatus \in {"SCHEDULED", "INITIAL_INDEXING"}
                   THEN "ACTIVE" ELSE ccStatus
    /\ beat' = [beat EXCEPT !.at = "cleanup"]
    /\ UNCHANGED <<stopFence, cancel, total, completed, fromBeginning, window,
                   checkpoint, errors, files, queue, trampled>>

CleanupCompleted ==
    /\ beat.at = "cleanup"
    /\ CleanupAllBatches(beat.a)
    /\ beat' = BeatIdle
    /\ UNCHANGED <<rowVars, queue, pending, inFlight>>

(* An exception while completing: the attempt is failed, its store emptied.*)
MonitoringFails ==
    /\ beat.at \in {"complete", "cleanup"}
    /\ Mark(beat.a, "FAILED")
    /\ CleanupAllBatches(beat.a)
    /\ beat' = BeatIdle
    /\ UNCHANGED markFrame

(* The beat worker dies; the next beat starts from the top.                *)
BeatDies ==
    /\ beat.at # "idle"
    /\ beat' = BeatIdle
    /\ UNCHANGED <<rowVars, busVars>>
=============================================================================
