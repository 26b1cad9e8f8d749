-------------------------- MODULE IndexingProperties ------------------------
(***************************************************************************)
(* What the indexing pipeline must guarantee.  The properties that some    *)
(* comment of the code claims, and the code does not keep, are at the end. *)
(***************************************************************************)
EXTENDS IndexingPipeline

(* At most one attempt of the cc_pair is NOT_STARTED or IN_PROGRESS:       *)
(* try_create_index_attempt, whatever the processes and tasks of older     *)
(* attempts still do.                                                      *)
OneActiveAttempt ==
    \A a, b \in Attempts : IsActive(a) /\ IsActive(b) => a = b

(* Documents docprocessing still holds in a task that will index them or   *)
(* write their error row.                                                  *)
HeldDocs == {worker[w].doc : w \in {x \in Workers : worker[x].at # "idle"}}

Accounted == indexed \cup AllErrors \cup StoredDocs \cup HeldDocs

(* An attempt whose process has chosen where to start, or whose run is     *)
(* over, and has not failed                                                *)
PastStart(a) ==
    /\ status[a] \in {"IN_PROGRESS"} \cup Succeeded
    /\ process[a] \in ProcessPlaces \ {"none", "queued", "spawned",
                                       "verified", "window", "connect"}

(* Every document the running attempt counts as fetched, by its own        *)
(* process or by the attempts it resumed from, is in the index, has an     *)
(* error row, or is stored and waiting: unless a batch was trampled on, or *)
(* a run that started from scratch discarded what an older checkpoint      *)
(* still counts (SkippedIsAccounted, below).                               *)
NoDocumentLost ==
    ~trampled =>
      \A a \in Attempts :
        PastStart(a) => 1..job[a].pos \subseteq Accounted \cup discarded

(* completed_batches reaches total_batches only once every stored batch    *)
(* has been through docprocessing, into the index or an error row: the     *)
(* completion check, and the cleanup_all_batches that follows, rely on it, *)
(* also when a resumed run renamed batches over one another.               *)
BatchDone(a, n) == files[a][n] \in indexed \cup AllErrors \cup HeldDocs

CompletionMeansProcessed ==
    \A a \in Attempts :
      status[a] = "IN_PROGRESS" /\ IsComplete(a)
        => \A n \in BatchNums : HasFile(a, n) => BatchDone(a, n)

(* A SUCCESS moves the poll window on for good, so no document of the      *)
(* source may be missing from the index by then: it is there, or a task    *)
(* still holds it, or it has an error row; a batch that only waits in the  *)
(* file store is not enough, since nobody will reissue it.                 *)
SuccessCoversSource ==
    ~trampled =>
      \A a \in Attempts :
        status[a] \in Succeeded
          => Docs \subseteq indexed \cup AllErrors \cup HeldDocs
                               \cup discarded

(* The counters the stale check trusts, once extraction is over: pending   *)
(* claims no more messages of an active attempt than are in the queue, so  *)
(* that it is not left waiting for a backlog that is not there, and        *)
(* in_flight covers the tasks that run.  Each pickup Redis failed to count *)
(* and each message the broker lost costs one, and no more; a process that *)
(* dies, or whose send_task raises, between incr_pending and send_task     *)
(* costs nothing, because its attempt never gets a total (batch_counters,  *)
(* validate_active_indexing_attempts).                                     *)
Waiting(a) == UNION {{n} \X (1..queue[a][n]) : n \in BatchNums}
Tasks(a)   == {w \in Workers : InAttempt(w, a)}

BacklogIsReal ==
    \A a \in Attempts :
        IsActive(a) /\ total[a] # None
          => /\ pending[a] <= Cardinality(Waiting(a)) + missed[a]
             /\ Cardinality(Tasks(a)) <= inFlight[a] + missed[a]

(* The rows obey the abstract life cycle of an attempt: nothing any task,  *)
(* process or late message does makes an attempt that ended run again.     *)
Lifecycle == INSTANCE AttemptLifecycle

LifecycleSpec == Lifecycle!Spec

(* No attempt stays active for ever, whichever of its tasks, messages and  *)
(* processes are lost: attempts exclude one another, so again and again    *)
(* none of them is active.                                                 *)
AttemptsEnd == []<>(\A a \in Attempts : ~IsActive(a))

(* As long as the schedule starts new attempts, every document of the      *)
(* source ends up in the index or with an error row.                       *)
EventuallyAccounted == <>(trampled \/ Docs \subseteq indexed \cup AllErrors)

-----------------------------------------------------------------------------
(* "This should be one more than the last batch created by docfetching     *)
(* regardless of whether the batch is still in the filestore"              *)
(* (run_docfetching.py, reissue_old_batches)                               *)
NextBatchNumIsFresh ==
    \A a \in Attempts, n \in BatchNums :
        process[a] \in {"reissue", "save"} /\ HasFile(a, n) => n < job[a].num

(* "throw out batches from previous unsuccessful attempts because we'll be *)
(* getting those documents again anyways" (run_docfetching.py): what a run *)
(* skips, because a checkpoint counts it, is indexed, recorded, or still   *)
(* in a batch.                                                             *)
SkippedIsAccounted ==
    ~trampled =>
      \A a \in Attempts :
        process[a] \in {"adopt", "save"} => 1..job[a].pos \subseteq Accounted
=============================================================================
