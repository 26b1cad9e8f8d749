------------------------- MODULE ConnectorDeletion -------------------------
(***************************************************************************)
(* Connector deletion (background/celery/tasks/connector_deletion/tasks.py *)
(* and redis/redis_connector_delete.py).  A beat task puts up a fence for  *)
(* a cc_pair that is DELETING, waits for what could still write its        *)
(* documents, sends a cleanup task for each of them, and deletes the       *)
(* cc_pair when they are done.  Its lock keeps its runs from overlapping,  *)
(* and it takes the cc_pairs in turn.                                      *)
(***************************************************************************)
EXTENDS ConnectorPruning, ReindexPort, DocumentIndexing

CONSTANT Deletions   (* the cc_pairs an administrator may delete           *)

ASSUME ConnectorDeletionAssumption == Deletions \subseteq Pairs

VARIABLES
    fence,   (* setup: num_tasks is None, and the beat task is at work;    *)
             (* orphan: the same, and the beat task died; ready: the tasks *)
             (* are counted                                                *)
    stop     (* the RedisConnectorStop fence                               *)

FencePlaces == {"none", "setup", "orphan", "ready"}

DeletionTypeOK ==
    /\ fence \in [Pairs -> FencePlaces]
    /\ stop \in [Pairs -> BOOLEAN]

DeletionInit ==
    /\ fence = [p \in Pairs |-> "none"]
    /\ stop = [p \in Pairs |-> FALSE]

Fenced(p) == fence[p] # "none"

-----------------------------------------------------------------------------
(* create_deletion_attempt_for_connector_id: attempts NOT_STARTED are      *)
(* canceled, and the cc_pair is DELETING.                                  *)
RequestDeletion(p) ==
    /\ p \in Deletions
    /\ ccStatus[p] \in Indexable
    /\ ccStatus' = [ccStatus EXCEPT ![p] = "DELETING"]
    /\ NotStartedCanceled(p)
    /\ UNCHANGED <<links, rows, edits, stale, deferred, settingVars, index,
                   portVars, cleanup, prune, fence, stop>>

deletionFrame == <<storeVars, copier, indexer>>

(* try_generate_document_cc_pair_cleanup_tasks: a basic fence to start.    *)
RaiseDeletionFence(p) ==
    /\ \A q \in Pairs : fence[q] # "setup"
    /\ fence[p] = "none"
    /\ ccStatus[p] = "DELETING"
    /\ fence' = [fence EXCEPT ![p] = "setup"]
    /\ UNCHANGED <<deletionFrame, port, cleanup, prune, stop>>

(* Mutant: an active port not waited for                                   *)
BlockedByTheRest(p) == IndexingInProgress(p) \/ PruneFenced(p)

(* TaskDependencyError.  The status of the latest index attempt is looked  *)
(* at first, the port after it.                                            *)
Blocked(p) == IndexingInProgress(p) \/ IsPortActive(p) \/ PruneFenced(p)

(* The port is asked to stop, and the fence goes.  The stop signal is set  *)
(* at the first error; once it has timed out, what blocks is reset: the    *)
(* fence of the pruning, with its set of tasks.                            *)
DeletionBlocked(p, timedOut) ==
    /\ fence[p] = "setup"
    /\ Blocked(p)
    /\ timedOut => stop[p]
    /\ fence' = [fence EXCEPT ![p] = "none"]
    /\ stop' = [stop EXCEPT ![p] = TRUE]
    /\ port' = IF IndexingInProgress(p) THEN port
               ELSE [port EXCEPT ![p] = Canceled(@)]
    /\ prune' = IF timedOut /\ prune[p] # "checked"
                THEN [prune EXCEPT ![p] = "none"] ELSE prune
    /\ cleanup' = IF timedOut THEN Untrack("prune", p) ELSE cleanup
    /\ UNCHANGED deletionFrame

(* RedisConnectorDelete.generate_tasks, then the count.                    *)
TasksFor(p, ids) == {Task("delete", p, d) : d \in ids}

GenerateCleanup(p) ==
    /\ fence[p] = "setup"
    /\ ~Blocked(p)
    /\ cleanup' = Untrack("delete", p) \cup TasksFor(p, LinkedTo(p) \cap rows)
    /\ fence' = [fence EXCEPT ![p] = "ready"]
    /\ stop' = [stop EXCEPT ![p] = FALSE]
    /\ UNCHANGED <<deletionFrame, port, prune>>

(* The loop is left with part of the tasks sent: by the death of the beat  *)
(* task, or by an exception, which takes the fence down.                   *)
GenerateInPart(p, sent) ==
    /\ fence[p] = "setup"
    /\ ~Blocked(p)
    /\ sent \subseteq LinkedTo(p) \cap rows
    /\ cleanup' = Untrack("delete", p) \cup TasksFor(p, sent)
    /\ UNCHANGED <<deletionFrame, port, prune>>

DeletionBeatDies(p, sent) ==
    /\ GenerateInPart(p, sent)
    /\ fence' = [fence EXCEPT ![p] = "orphan"]
    /\ UNCHANGED stop

DeletionRaises(p, sent) ==
    /\ GenerateInPart(p, sent)
    /\ fence' = [fence EXCEPT ![p] = "none"]
    /\ stop' = [stop EXCEPT ![p] = FALSE]

(* Mutant: a fence without its count taken for one that is being set up    *)
ResetReadyFence(p) ==
    /\ fence[p] = "ready"
    /\ Tracked("delete", p) = {}
    /\ fence' = [fence EXCEPT ![p] = "none"]
    /\ UNCHANGED <<deletionFrame, port, cleanup, prune, stop>>

(* validate_connector_deletion_fence, once no task is left                 *)
ResetDeletionFence(p) ==
    /\ fence[p] = "orphan"
    /\ Tracked("delete", p) = {}
    /\ fence' = [fence EXCEPT ![p] = "none"]
    /\ UNCHANGED <<deletionFrame, port, cleanup, prune, stop>>

(* or while there are tasks, which were not seen in the queue until the    *)
(* active signal had expired: prefetched, at work or to be tried again.    *)
ResetFenceInUse(p) ==
    /\ fence[p] \in {"orphan", "ready"}
    /\ Tracked("delete", p) # {}
    /\ cleanup' = Untrack("delete", p)
    /\ fence' = [fence EXCEPT ![p] = "none"]
    /\ UNCHANGED <<deletionFrame, port, prune, stop>>

(* monitor_connector_deletion_taskset: documents that are left make the    *)
(* deletion start again; otherwise the cc_pair goes, and its port and      *)
(* index attempts with it.                                                 *)
RestartDeletion(p) ==
    /\ fence[p] = "ready"
    /\ Tracked("delete", p) = {}
    /\ LinkedTo(p) # {}
    /\ fence' = [fence EXCEPT ![p] = "none"]
    /\ UNCHANGED <<deletionFrame, port, cleanup, prune, stop>>

FinishDeletion(p) ==
    /\ fence[p] = "ready"
    /\ Tracked("delete", p) = {}
    /\ LinkedTo(p) = {}
    /\ ccStatus' = [ccStatus EXCEPT ![p] = "GONE"]
    /\ fence' = [fence EXCEPT ![p] = "none"]
    /\ port' = [port EXCEPT ![p] = NoPort]
    /\ indexer' = [indexer EXCEPT ![p].status = "none", ![p].todo = {}]
    /\ UNCHANGED <<links, rows, edits, stale, deferred, settingVars, index,
                   copier, cleanup, prune, stop>>
=============================================================================
