------------------------- MODULE DocumentProperties -------------------------
(***************************************************************************)
(* What the background jobs of DocumentLifecycle promise of the documents  *)
(* they copy, update and delete.                                           *)
(***************************************************************************)
EXTENDS DocumentLifecycle

Contract ==
    INSTANCE PortContract WITH
        Last   <- NDocs,
        status <- [p \in Pairs |-> port[p].status],
        cursor <- [p \in Pairs |-> port[p].cursor],
        bound  <- [p \in Pairs |-> port[p].upTo]

(* The attempts of the reindex port keep their contract, whichever of the  *)
(* beat task, the port task, the watchdog, a cancellation, a swap or a     *)
(* deletion writes the row: the first terminal status stays, a retry goes  *)
(* on where the FAILED attempt stopped, and a cursor only moves forward    *)
(* and only while its attempt runs (db/port_attempt.py).                   *)
KeepsPortContract == Contract!Spec

-----------------------------------------------------------------------------
(* A document that a cc_pair had from the start and keeps: its source has  *)
(* it, and nobody deletes the cc_pair.                                     *)
Kept(p, d) == <<p, d>> \in Links0 \ Vanished /\ ccStatus[p] \in Indexable

(* A cursor stands for a copy: every document that a cc_pair keeps and its *)
(* port has passed is in the "new" index, whatever was canceled, retried,  *)
(* yielded or died on the way, and whatever cleanup tasks of other         *)
(* cc_pairs do (run_port_attempt commits its cursor only after a whole     *)
(* batch).  A cleanup task that is delivered again, or sent again beside   *)
(* the one before, may take the document away from everyone.               *)
PortedMeansCopied ==
    \A p \in Pairs, d \in Docs \ repeated :
       Kept(p, d) /\ port[p].status # "NONE" /\ d <= port[p].cursor
         => index["new"][d] # None

(* Once "new" serves the searches and no backfill goes on, it has all the  *)
(* backlog of the cc_pairs the switchover had to wait for: neither the     *)
(* swap nor the end of an INSTANT backfill comes too early                 *)
(* (_port_swap_ready, port_backfill_has_pending_work).                     *)
BacklogServed ==
    setting["new"] = "PRESENT" /\ ~backfill =>
      \A p \in Pairs, d \in Docs \ repeated :
         Kept(p, d) /\ InScope(p) => index["new"][d] # None

BeingDeleted(d) == \E p \in Holders(d) : ccStatus[p] = "DELETING"

(* No edit is lost between the sync, the port and the swap: an active      *)
(* index that has a document has its last edit and gives no access that    *)
(* Postgres does not, or the document is still to be synced, or a task of  *)
(* it is under way.  A document that a still empty index misses must stay  *)
(* flagged until the port has copied it, because what the port copies may  *)
(* be older than the edit (document_index_metadata_sync_task,              *)
(* mark_document_synced_secondary_pending).  Nothing keeps an edit from a  *)
(* document whose task is between its read and its last write, which then  *)
(* marks it synced: this speaks of the documents that were never overtaken *)
(* in that way.                                                            *)
IndexIsCurrent ==
    \A d \in rows \ overtaken, i \in ActiveIndices :
       \/ index[i][d] = None
       \/ d \in stale \cup deferred
       \/ Syncing(d) \/ Cleaning(d) \/ BeingDeleted(d)
       \/ /\ index[i][d].edits = edits[d]
          /\ index[i][d].access \subseteq Access(d)

-----------------------------------------------------------------------------
Writing(d) ==
    \/ \E p \in Pairs : copier[p].at = "write" /\ copier[p].doc = d
    \/ Cleaning(d)

Pruned == {v[2] : v \in Vanished}

(* A document whose row is gone is in no active index, once nothing is     *)
(* about to write it: a failing, retried or abandoned cleanup task leaves  *)
(* no chunks behind that no row stands for                                 *)
(* (document_by_cc_pair_cleanup_task deletes the row last), nor does a     *)
(* docprocessing task that outlives its attempt, before the cleanup task   *)
(* or after.  Three ways to leave one are known and left out: an index     *)
(* attempt that writes between the phases of a cleanup task (intruded), a  *)
(* cleanup task that runs again beside another cc_pair's port (repeated),  *)
(* and a port at work on a document that a pruning removes                 *)
(* (DeletedStaysDeleted).                                                  *)
NoOrphan ==
    \A d \in Docs \ (rows \cup Pruned \cup repeated \cup intruded) :
       ~Writing(d) => \A i \in ActiveIndices : index[i][d] = None

(* The docstring of filter_existing_cc_pair_document_ids: the port asks    *)
(* for the documents that still exist, so that one deleted mid-batch is    *)
(* dropped, not resurrected into the FUTURE index.                         *)
DeletedStaysDeleted == \A d \in Docs \ rows : index["new"][d] = None

(* A document that a cc_pair shares with one that is deleted or pruned     *)
(* keeps its row, its link and its place in the index: the cleanup tasks   *)
(* delete it only when they take the last cc_pair away                     *)
(* (get_document_connector_count), whatever fails, is retried, gives up or *)
(* is reset.  What a task that runs again does is shown by                 *)
(* OnlyHolderDeletes.                                                      *)
SharedDocumentSurvives ==
    \A p \in Pairs, d \in Docs \ repeated :
       Kept(p, d) =>
         /\ <<p, d>> \in links
         /\ d \in rows
         /\ setting["old"] = "PRESENT" => index["old"][d] # None

(* "find all documents associated with connector / credential pair where   *)
(* there this the is only connector / credential pair that has indexed it; *)
(* delete all documents from document stores"                              *)
(* (document_by_cc_pair_cleanup_task): a document that another cc_pair     *)
(* keeps is not deleted.                                                   *)
OnlyHolderDeletes == \A p \in Pairs, d \in Docs : Kept(p, d) => d \in rows

(* As long as a task of a deletion is counted, no port writes documents of *)
(* the cc_pair: the deletion waited for its port, and none starts again    *)
(* ("making cleanup the last writer",                                      *)
(* try_generate_document_cc_pair_cleanup_tasks).  A docprocessing task of  *)
(* the attempt it waited for may well be at work.                          *)
CleanupIsLastWriter ==
    \A c \in cleanup :
      c.kind = "delete" /\ c.tracked =>
        copier[c.pair].at \notin {"read", "copy", "write"}

-----------------------------------------------------------------------------
(* The process died between the commits of a swap: there is no PRESENT     *)
(* row, and every task that asks for one raises.                           *)
Stranded == swapper = "idle" /\ ~HasPrimary

(* A cc_pair that is being deleted is gone one day: tasks that fail, are   *)
(* repeated or give up, a beat task that dies with half of them sent, a    *)
(* pruning or an index attempt in the way only delay it                    *)
(* (monitor_connector_deletion_taskset, validate_connector_deletion_fence). *)
DeletionEnds ==
    \A p \in Pairs :
       ccStatus[p] = "DELETING" ~> ccStatus[p] = "GONE" \/ Stranded

(* A reindex ends, by its switchover or its cancellation: a port that died *)
(* or failed is resumed, a cc_pair that is deleted is no longer waited     *)
(* for, and a deferred sync does not hold up the swap for ever             *)
(* (_fail_stalled_port_attempts, _port_swap_ready).                        *)
ReindexEnds ==
    setting["new"] = "FUTURE" ~> setting["new"] # "FUTURE" \/ Stranded

(* Again and again, no document is left to sync: a sync that was deferred  *)
(* until the port has copied its document is not forgotten                 *)
(* (generate_document_sync_tasks).                                         *)
SyncEnds == []<>(Unsynced = {} \/ Stranded)
=============================================================================
