---------------------------- MODULE MetadataSync ---------------------------
(***************************************************************************)
(* The metadata sync (background/celery/tasks/vespa/): a beat task that    *)
(* queues a task for each document whose metadata changed since it was     *)
(* last synced, or whose sync was deferred, and the task itself,           *)
(* document_index_metadata_sync_task, which copies the access and the      *)
(* other metadata of one document from Postgres to the active indices.     *)
(* The fence is up as long as one of the tasks it counted is left.         *)
(***************************************************************************)
EXTENDS ReindexPort

CONSTANT Synced   (* bound: the documents whose syncs are followed; those  *)
                  (* of the others never get their turn                    *)

ASSUME MetadataSyncAssumption == Synced \subseteq Docs

VARIABLE syncer   (* [at, into, todo, filling, meta, missing] per document: *)
                  (* where its task is, the indices it must still update,  *)
                  (* the ones that are still being filled, what it read    *)
                  (* from Postgres, and whether an index missed it         *)

SyncPlaces == {"idle", "queued", "index", "mark"}

SyncIdle == [at |-> "idle", todo |-> {}, filling |-> {}, meta |-> None,
             missing |-> FALSE]

SyncStates ==
    [at : SyncPlaces, todo : SUBSET Indices, filling : SUBSET Indices,
     meta : Entries \cup {None}, missing : BOOLEAN]

SyncTypeOK == syncer \in [Docs -> SyncStates]

SyncInit == syncer = [d \in Docs |-> SyncIdle]

(* A task of the document is between its read and its last write.          *)
Syncing(d) == syncer[d].at \in {"index", "mark"}

-----------------------------------------------------------------------------
(* What an administrator or a permission sync changes, and marks modified. *)
EditMetadata(d) ==
    /\ d \in rows
    /\ edits' = [edits EXCEPT ![d] = @ + 1]
    /\ stale' = stale \cup {d}
    /\ UNCHANGED <<ccStatus, links, rows, deferred, settingVars, index,
                   syncer>>

(* Mutant: deferred documents are not looked for                           *)
GenerateForStale ==
    /\ \A d \in Docs : syncer[d].at = "idle"
    /\ stale \cap Synced # {}
    /\ syncer' = [d \in Docs |->
                    IF d \in stale \cap Synced
                    THEN [SyncIdle EXCEPT !.at = "queued"] ELSE SyncIdle]
    /\ UNCHANGED storeVars

(* construct_document_id_select_by_needs_sync_or_secondary_pending         *)
Unsynced == (stale \cup deferred) \cap Synced

(* generate_document_sync_tasks, behind the fence of the tasks before.     *)
GenerateSyncTasks ==
    /\ \A d \in Docs : syncer[d].at = "idle"
    /\ Unsynced # {}
    /\ syncer' = [d \in Docs |->
                    IF d \in Unsynced
                    THEN [SyncIdle EXCEPT !.at = "queued"] ELSE SyncIdle]
    /\ UNCHANGED storeVars

(* Mutant: the backfill of a promoted index forgotten                      *)
OnlyFuture == {i \in ActiveIndices : setting[i] = "FUTURE"}

(* The indices that are still being filled by a port: the FUTURE one, or   *)
(* the promoted one of an INSTANT switchover.                              *)
Filling ==
    {i \in ActiveIndices :
       \/ setting[i] = "FUTURE"
       \/ i = "new" /\ backfill /\ BackfillPending}

(* The settings, the backfill, the document, its document sets and its     *)
(* access, in one session.                                                 *)
SyncRead(d) ==
    /\ syncer[d].at = "queued"
    /\ HasPrimary
    /\ syncer' = [syncer EXCEPT ![d] =
                    IF d \in rows
                    THEN [at |-> "index", todo |-> ActiveIndices,
                          filling |-> Filling, meta |-> Metadata(d),
                          missing |-> FALSE]
                    ELSE SyncIdle]
    /\ UNCHANGED storeVars

(* OpenSearchIndexPair.update: the primary first, and only "old" is one    *)
(* beside a FUTURE index.  A document that an index being filled does not  *)
(* have raises SecondaryIndexDocumentMissingError, and what comes after it *)
(* is left out; in a full index it is passed over.                         *)
SyncIndex(d, i) ==
    /\ syncer[d].at = "index"
    /\ i \in syncer[d].todo
    /\ i = "old" \/ "old" \notin syncer[d].todo
    /\ UpdateIn({i}, d, syncer[d].meta)
    /\ LET missing == index[i][d] = None /\ i \in syncer[d].filling
           todo == IF missing THEN {} ELSE syncer[d].todo \ {i}
       IN  syncer' = [syncer EXCEPT
                        ![d].todo = todo,
                        ![d].at = IF todo = {} THEN "mark" ELSE "index",
                        ![d].missing = missing]
    /\ UNCHANGED <<dbVars, settingVars>>

(* The database is updated last; a row that is gone raises, and what is    *)
(* tried again finds no document.                                          *)
SyncMark(d) ==
    /\ syncer[d].at = "mark"
    /\ CASE d \notin rows -> UNCHANGED <<stale, deferred>>
         [] d \in rows /\ syncer[d].missing /\ HasIndexablePair(d) ->
              /\ stale' = stale \ {d}
              /\ deferred' = deferred \cup {d}
         [] OTHER -> MarkSynced(d)
    /\ syncer' = [syncer EXCEPT ![d] = SyncIdle]
    /\ UNCHANGED <<ccStatus, links, rows, edits, settingVars, index>>

(* An exception is retried, or the last retry is over; a soft time limit,  *)
(* or an expired message, ends the task.                                   *)
SyncFails(d, at) ==
    /\ Syncing(d)
    /\ syncer' = [syncer EXCEPT ![d] = [SyncIdle EXCEPT !.at = at]]
    /\ UNCHANGED storeVars
=============================================================================
