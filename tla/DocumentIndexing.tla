-------------------------- MODULE DocumentIndexing -------------------------
(***************************************************************************)
(* What an index attempt does to the rows and the live index, one document *)
(* at a time (indexing/indexing_pipeline.py and                            *)
(* indexing/adapters/document_indexing_adapter.py): the rows of the        *)
(* document are committed first; then, under the locks of the rows, the    *)
(* chunks are written with the metadata of that moment.  A docprocessing   *)
(* task asks for the status of its attempt before that, and never again:   *)
(* it goes on whatever becomes of the attempt.                             *)
(***************************************************************************)
EXTENDS DocumentStore

CONSTANT Arrivals   (* <<cc_pair, document>>: what attempts may fetch      *)

ASSUME DocumentIndexingAssumption == Arrivals \subseteq Pairs \X Docs

VARIABLE indexer   (* [status, into, todo, at, doc, dest] per cc_pair: its *)
                   (* latest attempt, the documents it has fetched and no  *)
                   (* task has taken, and the task at work: where, on what, *)
                   (* and the index its attempt is for                     *)

(* due: check_for_indexing has found the cc_pair ACTIVE; created:          *)
(* NOT_STARTED; checked: the same, past the fence check of its process;    *)
(* running: IN_PROGRESS; none: there is none, or it has its verdict.       *)
IndexStatuses == {"none", "due", "created", "checked", "running"}

IndexerIdle == [status |-> "none", into |-> "old", todo |-> {}, at |-> "idle",
                doc |-> 0, dest |-> "old"]

IndexerStates ==
    [status : IndexStatuses, into : Indices, todo : SUBSET Docs,
     at : {"idle", "taken", "prepared"}, doc : 0..NDocs, dest : Indices]

IndexerTypeOK ==
    /\ indexer \in [Pairs -> IndexerStates]
    /\ \A p \in Pairs : indexer[p].at # "idle" => indexer[p].doc # 0

IndexerInit == indexer = [p \in Pairs |-> IndexerIdle]

Fetchable(p) == {d \in Docs : <<p, d>> \in Arrivals}

(* What the deletion of a connector asks for                               *)
IndexingInProgress(p) == indexer[p].status = "running"

-----------------------------------------------------------------------------
AttemptBecomes(p, status) == indexer' = [indexer EXCEPT ![p].status = status]

(* check_for_indexing: the cc_pair is ACTIVE and has no active attempt;    *)
(* then the attempt is created, for what is PRESENT now, or for the FUTURE *)
(* index that is not to be switched to at once.                            *)
IndexDue(p) ==
    /\ indexer[p].status = "none"
    /\ Fetchable(p) # {}
    /\ ccStatus[p] = "ACTIVE"
    /\ HasPrimary
    /\ \E i \in ActiveIndices :
         /\ setting[i] = "FUTURE" => switchover # "INSTANT"
         /\ indexer' = [indexer EXCEPT ![p].status = "due", ![p].into = i]
    /\ UNCHANGED storeVars

IndexCreate(p) ==
    /\ indexer[p].status = "due"
    /\ ccStatus[p] # "GONE"
    /\ AttemptBecomes(p, "created")
    /\ UNCHANGED storeVars

(* docfetching_task, blocked by a deletion's fence or the stop signal      *)
IndexCheck(p, fenced) ==
    /\ indexer[p].status = "created"
    /\ AttemptBecomes(p, IF fenced THEN "none" ELSE "checked")
    /\ UNCHANGED storeVars

(* transition_attempt_to_in_progress.  The process stops at its first      *)
(* batch if the cc_pair is being deleted; what it fetches before that, the *)
(* tasks may take up at any time.                                          *)
IndexTransition(p) ==
    /\ indexer[p].status = "checked"
    /\ indexer' = [indexer EXCEPT
                      ![p].status = "running",
                      ![p].todo = IF ccStatus[p] = "ACTIVE" THEN Fetchable(p)
                                  ELSE {}]
    /\ UNCHANGED storeVars

(* A docprocessing task finds its attempt active.                          *)
IndexTake(p, d) ==
    /\ indexer[p].status = "running"
    /\ indexer[p].at = "idle"
    /\ d \in indexer[p].todo
    /\ indexer' = [indexer EXCEPT ![p].todo = @ \ {d}, ![p].at = "taken",
                                  ![p].doc = d, ![p].dest = indexer[p].into]
    /\ UNCHANGED storeVars

TaskBecomes(p, at, d) ==
    indexer' = [indexer EXCEPT ![p].at = at, ![p].doc = d]

(* index_doc_batch_prepare.  A document whose content is unchanged only    *)
(* gets its link.  One the database does not have is new to it: it has     *)
(* never been synced.                                                      *)
IndexPrepare(p, unchanged) ==
    /\ indexer[p].at = "taken"
    /\ ccStatus[p] # "GONE"
    /\ LET d == indexer[p].doc
       IN  /\ unchanged => d \in rows
           /\ rows' = rows \cup {d}
           /\ links' = links \cup {<<p, d>>}
           /\ stale' = IF d \in rows THEN stale ELSE stale \cup {d}
           /\ IF unchanged THEN TaskBecomes(p, "idle", 0)
              ELSE TaskBecomes(p, "prepared", d)
    /\ UNCHANGED <<ccStatus, edits, deferred, settingVars, index>>

(* Mutant: chunks written although the rows could not be locked            *)
IndexWriteAnyway(p) ==
    /\ indexer[p].at = "prepared"
    /\ LET d == indexer[p].doc
       IN  /\ index' = [index EXCEPT ![indexer[p].dest][d] = Metadata(d)]
           /\ stale' = stale \cup ({d} \cap rows)
    /\ TaskBecomes(p, "idle", 0)
    /\ UNCHANGED <<ccStatus, links, rows, edits, deferred, settingVars>>

(* lock_context and post_index                                             *)
IndexWrite(p) ==
    /\ indexer[p].at = "prepared"
    /\ LET d == indexer[p].doc
       IN  /\ d \in rows
           /\ index' = [index EXCEPT ![indexer[p].dest][d] = Metadata(d)]
           /\ stale' = stale \cup {d}
    /\ TaskBecomes(p, "idle", 0)
    /\ UNCHANGED <<ccStatus, links, rows, edits, deferred, settingVars>>

(* The task fails: the cc_pair is gone, or the rows are no longer there.   *)
IndexFails(p) ==
    /\ \/ indexer[p].at = "taken" /\ ccStatus[p] = "GONE"
       \/ indexer[p].at = "prepared" /\ indexer[p].doc \notin rows
    /\ TaskBecomes(p, "idle", 0)
    /\ UNCHANGED storeVars

(* The verdict, whatever the tasks are at: the source has nothing more, a  *)
(* batch failed, the attempt was canceled or revoked.                      *)
IndexEnd(p) ==
    /\ indexer[p].status = "running"
    /\ indexer' = [indexer EXCEPT ![p].status = "none", ![p].todo = {}]
    /\ UNCHANGED storeVars

(* cancel_indexing_attempts_for_ccpair: the ones that are NOT_STARTED      *)
NotStartedCanceled(p) ==
    IF indexer[p].status \in {"created", "checked"}
    THEN AttemptBecomes(p, "none") ELSE UNCHANGED indexer
=============================================================================
