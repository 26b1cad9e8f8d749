---------------------------- MODULE ReindexPort ----------------------------
(***************************************************************************)
(* The reindex port: check_for_port and run_port_attempt                   *)
(* (background/celery/tasks/port/tasks.py) over the rows of port_attempt   *)
(* (db/port_attempt.py) and the copy itself                                *)
(* (document_index/opensearch/port_copy.py).  port[p] is the latest        *)
(* attempt of cc_pair p for the "new" settings; copier[p] is the task that *)
(* runs it.                                                                *)
(***************************************************************************)
EXTENDS DocumentStore, FiniteSetsExt

CONSTANT PageSize   (* INDEX_BATCH_SIZE                                    *)

ASSUME ReindexPortAssumption == PageSize \in Nat \ {0}

VARIABLES
    port,    (* [status, cancel, cursor, upTo]                             *)
    copier   (* [at, cursor, batch, left, doc, src, pit]: where the task   *)
             (* is, its own cursor, its batch and what is left of it, the  *)
             (* document it writes, the index it copies from and the point *)
             (* in time of that index the batch reads                      *)

portVars == <<port, copier>>

PortActive   == {"NOT_STARTED", "IN_PROGRESS"}
PortTerminal == {"SUCCESS", "FAILED", "CANCELED"}
CopierPlaces == {"idle", "top", "read", "copy", "write", "finish"}

Unread == [d \in Docs |-> None]
NoPort == [status |-> "NONE", cancel |-> FALSE, cursor |-> 0, upTo |-> NDocs]
CopierIdle == [at |-> "idle", cursor |-> 0, batch |-> {}, left |-> {},
               doc |-> 0, src |-> "old", pit |-> Unread]

PortRows ==
    [status : {"NONE"} \cup PortActive \cup PortTerminal, cancel : BOOLEAN,
     cursor : 0..NDocs, upTo : 0..NDocs]
CopierStates ==
    [at : CopierPlaces, cursor : 0..NDocs, batch : SUBSET Docs,
     left : SUBSET Docs, doc : 0..NDocs, src : Indices,
     pit : [Docs -> Entries \cup {None}]]

PortTypeOK ==
    /\ port \in [Pairs -> PortRows]
    /\ copier \in [Pairs -> CopierStates]

PortInit ==
    /\ port = [p \in Pairs |-> NoPort]
    /\ copier = [p \in Pairs |-> CopierIdle]

-----------------------------------------------------------------------------
IsPortActive(p)   == port[p].status \in PortActive
IsPortTerminal(p) == port[p].status \in PortTerminal

(* fetch_indexable_standard_connector_credential_pair_ids                  *)
InScope(p) ==
    \/ ccStatus[p] = "ACTIVE"
    \/ ccStatus[p] = "PAUSED" /\ switchover # "ACTIVE_ONLY"

(* port_backfill_has_pending_work                                          *)
BackfillPending ==
    \E p \in Pairs :
        InScope(p) /\ port[p].status \notin {"SUCCESS", "CANCELED"}

(* _resolve_port_target_settings                                           *)
PortTarget ==
    \/ setting["new"] = "FUTURE"
    \/ setting["new"] = "PRESENT" /\ backfill /\ BackfillPending

(* Backfill drained: unpin the source.                                     *)
UnpinSource ==
    /\ setting["new"] = "PRESENT" /\ backfill /\ ~BackfillPending
    /\ backfill' = FALSE
    /\ UNCHANGED <<dbVars, setting, switchover, index, portVars>>

(* _mark_terminal: the first terminal write wins.                          *)
Terminal(p, status) ==
    IF port[p].status \in PortActive
    THEN port' = [port EXCEPT ![p].status = status]
    ELSE UNCHANGED port

CopierBecomes(p, c) == copier' = [copier EXCEPT ![p] = c]
CopierStops(p)      == CopierBecomes(p, CopierIdle)

(* request_port_cancel and, over every cc_pair, cancel_active_port_attempts *)
Canceled(row) ==
    CASE row.status = "NOT_STARTED" -> [row EXCEPT !.status = "CANCELED"]
      [] row.status = "IN_PROGRESS" -> [row EXCEPT !.cancel = TRUE]
      [] OTHER -> row

-----------------------------------------------------------------------------
(* The loop of run_check_for_port lists its cc_pairs before it starts, so  *)
(* one may be DELETING by its turn.  The cap on concurrent attempts only   *)
(* delays a turn, and so does the backoff.                                 *)
Listed(p) == InScope(p) \/ ccStatus[p] = "DELETING"

(* get_max_document_id_for_cc_pair; without a document the port has no     *)
(* upper bound.                                                            *)
Snapshot(p) == IF LinkedTo(p) = {} THEN NDocs ELSE Max(LinkedTo(p))

(* Mutant: a retry that skips the document after the cursor                *)
ScheduleAfterCursor(p) ==
    /\ PortTarget /\ Listed(p)
    /\ port[p].status \in {"NONE", "FAILED"}
    /\ port' = [port EXCEPT ![p] =
                  [status |-> "NOT_STARTED", cancel |-> FALSE,
                   cursor |-> IF @.status = "NONE" THEN 0 ELSE @.cursor + 1,
                   upTo |-> IF @.status = "NONE" THEN Snapshot(p) ELSE @.upTo]]
    /\ UNCHANGED <<storeVars, copier>>

(* Mutant: a retry that starts over                                        *)
ScheduleAfresh(p) ==
    /\ PortTarget /\ Listed(p)
    /\ port[p].status \in {"NONE", "FAILED"}
    /\ port' = [port EXCEPT ![p] =
                  [status |-> "NOT_STARTED", cancel |-> FALSE,
                   cursor |-> 0, upTo |-> Snapshot(p)]]
    /\ UNCHANGED <<storeVars, copier>>

(* A cc_pair gets an attempt if it has none, or if its latest one FAILED:  *)
(* that one's cursor and bound are carried over.                           *)
SchedulePort(p) ==
    /\ PortTarget /\ Listed(p)
    /\ port[p].status \in {"NONE", "FAILED"}
    /\ port' = [port EXCEPT ![p] =
                  [status |-> "NOT_STARTED", cancel |-> FALSE,
                   cursor |-> @.cursor,
                   upTo |-> IF @.status = "NONE" THEN Snapshot(p) ELSE @.upTo]]
    /\ UNCHANGED <<storeVars, copier>>

(* send_task raised.  A message that expires is sent again by a later run. *)
EnqueueFails(p) ==
    /\ port[p].status = "NOT_STARTED"
    /\ copier[p].at = "idle"
    /\ Terminal(p, "FAILED")
    /\ UNCHANGED <<storeVars, copier>>

(* Mutant: the watchdog looks at what waits, and not at what runs          *)
FailUnstarted(p) ==
    /\ port[p].status = "NOT_STARTED"
    /\ copier[p].at = "idle"
    /\ Terminal(p, "FAILED")
    /\ UNCHANGED <<storeVars, copier>>

(* _fail_stalled_port_attempts.  The attempt is touched before and after   *)
(* each page is embedded: only a dead task is taken to stay silent for the *)
(* threshold.                                                              *)
FailStalled(p) ==
    /\ port[p].status = "IN_PROGRESS"
    /\ copier[p].at = "idle"
    /\ Terminal(p, "FAILED")
    /\ UNCHANGED <<storeVars, copier>>

-----------------------------------------------------------------------------
(* mark_port_in_progress; the copy comes from the source of the backfill,  *)
(* or from what is PRESENT now.                                            *)
PortStart(p) ==
    /\ port[p].status = "NOT_STARTED"
    /\ copier[p].at = "idle"
    /\ backfill \/ HasPrimary
    /\ port' = [port EXCEPT ![p].status = "IN_PROGRESS"]
    /\ CopierBecomes(p, [CopierIdle EXCEPT
                           !.at = "top", !.cursor = port[p].cursor,
                           !.src = IF backfill THEN "old" ELSE Primary])
    /\ UNCHANGED storeVars

(* What ends the task at the top of its loop: the attempt is over, or gone *)
(* with its cc_pair; a cancellation, or a cc_pair being deleted, is        *)
(* acknowledged.                                                           *)
MustAck(p) == port[p].cancel \/ ccStatus[p] \in {"DELETING", "GONE"}

PortStops(p) ==
    /\ copier[p].at = "top"
    /\ ~IsPortActive(p) \/ MustAck(p)
    /\ Terminal(p, "CANCELED")
    /\ CopierStops(p)
    /\ UNCHANGED storeVars

(* The soft time limit: FAILED, so that it is resumed at once.             *)
PortYields(p) ==
    /\ copier[p].at = "top"
    /\ IsPortActive(p) /\ ~MustAck(p)
    /\ Terminal(p, "FAILED")
    /\ CopierStops(p)
    /\ UNCHANGED storeVars

Remaining(p) == {d \in LinkedTo(p) : copier[p].cursor < d /\ d <= port[p].upTo}

(* get_document_ids_for_cc_pair_batch                                      *)
NextPage(p) ==
    {d \in Remaining(p) :
       Cardinality({e \in Remaining(p) : e < d}) < PageSize}

PortPage(p) ==
    /\ copier[p].at = "top"
    /\ IsPortActive(p) /\ ~MustAck(p)
    /\ CopierBecomes(p, [copier[p] EXCEPT
                           !.at = IF Remaining(p) = {} THEN "finish"
                                  ELSE "read",
                           !.batch = NextPage(p)])
    /\ UNCHANGED <<storeVars, port>>

(* iter_chunks_for_doc_ids opens a point in time of the source.            *)
PortRead(p) ==
    /\ copier[p].at = "read"
    /\ CopierBecomes(p, [copier[p] EXCEPT
                           !.at = "copy", !.left = copier[p].batch,
                           !.pit = [d \in Docs |->
                                      IF d \in copier[p].batch
                                      THEN index[copier[p].src][d]
                                      ELSE None]])
    /\ UNCHANGED <<storeVars, port>>

(* should_abort                                                            *)
ShouldAbort(p) == ~IsPortActive(p) \/ port[p].cancel

(* Mutant: an aborted batch taken for a finished one                       *)
AbortIsTheEnd(p) ==
    /\ copier[p].at = "copy"
    /\ copier[p].left # {}
    /\ ShouldAbort(p)
    /\ CopierBecomes(p, [copier[p] EXCEPT !.left = {}])
    /\ UNCHANGED <<storeVars, port>>

(* A stopped copy goes back to the top, and leaves the cursor where it is. *)
PortAborts(p) ==
    /\ copier[p].at = "copy"
    /\ copier[p].left # {}
    /\ ShouldAbort(p)
    /\ CopierBecomes(p, [copier[p] EXCEPT
                           !.at = "top", !.batch = {}, !.left = {},
                           !.pit = Unread])
    /\ UNCHANGED <<storeVars, port>>

(* The chunks of one more document are embedded.  They go on to the write  *)
(* if there are any, and if the document is still linked to the cc_pair    *)
(* when surviving_doc_ids asks.                                            *)
Survives(p, d) == <<p, d>> \in links

PortCopy(p, d) ==
    /\ copier[p].at = "copy"
    /\ d \in copier[p].left
    /\ ~ShouldAbort(p)
    /\ CopierBecomes(p, [copier[p] EXCEPT
                           !.left = @ \ {d}, !.doc = d,
                           !.at = IF copier[p].pit[d] # None /\ Survives(p, d)
                                  THEN "write" ELSE "copy"])
    /\ UNCHANGED <<storeVars, port>>

(* index_raw_chunks with use_create_only: what is there already stays.     *)
PortWrite(p) ==
    /\ copier[p].at = "write"
    /\ LET d == copier[p].doc
       IN  index' = [index EXCEPT !["new"][d] =
                       IF @ = None THEN copier[p].pit[d] ELSE @]
    /\ CopierBecomes(p, [copier[p] EXCEPT !.at = "copy"])
    /\ UNCHANGED <<dbVars, settingVars, port>>

(* The batch is copied: commit_port_cursor, unless the attempt ended.      *)
PortCommit(p) ==
    /\ copier[p].at = "copy"
    /\ copier[p].left = {}
    /\ IF IsPortActive(p)
       THEN /\ port' = [port EXCEPT ![p].cursor = Max(copier[p].batch)]
            /\ CopierBecomes(p, [copier[p] EXCEPT
                                   !.at = "top",
                                   !.cursor = Max(copier[p].batch),
                                   !.doc = 0, !.batch = {}, !.pit = Unread])
       ELSE /\ CopierStops(p)
            /\ UNCHANGED port
    /\ UNCHANGED storeVars

PortFinish(p) ==
    /\ copier[p].at = "finish"
    /\ Terminal(p, "SUCCESS")
    /\ CopierStops(p)
    /\ UNCHANGED storeVars

(* _copy_batch_with_retry starts the batch again.                          *)
PortRetries(p) ==
    /\ copier[p].at \in {"copy", "write"}
    /\ CopierBecomes(p, [copier[p] EXCEPT
                           !.at = "read", !.left = {}, !.doc = 0,
                           !.pit = Unread])
    /\ UNCHANGED <<storeVars, port>>

(* The last retry failed.                                                  *)
PortFails(p) ==
    /\ copier[p].at \in {"read", "copy", "write"}
    /\ Terminal(p, "FAILED")
    /\ CopierStops(p)
    /\ UNCHANGED storeVars

PortDies(p) ==
    /\ copier[p].at # "idle"
    /\ CopierStops(p)
    /\ UNCHANGED <<storeVars, port>>
=============================================================================
