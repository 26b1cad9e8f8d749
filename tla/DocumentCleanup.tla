-------------------------- MODULE DocumentCleanup --------------------------
(***************************************************************************)
(* document_by_cc_pair_cleanup_task (background/celery/tasks/shared/       *)
(* tasks.py): the subtask of pruning and of connector deletion that takes  *)
(* one document away from one cc_pair.  It reads Postgres, then goes to    *)
(* the indices without holding a connection, then writes Postgres.         *)
(***************************************************************************)
EXTENDS DocumentStore

VARIABLE cleanup   (* the tasks that exist: [kind, pair, doc, nr, tracked, *)
                   (* at, act, into, meta]; nr tells the tasks for one     *)
                   (* document apart; tracked: in the taskset that the     *)
                   (* fence of its kind and cc_pair is waiting for; done:  *)
                   (* committed, and its message not yet acknowledged      *)

Kinds == {"delete", "prune"}

CleanupTasks ==
    [kind : Kinds, pair : Pairs, doc : Docs, nr : Nat, tracked : BOOLEAN,
     at : {"queued", "index", "commit", "done"},
     act : {"none", "DELETE", "UPDATE"}, into : SUBSET Indices,
     meta : Entries \cup {None}]

CleanupTypeOK == cleanup \subseteq CleanupTasks /\ IsFiniteSet(cleanup)

CleanupInit == cleanup = {}

TasksOf(p, d) == {c \in cleanup : c.pair = p /\ c.doc = d}

(* A number that no task of the document has                               *)
FreshNr(p, d) ==
    CHOOSE n \in 0..Cardinality(TasksOf(p, d)) :
        \A c \in TasksOf(p, d) : c.nr # n

Task(kind, p, d) ==
    [kind |-> kind, pair |-> p, doc |-> d, nr |-> FreshNr(p, d),
     tracked |-> TRUE, at |-> "queued", act |-> "none", into |-> {},
     meta |-> None]

Tracked(kind, p) ==
    {c \in cleanup : c.kind = kind /\ c.pair = p /\ c.tracked}

(* taskset_clear: the tasks of the set stay in their queue, uncounted.     *)
Untrack(kind, p) ==
    {IF c.kind = kind /\ c.pair = p THEN [c EXCEPT !.tracked = FALSE] ELSE c :
       c \in cleanup}

(* A task of the document is between its read and its last write.          *)
Cleaning(d) == \E c \in cleanup : c.doc = d /\ c.at \in {"index", "commit"}

-----------------------------------------------------------------------------
Becomes(c, next) == cleanup' = (cleanup \ {c}) \cup {next}
Retried(c) == [c EXCEPT !.at = "queued", !.act = "none", !.into = {},
                        !.meta = None]

(* The postrun signal takes the task out of its set, and the message is    *)
(* acknowledged.                                                           *)
Ends(c) == cleanup' = cleanup \ {c}

(* Mutant: a cc_pair that is being deleted is not counted                  *)
LivingCount(d) == Cardinality(Access(d))

(* get_document_connector_count                                            *)
ConnectorCount(d) == Cardinality(Holders(d))

(* Phase 1: the count decides.  A document with no cc_pair left, or no     *)
(* row, is skipped.                                                        *)
CleanupRead(c) ==
    /\ c \in cleanup /\ c.at = "queued"
    /\ HasPrimary
    /\ LET holders == ConnectorCount(c.doc)
       IN  IF holders = 0 \/ (holders > 1 /\ c.doc \notin rows)
           THEN Ends(c)
           ELSE Becomes(c, [c EXCEPT
                  !.at = "index",
                  !.act = IF holders = 1 THEN "DELETE" ELSE "UPDATE",
                  !.into = ActiveIndices,
                  !.meta = IF holders = 1 THEN None ELSE Metadata(c.doc)])
    /\ UNCHANGED storeVars

(* Phase 2.  Unlike the metadata sync, an update does not expect a FUTURE  *)
(* index that misses the document: the primary is updated, then it raises. *)
(* There is a second index only beside "old".                              *)
MissingInFuture(c) == c.into = Indices /\ index["new"][c.doc] = None

CleanupIndex(c) ==
    /\ c \in cleanup /\ c.at = "index"
    /\ IF c.act = "DELETE"
       THEN /\ DeleteFrom(c.into, c.doc)
            /\ Becomes(c, [c EXCEPT !.at = "commit"])
       ELSE /\ UpdateIn(c.into, c.doc, c.meta)
            /\ Becomes(c, IF MissingInFuture(c) THEN Retried(c)
                          ELSE [c EXCEPT !.at = "commit"])
    /\ UNCHANGED <<dbVars, settingVars>>

(* Phase 3, for the last cc_pair of the document: delete_documents_complete *)
CommitDelete(c) ==
    /\ c \in cleanup /\ c.at = "commit" /\ c.act = "DELETE"
    /\ rows' = rows \ {c.doc}
    /\ links' = {l \in links : l[2] # c.doc}
    /\ MarkSynced(c.doc)
    /\ Becomes(c, [c EXCEPT !.at = "done"])
    /\ UNCHANGED <<ccStatus, edits, settingVars, index>>

(* Phase 3, for one of several: the link goes and the document counts as   *)
(* synced; a row that is gone raises, and the task starts again.           *)
CommitUpdate(c) ==
    /\ c \in cleanup /\ c.at = "commit" /\ c.act = "UPDATE"
    /\ IF c.doc \in rows
       THEN /\ links' = links \ {<<c.pair, c.doc>>}
            /\ MarkSynced(c.doc)
            /\ Becomes(c, [c EXCEPT !.at = "done"])
       ELSE /\ Becomes(c, Retried(c))
            /\ UNCHANGED <<links, stale, deferred>>
    /\ UNCHANGED <<ccStatus, rows, edits, settingVars, index>>

CleanupEnds(c) ==
    /\ c \in cleanup /\ c.at = "done"
    /\ Ends(c)
    /\ UNCHANGED storeVars

(* An exception, or a worker that dies before the commit.                  *)
CleanupRetries(c) ==
    /\ c \in cleanup /\ c.at \in {"index", "commit"}
    /\ Becomes(c, Retried(c))
    /\ UNCHANGED storeVars

(* A worker that dies after the commit and before the acknowledgement,     *)
(* which comes late (task_acks_late), before or after the postrun signal:  *)
(* the message is delivered again.                                         *)
CleanupRepeats(c) ==
    /\ c \in cleanup /\ c.at = "done"
    /\ \E tracked \in {c.tracked, FALSE} :
          Becomes(c, [Retried(c) EXCEPT !.tracked = tracked])
    /\ UNCHANGED storeVars

(* The last retry: the link goes, and reconciliation is to do the rest.    *)
CleanupExhausted(c) ==
    /\ c \in cleanup /\ c.at \in {"index", "commit"}
    /\ c.doc \in rows
    /\ links' = links \ {<<c.pair, c.doc>>}
    /\ stale' = stale \cup {c.doc}
    /\ Becomes(c, [c EXCEPT !.at = "done"])
    /\ UNCHANGED <<ccStatus, rows, edits, deferred, settingVars, index>>

(* An HTTP error status, the soft time limit, or a last retry that finds   *)
(* no row to mark: the task just ends.                                     *)
CleanupGivesUp(c) ==
    /\ c \in cleanup
    /\ c.at = "index" \/ (c.at = "commit" /\ c.doc \notin rows)
    /\ Ends(c)
    /\ UNCHANGED storeVars
=============================================================================
