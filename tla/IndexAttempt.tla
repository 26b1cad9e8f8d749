---------------------------- MODULE IndexAttempt ----------------------------
(***************************************************************************)
(* The rows the indexing pipeline coordinates through: the index_attempt   *)
(* rows of one connector-credential pair (cc_pair) under one search        *)
(* setting, their error rows, the cc_pair row, and the connector stop      *)
(* fence.  The operators are the functions of db/index_attempt.py and      *)
(* db/indexing_coordination.py; each is one transaction on a locked row,   *)
(* so each is used as a part of exactly one action.                        *)
(***************************************************************************)
EXTENDS Naturals, FiniteSets

CONSTANTS MaxAttempts,     (* bound: index attempts ever created           *)
          NDocs,           (* documents the source holds, one per batch    *)
          MaxBatchNum,     (* bound: highest batch number handed out       *)
          FailureThreshold, (* FAILURE_THRESHOLD of _check_failure_threshold *)
          Persistent,      (* PERSISTENT_INDEXING                          *)
          None             (* a NULL column                                *)

ASSUME IndexAttemptAssumption ==
    /\ MaxAttempts \in Nat \ {0}
    /\ NDocs \in Nat
    /\ MaxBatchNum \in Nat
    /\ FailureThreshold \in Nat
    /\ Persistent \in BOOLEAN
    /\ None \notin Nat

Attempts  == 1..MaxAttempts          \* ids, in order of creation
Docs      == 1..NDocs                \* in the order the connector yields them
BatchNums == 0..MaxBatchNum

Active    == {"NOT_STARTED", "IN_PROGRESS"}
Succeeded == {"SUCCESS", "COMPLETED_WITH_ERRORS"}
Resumable == {"FAILED", "CANCELED", "INTERRUPTED"}
Terminal  == Succeeded \cup Resumable
Statuses  == Active \cup Terminal \cup {"ABSENT"}

ActiveCC   == {"SCHEDULED", "INITIAL_INDEXING", "ACTIVE"}
CCStatuses == ActiveCC \cup {"PAUSED"}

VARIABLES
    status,      (* status[a]: IndexAttempt.status, ABSENT before creation *)
    taskId,      (* taskId[a]: celery_task_id is not NULL                  *)
    cancel,      (* cancel[a]: cancellation_requested                      *)
    total,       (* total[a]: total_batches, None until extraction is over *)
    completed,   (* completed[a]: completed_batches                        *)
    fromBeginning, (* fromBeginning[a]: from_beginning, a REINDEX run      *)
    window,      (* window[a]: the poll range; its end is named by the
                    attempt that opened it, its start by the end of the
                    last SUCCESS (0: earliest); None while unset           *)
    checkpoint,  (* checkpoint[a]: documents covered by the saved
                    checkpoint, None while the pointer is NULL             *)
    errors,      (* errors[a]: documents with an IndexAttemptError row     *)
    newer,       (* <<a, b>>: row a has a later time_updated than row b    *)
    ccStatus,    (* ConnectorCredentialPair.status                         *)
    stopFence    (* the RedisConnectorStop fence                           *)

attemptVars == <<status, taskId, cancel, total, completed, fromBeginning,
                 window, checkpoint, errors, newer>>
ccVars  == <<ccStatus, stopFence>>
rowVars == <<attemptVars, ccVars>>

Window == [start : 0..MaxAttempts, end : Attempts]

RowTypeOK ==
    /\ status \in [Attempts -> Statuses]
    /\ taskId \in [Attempts -> BOOLEAN]
    /\ cancel \in [Attempts -> BOOLEAN]
    /\ total \in [Attempts -> Nat \cup {None}]
    /\ completed \in [Attempts -> Nat]
    /\ fromBeginning \in [Attempts -> BOOLEAN]
    /\ window \in [Attempts -> Window \cup {None}]
    /\ checkpoint \in [Attempts -> 0..NDocs \cup {None}]
    /\ errors \in [Attempts -> SUBSET Docs]
    /\ newer \subseteq Attempts \X Attempts
    /\ ccStatus \in CCStatuses
    /\ stopFence \in BOOLEAN

RowInit ==
    /\ status = [a \in Attempts |-> "ABSENT"]
    /\ taskId = [a \in Attempts |-> FALSE]
    /\ cancel = [a \in Attempts |-> FALSE]
    /\ total = [a \in Attempts |-> None]
    /\ completed = [a \in Attempts |-> 0]
    /\ fromBeginning = [a \in Attempts |-> FALSE]
    /\ window = [a \in Attempts |-> None]
    /\ checkpoint = [a \in Attempts |-> None]
    /\ errors = [a \in Attempts |-> {}]
    /\ newer = {}
    /\ ccStatus = "SCHEDULED"
    /\ stopFence = FALSE

IsActive(a)   == status[a] \in Active
IsTerminal(a) == status[a] \in Terminal
Finished      == {a \in Attempts : IsTerminal(a)}
Created       == {a \in Attempts : status[a] # "ABSENT"}

(* Every UPDATE of the row sets time_updated (onupdate=func.now()).        *)
Touch(a) ==
    newer' = {p \in newer : p[2] # a}
               \cup {<<a, b>> : b \in Created \ {a}}

(* get_recent_completed_attempts_for_cc_pair, ORDER BY time_updated DESC   *)
MostRecentOf(S) == {a \in S : \A b \in S \ {a} : <<a, b>> \in newer}

-----------------------------------------------------------------------------

InsertAttempt(a, reindex) ==
    /\ Created = 1..(a - 1)
    /\ status' = [status EXCEPT ![a] = "NOT_STARTED"]
    /\ taskId' = [taskId EXCEPT ![a] = TRUE]
    /\ fromBeginning' = [fromBeginning EXCEPT ![a] = reindex]
    /\ Touch(a)

(* Mutant: the query for an active attempt dropped                         *)
CreateAttemptUnchecked(a, reindex) == InsertAttempt(a, reindex)

(* try_create_index_attempt: the next id, if no active attempt exists.     *)
CreateAttempt(a, reindex) ==
    /\ \A b \in Attempts : ~IsActive(b)
    /\ InsertAttempt(a, reindex)

(* transition_attempt_to_in_progress re-checks the status under the lock.  *)
TransitionToInProgress(a) ==
    /\ status[a] = "NOT_STARTED"
    /\ status' = [status EXCEPT ![a] = "IN_PROGRESS"]
    /\ Touch(a)

(* The columns set by mark_attempt_succeeded, mark_attempt_partially_suc-  *)
(* ceeded and mark_attempt_failed, whatever the status was before.         *)
SetFinal(a, s) ==
    /\ status' = [status EXCEPT ![a] = s]
    /\ taskId' = [taskId EXCEPT ![a] = FALSE]
    /\ Touch(a)

(* mark_attempt_canceled leaves celery_task_id as it was.                  *)
SetCanceled(a) ==
    /\ status' = [status EXCEPT ![a] = "CANCELED"]
    /\ Touch(a)
    /\ UNCHANGED taskId

(* update_batch_completion_and_docs                                        *)
CountBatch(a) ==
    /\ completed' = [completed EXCEPT ![a] = @ + 1]
    /\ Touch(a)

(* create_index_attempt_error: a row of its own, the attempt is untouched. *)
RecordError(a, d) == errors' = [errors EXCEPT ![a] = @ \cup {d}]

(* _check_failure_threshold; the ratio to the documents is left out.       *)
TooManyFailures(n) == ~Persistent /\ n > FailureThreshold

AllErrors == UNION {errors[a] : a \in Attempts}
=============================================================================
