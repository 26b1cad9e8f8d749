--------------------------- MODULE DocProcessing ---------------------------
(***************************************************************************)
(* Docprocessing: the celery task that loads one stored batch, runs it     *)
(* through the indexing pipeline into the document index, counts it on the *)
(* attempt's row, records its failures and deletes the batch               *)
(* (background/celery/tasks/docprocessing/tasks.py), between the prerun    *)
(* and postrun signals that keep the Redis counters (batch_counters.py).   *)
(***************************************************************************)
EXTENDS BatchTransport

CONSTANT Workers   (* docprocessing worker threads                         *)

ASSUME DocProcessingAssumption == IsFiniteSet(Workers)

VARIABLES
    worker,   (* worker[w]: where the task of thread w is, and its locals  *)
    indexed   (* documents written to the document index                   *)

processVars == <<worker, indexed>>

TaskPlaces == {"idle", "index", "count", "errors", "delete", "except",
               "tally", "post"}

(* ok: the pipeline reported no failure for the batch's document           *)
Idle == [at |-> "idle", a |-> 1, n |-> 0, doc |-> NoDoc, ok |-> TRUE]

TaskType == [at : TaskPlaces, a : Attempts, n : BatchNums,
             doc : Docs \cup {NoDoc}, ok : BOOLEAN]

ProcessTypeOK ==
    /\ worker \in [Workers -> TaskType]
    /\ indexed \subseteq Docs

ProcessInit ==
    /\ worker = [w \in Workers |-> Idle]
    /\ indexed = {}

Step(w, place) == worker' = [worker EXCEPT ![w].at = place]

InAttempt(w, a) == worker[w].at # "idle" /\ worker[w].a = a

-----------------------------------------------------------------------------
(* Receive a message and load its batch.  No batch: return without a word. *)
(* An attempt that is over, or a stop fence, raises, and the message is    *)
(* acknowledged like any other.                                            *)
MayProcess(a) == taskId[a] /\ ~IsTerminal(a) /\ ~stopFence

Receives(w, a, n) ==
    /\ worker[w].at = "idle"
    /\ TakeMessage(a, n)
    /\ Touch(a)                    \* the prerun heartbeat
    /\ worker' = [worker EXCEPT ![w] =
          [at |-> IF ~HasFile(a, n) THEN "post"
                  ELSE IF MayProcess(a) THEN "index" ELSE "except",
           a |-> a, n |-> n, doc |-> files[a][n], ok |-> TRUE]]
    /\ UNCHANGED <<indexed, files, trampled, ccVars, status, taskId, cancel,
                   total, completed, fromBeginning, window, checkpoint,
                   errors>>

PickUpBatch(w) ==
    \E a \in Attempts, n \in BatchNums : Receives(w, a, n) /\ CountPickup(a)

(* The prerun signal passes over a Redis that fails.                       *)
PickUpMissed(w, a) ==
    /\ \E n \in BatchNums : Receives(w, a, n)
    /\ UNCHANGED <<pending, inFlight>>

(* run_indexing_pipeline: the document is written, or reported as failed.  *)
IndexBatch(w) ==
    /\ worker[w].at = "index"
    /\ indexed' = indexed \cup {worker[w].doc}
    /\ Step(w, "count")
    /\ UNCHANGED <<rowVars, busVars>>

DocumentFails(w) ==
    /\ worker[w].at = "index"
    /\ worker' = [worker EXCEPT ![w].at = "count", ![w].ok = FALSE]
    /\ UNCHANGED <<indexed, rowVars, busVars>>

(* Under the cross-batch lock: count the batch.                            *)
CountProcessed(w) ==
    /\ worker[w].at = "count"
    /\ CountBatch(worker[w].a)
    /\ Step(w, IF worker[w].ok THEN "delete" ELSE "errors")
    /\ UNCHANGED <<indexed, busVars, ccVars, status, taskId, cancel, total,
                   fromBeginning, window, checkpoint, errors>>

(* After the lock: the error rows.  Too many of them raise, unless         *)
(* persistent.                                                             *)
RecordFailures(w) ==
    LET a == worker[w].a
    IN  /\ worker[w].at = "errors"
        /\ RecordError(a, worker[w].doc)
        /\ Step(w, IF TooManyFailures(Cardinality(errors'[a])) THEN "except"
                   ELSE "delete")
        /\ UNCHANGED <<indexed, busVars, ccVars, status, taskId, cancel, total,
                       completed, fromBeginning, window, checkpoint, newer>>

DeleteProcessed(w) ==
    /\ worker[w].at = "delete"
    /\ DeleteBatch(worker[w].a, worker[w].n)
    /\ Step(w, "post")
    /\ UNCHANGED <<indexed, rowVars, queue, pending, inFlight, trampled>>

(* An exception in the pipeline, or the lock not acquired in time          *)
TaskRaises(w) ==
    /\ worker[w].at = "index"
    /\ Step(w, "except")
    /\ UNCHANGED <<indexed, rowVars, busVars>>

LockTimesOut(w) ==
    /\ worker[w].at = "count"
    /\ Step(w, "except")
    /\ UNCHANGED <<indexed, rowVars, busVars>>

(* An exception after the batch was counted: in the error rows, the        *)
(* coordination status or the delete                                       *)
TaskRaisesLate(w) ==
    /\ worker[w].at \in {"errors", "delete"}
    /\ Step(w, "except")
    /\ UNCHANGED <<indexed, rowVars, busVars>>

(* Mutant: the error rows left out                                         *)
HandleTaskExceptionUnrecorded(w) ==
    /\ worker[w].at = "except"
    /\ Step(w, IF Persistent THEN "tally" ELSE "post")
    /\ UNCHANGED <<indexed, rowVars, busVars>>

(* The except block: raise, or record the documents, then count the batch. *)
HandleTaskException(w) ==
    /\ worker[w].at = "except"
    /\ IF Persistent
       THEN RecordError(worker[w].a, worker[w].doc) /\ Step(w, "tally")
       ELSE UNCHANGED errors /\ Step(w, "post")
    /\ UNCHANGED <<indexed, busVars, ccVars, status, taskId, cancel, total,
                   completed, fromBeginning, window, checkpoint, newer>>

CountFailed(w) ==
    /\ worker[w].at = "tally"
    /\ CountBatch(worker[w].a)
    /\ Step(w, "post")
    /\ UNCHANGED <<indexed, busVars, ccVars, status, taskId, cancel, total,
                   fromBeginning, window, checkpoint, errors>>

(* The postrun signal, then the acknowledgement                            *)
FinishTask(w) ==
    /\ worker[w].at = "post"
    /\ CountRelease(worker[w].a)
    /\ worker' = [worker EXCEPT ![w] = Idle]
    /\ UNCHANGED <<indexed, rowVars, files, queue, pending, trampled>>

(* The postrun signal, too, passes over a Redis that fails.                *)
ReleaseMissed(w) ==
    /\ worker[w].at = "post"
    /\ worker' = [worker EXCEPT ![w] = Idle]
    /\ UNCHANGED <<indexed, rowVars, busVars>>

(* A worker dies before it acknowledged: the message is delivered again.   *)
WorkerDies(w) ==
    LET t == worker[w]
    IN  /\ t.at # "idle"
        /\ queue' = [queue EXCEPT ![t.a][t.n] = @ + 1]
        /\ worker' = [worker EXCEPT ![w] = Idle]
        /\ UNCHANGED <<indexed, rowVars, files, pending, inFlight, trampled>>

(* The chunk usage limit: whatever its state, the attempt is failed and    *)
(* the batch left in the store.                                            *)
UsageLimitExceeded(w) ==
    /\ worker[w].at = "idle"
    /\ \E a \in Attempts, n \in BatchNums :
          /\ TakeMessage(a, n)
          /\ Mark(a, "FAILED")
    /\ UNCHANGED <<worker, indexed, files, trampled, ccVars, cancel, total,
                   completed, fromBeginning, window, checkpoint, errors>>
=============================================================================
