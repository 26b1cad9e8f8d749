--------------------------- MODULE BatchTransport ---------------------------
(***************************************************************************)
(* How a batch travels from docfetching to docprocessing: the file store   *)
(* that holds the stored batches (file_store/document_batch_storage.py),   *)
(* the docprocessing queue of the broker, and the two Redis counters per   *)
(* attempt (redis/redis_docprocessing.py).                                 *)
(*                                                                         *)
(* A batch is one document.  The broker is external: a message is kept     *)
(* until a worker acknowledges it, and goes back to the queue when the     *)
(* worker that holds it dies (task_acks_late); order is not kept.          *)
(***************************************************************************)
EXTENDS IndexAttempt

NoDoc == 0

VARIABLES
    files,      (* files[a][n]: the document of iab/<cc_pair>/<a>/<n>.json *)
    queue,      (* queue[a][n]: messages waiting for (attempt, batch)      *)
    pending,    (* docprocessing_pending_<a>                               *)
    inFlight,   (* docprocessing_in_flight_<a>                             *)
    trampled    (* history: a batch was stored or renamed over, or one of a
                   later attempt renamed or deleted                        *)

busVars == <<files, queue, pending, inFlight, trampled>>

NoFiles == [a \in Attempts |-> [n \in BatchNums |-> NoDoc]]

BusTypeOK ==
    /\ files \in [Attempts -> [BatchNums -> Docs \cup {NoDoc}]]
    /\ queue \in [Attempts -> [BatchNums -> Nat]]
    /\ pending \in [Attempts -> Nat]
    /\ inFlight \in [Attempts -> Nat]
    /\ trampled \in BOOLEAN

BusInit ==
    /\ files = NoFiles
    /\ queue = [a \in Attempts |-> [n \in BatchNums |-> 0]]
    /\ pending = [a \in Attempts |-> 0]
    /\ inFlight = [a \in Attempts |-> 0]
    /\ trampled = FALSE

HasFile(a, n)  == files[a][n] # NoDoc
StoredBatches  == {b \in Attempts \X BatchNums : HasFile(b[1], b[2])}
StoredDocs     == {files[b[1]][b[2]] : b \in StoredBatches}

-----------------------------------------------------------------------------
(* store_batch saves under the name, replacing what is there.              *)
StoreBatch(a, n, d) ==
    /\ files' = [files EXCEPT ![a][n] = d]
    /\ trampled' = (trampled \/ HasFile(a, n))

(* delete_batch_by_num, which does not mind a missing file                 *)
DeleteBatch(a, n) == files' = [files EXCEPT ![a][n] = NoDoc]

(* A process that outlived its attempt handles batches of the next one.    *)
TakesLaterBatch(a) == \E b \in StoredBatches : b[1] > a

(* cleanup_all_batches, called for attempt a, removes every batch of the   *)
(* cc_pair, whichever attempt stored it.                                   *)
CleanupAllBatches(a) ==
    /\ files' = NoFiles
    /\ trampled' = (trampled \/ TakesLaterBatch(a))

(* update_old_batches_to_new_index_attempt renames every old batch to the  *)
(* same number under attempt a; of two with one number, the later rename   *)
(* wins, and the listing gives no order.                                   *)
AdoptBatches(a) ==
    /\ \E pick \in [{b[2] : b \in StoredBatches} -> Attempts] :
          /\ \A n \in DOMAIN pick : HasFile(pick[n], n)
          /\ files' = [NoFiles EXCEPT ![a] =
                         [n \in BatchNums |-> IF n \in DOMAIN pick
                                             THEN files[pick[n]][n]
                                             ELSE NoDoc]]
    /\ trampled' = \/ trampled
                   \/ TakesLaterBatch(a)
                   \/ \E b, c \in StoredBatches : b # c /\ b[2] = c[2]

(* incr_pending, then send_task: two calls, to Redis and to the broker     *)
IncrPending(a)     == pending' = [pending EXCEPT ![a] = @ + 1]
SendMessage(a, n)  == queue' = [queue EXCEPT ![a][n] = @ + 1]

TakeMessage(a, n) ==
    /\ queue[a][n] > 0
    /\ queue' = [queue EXCEPT ![a][n] = @ - 1]

(* The broker loses a message (a failover of its Redis).                   *)
LoseMessage(a, n) ==
    /\ TakeMessage(a, n)
    /\ UNCHANGED <<rowVars, files, pending, inFlight, trampled>>

(* Mutant: the guard of the Lua scripts dropped                            *)
DecrUnguarded(c, a) == [c EXCEPT ![a] = @ - 1]

Decr(c, a) == IF c[a] > 0 THEN [c EXCEPT ![a] = @ - 1] ELSE c

(* Mutant: pending never decremented                                       *)
CountPickupInFlightOnly(a) ==
    /\ pending' = pending
    /\ inFlight' = [inFlight EXCEPT ![a] = @ + 1]

(* _PICKUP_SCRIPT and _DECR_IN_FLIGHT_SCRIPT guard against going below 0.  *)
CountPickup(a) ==
    /\ pending' = Decr(pending, a)
    /\ inFlight' = [inFlight EXCEPT ![a] = @ + 1]

CountRelease(a) == inFlight' = Decr(inFlight, a)

(* RedisDocprocessing.cleanup, the last thing every mark_attempt_* does    *)
ResetCounters(a) ==
    /\ pending' = [pending EXCEPT ![a] = 0]
    /\ inFlight' = [inFlight EXCEPT ![a] = 0]

-----------------------------------------------------------------------------
(* The mark_attempt_* functions: the row, then the counters.               *)
Mark(a, s)      == SetFinal(a, s) /\ ResetCounters(a)
MarkCanceled(a) == SetCanceled(a) /\ ResetCounters(a)
markVars        == <<status, taskId, newer, pending, inFlight>>

(* Mutant: the status not re-read                                          *)
MarkInterruptedAnyway(a) == Mark(a, "INTERRUPTED")

(* mark_attempt_interrupted gives way to a terminal status, re-read under  *)
(* the lock.                                                               *)
MarkInterrupted(a) ==
    IF IsTerminal(a) THEN UNCHANGED markVars ELSE Mark(a, "INTERRUPTED")
=============================================================================
