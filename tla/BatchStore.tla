----------------------------- MODULE BatchStore -----------------------------
(***************************************************************************)
(* The stored batches, file by file: DocumentBatchStorage                  *)
(* (file_store/document_batch_storage.py) over the S3-backed file store    *)
(* (file_store/file_store.py), for several cc_pairs at once.  A file is a  *)
(* row of file_record, which points at an object; listing, renaming and    *)
(* deleting a pair's batches is a loop with a transaction per file, where  *)
(* BatchTransport takes each loop for one step.  An attempt may have its   *)
(* verdict, and the next one begin, while its process still stores,        *)
(* renames or deletes.  What a resumed run goes on to fetch is left to     *)
(* IndexingPipeline.                                                       *)
(***************************************************************************)
EXTENDS Naturals, FiniteSets

CONSTANTS MaxAttempts,   (* bound: index attempts, of all pairs together   *)
          MaxBatches,    (* bound: batches each of the attempts stores     *)
          MaxDeaths,     (* bound: deaths of docprocessing tasks           *)
          PairOf,        (* PairOf[a]: the id of the cc_pair attempt a is of *)
          None

Attempts  == 1..MaxAttempts
BatchNums == UNION {0..(MaxBatches[a] - 1) : a \in Attempts}

(* <<a, n>> stands for the name iab/<PairOf[a]>/<a>/<n>.json               *)
FileIds == Attempts \X BatchNums

ASSUME BatchStoreAssumption ==
    /\ MaxAttempts \in Nat
    /\ MaxBatches \in [Attempts -> Nat]
    /\ MaxDeaths \in Nat
    /\ PairOf \in [Attempts -> Nat \ {0}]
    /\ None \notin FileIds \cup [file : FileIds, key : FileIds]

VARIABLES
    record,    (* record[f]: object_key of f's row, named by the file it
                  was saved as; None without a row                         *)
    objects,   (* the keys that hold an object                             *)
    status,    (* the attempt's: NOT_STARTED or IN_PROGRESS is "active"    *)
    place,     (* place[a]: what the attempt's docfetching, or the beat
                  task on its completion, is doing                         *)
    todo,      (* todo[a]: names of the listing still to be dealt with     *)
    old,       (* old[a]: the listing                                      *)
    inHand,    (* inHand[a]: the row a rename has read, or the one whose
                  object a deletion has deleted: its file and its key      *)
    total,     (* total[a]: batches numbered so far, total_batches         *)
    counted,   (* counted[a]: completed_batches                            *)
    messages,  (* docprocessing messages, by the file they name            *)
    task,      (* the docprocessing task: where, its file, and its batch   *)
    stored,    (* history: files whose store_batch got to its row          *)
    done,      (* history: batches counted as processed                    *)
    discarded, (* history: batches a run that starts over did not want     *)
    deaths,    (* deaths of docprocessing tasks so far                     *)
    disturbed  (* history: cc_pairs two of whose processes ran at a time,
                  or a task of which died between its count and its end    *)

vars == <<record, objects, status, place, todo, old, inHand, total, counted,
          messages, task, stored, done, discarded, deaths, disturbed>>

Idle    == {"absent", "wait", "over"}   \* no process is at work
Places  == Idle \cup {"start", "discard", "adopt", "reissue", "run", "put",
                       "queue", "clean"}
Row     == [file : FileIds, key : FileIds]
NoTask  == [at |-> "idle", file |-> None, key |-> None]
PairIds == {PairOf[a] : a \in Attempts}

TypeOK ==
    /\ record \in [FileIds -> FileIds \cup {None}]
    /\ objects \subseteq FileIds
    /\ status \in [Attempts -> {"none", "active", "ended"}]
    /\ place \in [Attempts -> Places]
    /\ todo \in [Attempts -> SUBSET FileIds]
    /\ old \in [Attempts -> SUBSET FileIds]
    /\ inHand \in [Attempts -> Row \cup {None}]
    /\ total \in [Attempts -> Nat]
    /\ counted \in [Attempts -> Nat]
    /\ messages \subseteq FileIds
    /\ task \in [at : {"idle", "index", "delete", "unlink"},
                 file : FileIds \cup {None}, key : FileIds \cup {None}]
    /\ stored \subseteq FileIds
    /\ done \subseteq FileIds
    /\ discarded \subseteq FileIds
    /\ deaths \in 0..MaxDeaths
    /\ disturbed \subseteq PairIds

Init ==
    /\ record = [f \in FileIds |-> None]
    /\ objects = {}
    /\ status = [a \in Attempts |-> "none"]
    /\ place = [a \in Attempts |-> "absent"]
    /\ todo = [a \in Attempts |-> {}]
    /\ old = [a \in Attempts |-> {}]
    /\ inHand = [a \in Attempts |-> None]
    /\ total = [a \in Attempts |-> 0]
    /\ counted = [a \in Attempts |-> 0]
    /\ messages = {}
    /\ task = NoTask
    /\ stored = {}
    /\ done = {}
    /\ discarded = {}
    /\ deaths = 0
    /\ disturbed = {}

Pair(f)     == PairOf[f[1]]
Goto(a, p)  == place' = [place EXCEPT ![a] = p]
Rows        == {f \in FileIds : record[f] # None}

(* The attempts of a's pair before a                                       *)
Earlier(a) == {b \in 1..(a - 1) : PairOf[b] = PairOf[a]}

-----------------------------------------------------------------------------
MaxDigits == 4   \* ids of cc_pairs are below 10^MaxDigits

DecimalPrefix(p, q) == \E k \in 0..MaxDigits : q \div (10 ^ k) = p

(* Mutant: the batches of the attempt before only                          *)
ListedLast(a) == {f \in Rows : f[1] = a - 1}

(* get_all_batches_for_cc_pair: file_id LIKE 'iab/<cc_pair>%', with no     *)
(* slash after the id.                                                     *)
Listed(a) == {f \in Rows : DecimalPrefix(PairOf[a], Pair(f))}

(* try_create_index_attempt asks for the status of the attempts before;    *)
(* their processes may be at anything.                                     *)
Create(a) ==
    /\ status[a] = "none"
    /\ \A b \in 1..(a - 1) : status[b] # "none"
    /\ \A b \in Earlier(a) : status[b] = "ended"
    /\ status' = [status EXCEPT ![a] = "active"]
    /\ Goto(a, "start")
    /\ UNCHANGED <<record, objects, todo, old, inHand, total, counted, messages,
                   task, stored, done, discarded, deaths, disturbed>>

Disturb(a) ==
    disturbed' = IF \E b \in Earlier(a) : place[b] \notin Idle
                 THEN disturbed \cup {PairOf[a]} ELSE disturbed

(* connector_document_extraction starts over: cleanup_all_batches          *)
StartOver(a) ==
    /\ place[a] = "start"
    /\ Goto(a, "discard")
    /\ todo' = [todo EXCEPT ![a] = Listed(a)]
    /\ Disturb(a)
    /\ UNCHANGED <<record, objects, status, old, inHand, total, counted,
                   messages, task, stored, done, discarded, deaths>>

(* A resumed run carries completed_batches over.                           *)
Carried(a) == counted[CHOOSE b \in Earlier(a) : \A c \in Earlier(a) : c <= b]

(* or resumes: reissue_old_batches lists what is there                     *)
Resume(a) ==
    /\ place[a] = "start"
    /\ Earlier(a) # {}
    /\ Goto(a, "adopt")
    /\ todo' = [todo EXCEPT ![a] = Listed(a)]
    /\ old' = [old EXCEPT ![a] = Listed(a)]
    /\ counted' = [counted EXCEPT ![a] = Carried(a)]
    /\ total' = [total EXCEPT ![a] = Cardinality(Listed(a)) + Carried(a)]
    /\ Disturb(a)
    /\ UNCHANGED <<record, objects, status, inHand, messages, task, stored,
                   done, discarded, deaths>>

(* delete_file of a listed name: the object first, and then the row.  It   *)
(* does not mind that the row is gone.                                     *)
DeleteListedObject(a) ==
    /\ place[a] \in {"discard", "clean"}
    /\ inHand[a] = None
    /\ \E f \in todo[a] :
          /\ todo' = [todo EXCEPT ![a] = @ \ {f}]
          /\ IF f \in Rows
             THEN /\ objects' = objects \ {record[f]}
                  /\ inHand' = [inHand EXCEPT
                                  ![a] = [file |-> f, key |-> record[f]]]
                  /\ discarded' = IF /\ place[a] = "discard"
                                     /\ Pair(record[f]) = PairOf[a]
                                  THEN discarded \cup {record[f]}
                                  ELSE discarded
             ELSE UNCHANGED <<objects, inHand, discarded>>
    /\ UNCHANGED <<record, status, place, old, total, counted, messages, task,
                   stored, done, deaths, disturbed>>

DeleteListedRow(a) ==
    /\ place[a] \in {"discard", "clean"}
    /\ inHand[a] # None
    /\ record' = [record EXCEPT ![inHand[a].file] = None]
    /\ inHand' = [inHand EXCEPT ![a] = None]
    /\ UNCHANGED <<objects, status, place, todo, old, total, counted, messages,
                   task, stored, done, discarded, deaths, disturbed>>

ListingDone(a) ==
    /\ place[a] \in {"discard", "clean"}
    /\ todo[a] = {} /\ inHand[a] = None
    /\ Goto(a, IF place[a] = "discard" THEN "run" ELSE "over")
    /\ UNCHANGED <<record, objects, status, todo, old, inHand, total, counted,
                   messages, task, stored, done, discarded, deaths, disturbed>>

-----------------------------------------------------------------------------
(* update_old_batches_to_new_index_attempt, a name at a time, in no order: *)
(* change_file_id reads the row, and raises if it went away since it was   *)
(* listed.                                                                 *)
ReadForRename(a) ==
    /\ place[a] = "adopt"
    /\ inHand[a] = None
    /\ \E f \in todo[a] :
          IF f \in Rows
          THEN /\ inHand' = [inHand EXCEPT
                               ![a] = [file |-> f, key |-> record[f]]]
               /\ UNCHANGED place
          ELSE Goto(a, "over") /\ UNCHANGED inHand
    /\ UNCHANGED <<record, objects, status, todo, old, total, counted, messages,
                   task, stored, done, discarded, deaths, disturbed>>

(* Mutant: the old row kept                                                *)
RenamedKeepingRow(f, g, k) == [record EXCEPT ![g] = k]

(* The key under the new name, whatever row had that name, and the old row *)
(* gone, if it is still there; the object stays.                           *)
Renamed(f, g, k) ==
    IF f = g THEN record ELSE [record EXCEPT ![g] = k, ![f] = None]

(* Mutant: delete_file for delete_filerecord_by_file_id                    *)
AdoptBatchDeletingObject(a) ==
    /\ place[a] = "adopt"
    /\ inHand[a] # None
    /\ LET f == inHand[a].file
       IN  /\ record' = Renamed(f, <<a, f[2]>>, inHand[a].key)
           /\ objects' = objects \ {inHand[a].key}
           /\ todo' = [todo EXCEPT ![a] = @ \ {f}]
    /\ inHand' = [inHand EXCEPT ![a] = None]
    /\ UNCHANGED <<status, place, old, total, counted, messages, task, stored,
                   done, discarded, deaths, disturbed>>

(* The transaction commits.                                                *)
AdoptBatch(a) ==
    /\ place[a] = "adopt"
    /\ inHand[a] # None
    /\ LET f == inHand[a].file
       IN  /\ record' = Renamed(f, <<a, f[2]>>, inHand[a].key)
           /\ todo' = [todo EXCEPT ![a] = @ \ {f}]
    /\ inHand' = [inHand EXCEPT ![a] = None]
    /\ UNCHANGED <<objects, status, place, old, total, counted, messages, task,
                   stored, done, discarded, deaths, disturbed>>

AllAdopted(a) ==
    /\ place[a] = "adopt"
    /\ todo[a] = {}
    /\ Goto(a, "reissue")
    /\ todo' = [todo EXCEPT ![a] = old[a]]
    /\ UNCHANGED <<record, objects, status, old, inHand, total, counted,
                   messages, task, stored, done, discarded, deaths, disturbed>>

(* One message per old name; a batch of another pair raises.               *)
ReissueBatch(a) ==
    /\ place[a] = "reissue"
    /\ \E f \in todo[a] :
          /\ todo' = [todo EXCEPT ![a] = @ \ {f}]
          /\ IF Pair(f) = PairOf[a]
             THEN messages' = messages \cup {<<a, f[2]>>} /\ UNCHANGED place
             ELSE Goto(a, "over") /\ UNCHANGED messages
    /\ UNCHANGED <<record, objects, status, old, inHand, total, counted, task,
                   stored, done, discarded, deaths, disturbed>>

AllReissued(a) ==
    /\ place[a] = "reissue"
    /\ todo[a] = {}
    /\ Goto(a, "wait")
    /\ old' = [old EXCEPT ![a] = {}]
    /\ UNCHANGED <<record, objects, status, todo, inHand, total, counted,
                   messages, task, stored, done, discarded, deaths, disturbed>>

-----------------------------------------------------------------------------
(* store_batch in the extraction loop of a fresh run: put_object, and then *)
(* the row; then the message.                                              *)
PutBatch(a) ==
    /\ place[a] = "run"
    /\ total[a] < MaxBatches[a]
    /\ objects' = objects \cup {<<a, total[a]>>}
    /\ Goto(a, "put")
    /\ UNCHANGED <<record, status, todo, old, inHand, total, counted, messages,
                   task, stored, done, discarded, deaths, disturbed>>

RecordBatch(a) ==
    /\ place[a] = "put"
    /\ record' = [record EXCEPT ![<<a, total[a]>>] = <<a, total[a]>>]
    /\ stored' = stored \cup {<<a, total[a]>>}
    /\ Goto(a, "queue")
    /\ UNCHANGED <<objects, status, todo, old, inHand, total, counted, messages,
                   task, done, discarded, deaths, disturbed>>

(* Mutant: the number stepped before the message is sent                   *)
QueueBatchNextNumber(a) ==
    /\ place[a] = "queue"
    /\ messages' = messages \cup {<<a, total[a] + 1>>}
    /\ total' = [total EXCEPT ![a] = @ + 1]
    /\ Goto(a, "run")
    /\ UNCHANGED <<record, objects, status, todo, old, inHand, counted, task,
                   stored, done, discarded, deaths, disturbed>>

QueueBatch(a) ==
    /\ place[a] = "queue"
    /\ messages' = messages \cup {<<a, total[a]>>}
    /\ total' = [total EXCEPT ![a] = @ + 1]
    /\ Goto(a, "run")
    /\ UNCHANGED <<record, objects, status, todo, old, inHand, counted, task,
                   stored, done, discarded, deaths, disturbed>>

FinishRun(a) ==
    /\ place[a] = "run"
    /\ Goto(a, "wait")
    /\ UNCHANGED <<record, objects, status, todo, old, inHand, total, counted,
                   messages, task, stored, done, discarded, deaths, disturbed>>

(* check_indexing_completion: the verdict, and then cleanup_all_batches    *)
Complete(a) ==
    /\ place[a] = "wait"
    /\ status[a] = "active"
    /\ counted[a] >= total[a]
    /\ status' = [status EXCEPT ![a] = "ended"]
    /\ Goto(a, "clean")
    /\ todo' = [todo EXCEPT ![a] = Listed(a)]
    /\ UNCHANGED <<record, objects, old, inHand, total, counted, messages, task,
                   stored, done, discarded, deaths, disturbed>>

(* The attempt is failed or canceled; its process need not notice.         *)
Verdict(a) ==
    /\ status[a] = "active"
    /\ status' = [status EXCEPT ![a] = "ended"]
    /\ UNCHANGED <<record, objects, place, todo, old, inHand, total, counted,
                   messages, task, stored, done, discarded, deaths, disturbed>>

(* The process notices, raises or dies, or the beat task dies: whichever   *)
(* loop it was in stops there.                                             *)
ProcessStops(a) ==
    /\ place[a] \notin Idle
    /\ Goto(a, "over")
    /\ inHand' = [inHand EXCEPT ![a] = None]
    /\ todo' = [todo EXCEPT ![a] = {}]
    /\ old' = [old EXCEPT ![a] = {}]
    /\ UNCHANGED <<record, objects, status, total, counted, messages, task,
                   stored, done, discarded, deaths, disturbed>>

-----------------------------------------------------------------------------
(* A docprocessing task: an attempt that is over, a missing row or a       *)
(* missing object end it, and the message is acknowledged all the same.    *)
PickUp ==
    /\ task = NoTask
    /\ \E f \in messages :
          /\ messages' = messages \ {f}
          /\ task' = IF /\ status[f[1]] = "active"
                        /\ f \in Rows
                        /\ record[f] \in objects
                     THEN [at |-> "index", file |-> f, key |-> record[f]]
                     ELSE NoTask
    /\ UNCHANGED <<record, objects, status, place, todo, old, inHand, total,
                   counted, stored, done, discarded, deaths, disturbed>>

TaskRaises ==
    /\ task.at = "index"
    /\ task' = NoTask
    /\ UNCHANGED <<record, objects, status, place, todo, old, inHand, total,
                   counted, messages, stored, done, discarded, deaths,
                   disturbed>>

CountBatch ==
    /\ task.at = "index"
    /\ counted' = [counted EXCEPT ![task.file[1]] = @ + 1]
    /\ done' = done \cup {task.key}
    /\ task' = [task EXCEPT !.at = "delete"]
    /\ UNCHANGED <<record, objects, status, place, todo, old, inHand, total,
                   messages, stored, discarded, deaths, disturbed>>

(* delete_batch_by_num: the object of the row that is there now, then it   *)
DeleteBatchObject ==
    /\ task.at = "delete"
    /\ IF task.file \in Rows
       THEN /\ objects' = objects \ {record[task.file]}
            /\ task' = [task EXCEPT !.at = "unlink"]
       ELSE task' = NoTask /\ UNCHANGED objects
    /\ UNCHANGED <<record, status, place, todo, old, inHand, total, counted,
                   messages, stored, done, discarded, deaths, disturbed>>

DeleteBatchRow ==
    /\ task.at = "unlink"
    /\ record' = [record EXCEPT ![task.file] = None]
    /\ task' = NoTask
    /\ UNCHANGED <<objects, status, place, todo, old, inHand, total, counted,
                   messages, stored, done, discarded, deaths, disturbed>>

(* The worker dies: acks_late has the message delivered again.             *)
TaskDies ==
    /\ task # NoTask
    /\ deaths < MaxDeaths
    /\ deaths' = deaths + 1
    /\ messages' = messages \cup {task.file}
    /\ task' = NoTask
    /\ disturbed' = IF task.at = "index" THEN disturbed
                    ELSE disturbed \cup {Pair(task.file)}
    /\ UNCHANGED <<record, objects, status, place, todo, old, inHand, total,
                   counted, stored, done, discarded>>

-----------------------------------------------------------------------------
Next ==
    \/ \E a \in Attempts :
          \/ Create(a) \/ StartOver(a) \/ Resume(a)
          \/ DeleteListedObject(a) \/ DeleteListedRow(a) \/ ListingDone(a)
          \/ ReadForRename(a) \/ AdoptBatch(a) \/ AllAdopted(a)
          \/ ReissueBatch(a) \/ AllReissued(a)
          \/ PutBatch(a) \/ RecordBatch(a) \/ QueueBatch(a) \/ FinishRun(a)
          \/ Complete(a) \/ Verdict(a) \/ ProcessStops(a)
    \/ PickUp \/ TaskRaises \/ CountBatch
    \/ DeleteBatchObject \/ DeleteBatchRow \/ TaskDies

Spec == Init /\ [][Next]_vars

-----------------------------------------------------------------------------
(* What the listing by prefix spares: no id of another cc_pair begins with *)
(* p, or is the beginning of p.                                            *)
Apart(p) ==
    \A q \in PairIds \ {p} : ~DecimalPrefix(p, q) /\ ~DecimalPrefix(q, p)

(* The cc_pairs of which nothing is lost: with such an id, none of whose   *)
(* runs found a process of an earlier attempt still at its loop, and none  *)
(* of whose batches was counted a second time after the death of its task. *)
Quiet(p) == Apart(p) /\ p \notin disturbed

(* Every batch that got its row is found by its cc_pair's listing and read *)
(* through it, until docprocessing has counted it or a run that starts     *)
(* over has discarded it: whichever loop was cut short between an object   *)
(* and its row, and whichever task of an attempt that has its verdict was  *)
(* counting and deleting its batch while the next run renamed it.          *)
NoBatchLost ==
    \A k \in stored \ (done \cup discarded) :
        Quiet(Pair(k)) =>
          /\ k \in objects
          /\ \E f \in Rows : record[f] = k /\ Pair(f) = Pair(k)

(* Two rows never share an object, or deleting one batch would empty the   *)
(* other (change_file_id, whose read and commit may lie around another     *)
(* task's deletion of the same row).                                       *)
OneRowPerObject ==
    \A f, g \in Rows : record[f] = record[g] /\ Quiet(Pair(f)) => f = g

(* When a run has resumed, every batch of its cc_pair that is not done     *)
(* bears its name: none is left where only a later resume would look.      *)
NothingLeftBehind ==
    \A a \in Attempts :
        place[a] = "wait" /\ status[a] = "active" /\ Quiet(PairOf[a]) =>
          \A f \in Rows : Pair(f) = PairOf[a] /\ record[f] \notin done
                            => f[1] = a
=============================================================================
