# Orbyte indexing and document jobs: TLA+ models, checks and proofs

Orbyte indexes the documents of external sources. A *connector* bound to a
*credential* (a `cc_pair`) is fetched again and again; each run is a row of
`index_attempt`. Celery tasks, a spawned process, Redis counters and a file
store carry the documents of a run from the connector to the document index.
Almost everything that can go wrong there goes wrong *between* those parts:
a worker dies after one write and before the next, a process outlives the
verdict on its attempt, a message is delivered twice, the next run renames the
files the last one still deletes.

Once documents are indexed, other jobs act on them: a metadata sync copies
permissions to the index, a reindex ports every document to a new index and
switches over, pruning removes what the source no longer has, and a connector
can be deleted. They share the rows and the two indices, hold no transaction
across them, and each must know what the others may still write.

Both are modelled here, each with its faults.

Paths below are relative to `src/backend/orbyte/`.

## 1. Inventory

### The indexing pipeline (modelled)

| Part | Code | State it keeps | Operations | Module |
|---|---|---|---|---|
| Attempt rows and coordination | `db/index_attempt.py`, `db/indexing_coordination.py`, `db/enums.py`, `background/indexing/checkpointing_utils.py` | status, celery task id, cancellation flag, batch counts, poll window, checkpoint, error rows, `time_updated` | create, transition, six `mark_attempt_*` verdicts, count a batch, record an error, latest checkpoint | `IndexAttempt` |
| Batch storage | `file_store/document_batch_storage.py`, `file_store/file_store.py`, `db/file_record.py` | one row per file, one object per key | store, list by prefix, rename, delete, clean up | `BatchTransport` (whole loops), `BatchStore` (object by object, row by row) |
| Counters and queue | `redis/redis_docprocessing.py`, `background/celery/tasks/docprocessing/batch_counters.py`; the broker is external | `pending`, `in_flight`, messages | count, send, pick up, release, clean up, redeliver, lose | `BatchTransport` |
| Docfetching | `background/celery/tasks/docfetching/tasks.py`, `background/indexing/run_docfetching.py`, `background/indexing/job_client.py` | the proxy's loop, the process and its locals | spawn, verify, start, choose a window, resume or discard, extract, store, queue, save a checkpoint, fail, terminate | `DocFetching` |
| Docprocessing | `background/celery/tasks/docprocessing/tasks.py`, `indexing/indexing_pipeline.py` | the task's locals, the document index | load, index, count, record failures, delete, handle an exception | `DocProcessing` |
| `check_for_indexing` | `background/celery/tasks/docprocessing/tasks.py`, `.../docfetching/task_creation_utils.py` | where the beat task is | kick off, validate, monitor, complete, clean up | `CheckForIndexing` |
| Pause and resume | `server/documents/cc_pair.py`, `redis/redis_connector_stop.py` | stop fence, cc_pair status | fence, request cancellation, pause, resume | `IndexingPipeline` |
| Heartbeats | `.../docprocessing/heartbeat.py` | - | touch the row of a live attempt | `IndexingPipeline` |

How they interact:

- the beat task commits a row, then sends a docfetching message; the proxy
  acknowledges it early, spawns a process and polls it every five seconds;
- the process stores a batch, counts it as pending, then sends a message, saves
  a checkpoint at the end of a run, and at the end of extraction writes
  `total_batches`; before each yield it looks at the fence, the cc_pair and
  its own row;
- a docprocessing task acknowledges late: a worker's death delivers the
  message again, an exception does not; it counts the batch on the row of the
  attempt, writes error rows, deletes the batch;
- the beat task compares the two counts, gives the verdict, and empties the
  store; it fails attempts that no longer beat, or whose message is lost;
- whoever gives a verdict deletes the Redis counters. Nothing waits for the
  process and the tasks of an attempt that has its verdict: they run on beside
  the next attempt and share its file store, queue and rows.

What is hard: every arrow above crosses two stores without a transaction; any
task, process or pod may stop between two of its steps; up to two generations
of processes and tasks overlap; the verdict functions overwrite one another.

What makes the pipeline correct, as properties of `IndexingProperties`:
a fetched document is never lost (`NoDocumentLost`); completion means that
every batch was processed (`CompletionMeansProcessed`); a SUCCESS, which moves
the poll window on for good, covers the whole source (`SuccessCoversSource`);
one active attempt (`OneActiveAttempt`); an attempt that ended never runs
again (`LifecycleSpec`); the counters that spare a stuck attempt are wrong by
no more than what Redis failed to count and the broker lost (`BacklogIsReal`);
every attempt ends (`AttemptsEnd`) and every document ends in the index or an
error row (`EventuallyAccounted`).

### The jobs on indexed documents (modelled)

| Part | Code | State it keeps | Operations | Module |
|---|---|---|---|---|
| Documents and indices | `db/document.py`, `access/`, `document_index/` | document rows, links to cc_pairs, `last_modified` against `last_synced`, `secondary_only_sync_pending`, search settings, the chunks in the old and the new index | access of a document, update, delete, active settings | `DocumentStore` |
| Metadata sync | `background/celery/tasks/vespa/` | a fence with its task set | find what is stale or deferred, read Postgres, update each index, mark synced or deferred | `MetadataSync` |
| Reindex port | `background/celery/tasks/port/tasks.py`, `db/port_attempt.py`, `document_index/opensearch/port_copy.py` | one attempt row per cc_pair with a cursor and a bound; the task's own cursor and batch | schedule, enqueue, start, page, read, copy, write, commit, yield, retry, fail, acknowledge a cancellation, watchdog | `ReindexPort` |
| Index swap | `db/swap_index.py`, `server/manage/search_settings.py` | the settings' status, the source of a backfill | start, cancel, decide, the commits of the switch | `IndexSwap` |
| Index attempts, as writers of the index | `indexing/indexing_pipeline.py`, `indexing/adapters/document_indexing_adapter.py` | status of the latest attempt; rows, links, chunks | find due, create, check the fences, start; take a document, prepare it, write its chunks under its lock; fail, end | `DocumentIndexing` |
| Cleanup tasks | `background/celery/tasks/shared/tasks.py` | the tasks, and whether a fence counts them | read, change the indices, write Postgres, acknowledge; retry, exhaust, give up, run again | `DocumentCleanup` |
| Pruning | `background/celery/tasks/pruning/tasks.py`, `redis/redis_connector_prune.py` | a fence with its task set | check, raise, generate, fail with part of the tasks sent, monitor, reset | `ConnectorPruning` |
| Connector deletion | `background/celery/tasks/connector_deletion/tasks.py`, `redis/redis_connector_delete.py` | a fence with its task set, the stop signal | request, raise, wait, time out, generate, raise an exception or die with part of the tasks sent, validate, reset, restart, finish | `ConnectorDeletion` |

How they interact:

- the sync, the port, the cleanup tasks and index attempts all write the same
  two indices. The port writes create-only, so whatever came first stays, and
  what it writes was read before: an edit in between must come back to the
  document later, which is what `secondary_only_sync_pending` is for;
- the swap reads the port's rows and the deferred flags; once it has made the
  new index primary, an `INSTANT` reindex goes on filling it from the old one;
- a deletion looks at index attempts, port attempts and the pruning fence,
  asks them to stop and looks again; the cc_pair is DELETING and its fence is
  up so that none of them starts again. It looks at the status of the attempt
  only: docprocessing tasks of an attempt that was canceled go on writing;
- a cleanup task decides between DELETE and UPDATE by a count it read before it
  went to the indices. Its message is acknowledged after it has committed: a
  worker that dies in between has it run again, and the count no longer says
  whose link is left.

What makes them correct (`DocumentProperties`): a cursor stands for a copy
(`PortedMeansCopied`); the switch does not come before the backlog is served
(`BacklogServed`); no edit is lost between sync, port and swap
(`IndexIsCurrent`); no port writes under a cleanup (`CleanupIsLastWriter`),
which leaves no chunk without a row (`NoOrphan`) and spares shared documents
(`SharedDocumentSurvives`); port rows keep their contract
(`KeepsPortContract`); deletion, reindex and sync end. Three of them speak of
what a cc_pair *keeps* (`Kept`): the documents it had from the start, that its
source still has, while nobody deletes it. The code keeps none of those about
documents without exception; section 2 names the exceptions, section 5 what
happens in them.

### The rest (not modelled)

| Part | Code | Hard behaviour | Why not |
|---|---|---|---|
| Hierarchy fetching | `background/celery/tasks/hierarchyfetching/tasks.py` | fences of its own | writes hierarchy nodes, which no modelled part reads |
| User files, scheduled tasks | `.../user_file_processing/tasks.py` | queue limits, claims | independent of the rest; next in the plan |
| Cache backends, locks, tenant gating | `cache/postgres_backend.py`, `redis/lock_context.py`, `redis/redis_tenant_work_gating.py` | lock expiry under a live holder | beat locks are taken as exclusive |
| Permission and group syncs | `background/celery/tasks/doc_permission_syncing/`, `.../external_group_syncing/` | fences deletion waits for | an edit of the metadata stands for what they write |
| Connectors, embedding, LLM, chat | `connectors/`, `llm/`, `chat/` | external services, request and response | no state shared by several steps |
| Web, mobile, desktop clients, deployment | - | user interface, packaging | not part of the protocol |

`PROJECT.json` lists every hazard met while reading, at its line, with the
properties that would catch it.

## 2. Modules

```
IndexAttempt          rows of one cc_pair, and the functions on them
  BatchTransport      + files, queue, counters; the mark_attempt_* functions
    DocFetching       + proxy and process
    DocProcessing     + worker threads and the document index
    CheckForIndexing  + the beat task
      IndexingPipeline    composes the three; faults, pause, Next, fairness
        IndexingProperties    what it must guarantee
          MCIndexingPipeline      for TLC
          IndexingPipelineProofs  for TLAPS
            IndexingBatchProofs     what the counters say, completion
              FetchedDocumentsProofs    what fetching and success promise
AttemptLifecycle      abstract: the life of an attempt
BatchStore            file rows and objects, step by step, several cc_pairs
  MCBatchStore          for TLC
  BatchStoreProofs      for TLAPS: a Quiet cc_pair
GreatestNumber        lemmas: least and greatest elements of sets of numbers

DocumentStore         rows, links, settings, the two indices
  ReindexPort         + attempts and tasks of the port
    MetadataSync        + the sync
    IndexSwap           + start, cancel and switch of a reindex
  DocumentIndexing    + index attempts as writers
  DocumentCleanup     + cleanup tasks
    ConnectorPruning    + pruning
  ConnectorDeletion   over ConnectorPruning, ReindexPort, DocumentIndexing
    DocumentLifecycle   composes them all; faults, Next, fairness
      DocumentProperties    what they must guarantee
        MCDocumentLifecycle     for TLC
        DocumentLifecycleProofs   for TLAPS: types, the invariant and what follows
          KeptDocumentsProofs       what a cc_pair keeps
PortContract          abstract: the attempts of a port
```

Each function that is one transaction is an operator; each handler is cut into
actions where the code commits, sends or calls another store, because a crash
or another actor can come between exactly there. Every operator keeps the name
of its function, or has a comment that names it; `"map"` in `PROJECT.json`
gives the lines.

| Code | Model |
|---|---|
| `try_create_index_attempt`, then `send_task` | `Kickoff`, `SendFetching`; `SendFails` when it raises |
| `validate_active_indexing_attempts` | `FailStale` (no heartbeat), `FailLost` (no message) |
| `monitor_indexing_attempt_progress`, `check_indexing_completion` | `StartMonitoring`, `CancelRequested`, `CheckCompletion`, `MarkCompleted`, `CleanupCompleted`, `MonitoringFails` |
| `docfetching_proxy_task` | `SpawnProcess`, `ProcessDone`, `ReportFailure`, `AttemptFinalized`, `TerminateProcess`, `WorkerShutsDown`, `MemoryLimitExceeded`, `PodDies` |
| `_docfetching_task`, `run_docfetching` | `VerifyAttempt`, `StartAttempt`, `RefuseStart`, `ChooseWindow` |
| `connector_document_extraction` | `ResumeFromCheckpoint` or `DiscardOldBatches`; the extraction loop from `YieldBatch` to `FinishExtraction`; the exception handlers |
| `reissue_old_batches` | `AdoptOldBatches`; per batch `CountBatchToSend` (`incr_pending`) and `ReissueBatch` (`send_task`); `CarryCompleted` |
| `store_batch`, `incr_pending`, `send_task` of the loop | `StoreFetchedBatch`, `CountBatchToSend` or `CountingMissed`, `QueueFetchedBatch` |
| the `except` of `run_docfetching`; the proxy's report | `HandleException`, `MarkRaised`; `ReportFailure`, `MarkReported`: the check of the status, and the FAILED write |
| Redis, the broker | `PickUpMissed`, `ReleaseMissed`, `LoseMessage` |
| `docprocessing_task`, its signals | `PickUpBatch`, `IndexBatch`, `CountProcessed`, `RecordFailures`, `DeleteProcessed`, `HandleTaskException`, `CountFailed`, `FinishTask` |
| `update_cc_pair_status` | `RaiseFence`, `RequestCancellation`, `PauseRow`, `ResumeConnector` |

`job` holds the locals of the process, `worker` those of a task, so a value
read in one step and used in a later one is stale in the model exactly when it
is in the code (`completed_batches` of the last attempt, the listed batches,
the outcome read off the coordination status).

| Code | Model |
|---|---|
| `try_create_index_attempt`, the verdicts | `Create`, `Verdict`: neither looks at the processes of the cc_pair |
| `cleanup_all_batches` | `StartOver` or `Complete` list; per name `DeleteListedObject`, `DeleteListedRow`; `ListingDone` |
| `update_old_batches_to_new_index_attempt`, `change_file_id` | `Resume` lists; per name `ReadForRename`, `AdoptBatch`; `AllAdopted` |
| `reissue_old_batches` | `ReissueBatch` per old name, `AllReissued` |
| `save_file` of the loop: `put_object`, then the row | `PutBatch`, `RecordBatch`; then `QueueBatch` |
| `docprocessing_task` | `PickUp`, `CountBatch`, `DeleteBatchObject`, `DeleteBatchRow`; `TaskRaises`, `TaskDies` (the message comes again) |
| a process that notices its verdict, raises or dies | `ProcessStops` |

| Code | Model |
|---|---|
| `run_check_for_port`, `_fail_stalled_port_attempts` | `SchedulePort`, `EnqueueFails`, `UnpinSource`, `FailStalled` |
| `run_port_attempt`: startup, top of its loop | `PortStart`; `PortStops`, `PortYields`, `PortPage` |
| `copy_present_chunks_to_future` | `PortRead`, then per document `PortCopy` and `PortWrite`; `PortAborts`, `PortRetries`, `PortFails` |
| `commit_port_cursor`, `mark_port_succeeded` | `PortCommit`, `PortFinish` |
| `set_new_search_settings`, `cancel_new_embedding` | `StartReindex`, `CancelReindex` |
| `check_and_perform_index_swap`, `_perform_index_swap` | `BeginSwap`, `PromoteNew`, `SettleSwap`: one action per commit |
| `generate_document_sync_tasks`, `document_index_metadata_sync_task` | `GenerateSyncTasks`; `SyncRead`, `SyncIndex` per index, `SyncMark`, `SyncFails` |
| `check_for_indexing`, `_docfetching_task`, `transition_attempt_to_in_progress`, the verdicts | `IndexDue`, `IndexCreate`; `IndexCheck`; `IndexTransition`; `IndexEnd` |
| `docprocessing_task`'s check of the status, `index_doc_batch_prepare`, `lock_context` to `post_index` | `IndexTake`, `IndexPrepare`, `IndexWrite`; `IndexFails` |
| `document_by_cc_pair_cleanup_task` | `CleanupRead`, `CleanupIndex`, `CommitDelete`, `CommitUpdate`, `CleanupEnds`; `CleanupRetries`, `CleanupExhausted`, `CleanupGivesUp` |
| its second delivery after the commit (`task_acks_late`) | `CleanupRepeats` |
| `try_creating_prune_generator_task`, its generator, its monitor | `PruneCheck`, `PruneCreate`; `PruneGenerate`, `PruneFails`; `PruneMonitor` |
| `try_generate_document_cc_pair_cleanup_tasks` and its caller | `RaiseDeletionFence`, `DeletionBlocked`, `GenerateCleanup`, `DeletionBeatDies`, `DeletionRaises` |
| `monitor_connector_deletion_taskset`, `validate_connector_deletion_fence` | `RestartDeletion`, `FinishDeletion`; `ResetDeletionFence`, `ResetFenceInUse` |

`copier`, `syncer` and the records in `cleanup` hold what a task has read: the
port's point in time of the old index, the metadata of a sync, the decision of
a cleanup.

### Abstractions

- A batch is one document and a document is a number, in the order in which
  the source yields them. A checkpoint is how many of them it covers.
- Time. `newer` is the order of `time_updated`, which the choice of the last
  attempt and of the checkpoint depends on, and every update of a row changes
  it, heartbeats included. Poll windows are named by the attempt that opened
  them. The half hour without a heartbeat passes only when no process or task
  of the attempt beats, and the scan for lost messages finds an attempt only
  when its message is neither queued nor held: a timeout never fires early.
- The document index takes a document in one step, and indexing it twice is
  harmless, as an upsert is. The cross-batch lock is held inside a step only.
- The pipeline renames and cleans up all batches in one step; `BatchStore`
  takes these loops apart, with a step per row and per object. It leaves out
  what a resumed run goes on to fetch.
- `trampled` records that a batch was stored or renamed over, or that one of a
  later attempt was renamed or deleted by a process that outlived its own. The
  race `BatchNumber` shows is one way; the three properties about documents
  speak of behaviours in which it has not happened.
- `discarded` records the documents a run that starts from scratch throws away
  although the checkpoint of an older attempt counts them as fetched. A REINDEX
  fetches them again, but if it dies first, a third attempt may resume from
  that older checkpoint and skip them (section 5, `ThrownOut`).
  `NoDocumentLost` and `SuccessCoversSource` leave them out;
  `SkippedIsAccounted`, which the run shows violated, does not.
- `missed` counts, per attempt, the pickups that Redis failed to count and the
  messages that the broker lost: `BacklogIsReal` says that the counters are
  wrong by no more than that, once extraction is over. (A count that Redis
  failed to take before a message was sent makes `pending` too small, which is
  safe: the attempt is failed and resumed rather than spared.)
- `disturbed`, in `BatchStore`, records the cc_pairs of which a run began its
  listing while a process of an earlier attempt was still at its loop, or a
  task of which died between its count and its end. Nothing is claimed of them
  from there on: section 5 says what may happen. The others are `Quiet`, if no
  other cc_pair's id begins with theirs and theirs with no other's (`Apart`).
- Left out: the expiry of the fence and of the counters after hours; the
  repeated-error state and notifications; hierarchy nodes and permissions; a
  defensive branch that fails active attempts without a task id, which no path
  of the code creates; targeted reindex jobs and port seeds.

And of the jobs on documents:

- A document's chunks are one entry per index: who has access, and how many
  edits it has seen. The old and the new index are the only two: one reindex.
- A task is dead when it is idle and its row is not: the watchdog of the port
  and the validation of a deletion's fence wait far longer than a live task is
  silent, so they act on dead ones only. The cap on concurrent ports and the
  backoff between retries only delay a turn.
- Three histories record what the code does not prevent, so that a property
  can say of which documents it speaks. `overtaken`: a document was edited, or
  a port, a sync or a cleanup task read it, between the read and the last write
  of one of its sync or cleanup tasks. `repeated`: a cleanup task of the
  document was delivered again after its commit, or sent while its cc_pair's
  last one for it was still there. `intruded`: a docprocessing task wrote the
  document between the phases of one of its cleanup tasks. Each of these is
  open in the model and happens in the runs; only the property leaves the
  document out.
- Index attempts are cut down to what they write to rows and index, one
  attempt per cc_pair at a time, and one docprocessing task, which may outlive
  it; their coordination is `IndexingPipeline`. `BeginSwap` reads all that the
  swap's readiness depends on in one step with its first commit.
- A swap and a cancellation do not overlap.
- Left out: the swap without the port flow, which counts index attempts; a
  reindex replaced by another one; fences of permission and group syncs;
  document sets and user groups, whose syncs only mark documents modified.

## 3. Runs

The configurations of the pipeline bound the attempts to two or three, which is
what it takes for the leftovers of one attempt to meet the next: its process,
its tasks, its messages, its files. `MaxFaults` bounds the faults of a behaviour; each fault
may strike wherever the code allows it. `CHECK_DEADLOCK FALSE` everywhere:
when all the attempts have been created and have ended, nothing is left to do.

| Run | Instance | Shows |
|---|---|---|
| `Faults` | 2 attempts, 2 documents, checkpointed connector, one of 8 faults | no fetched document is lost, completion and SUCCESS mean what they say |
| `Persistent` | 2 attempts, 2 documents, no checkpoints, `PERSISTENT_INDEXING`, two worker threads (symmetric), two of 5 faults, among them calls Redis does not serve and messages the broker loses | the same, when exceptions are swallowed and batches counted in the handler; and the counters are wrong by no more than those calls and messages |
| `Lifecycle` | 2 attempts, 1 document, ordinary and REINDEX kickoffs, the faults that give a verdict, a pause and a resume | types, one active attempt, no document lost, refinement of `AttemptLifecycle` |
| `Recovery` | 2 attempts, 1 document, 15 kinds of fault, `ScheduledSpec` | liveness: every attempt ends, every document is accounted for |
| `BatchStore` | 3 attempts of one cc_pair, of which the first may store 2 batches and the second 1; one death of a docprocessing task; explored until the cc_pair is `disturbed` | no recorded batch becomes unreachable and a resume leaves none behind, wherever the loops stop, and whichever task of an ended attempt still counts and deletes |
| `Reindex` | 2 cc_pairs, one of them paused, 2 documents, `ACTIVE_ONLY` and `INSTANT`, one edit or one deletion, one of 7 faults, `FairSpec` | types, cursor and copy, the moment of the swap, no lost edit of a document that was not overtaken, no port that writes under a cleanup, the port's contract; reindex and sync end |
| `Deletion` | 2 cc_pairs, 2 documents of which they share one, an index attempt, a pruning, one deletion, one of 8 faults, `FairSpec` | no orphan and the shared document survives, but for documents that were intruded upon or whose tasks were repeated; the deletion ends |
| `RecountCrash`, `BatchNumber`, `ThrownOut`, `Resurrected`, `Redelivered` | as small as the violation allows | see section 5 |

Why the bounds are enough. Two documents are the least for which one batch can
be waiting while another is counted, the shape of every wrong completion. Two
attempts are the least for a resume. A third adds one thing, to resume from the
checkpoint of the first after a REINDEX between them discarded its batches;
TLC finds the invariants true there as well (3 attempts, 1 document, REINDEX
and process deaths: 761,143 states), and the theorems of section 4 cover every
number of attempts. `BatchStore` has three, because a resume that was itself
cut short leaves files of two names; the third stores nothing of its own, since
what could go wrong with its batches would with those of the second. Its death
of a task is one because the second of two finds the cc_pair disturbed, or has
its message come again as the first had. `Undisturbed` prunes the search where
`Quiet` makes the three properties silent, and nowhere else. `BatchNumber`
needs a third document, so that the number chosen too small is used again. `MaxBatchNum` is the highest number
two attempts can reach, and `FailureThreshold = 1` lets one failure pass and a
second one stop the run. One fault at a time is the bound of most runs because
two independent faults make the state space too large for two documents;
`Persistent` allows two, and the theorems any number.

`CrashPoints`. A worker that dies between counting its batch and acknowledging
it breaks `CompletionMeansProcessed`: that is `RecountCrash`. The passing runs
let it die at the other points only, so that what they show is what holds
apart from that. For the same reason `Persistent` has no late exception, after
which the handler counts the batch a second time; `Lifecycle` has one, with a
single document and no persistence.

The document jobs. `Reindex` has two documents and pages of two, so that a
batch can be stopped, fail or die between its documents, and a resume has a
cursor to resume at once a page is done. The paused cc_pair tells the scopes of
the two switchovers apart: `ACTIVE_ONLY` does not wait for it, `INSTANT` ports
it later; `REINDEX` differs from `ACTIVE_ONLY` only in that scope. One edit is
enough to find the new index older than Postgres, since an edit is lost or not
whatever others follow. `Deletion` has a document that the cc_pair has alone
and an index attempt fetches again, and a shared one that a pruning takes: the
ways a cleanup meets another writer. The index attempt and the pruning of one
cc_pair take turns (`InTurn`), because what they do together is the pruning's
matter, and pruned documents are outside `NoOrphan`. `Synced` names the
documents whose syncs are followed: both in `Reindex`, the shared one in
`Deletion`; that the others stay flagged is as if their beat had not come. One
fault at a time; the tasks of several documents fail independently.
`Resurrected` needs no fault, `Redelivered` one death.

`Recovery` has no lost message of docprocessing ("broker"): `pending` would keep
sparing an attempt whose message is gone, until the counter expires after hours,
which is left out, and `AttemptsEnd` fails. It has no pause and no late
exception. A pause cancels an attempt, and
two attempts are all there are: the second would have to survive every fault.

### Fairness

`FairSpec` says that each actor keeps taking its next step: celery consumers
take messages, a spawned process runs on, the proxy's loop comes round every
five seconds, the beat task every few (`WF`). `ValidateAttempt` has strong
fairness: the beat task validates on each of its runs, whatever it does in
between, so an attempt that is stale again and again is found. Nothing makes a
fault happen. `ScheduledSpec` adds that the schedule finds the connector due
again and again (`SF` on `KickoffStep`: a kickoff is disabled while an attempt
is active) and that a paused connector is resumed. `EventuallyAccounted` needs
it; without a next attempt nothing fetches what a failed one left.

The document jobs have one weak fairness condition per kind of task
(`Fairness` in `DocumentLifecycle`): the beat tasks come round, and each queue
is served with some task that can go on. Faults, edits, deletions and the
start of an attempt or a pruning are never forced. The liveness properties
leave out `Stranded`, the state after a process died between the two commits
of a swap: nothing in the code repairs it.

The one assumption of the pipeline the code does not enforce: a connector that
hangs inside a fetch is not taken to hang for ever. The watchdog has a branch for an activity
timeout (docfetching/tasks.py:763), but no code sets the status that leads to
it, and the heartbeat thread of a hung process keeps beating. The docstring
lists a connector stuck in an infinite loop as still to be handled
(docfetching/tasks.py:371). Without the assumption `AttemptsEnd` would
not hold of such a connector.

## 4. Proofs

TLAPS checks, for every number of attempts, documents, batches and threads and
for every set of faults:

| Theorem | Statement |
|---|---|
| `TypeCorrect` | `Spec => []TypeOK` for the whole pipeline; the counters stay in `Nat`, whatever late tasks do after a verdict deleted them |
| `OneActive` | `Spec => []OneActiveAttempt` |
| `ImplementsLifecycle` | `Spec => LifecycleSpec`: the pipeline refines `AttemptLifecycle` |
| `Invariance` | `Spec => []IInv`, which the three rest on |
| `CountersTellTheTruth` | `Spec => []BacklogIsReal`: once extraction is over, the counters are wrong by `missed` at most |
| `BacklogInvariance` | `Spec => []BacklogInv`, which it rests on |
| `CompletedOnceProcessed` | `CountedOnce` implies `Spec => []CompletionMeansProcessed` |
| `CompletionInvariance` | `CountedOnce` implies `Spec => []CompletionInv`, which it rests on |
| `NothingFetchedIsLost` | `CountedOnce` and `Checkpointed` imply `Spec => []NoDocumentLost` |
| `SuccessMeansCovered` | `CountedOnce` and `Checkpointed` imply `Spec => []SuccessCoversSource` |
| `FetchedInvariance` | `CountedOnce` and `Checkpointed` imply `Spec => []FetchedInv`, which the two rest on |
| `StoreTypeCorrect` | `Spec => []TypeOK` for `BatchStore` |
| `BatchesAreKept` | `Spec => []NoBatchLost`, of a `Quiet` cc_pair |
| `RowsNeverShare` | `Spec => []OneRowPerObject`, of a `Quiet` cc_pair |
| `ResumeTakesAll` | `Spec => []NothingLeftBehind`, of a `Quiet` cc_pair |
| `BatchesInvariance` | `Spec => []StoreInv`, which those four rest on |
| `JobTypesCorrect` | `Spec => []TypeOK` for `DocumentLifecycle` |
| `PortImplementsContract` | `Spec => KeepsPortContract`: the port refines `PortContract` |
| `LastWriter` | `Spec => []CleanupIsLastWriter`: no port has a batch of a cc_pair in hand while a cleanup task of its deletion is counted |
| `JobInvariance` | `Spec => []IInv`, which those three rest on |
| `SharedSurvives` | `Spec => []SharedDocumentSurvives` |
| `CopiedOncePassed` | `Spec => []PortedMeansCopied` |
| `SwitchoverWaits` | `Spec => []BacklogServed` |
| `KeptInvariance` | `Spec => []KeptInv`, which the three rest on |

Assumptions: the named `ASSUME`s on the constants (`IndexAttemptAssumption`,
`DocFetchingAssumption`, `DocProcessingAssumption`,
`CheckForIndexingAssumption`, `IndexingPipelineAssumption`,
`BatchStoreAssumption`, `DocumentStoreAssumption`, `ReindexPortAssumption`,
`MetadataSyncAssumption`, `DocumentIndexingAssumption`,
`ConnectorPruningAssumption`, `ConnectorDeletionAssumption`,
`DocumentLifecycleAssumption`), which TLC evaluates in every run. They say no
more than that bounds are natural numbers, that there are finitely many threads and cc_pairs, and that `None` is not one
of the values it stands beside.

Five theorems have a hypothesis of their own; without it the code does what
section 5 describes:

- `CountedOnce`: no docprocessing task dies or raises between the count of its
  batch and the acknowledgement of its message. Without it the batch is counted
  twice (`RecountCrash`). Every other fault stays: a connector, fetching
  process or pod that dies, a lock not obtained, documents that fail, a task
  that raises or dies before its count, and with `PERSISTENT_INDEXING` also one
  that dies in the handler before it counts. `Faults` and `Persistent` satisfy
  it.
- `Checkpointed`: the connector has checkpoints. One without them that fails
  between its only checkpoint and `total_batches` loses what was stored
  (`ThrownOut`); with the constants of that run TLC finds `NoDocumentLost` and
  `SuccessCoversSource` violated too, and with those of `RecountCrash` it finds
  that they need `CountedOnce`. `Faults` and `Lifecycle` are checkpointed;
  `Lifecycle` also has a late exception, which the theorem does not cover and
  the run does. `Persistent` has a connector without checkpoints that does not
  fail, which is left to TLC.

**The pipeline.** None of the three facts is inductive alone. A verdict
refines `End` only if the row exists, so whatever acts for an attempt must act
for a created one: `ActorsHaveAttempts`. The document a process has in hand
must be one of the source, or its position would leave its range:
`DocumentsInHand`. The position a run starts from is a `CHOOSE` among the last
updated of some rows; it has a value because the updates are in a strict total
order, `UpdatesAreOrdered`, and a nonempty finite set then has a last one
(`LastUpdated`, by counting). That order survives a request to cancel, which
updates all active attempts in one transaction, because there is at most one:
`OneActiveAttempt`. So `IInv` is the conjunction of all of them. One lemma per
group of actions proves the local part; another shows that each step moves the
rows in one of three ways (`RowsMove`): not at all, one written row that takes
at most one step of the abstract life cycle, or a request to cancel. From that
alone follow the refinement, the one active attempt and the order.

**The counters.** `BacklogIsReal` compares two counters with two sets. A batch
is counted before its message is sent, so `pending` is ahead of the queue while
a process is between the two: by one, and only then (`CountedInPlace`: the flag
in its locals is up only where it has a batch to send, or after it raised or
died there). Such an attempt never gets a total, because only a process that
came past its last batch writes one; and an attempt without a total is not
spared on account of its counters. So `PendingIsQueued` bounds `pending` by the
messages, `missed` and that one batch, and once the total is set the one is
gone. Nothing else takes a message off the queue without decrementing
`pending`, deleting it or counting in `missed`, and a decrement of a missing
counter leaves it missing. A task is counted when it starts, or its pickup is
`missed`; only a verdict deletes the counters; so of an attempt without a
verdict `in_flight` and `missed` cover the tasks it has (`TasksAreInFlight`).
A batch is stored under the next number only (`StoredHasNumber`). `BacklogInv`
is `IInv` with these; `SentInv` adds `CountedInPlace` and `SentOnce`, that
nothing runs for an attempt before it was sent. The lemmas count sets (one
element more, one less, one that moves); the sets are cardinalities, not folds,
so that the theorems on finite sets apply.

**Completion.** An attempt is `Owed` a count for each message of its in the
queue, each task that has yet to count, and each batch in the store that was
`Dropped`: its document is recorded nowhere, and no message or task has it.
`CountsAreOwed` says, for each place of the docfetching process, how the number
of batches so far and the total bound what was counted and what is owed.
Sending a batch raises both sides by one. A task counts only what it indexed or
recorded in an error row (`TasksRecord`), so counting turns something owed
into something counted and drops nothing; a task that dies unacknowledged is
owed as a message again, and one that fails leaves at most its batch dropped.
Removing batches only lowers what is owed. `SentOnce` is what makes the numbers
start at zero.
Once the total is set, `Owed + completed <= total`; so an attempt whose
`completed` has reached its `total` is owed nothing, and its batches are in the
index, in an error row or held. `CompletionInv` is the conjunction with
`SentInv`. It needs no assumption on renaming: the theorem and the runs hold
also after a resumed run has trampled on batches of another attempt, and the
property says so.

**Fetched documents.** A document an attempt counts as fetched may be in a
batch that an attempt long gone stored, that was renamed once or twice since,
and whose task of the last attempt may still be at it. The invariant follows it
from two sides. `Covered` speaks of the last attempt created: its batches are
`Orderly`, which is to say that for each there is at most one message or one
task, never both, and the task has the document of the batch in hand; and what
it counts is recorded or in a batch of its own, or else at most what some
checkpoint counts (`FetchedIsKept`). And it speaks of checkpoints: what one
counts, whichever attempt saved it, is recorded, discarded or in a stored
batch that no task has mistaken for another (`CheckpointIsSecured`). A run that
resumes stands where a checkpoint was saved (`PositionIsSaved`), nothing of it
is under way yet, and adopting the batches makes them all its own: so the
second side yields the first. In the other direction a checkpoint is only
yielded by an active attempt, which is the last one (`ActiveIsLatest`), so the
first yields the second. In between, a task deletes a batch only once its
document is recorded (`DeletesRecorded`), and only the processes of earlier
attempts could take batches from the last one, which is what `trampled`
records. A success empties the store without looking; by then extraction has
reached the end and, by `CompletionInv`, every batch of the attempt is
recorded, so that all documents are: from there on nothing can be lost
(`Excused`, `SuccessIsExcused`). `FetchedInv` is the conjunction with
`CompletionInv`. TLC found the first version of it false: not of the model but
of the code, the second way to `ThrownOut` in section 5; hence `discarded`.

**The batch store.** The properties speak of `Quiet` cc_pairs: `Apart`, so
that no other cc_pair's listing takes their batches, and not `disturbed`. They
need no hypothesis; what a cc_pair that is not `Quiet` meets is in section 5.
`StoreInv` says of every `Apart` cc_pair that its files are on the lists and in
the hands of its own attempts and tasks only (`KeysApart`), and of every
`Quiet` one, in `PairInv`, what the three properties need. So the proof of a
step has two cases: the step is of another cc_pair, and nothing of this one
changes (`Untouched`, `UntouchedKeeps`), or it is of this one, and one lemma
for each conjunct shows that it is kept (`OwnStep`). Processes outlive their
verdicts in the model, but as long as no two of a cc_pair meet, at most one
attempt is at its loop (`TurnsTaken`, `OneTurn`), and it has every row of the
cc_pair or still has it on its list (`RowsAreFound`). Rows have different
numbers, stored batches keep theirs through renames, and a row between the
read and the commit of a rename or a deletion is still the only one with its
number and its batch (`NamesDiffer`, `InHandIsAlone`), whatever a task deletes
in between. A task deletes only a batch that it has counted (`RowOfTask`). What
is left is the cleanup of a completed attempt, which deletes what it finds. It
may, because the batches that an attempt has still to count never outnumber
the ones `completed_batches` is short of `total_batches` (`CountsAddUp`), so at
completion there are none. That holds although a worker may die and have its
message delivered again, as long as it dies before its count. TLC checked
`StoreInv` on the instance of the run and on one with two cc_pairs before it
was proved.

**The document jobs.** The contract says that a cursor advances only while its
attempt is IN_PROGRESS, and only to a document between it and the bound. The
commit writes the greatest document of the batch the task has in hand, so two
facts must be known of a task with a batch: `CopierHasPort`, its attempt is
IN_PROGRESS and has the task's own cursor, and `BatchIsNext`, the batch is not
empty and lies between that cursor and the bound. The first
holds because nobody starts a second attempt while one is active and nobody
calls a task dead that is not; the second because the page was chosen that way
and the bound never changes. Together they are `PortInv`. That no port writes
under a cleanup needs `FenceHolds`: a cc_pair whose fence is up is DELETING;
and once its fence has been counted, or as long as a task of its deletion is,
it is DELETING and its port is between batches or gone, and so stops at the
top of its loop. The invariant says nothing of index attempts: the deletion
waits for the status of the latest one, and its docprocessing tasks need not
have ended. `IInv` is the conjunction of these with `TypeOK`; TLC checked it on
both instances before it was proved. One lemma per component proves each part;
those about types stand first. They use no assumption on the faults.

**Kept documents.** The task that takes a kept document from another cc_pair
belongs to a deletion or a pruning. Unless the document is `repeated`, it is
the only task of its cc_pair and document (`TasksAreFresh`), so the link it is
to remove is there until it has removed it. It therefore counts two, and
updates instead of deleting:
`DocumentsKept`. What a port reads of a kept document is then in the old index
for good, and what it writes stays in the new one; `CopiesKept` says where a
document is between the two: a batch leaves out nothing its end would pass, and
what is read and neither left nor about to be written has been written. So a
committed cursor stands for copies. That a switchover waits for them is a
matter of order: `SettingsInStep`, that the settings go through a switchover in
one order and a backfill goes on only after an `INSTANT` one, and `PortInStep`,
that once "old" is PAST and no backfill goes on every port in scope is SUCCESS,
or CANCELED with its reindex; and that a port of a kept cc_pair copies from
"old". `KeptInv` is their conjunction with `IInv`; TLC checked it before it was
proved. The theorems need no hypothesis: `SharedDocumentSurvives`,
`PortedMeansCopied` and `BacklogServed` leave out the documents in `repeated`
themselves.

Only model-checked: liveness (`AttemptsEnd`, `EventuallyAccounted`,
`DeletionEnds`, `ReindexEnds`, `SyncEnds`), which with `ENABLED` is out of the
prover's reach; `NoOrphan` and `IndexIsCurrent`. Every other invariant and every action property of a passing
run is stated by a theorem. The properties of the violation runs are refuted.

## 5. Where the code departs from its comments

Each is a run that TLC ends with a trace.

- `RecountCrash`: a docprocessing worker that dies after it committed the
  count and before it acknowledged has its message delivered again; the batch
  is counted twice and the attempt completes with another batch unprocessed,
  which the cleanup deletes. `background/celery/tasks/docprocessing/tasks.py:664`
  says that completion guarantees every batch has finished.
- `BatchNumber`: `reissue_old_batches` adds the batches it lists to the count
  of the last attempt, read at two moments. A task of that attempt that counts
  and deletes its batch around them makes the sum too small, and the next
  batch is stored over one that waits.
  `background/indexing/run_docfetching.py:1036` rules that out.
- `ThrownOut`: a connector without checkpoints that fails between its last
  checkpoint and `total_batches` leaves a finished checkpoint and no total.
  The next run throws the batches away and fetches nothing, although
  `background/indexing/run_docfetching.py:596` says they are fetched again.
  A checkpointed connector can meet the same comment's exception in another
  way (`MaxAttempts = 3`, `NDocs = 1`, `Checkpointed = TRUE`, `ReindexModes =
  {TRUE, FALSE}`, `Faults = {"process"}`, `MaxFaults = 2`): the first attempt
  fails with a checkpoint and a stored batch; a REINDEX cleans up
  (`background/indexing/run_docfetching.py:554`) and dies before it saves its
  own checkpoint (`:601`); the third inherits the window and resumes at the
  first one's checkpoint, so the document is never fetched and the attempt
  succeeds. Without a REINDEX it takes four attempts: a late message of the
  first updates its row, and its old checkpoint is taken for the latest.
- `Resurrected`: the port asks which documents are still linked before each
  write, but a cleanup task deletes a document from the indices first and its
  link and row last. A port that asked before, or asks in between, writes the
  document into the FUTURE index after it was deleted there, and no row is left
  from which anything would remove it. `db/document.py:332` says that such a
  document is dropped, not resurrected. A deletion waits for the port; a
  pruning does not.
- `Redelivered`: a cleanup task decides by how many cc_pairs have the document,
  not by whose link is left. A worker that dies after the commit
  (`background/celery/tasks/shared/tasks.py:206`) and before its late
  acknowledgement (`background/celery/configs/base.py:131`) has the task
  delivered again; it counts one (`shared/tasks.py:118`), the other cc_pair's,
  and deletes the document everywhere. The docstring (`shared/tasks.py:88`)
  says that it deletes a document that the cc_pair alone has.

Met while modelling, without a run of their own, in the document jobs:

- an edit between a sync's read and its `mark_document_as_synced`
  (`background/celery/tasks/vespa/tasks.py:556`) is not synced; a sync that
  read the settings before there was a FUTURE index clears the flag of a
  document whose old metadata the port then copies; a slow cleanup UPDATE does
  the same. `IndexIsCurrent` leaves such documents out (`overtaken`);
- a docprocessing task of an attempt that the deletion had canceled
  (`background/celery/tasks/connector_deletion/tasks.py:318` looks at the
  status) may write chunks after a cleanup task has deleted them and before it
  deletes the row: an orphan. `NoOrphan` leaves such documents out
  (`intruded`);
- an exception in the generation of cleanup tasks
  (`background/celery/tasks/connector_deletion/tasks.py:383`) drops the fence
  with tasks sent, and the next beat sends all of them again; so may the reset
  of a fence whose tasks a busy worker has prefetched (`:736`). As in
  `Redelivered`, the second task of a document may delete what another cc_pair
  keeps, or write an orphan beside that cc_pair's port (`repeated`);
- `background/celery/tasks/shared/tasks.py:129` expects access to omit the
  current cc_pair; only DELETING ones are left out (`db/document.py:825`), so
  pruning a shared document keeps the access of the pruned cc_pair in the
  index, and the document counts as synced (`IndexIsCurrent` is checked without
  a pruning for that reason);
- two deletions of a shared document whose tasks both read a count of 2 leave
  its row and its chunks without a link; an uncounted prune task and a
  deletion's task of one shared document may take both links;
- a cleanup UPDATE of a shared document between the read and the write of
  another cc_pair's port: the update finds nothing in the new index, the port
  creates the document there with the access it read, which still names the
  cc_pair that is being deleted, and nothing flags it;
- a cleanup UPDATE during an INSTANT backfill builds its indices without the
  backfill flag and marks a document synced that the new index misses;
- a pruning and an index attempt of the same document may leave its chunks
  without a row, in the window `Resurrected` shows for the port; so may the
  deletion of one cc_pair and an index attempt of another that has just got the
  same document: the task counted one cc_pair, deletes the document from the
  index, the attempt writes it there, and the task deletes the row and both
  links. `NoOrphan` is about cc_pairs that do not meet in this way;
- a cleanup task that read the settings after an `INSTANT` swap and is
  repeated or given up leaves a document of its cc_pair in one index only: a
  cursor stands for copies of what a cc_pair keeps, not of what a deletion is
  taking away;
- a process that dies between the commits of a swap leaves no PRESENT settings
  (`db/swap_index.py:91`): every job that asks for them raises, for ever;
- a cancellation that read the FUTURE row before the swap promoted it makes
  the PRESENT row PAST (`server/manage/search_settings.py:233`);
- the deletion beat clears the stop signal of every cc_pair that blocks
  nothing (`background/celery/tasks/connector_deletion/tasks.py:228`), also of
  one that is just being paused.

And in the pipeline:

- an attempt marked INTERRUPTED by the proxy may still be marked CANCELED by
  its subprocess, although the comment at
  `background/celery/tasks/docfetching/tasks.py:501` rules out a competing
  status; both resume, and `AttemptLifecycle` allows it;
- `background/celery/tasks/docprocessing/tasks.py:1876` expects a task that
  could not get the lock to be redelivered; an exception is acknowledged, and
  the batch waits for the next attempt (`EventuallyAccounted` holds thanks to
  the next attempt);
- error rows are written after the count, so the beat task may record SUCCESS
  before the last failure is known (`SuccessCoversSource` counts the document
  as held by the task);
- under `PERSISTENT_INDEXING`, an exception after the count leads the handler
  to count the batch again;
- `delete_file` removes the object before the row: a rename in between leaves a
  row whose object is gone, of a batch that was counted; the attempt that
  adopted it waits for a batch that cannot be read (`NoBatchLost` speaks of
  batches that are not counted yet);
- `put_object` comes before the row (`file_store/file_store.py:371`): a death
  in between leaves an object without a row, which no listing finds and nothing
  deletes. Its batch was not counted or queued, and its document is fetched
  again;
- two processes of one cc_pair that rename the same row
  (`file_store/file_store.py:528`) under READ COMMITTED may leave two rows with
  one object, and the deletion of one empties the other. An old process may
  also store a batch after the next run has listed, which only a later resume
  would find. `BatchStore` shows both without `disturbed`;
- the listing by prefix (`file_store/document_batch_storage.py:159`,
  `db/file_record.py:69`) takes `iab/1` for the beginning of `iab/12`, so
  cc_pair 1 lists, renames and deletes the batches of cc_pair 12, although
  `file_store/document_batch_storage.py:250` promises its own. `BatchStore`
  speaks of cc_pairs whose ids are `Apart`;
- a docprocessing message that the broker loses stays in `pending`, which
  spares its attempt from the check for heartbeats until the counter expires.

## 6. Plan

Done: the pipeline, its store and the abstract life cycle; the jobs on indexed
documents, composed, and the port's contract. As theorems: types of both
systems, one active attempt, both refinements, no port under a cleanup, the
counters, completion (`CompletionMeansProcessed`), no fetched document lost,
what a success covers, no batch of a `Quiet` cc_pair lost, and what a cc_pair
keeps through deletions, ports and switchovers.

Next, in this order:

1. Theorems for `NoOrphan` and `IndexIsCurrent`.
2. `HeartbeatMonitor`: the two heartbeat columns and explicit time, to
   discharge the assumption that a timeout never fires early; the same for the
   port's watchdog.
3. The permission syncs, whose fences deletion waits for, and the swap without
   the port flow.
4. User files: claims, queue limits and their deletion.

### Not modelled

Request and response code (chat, LLM, administration), connectors, the clients
and the deployment are most of the repository; they keep no state that several
steps of several actors share, and there is little a model would find there
that a test does not. They are listed in section 1.

## 7. Running

```
tlc -workers 2 -config Faults.cfg MCIndexingPipeline
tlc -workers 2 -config BatchStore.cfg MCBatchStore
tlapm BatchStoreProofs.tla
tlapm IndexingPipelineProofs.tla
tlapm IndexingBatchProofs.tla
tlapm FetchedDocumentsProofs.tla
tlc -workers 2 -config Reindex.cfg MCDocumentLifecycle
tlc -workers 2 -config Deletion.cfg MCDocumentLifecycle
tlapm DocumentLifecycleProofs.tla
tlapm KeptDocumentsProofs.tla
```

The larger runs reach between 100,000 and 1,200,000 distinct states and take
one to three minutes; `Recovery` spends most of its time on liveness. The
proofs have about 11,100 obligations and take some twenty minutes from nothing.

`"mutants"` in `PROJECT.json` pairs each checked property with a plausible bug
in the code (a dropped guard, an off-by-one, a step in a transaction of its
own) that makes TLC find it violated. Their definitions stand before the ones
they change, under a comment that begins "Mutant".
