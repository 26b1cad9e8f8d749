------------------------- MODULE DocumentLifecycle -------------------------
(***************************************************************************)
(* The background jobs that act on indexed documents, together: metadata   *)
(* sync, reindex port and index swap, index attempts, pruning and          *)
(* connector deletion with the cleanup tasks they share, and an            *)
(* administrator who edits, reindexes and deletes.  They meet in the rows  *)
(* and the indices of DocumentStore.                                       *)
(***************************************************************************)
EXTENDS MetadataSync, IndexSwap, ConnectorDeletion

CONSTANTS
    MaxActs,       (* bound: edits and deletions in a behaviour            *)
    JobFaults,     (* the kinds of fault that may happen in a behaviour    *)
    MaxJobFaults   (* bound: faults in a behaviour                         *)

JobFaultKinds == {"sync", "cancel", "enqueue", "yield", "port", "port_dies",
                  "swap_dies", "retry", "repeat", "exhausted", "giveup",
                  "prune", "timeout", "beat", "reset"}

ASSUME DocumentLifecycleAssumption ==
    /\ JobFaults \subseteq JobFaultKinds
    /\ MaxActs \in Nat
    /\ MaxJobFaults \in Nat

VARIABLES
    mishaps,     (* faults so far                                          *)
    overtaken,   (* history: documents that were edited, read by a port or *)
                 (* taken up by a sync or cleanup task while one of their  *)
                 (* sync or cleanup tasks was at work                      *)
    repeated,    (* history: documents with a cleanup task delivered again *)
                 (* after its commit, or sent while the cc_pair's last one *)
                 (* for them was there                                     *)
    intruded     (* history: documents that an index attempt wrote while a *)
                 (* cleanup task of them was at work                       *)

history == <<overtaken, repeated, intruded>>

deletionVars == <<fence, stop>>
taskVars     == <<cleanup, prune>>

vars == <<storeVars, portVars, syncer, swapper, indexer, taskVars,
          deletionVars, mishaps, history>>

TypeOK ==
    /\ StoreTypeOK
    /\ PortTypeOK
    /\ SyncTypeOK
    /\ SwapTypeOK
    /\ IndexerTypeOK
    /\ CleanupTypeOK
    /\ PruneTypeOK
    /\ DeletionTypeOK
    /\ mishaps \in Nat
    /\ overtaken \subseteq Docs
    /\ repeated \subseteq Docs
    /\ intruded \subseteq Docs

Init ==
    /\ StoreInit
    /\ PortInit
    /\ SyncInit
    /\ SwapInit
    /\ IndexerInit
    /\ CleanupInit
    /\ PruneInit
    /\ DeletionInit
    /\ mishaps = 0
    /\ overtaken = {}
    /\ repeated = {}
    /\ intruded = {}

-----------------------------------------------------------------------------
(* A fault of this kind is enabled, and the budget allows one more.        *)
Mishap(kind) ==
    /\ kind \in JobFaults
    /\ mishaps < MaxJobFaults
    /\ mishaps' = mishaps + 1

(* An administrator has not yet done all that the bound allows.            *)
MayAct ==
    MapThenSumSet(LAMBDA d : edits[d], Docs)
      + Cardinality({p \in Pairs : ccStatus[p] \notin Indexable}) < MaxActs

othersOfSync     == <<portVars, swapper, indexer, taskVars, deletionVars>>
othersOfPort     == <<syncer, swapper, indexer, taskVars, deletionVars>>
othersOfSwap     == <<syncer, indexer, taskVars, deletionVars>>
othersOfIndexing == <<portVars, syncer, swapper, taskVars, deletionVars>>
othersOfCleanup  == <<portVars, syncer, swapper, indexer, prune, deletionVars>>
othersOfPruning  == <<portVars, syncer, swapper, indexer, deletionVars>>
othersOfDeletion == <<syncer, swapper>>

-----------------------------------------------------------------------------
BeingSynced  == {d \in Docs : Syncing(d)}
BeingCleaned == {d \in Docs : Cleaning(d)}

(* What the history notes of an edit, of a task or a port that reads these *)
(* documents, of an index attempt that writes one, and of the cleanup      *)
(* tasks a cc_pair is sent.                                                *)
Overtakes(ds) ==
    overtaken' = overtaken \cup ds /\ UNCHANGED <<repeated, intruded>>

Intrudes(d) ==
    /\ intruded' = intruded \cup ({d} \cap BeingCleaned)
    /\ UNCHANGED <<overtaken, repeated>>

Repeats(ds) ==
    repeated' = repeated \cup ds /\ UNCHANGED <<overtaken, intruded>>

Resends(p, ds) == Repeats({d \in ds : TasksOf(p, d) # {}})

-----------------------------------------------------------------------------
Edit(d) ==
    /\ MayAct
    /\ EditMetadata(d)
    /\ Overtakes({d} \cap (BeingSynced \cup BeingCleaned))
    /\ UNCHANGED <<othersOfSync, mishaps>>

SyncBeat ==
    /\ GenerateSyncTasks
    /\ UNCHANGED <<othersOfSync, mishaps, history>>

SyncReads(d) ==
    /\ SyncRead(d)
    /\ Overtakes({d} \cap BeingCleaned)
    /\ UNCHANGED <<othersOfSync, mishaps>>

SyncStep(d) ==
    \/ SyncReads(d)
    \/ /\ (\E i \in Indices : SyncIndex(d, i)) \/ SyncMark(d)
       /\ UNCHANGED <<othersOfSync, mishaps, history>>

SyncFault(d) ==
    /\ Mishap("sync")
    /\ \E at \in {"queued", "idle"} : SyncFails(d, at)
    /\ UNCHANGED <<othersOfSync, history>>

-----------------------------------------------------------------------------
PortBeat(p) ==
    /\ \/ SchedulePort(p)
       \/ FailStalled(p)
    /\ UNCHANGED <<othersOfPort, mishaps, history>>

UnpinStep == UnpinSource /\ UNCHANGED <<othersOfPort, mishaps, history>>

(* A sync task that read the settings before there was a FUTURE index may  *)
(* still be at work when a port reads what it syncs.                       *)
PortReads(p) ==
    /\ PortRead(p)
    /\ Overtakes({d \in copier[p].batch \cap BeingSynced :
                    syncer[d].filling = {}})
    /\ UNCHANGED <<othersOfPort, mishaps>>

PortStep(p) ==
    \/ PortReads(p)
    \/ /\ \/ PortStart(p)
          \/ PortStops(p)
          \/ PortPage(p)
          \/ PortAborts(p)
          \/ \E d \in Docs : PortCopy(p, d)
          \/ PortWrite(p)
          \/ PortCommit(p)
          \/ PortFinish(p)
       /\ UNCHANGED <<othersOfPort, mishaps, history>>

PortFault(p) ==
    /\ \/ Mishap("enqueue") /\ EnqueueFails(p)
       \/ Mishap("yield") /\ PortYields(p)
       \/ Mishap("port") /\ (PortRetries(p) \/ PortFails(p))
       \/ Mishap("port_dies") /\ PortDies(p)
    /\ UNCHANGED <<othersOfPort, history>>

-----------------------------------------------------------------------------
ReindexStep ==
    /\ \E mode \in Modes : StartReindex(mode)
    /\ UNCHANGED <<othersOfSwap, mishaps, history>>

SwapStep ==
    /\ BeginSwap \/ PromoteNew \/ SettleSwap
    /\ UNCHANGED <<othersOfSwap, mishaps, history>>

SwapFault ==
    /\ \/ Mishap("cancel") /\ CancelReindex
       \/ Mishap("swap_dies") /\ SwapDies
    /\ UNCHANGED <<othersOfSwap, history>>

-----------------------------------------------------------------------------
KickoffIndexing(p) ==
    /\ IndexDue(p)
    /\ UNCHANGED <<othersOfIndexing, mishaps, history>>

IndexWrites(p) ==
    /\ IndexWrite(p)
    /\ Intrudes(indexer[p].doc)
    /\ UNCHANGED <<othersOfIndexing, mishaps>>

IndexingStep(p) ==
    \/ IndexWrites(p)
    \/ /\ \/ IndexCreate(p)
          \/ IndexCheck(p, Fenced(p) \/ stop[p])
          \/ IndexTransition(p)
          \/ \E d \in Docs : IndexTake(p, d)
          \/ \E unchanged \in BOOLEAN : IndexPrepare(p, unchanged)
          \/ IndexFails(p)
          \/ IndexEnd(p)
       /\ UNCHANGED <<othersOfIndexing, mishaps, history>>

-----------------------------------------------------------------------------
CleanupReads(c) ==
    /\ CleanupRead(c)
    /\ Overtakes({c.doc} \cap BeingSynced)
    /\ UNCHANGED <<othersOfCleanup, mishaps>>

CleanupStep(c) ==
    \/ CleanupReads(c)
    \/ /\ \/ CleanupIndex(c)
          \/ CommitDelete(c)
          \/ CommitUpdate(c)
          \/ CleanupEnds(c)
       /\ UNCHANGED <<othersOfCleanup, mishaps, history>>

CleanupRepeated(c) ==
    /\ Mishap("repeat") /\ CleanupRepeats(c)
    /\ Repeats({c.doc})
    /\ UNCHANGED othersOfCleanup

CleanupFault(c) ==
    \/ CleanupRepeated(c)
    \/ /\ \/ Mishap("retry") /\ CleanupRetries(c)
          \/ Mishap("exhausted") /\ CleanupExhausted(c)
          \/ Mishap("giveup") /\ CleanupGivesUp(c)
       /\ UNCHANGED <<othersOfCleanup, history>>

-----------------------------------------------------------------------------
PruneBeat(p) ==
    /\ PruneCheck(p, Fenced(p))
    /\ UNCHANGED <<othersOfPruning, mishaps, history>>

PruneGenerates(p) ==
    /\ PruneGenerate(p)
    /\ Resends(p, Prunable(p))
    /\ UNCHANGED <<othersOfPruning, mishaps>>

PruneStep(p) ==
    \/ PruneGenerates(p)
    \/ /\ \/ PruneCreate(p)
          \/ PruneMonitor(p)
          \/ (stop[p] \/ ccStatus[p] = "GONE") /\ PruneFails(p, {})
       /\ UNCHANGED <<othersOfPruning, mishaps, history>>

PruneFault(p) ==
    /\ Mishap("prune")
    /\ \E sent \in SUBSET Docs : PruneFails(p, sent) /\ Resends(p, sent)
    /\ UNCHANGED othersOfPruning

-----------------------------------------------------------------------------
Delete(p) ==
    /\ MayAct
    /\ RequestDeletion(p)
    /\ UNCHANGED <<othersOfDeletion, mishaps, history>>

DeletionGenerates(p) ==
    /\ GenerateCleanup(p)
    /\ Resends(p, LinkedTo(p) \cap rows)
    /\ UNCHANGED <<othersOfDeletion, mishaps>>

DeletionStep(p) ==
    \/ DeletionGenerates(p)
    \/ /\ \/ RaiseDeletionFence(p)
          \/ DeletionBlocked(p, FALSE)
          \/ ResetDeletionFence(p)
          \/ RestartDeletion(p)
          \/ FinishDeletion(p)
       /\ UNCHANGED <<othersOfDeletion, mishaps, history>>

DeletionCutShort(p) ==
    /\ Mishap("beat")
    /\ \E sent \in SUBSET Docs :
         /\ DeletionBeatDies(p, sent) \/ DeletionRaises(p, sent)
         /\ Resends(p, sent)
    /\ UNCHANGED othersOfDeletion

DeletionFault(p) ==
    \/ DeletionCutShort(p)
    \/ /\ \/ Mishap("timeout") /\ DeletionBlocked(p, TRUE)
          \/ Mishap("reset") /\ ResetFenceInUse(p)
       /\ UNCHANGED <<othersOfDeletion, history>>

-----------------------------------------------------------------------------
Next ==
    \/ SyncBeat
    \/ UnpinStep
    \/ ReindexStep
    \/ SwapStep
    \/ SwapFault
    \/ \E d \in Docs : Edit(d) \/ SyncStep(d) \/ SyncFault(d)
    \/ \E p \in Pairs : \/ PortBeat(p)
                        \/ PortStep(p)
                        \/ PortFault(p)
                        \/ KickoffIndexing(p)
                        \/ IndexingStep(p)
                        \/ PruneBeat(p)
                        \/ PruneStep(p)
                        \/ PruneFault(p)
                        \/ Delete(p)
                        \/ DeletionStep(p)
                        \/ DeletionFault(p)
    \/ \E c \in cleanup : CleanupStep(c) \/ CleanupFault(c)

Spec == Init /\ [][Next]_vars

(* The beat tasks run again and again, and each of them, and each kind of  *)
(* task, goes on with one that can go on: the queues are served, in no     *)
(* particular order.  Nothing makes an administrator act, a source change, *)
(* an attempt start or a fault happen.                                     *)
Fairness ==
    /\ WF_vars(SyncBeat)
    /\ WF_vars(\E d \in Docs : SyncStep(d))
    /\ WF_vars(UnpinStep \/ SwapStep)
    /\ WF_vars(\E p \in Pairs : PortBeat(p) \/ PortStep(p))
    /\ WF_vars(\E p \in Pairs : IndexingStep(p) \/ PruneStep(p))
    /\ WF_vars(\E p \in Pairs : DeletionStep(p))
    /\ WF_vars(\E c \in cleanup : CleanupStep(c))

FairSpec == Spec /\ Fairness
=============================================================================
