------------------------ MODULE KeptDocumentsProofs ------------------------
(***************************************************************************)
(* Proofs about the documents that a cc_pair keeps: no cleanup task of     *)
(* another cc_pair takes them away, a port that has passed them has copied *)
(* them, and a switchover waits for them.                                  *)
(*                                                                         *)
(* The argument.  A task that takes a kept document from another cc_pair   *)
(* belongs to its deletion or its pruning.  Unless one of the document's   *)
(* tasks was delivered again, or sent while another was there (repeated),  *)
(* it is the only one of its cc_pair and document (TasksAreFresh); so the  *)
(* link it is to remove is there until it has removed it, it counts two,   *)
(* and updates the document instead of deleting it (DocumentsKept).  What  *)
(* a port reads is then there, what it has copied stays there, and its     *)
(* cursor passes nothing it has not copied (CopiesKept); and a swap that   *)
(* waits for the ports in scope, or a backfill that goes on until they are *)
(* done, leaves no attempt behind to read the wrong index or to be         *)
(* canceled (SettingsInStep, PortInStep).                                  *)
(***************************************************************************)
EXTENDS DocumentLifecycleProofs

(* A task is the only one of its cc_pair and document, if the document's   *)
(* tasks were never repeated; that of a deletion is of a cc_pair that is   *)
(* being deleted, or was, and that of a pruning for what has vanished;     *)
(* what a task writes it has read.                                         *)
CleanupIsFresh ==
    /\ \A c \in cleanup : c.kind = "delete" => ccStatus[c.pair] \notin Indexable
    /\ \A c, e \in cleanup :
         c.pair = e.pair /\ c.doc = e.doc /\ c.doc \notin repeated => c = e
    /\ \A c \in cleanup : c.kind = "prune" => <<c.pair, c.doc>> \in Vanished
    /\ \A c \in cleanup :
         c.at # "queued" /\ c.act # "DELETE" => c.meta \in Entries

SyncersHaveRead ==
    \A d \in Docs : syncer[d].at = "index" => syncer[d].meta \in Entries

TasksAreFresh == CleanupIsFresh /\ SyncersHaveRead

(* What is kept is still linked, and in the index; and whoever is to take  *)
(* the document from another cc_pair will find two, until it has.          *)
DocumentsKept ==
    \A p \in Pairs, d \in Docs \ repeated :
      Kept(p, d) =>
        /\ <<p, d>> \in links
        /\ d \in rows
        /\ index["old"][d] # None
        /\ \A c \in cleanup :
             c.doc = d =>
               c.act # "DELETE" /\ (c.at # "done" => <<c.pair, d>> \in links)

-----------------------------------------------------------------------------
(* A task on a document that is kept is of another cc_pair.                *)
LEMMA TasksOnKept ==
  ASSUME TypeOK, CleanupIsFresh, NEW p \in Pairs, NEW d \in Docs, Kept(p, d),
         NEW c \in cleanup, c.doc = d
  PROVE  c.pair # p
<1>1. c.kind \in Kinds
  BY DEF TypeOK, CleanupTypeOK, CleanupTasks
<1> QED BY <1>1 DEF Kinds, CleanupIsFresh, Kept

(* Documents whose tasks were repeated are not forgotten.                  *)
LEMMA RepeatedGrows ==
  ASSUME [Next]_vars
  PROVE  repeated \subseteq repeated'
<1> USE DEF history
<1>1. CASE \/ SyncBeat \/ UnpinStep \/ ReindexStep \/ SwapStep \/ SwapFault
           \/ \E d \in Docs : Edit(d) \/ SyncStep(d) \/ SyncFault(d)
           \/ \E p \in Pairs : \/ PortBeat(p) \/ PortStep(p) \/ PortFault(p)
                               \/ KickoffIndexing(p) \/ IndexingStep(p)
                               \/ PruneBeat(p) \/ Delete(p)
           \/ UNCHANGED vars
  BY <1>1
     DEF SyncBeat, UnpinStep, ReindexStep, SwapStep, SwapFault, Edit, SyncStep,
         SyncReads, SyncFault, PortBeat, PortStep, PortReads, PortFault,
         KickoffIndexing, IndexingStep, IndexWrites, PruneBeat, Delete,
         Overtakes, Intrudes, vars
<1>2. ASSUME NEW c \in cleanup, CleanupStep(c) \/ CleanupFault(c)
      PROVE  repeated \subseteq repeated'
  BY <1>2 DEF CleanupStep, CleanupReads, CleanupFault, CleanupRepeated,
              Overtakes, Repeats
<1>3. ASSUME NEW p \in Pairs, \/ PruneStep(p) \/ PruneFault(p)
                             \/ DeletionStep(p) \/ DeletionFault(p)
      PROVE  repeated \subseteq repeated'
  BY <1>3 DEF PruneStep, PruneGenerates, PruneFault, DeletionStep,
              DeletionGenerates, DeletionFault, DeletionCutShort, Resends,
              Repeats
<1> QED BY <1>1, <1>2, <1>3 DEF Next

(* Two links are counted as two at least.                                  *)
LEMMA TwoHolders ==
  ASSUME NEW d, NEW p \in Pairs, NEW q \in Pairs, p # q,
         <<p, d>> \in links, <<q, d>> \in links
  PROVE  ConnectorCount(d) \in Nat /\ ConnectorCount(d) >= 2
<1>1. IsFiniteSet(Holders(d)) /\ {p, q} \subseteq Holders(d)
  BY DocumentStoreAssumption, FS_Subset DEF Holders
<1>2. IsFiniteSet({p}) /\ Cardinality({p}) = 1
  BY FS_Singleton
<1>3. Cardinality({p} \cup {q}) = 2
  BY <1>2, FS_AddElement
<1>4. Cardinality({p, q}) = 2
  <2>1. {p, q} = {p} \cup {q}
    OBVIOUS
  <2> QED BY <1>3, <2>1
<1>5. Cardinality({p, q}) <= Cardinality(Holders(d))
      /\ Cardinality(Holders(d)) \in Nat
  BY <1>1, FS_Subset, FS_CardinalityType
<1> QED BY <1>4, <1>5 DEF ConnectorCount

-----------------------------------------------------------------------------
(* What every step but a cleanup task's leaves: no cc_pair that was being  *)
(* deleted is kept again, and no link, row or chunk goes.                  *)
PairsOnlyGo ==
    \A p \in Pairs :
      ccStatus'[p] \in Indexable => ccStatus'[p] = ccStatus[p]

ChunksStay ==
    \A i \in Indices, d \in Docs : index[i][d] # None => index'[i][d] # None

NothingGoes ==
    /\ PairsOnlyGo
    /\ links \subseteq links'
    /\ rows \subseteq rows'
    /\ ChunksStay

(* A step that leaves these four leaves everything.                        *)
LEMMA StoreStays ==
  ASSUME UNCHANGED <<ccStatus, links, rows, index>>
  PROVE  NothingGoes
BY DEF NothingGoes, PairsOnlyGo, ChunksStay

(* An update changes what is there, and leaves it there.                   *)
LEMMA UpdateLeavesChunks ==
  ASSUME StoreTypeOK, NEW into, NEW d \in Docs, NEW meta \in Entries,
         UpdateIn(into, d, meta)
  PROVE  ChunksStay
<1>1. None \notin Entries
  BY DocumentStoreAssumption
<1> QED BY <1>1 DEF StoreTypeOK, UpdateIn, ChunksStay

(* The sync writes metadata it has read.                                   *)
LEMMA SyncLeaves ==
  ASSUME TypeOK, SyncersHaveRead,
         SyncBeat \/ \E d \in Docs : Edit(d) \/ SyncStep(d) \/ SyncFault(d)
  PROVE  NothingGoes
<1>1. CASE SyncBeat
  BY <1>1, StoreStays DEF SyncBeat, GenerateSyncTasks, storeVars, dbVars
<1>2. ASSUME NEW d \in Docs, Edit(d) \/ SyncFault(d) PROVE NothingGoes
  BY <1>2, StoreStays
     DEF Edit, EditMetadata, SyncFault, SyncFails, storeVars, dbVars
<1>3. ASSUME NEW d \in Docs, SyncStep(d) PROVE NothingGoes
  <2>1. CASE SyncReads(d)
    BY <2>1, StoreStays DEF SyncReads, SyncRead, storeVars, dbVars
  <2>2. CASE \E i \in Indices : SyncIndex(d, i)
    <3>1. PICK i \in Indices : SyncIndex(d, i)
      BY <2>2
    <3>2. /\ UpdateIn({i}, d, syncer[d].meta) /\ syncer[d].at = "index"
          /\ UNCHANGED <<ccStatus, links, rows>>
      BY <3>1 DEF SyncIndex, dbVars
    <3>3. syncer[d].meta \in Entries
      BY <3>2 DEF SyncersHaveRead
    <3>4. StoreTypeOK
      BY DEF TypeOK
    <3>5. ChunksStay
      BY <3>2, <3>3, <3>4, UpdateLeavesChunks
    <3> QED BY <3>2, <3>5 DEF NothingGoes, PairsOnlyGo
  <2>3. CASE SyncMark(d)
    <3>1. UNCHANGED <<ccStatus, links, rows, index>>
      BY <2>3, Zenon DEF SyncMark
    <3> QED BY <3>1, StoreStays
  <2> QED BY <1>3, <2>1, <2>2, <2>3 DEF SyncStep
<1> QED BY <1>1, <1>2, <1>3

(* An index attempt adds links, rows and chunks.                           *)
LEMMA IndexingLeaves ==
  ASSUME TypeOK, NEW p \in Pairs, KickoffIndexing(p) \/ IndexingStep(p)
  PROVE  NothingGoes
<1>0. /\ StoreTypeOK /\ indexer[p] \in IndexerStates
      /\ indexer[p].at # "idle" => indexer[p].doc # 0
  BY DEF TypeOK, IndexerTypeOK
<1>1. CASE KickoffIndexing(p)
  BY <1>1, StoreStays DEF KickoffIndexing, IndexDue, storeVars, dbVars
<1>2. ASSUME NEW unchanged \in BOOLEAN, IndexPrepare(p, unchanged)
      PROVE  NothingGoes
  BY <1>2 DEF IndexPrepare, NothingGoes, PairsOnlyGo, ChunksStay
<1>3. CASE IndexWrites(p)
  <2> DEFINE d == indexer[p].doc
  <2>1. /\ index' = [index EXCEPT ![indexer[p].dest][d] = Metadata(d)]
        /\ UNCHANGED <<ccStatus, links, rows>> /\ d \in rows
    BY <1>3 DEF IndexWrites, IndexWrite
  <2>2. d \in Docs /\ None \notin Entries /\ Metadata(d) \in Entries
    BY <1>0, <2>1, MetadataType, DocumentStoreAssumption DEF StoreTypeOK
  <2>3. Metadata(d) # None
    BY <2>2
  <2> HIDE DEF d
  <2>4. ChunksStay
    BY <1>0, <2>1, <2>3 DEF ChunksStay, StoreTypeOK
  <2> QED BY <2>1, <2>4 DEF NothingGoes, PairsOnlyGo
<1>4. CASE \/ IndexCreate(p) \/ IndexTransition(p) \/ IndexFails(p)
           \/ IndexCheck(p, Fenced(p) \/ stop[p]) \/ IndexEnd(p)
           \/ \E d \in Docs : IndexTake(p, d)
  BY <1>4, StoreStays DEF IndexCreate, IndexTransition, IndexFails, IndexCheck,
                          IndexEnd, IndexTake, storeVars, dbVars
<1> QED BY <1>1, <1>2, <1>3, <1>4 DEF IndexingStep

(* A port adds chunks to "new".                                            *)
LEMMA PortLeaves ==
  ASSUME TypeOK, NEW p \in Pairs, PortAct(p)
  PROVE  NothingGoes
<1>0. StoreTypeOK
  BY DEF TypeOK
<1>1. CASE PortWrite(p)
  <2>1. ChunksStay
    BY <1>0, <1>1 DEF PortWrite, ChunksStay, StoreTypeOK, Indices
  <2> QED BY <1>1, <2>1 DEF PortWrite, NothingGoes, PairsOnlyGo, dbVars
<1>2. CASE ~PortWrite(p)
  BY <1>2, StoreStays
     DEF PortAct, SchedulePort, EnqueueFails, FailStalled, PortStart,
         PortStops, PortYields, PortFails, PortDies, PortFinish, PortPage,
         PortRead, PortAborts, PortRetries, PortCopy, PortCommit, storeVars,
         dbVars
<1> QED BY <1>1, <1>2

(* A reindex or swap writes settings and attempts alone.                   *)
LEMMA SwapLeaves ==
  ASSUME UnpinStep \/ ReindexStep \/ SwapStep \/ SwapFault
  PROVE  NothingGoes
BY StoreStays
   DEF UnpinStep, UnpinSource, ReindexStep, SwapStep, SwapFault, StartReindex,
       BeginSwap, PromoteNew, SettleSwap, CancelReindex, SwapDies, storeVars,
       dbVars

(* A pruning leaves the taking to its tasks,                               *)
LEMMA PruningLeaves ==
  ASSUME NEW p \in Pairs, PruneBeat(p) \/ PruneStep(p) \/ PruneFault(p)
  PROVE  NothingGoes
BY StoreStays DEF PruneBeat, PruneStep, PruneGenerates, PruneFault, PruneCheck,
                  PruneCreate, PruneGenerate, PruneMonitor, PruneFails,
                  storeVars, dbVars

(* and so does a deletion; it ends when nothing is linked to its cc_pair.  *)
LEMMA DeletionLeaves ==
  ASSUME TypeOK, NEW p \in Pairs,
         Delete(p) \/ DeletionStep(p) \/ DeletionFault(p)
  PROVE  NothingGoes
<1>1. CASE Delete(p) \/ FinishDeletion(p)
  <2>1. UNCHANGED <<links, rows, index>>
    BY <1>1 DEF Delete, RequestDeletion, FinishDeletion
  <2>2. PairsOnlyGo
    BY <1>1 DEF Delete, RequestDeletion, FinishDeletion, PairsOnlyGo, Indexable,
                TypeOK, StoreTypeOK
  <2> QED BY <2>1, <2>2 DEF NothingGoes, ChunksStay
<1>2. CASE ~(Delete(p) \/ FinishDeletion(p))
  BY <1>2, StoreStays
     DEF DeletionStep, DeletionGenerates, DeletionFault, DeletionCutShort,
         RaiseDeletionFence, DeletionBlocked, GenerateCleanup,
         ResetDeletionFence, ResetFenceInUse, RestartDeletion,
         DeletionBeatDies, DeletionRaises, GenerateInPart, deletionFrame,
         storeVars, dbVars
<1> QED BY <1>1, <1>2

(* A task of the documents' cleanup runs.                                  *)
CleanupRuns == \E c \in cleanup : CleanupStep(c) \/ CleanupFault(c)

(* So whatever goes, goes by a cleanup task.                               *)
LEMMA OthersLeave ==
  ASSUME TypeOK, SyncersHaveRead, [Next]_vars
  PROVE  CleanupRuns \/ NothingGoes
<1>1. CASE UNCHANGED vars
  BY <1>1, StoreStays DEF vars, storeVars, dbVars
<1>2. ASSUME NEW p \in Pairs, PortBeat(p) \/ PortStep(p) \/ PortFault(p)
      PROVE  NothingGoes
  BY <1>2, PortLeaves DEF PortBeat, PortStep, PortReads, PortFault, PortAct
<1> QED BY <1>1, <1>2, SyncLeaves, IndexingLeaves, SwapLeaves, PruningLeaves,
           DeletionLeaves DEF Next, CleanupRuns

-----------------------------------------------------------------------------
(* Where tasks come from.                                                  *)
(* The tasks that were there, some of them taken from the set of a fence   *)
WereThere(T) ==
    \/ T = cleanup
    \/ \E kind \in Kinds, p \in Pairs : T = Untrack(kind, p)

(* and one that is sent, counted or not, for a link there is, and beside   *)
(* another for the document only if that is noted.                         *)
IsSent(c, kind, tracked) ==
    \E p \in Pairs, d \in Docs :
      /\ c = [Task(kind, p, d) EXCEPT !.tracked = tracked]
      /\ <<p, d>> \in links
      /\ TasksOf(p, d) = {} \/ d \in repeated'
      /\ kind = "prune" => <<p, d>> \in Vanished
      /\ kind = "delete" => ccStatus[p] \notin Indexable

TasksGoOn ==
    \E T : \E kind \in Kinds, tracked \in BOOLEAN :
      WereThere(T) /\ \A c \in cleanup' : c \in T \/ IsSent(c, kind, tracked)

(* A task that was there, but for its set.                                 *)
SameTask(b, c) ==
    /\ c.kind = b.kind /\ c.pair = b.pair /\ c.doc = b.doc
    /\ c.at = b.at /\ c.act = b.act /\ c.meta = b.meta

LEMMA TheySurvive ==
  ASSUME CleanupTypeOK, NEW T, WereThere(T)
  PROVE  /\ \A c \in T : \E b \in cleanup : SameTask(b, c)
         /\ CleanupIsFresh =>
              \A c, e \in T : c.pair = e.pair /\ c.doc = e.doc
                                /\ c.doc \notin repeated => c = e
<1>1. CASE T = cleanup
  BY <1>1 DEF SameTask, CleanupIsFresh
<1>2. ASSUME NEW kind \in Kinds, NEW p \in Pairs, T = Untrack(kind, p)
      PROVE  /\ \A c \in T : \E b \in cleanup : SameTask(b, c)
             /\ CleanupIsFresh =>
                  \A c, e \in T : c.pair = e.pair /\ c.doc = e.doc
                                    /\ c.doc \notin repeated => c = e
  <2> DEFINE f(b) == IF b.kind = kind /\ b.pair = p
                     THEN [b EXCEPT !.tracked = FALSE] ELSE b
  <2>1. \A b \in cleanup : SameTask(b, f(b))
    BY DEF SameTask, CleanupTypeOK, CleanupTasks
  <2>2. T = {f(b) : b \in cleanup}
    BY <1>2 DEF Untrack
  <2> HIDE DEF f
  <2>3. ASSUME CleanupIsFresh, NEW b \in cleanup, NEW x \in cleanup,
               f(b).pair = f(x).pair, f(b).doc = f(x).doc,
               f(b).doc \notin repeated
        PROVE  f(b) = f(x)
    <3>1. b = x
      BY <2>1, <2>3 DEF SameTask, CleanupIsFresh
    <3> QED BY <3>1
  <2> QED BY <2>1, <2>2, <2>3
<1> QED BY <1>1, <1>2 DEF WereThere

(* The tasks that stay as they are                                         *)
LEMMA SameTasks ==
  ASSUME UNCHANGED cleanup
  PROVE  TasksGoOn
BY DEF TasksGoOn, WereThere, Kinds

(* and those whose set is cleared.                                         *)
LEMMA UntrackedTasks ==
  ASSUME NEW kind \in Kinds, NEW p \in Pairs, cleanup' = Untrack(kind, p)
  PROVE  TasksGoOn
BY DEF TasksGoOn, WereThere

(* What is sent is counted, unless its set is cleared at once.             *)
LEMMA CountedTask ==
  ASSUME TypeOK, NEW kind \in Kinds, NEW p \in Pairs, NEW d \in Docs
  PROVE  Task(kind, p, d) = [Task(kind, p, d) EXCEPT !.tracked = TRUE]
<1>1. Task(kind, p, d) \in CleanupTasks
  BY TaskType DEF TypeOK
<1>2. Task(kind, p, d).tracked = TRUE
  BY DEF Task
<1> QED BY <1>1, <1>2 DEF CleanupTasks

(* A pruning sends tasks for what has vanished,                            *)
LEMMA PruningSends ==
  ASSUME TypeOK, NEW p \in Pairs, PruneBeat(p) \/ PruneStep(p) \/ PruneFault(p)
  PROVE  TasksGoOn
<1>0. "prune" \in Kinds
  BY DEF Kinds
<1>1. CASE PruneCreate(p)
  BY <1>0, <1>1, UntrackedTasks DEF PruneCreate
<1>2. ASSUME NEW T, WereThere(T), NEW tracked \in BOOLEAN,
             NEW sent \in SUBSET Prunable(p), Resends(p, sent),
             cleanup' = T \cup {[Task("prune", p, d) EXCEPT
                                  !.tracked = tracked] : d \in sent}
      PROVE  TasksGoOn
  <2> DEFINE new(d) == [Task("prune", p, d) EXCEPT !.tracked = tracked]
  <2>1. ASSUME NEW d \in sent PROVE IsSent(new(d), "prune", tracked)
    <3>1. d \in Docs /\ <<p, d>> \in links /\ <<p, d>> \in Vanished
      BY DEF Prunable, LinkedTo
    <3>2. TasksOf(p, d) = {} \/ d \in repeated'
      BY <1>2 DEF Resends, Repeats
    <3> QED BY <3>1, <3>2, Zenon DEF IsSent
  <2> HIDE DEF new
  <2>2. cleanup' = T \cup {new(d) : d \in sent}
    BY <1>2 DEF new
  <2> QED BY <1>0, <1>2, <2>1, <2>2 DEF TasksGoOn
<1>3. CASE PruneGenerates(p)
  <2>1. \A d \in Prunable(p) :
          Task("prune", p, d) = [Task("prune", p, d) EXCEPT !.tracked = TRUE]
    BY <1>0, CountedTask DEF Prunable, LinkedTo
  <2>2. /\ cleanup' = cleanup \cup {Task("prune", p, d) : d \in Prunable(p)}
        /\ Resends(p, Prunable(p))
    BY <1>3 DEF PruneGenerates, PruneGenerate
  <2>3. WereThere(cleanup)
    BY DEF WereThere
  <2>4. cleanup' = cleanup \cup {[Task("prune", p, d) EXCEPT
                                    !.tracked = TRUE] : d \in Prunable(p)}
    BY <2>1, <2>2
  <2> QED BY <1>2, <2>2, <2>3, <2>4
<1>4. ASSUME NEW sent \in SUBSET Docs, PruneFails(p, sent), Resends(p, sent)
      PROVE  TasksGoOn
  <2>1. /\ cleanup' = Untrack("prune", p)
                       \cup {[Task("prune", p, d) EXCEPT !.tracked = FALSE] :
                                d \in sent}
        /\ sent \in SUBSET Prunable(p)
    BY <1>4 DEF PruneFails
  <2>2. WereThere(Untrack("prune", p))
    BY <1>0 DEF WereThere
  <2> QED BY <1>2, <1>4, <2>1, <2>2
<1>5. CASE PruneFails(p, {})
  <2>1. cleanup' = Untrack("prune", p)
    BY <1>5 DEF PruneFails
  <2> QED BY <1>0, <2>1, UntrackedTasks
<1>6. CASE PruneBeat(p) \/ PruneMonitor(p)
  BY <1>6, SameTasks DEF PruneBeat, PruneCheck, PruneMonitor
<1> QED BY <1>1, <1>3, <1>4, <1>5, <1>6 DEF PruneStep, PruneFault

(* A deletion that sends its tasks notes those that are not alone.         *)
LEMMA DeletionSends ==
  ASSUME IInv, NEW p \in Pairs,
         Delete(p) \/ DeletionStep(p) \/ DeletionFault(p)
  PROVE  TasksGoOn
<1>0. "prune" \in Kinds /\ "delete" \in Kinds
  BY DEF Kinds
<1>1. CASE \/ \E timedOut \in BOOLEAN : DeletionBlocked(p, timedOut)
           \/ ResetFenceInUse(p)
  <2>1. \/ cleanup' = cleanup \/ cleanup' = Untrack("prune", p)
        \/ cleanup' = Untrack("delete", p)
    BY <1>1 DEF DeletionBlocked, ResetFenceInUse
  <2> QED BY <1>0, <2>1, SameTasks, UntrackedTasks
<1>2. CASE DeletionGenerates(p) \/ DeletionCutShort(p)
  <2>1. PICK ids \in SUBSET (LinkedTo(p) \cap rows) :
          /\ cleanup' = Untrack("delete", p) \cup TasksFor(p, ids)
          /\ Resends(p, ids) /\ fence[p] = "setup"
    BY <1>2 DEF DeletionGenerates, DeletionCutShort, GenerateCleanup,
                DeletionBeatDies, DeletionRaises, GenerateInPart
  <2>2. ccStatus[p] \notin Indexable
    BY <2>1 DEF IInv, FenceHolds, Fenced, Indexable
  <2>3. ASSUME NEW d \in ids
        PROVE  IsSent(Task("delete", p, d), "delete", TRUE)
    <3>1. d \in Docs /\ <<p, d>> \in links
      BY DEF LinkedTo
    <3>2. TasksOf(p, d) = {} \/ d \in repeated'
      BY <2>1 DEF Resends, Repeats
    <3>3. Task("delete", p, d)
          = [Task("delete", p, d) EXCEPT !.tracked = TRUE]
      BY <1>0, <3>1, CountedTask DEF IInv
    <3> QED BY <2>2, <3>1, <3>2, <3>3, Zenon DEF IsSent
  <2>4. WereThere(Untrack("delete", p))
    BY <1>0 DEF WereThere
  <2>5. \A c \in cleanup' :
          c \in Untrack("delete", p) \/ IsSent(c, "delete", TRUE)
    BY <2>1, <2>3 DEF TasksFor
  <2> QED BY <1>0, <2>4, <2>5 DEF TasksGoOn
<1>3. CASE UNCHANGED cleanup
  BY <1>3, SameTasks
<1> QED BY <1>1, <1>2, <1>3
        DEF Delete, RequestDeletion, DeletionStep, DeletionFault,
            RaiseDeletionFence, ResetDeletionFence, RestartDeletion,
            FinishDeletion

(* and nobody else sends any.                                              *)
LEMMA OthersSend ==
  ASSUME IInv, [Next]_vars
  PROVE  CleanupRuns \/ TasksGoOn
<1>1. CASE \E p \in Pairs : PruneBeat(p) \/ PruneStep(p) \/ PruneFault(p)
  BY <1>1, PruningSends DEF IInv
<1>2. CASE \E p \in Pairs : Delete(p) \/ DeletionStep(p) \/ DeletionFault(p)
  BY <1>2, DeletionSends
<1>3. CASE \/ SyncBeat \/ UnpinStep \/ ReindexStep \/ SwapStep \/ SwapFault
           \/ \E d \in Docs : Edit(d) \/ SyncStep(d) \/ SyncFault(d)
           \/ \E p \in Pairs : PortBeat(p) \/ PortStep(p) \/ PortFault(p)
           \/ \E p \in Pairs : KickoffIndexing(p) \/ IndexingStep(p)
           \/ UNCHANGED vars
  <2>1. UNCHANGED cleanup
    BY <1>3 DEF SyncBeat, UnpinStep, ReindexStep, SwapStep, SwapFault, Edit,
                SyncStep, SyncReads, SyncFault, PortBeat, PortStep, PortReads,
                PortFault, KickoffIndexing, IndexingStep, IndexWrites,
                othersOfSync, othersOfPort, othersOfSwap, othersOfIndexing,
                taskVars, vars
  <2> QED BY <2>1, SameTasks
<1> QED BY <1>1, <1>2, <1>3 DEF Next, CleanupRuns

(* What a cleanup task becomes, if it does not end: itself, at another     *)
(* place.  It updates nothing it has not read, decides once, by the count, *)
(* and comes back from its commit only as one that is repeated.            *)
IsMoved(c, e) ==
    /\ e.kind = c.kind /\ e.pair = c.pair /\ e.doc = c.doc
    /\ e.at # "queued" /\ e.act # "DELETE" => e.meta \in Entries
    /\ e.act = "DELETE" =>
         c.act = "DELETE" \/ (c.at = "queued" /\ ConnectorCount(c.doc) = 1)
    /\ c.at = "done" => e.at = "done" \/ c.doc \in repeated'

(* A cleanup task moves alone: it ends, or becomes one that has moved.     *)
LEMMA CleanupMoves ==
  ASSUME TypeOK, CleanupIsFresh, NEW c \in cleanup,
         CleanupStep(c) \/ CleanupFault(c)
  PROVE  \/ cleanup' = cleanup \ {c}
         \/ \E e : IsMoved(c, e) /\ cleanup' = (cleanup \ {c}) \cup {e}
<1>1. c \in CleanupTasks /\ StoreTypeOK
  BY DEF TypeOK, CleanupTypeOK
<1>2. CASE CleanupReads(c)
  <2> DEFINE next == [c EXCEPT
                  !.at = "index",
                  !.act = IF ConnectorCount(c.doc) = 1 THEN "DELETE"
                          ELSE "UPDATE",
                  !.into = ActiveIndices,
                  !.meta = IF ConnectorCount(c.doc) = 1 THEN None
                           ELSE Metadata(c.doc)]
  <2>1. (Ends(c) \/ Becomes(c, next)) /\ c.at = "queued"
    BY <1>2 DEF CleanupReads, CleanupRead
  <2>2. Metadata(c.doc) \in Entries
    BY <1>1, MetadataType DEF CleanupTasks
  <2>3. IsMoved(c, next)
    BY <1>1, <2>1, <2>2 DEF CleanupTasks, IsMoved
  <2> HIDE DEF next
  <2> QED BY <2>1, <2>3 DEF Ends, Becomes
<1>3. c.at # "done" => IsMoved(c, Retried(c))
  BY <1>1 DEF Retried, CleanupTasks, IsMoved
<1>4. CASE CleanupIndex(c)
  <2> DEFINE next == [c EXCEPT !.at = "commit"]
  <2>1. (Becomes(c, next) \/ Becomes(c, Retried(c))) /\ c.at = "index"
    BY <1>4 DEF CleanupIndex
  <2>2. c.act # "DELETE" => c.meta \in Entries
    BY <2>1 DEF CleanupIsFresh
  <2>3. IsMoved(c, next)
    BY <1>1, <2>1, <2>2 DEF CleanupTasks, IsMoved
  <2> HIDE DEF next
  <2> QED BY <1>3, <2>1, <2>3 DEF Becomes
<1>5. CASE \/ CommitDelete(c) \/ CommitUpdate(c) \/ CleanupRetries(c)
           \/ CleanupExhausted(c)
  <2> DEFINE next == [c EXCEPT !.at = "done"]
  <2>1. /\ Becomes(c, next) \/ Becomes(c, Retried(c))
        /\ c.at \in {"index", "commit"}
    BY <1>5 DEF CommitDelete, CommitUpdate, CleanupRetries, CleanupExhausted
  <2>2. c.act # "DELETE" => c.meta \in Entries
    BY <2>1 DEF CleanupIsFresh
  <2>3. IsMoved(c, next)
    BY <1>1, <2>1, <2>2 DEF CleanupTasks, IsMoved
  <2> HIDE DEF next
  <2> QED BY <1>3, <2>1, <2>3 DEF Becomes
<1>6. CASE CleanupEnds(c) \/ CleanupGivesUp(c)
  BY <1>6 DEF CleanupEnds, CleanupGivesUp, Ends
<1>7. CASE CleanupRepeated(c)
  <2>1. PICK tracked \in {c.tracked, FALSE} :
          Becomes(c, [Retried(c) EXCEPT !.tracked = tracked])
    BY <1>7 DEF CleanupRepeated, CleanupRepeats
  <2> DEFINE next == [Retried(c) EXCEPT !.tracked = tracked]
  <2>2. c.doc \in repeated'
    BY <1>7 DEF CleanupRepeated, Repeats
  <2>3. IsMoved(c, next)
    BY <1>1, <2>2 DEF CleanupTasks, IsMoved, Retried
  <2> HIDE DEF next
  <2> QED BY <2>1, <2>3 DEF Becomes, next
<1> QED BY <1>2, <1>4, <1>5, <1>6, <1>7 DEF CleanupStep, CleanupFault

-----------------------------------------------------------------------------
(* TasksAreFresh is inductive.                                             *)
(* The tasks stay fresh when one of them moves                             *)
LEMMA CleanupStaysFresh ==
  ASSUME TypeOK, CleanupIsFresh, PairsOnlyGo, repeated \subseteq repeated',
         NEW c \in cleanup, CleanupStep(c) \/ CleanupFault(c)
  PROVE  CleanupIsFresh'
<1>0. \A b \in cleanup : b.pair \in Pairs
  BY DEF TypeOK, CleanupTypeOK, CleanupTasks
<1>1. CASE cleanup' = cleanup \ {c}
  BY <1>0, <1>1 DEF CleanupIsFresh, PairsOnlyGo
<1>2. ASSUME NEW e, IsMoved(c, e), cleanup' = (cleanup \ {c}) \cup {e}
      PROVE  CleanupIsFresh'
  BY <1>0, <1>2 DEF CleanupIsFresh, PairsOnlyGo, IsMoved
<1> QED BY <1>1, <1>2, CleanupMoves

(* and when others are sent.                                               *)
LEMMA SentAreFresh ==
  ASSUME TypeOK, CleanupIsFresh, PairsOnlyGo, repeated \subseteq repeated',
         TasksGoOn
  PROVE  CleanupIsFresh'
<1>0. /\ CleanupTypeOK /\ \A b \in cleanup : b.pair \in Pairs
      /\ Vanished' = Vanished /\ Entries' = Entries
  BY DEF TypeOK, CleanupTypeOK, CleanupTasks
<1>1. PICK T : \E kind \in Kinds, tracked \in BOOLEAN :
        WereThere(T) /\ \A c \in cleanup' : c \in T \/ IsSent(c, kind, tracked)
  BY DEF TasksGoOn
<1>2. PICK kind \in Kinds, tracked \in BOOLEAN :
        WereThere(T) /\ \A c \in cleanup' : c \in T \/ IsSent(c, kind, tracked)
  BY <1>1
<1>3. /\ \A c \in T : \E b \in cleanup : SameTask(b, c)
      /\ \A c, e \in T : c.pair = e.pair /\ c.doc = e.doc
                        /\ c.doc \notin repeated => c = e
  BY <1>0, <1>2, TheySurvive
<1>4. \A c : IsSent(c, kind, tracked) =>
        /\ c.at = "queued" /\ c.act = "none" /\ c.pair \in Pairs
        /\ c = [Task(kind, c.pair, c.doc) EXCEPT !.tracked = tracked]
        /\ TasksOf(c.pair, c.doc) = {} \/ c.doc \in repeated'
        /\ c.kind = "prune" => <<c.pair, c.doc>> \in Vanished
        /\ c.kind = "delete" => ccStatus[c.pair] \notin Indexable
  BY DEF IsSent, Task
<1>5. ASSUME NEW c \in cleanup', c.kind = "delete"
      PROVE  ccStatus'[c.pair] \notin Indexable
  <2>1. c.pair \in Pairs /\ ccStatus[c.pair] \notin Indexable
    <3>1. CASE c \in T
      BY <1>0, <1>3, <1>5, <3>1 DEF SameTask, CleanupIsFresh
    <3>2. CASE IsSent(c, kind, tracked)
      BY <1>4, <1>5, <3>2
    <3> QED BY <1>2, <3>1, <3>2
  <2> QED BY <2>1 DEF PairsOnlyGo
<1>6. ASSUME NEW c \in cleanup', NEW e \in cleanup', c.pair = e.pair,
             c.doc = e.doc, c.doc \notin repeated'
      PROVE  c = e
  <2>1. \A b \in T : b.pair = c.pair /\ b.doc = c.doc =>
          TasksOf(c.pair, c.doc) # {}
    BY <1>3 DEF SameTask, TasksOf
  <2>2. CASE c \in T /\ e \in T
    BY <1>3, <1>6, <2>2
  <2>3. CASE c \notin T \/ e \notin T
    <3>1. IsSent(c, kind, tracked) /\ IsSent(e, kind, tracked)
      BY <1>2, <1>4, <1>6, <2>1, <2>3
    <3>2. /\ c = [Task(kind, c.pair, c.doc) EXCEPT !.tracked = tracked]
          /\ e = [Task(kind, e.pair, e.doc) EXCEPT !.tracked = tracked]
      BY <1>4, <3>1
    <3> QED BY <1>6, <3>2
  <2> QED BY <2>2, <2>3
<1>7. ASSUME NEW c \in cleanup', c.kind = "prune"
      PROVE  <<c.pair, c.doc>> \in Vanished
  BY <1>2, <1>3, <1>4, <1>7 DEF SameTask, CleanupIsFresh
<1>8. ASSUME NEW c \in cleanup', c.at # "queued", c.act # "DELETE"
      PROVE  c.meta \in Entries
  BY <1>2, <1>3, <1>4, <1>8 DEF SameTask, CleanupIsFresh
<1> QED BY <1>0, <1>5, <1>6, <1>7, <1>8 DEF CleanupIsFresh

(* A sync task writes what it has read.                                    *)
LEMMA SyncersRead ==
  ASSUME TypeOK, SyncersHaveRead, [Next]_vars
  PROVE  SyncersHaveRead'
<1>0. /\ syncer \in [Docs -> SyncStates] /\ StoreTypeOK
      /\ Entries' = Entries /\ Docs' = Docs
  BY DEF TypeOK, SyncTypeOK
<1>1. CASE UNCHANGED syncer
  BY <1>0, <1>1 DEF SyncersHaveRead
<1>2. CASE SyncBeat
  BY <1>0, <1>2
     DEF SyncBeat, GenerateSyncTasks, SyncIdle, SyncersHaveRead, SyncStates
<1>3. ASSUME NEW d \in Docs, SyncFault(d) PROVE SyncersHaveRead'
  <2>1. PICK at \in {"queued", "idle"} :
          syncer' = [syncer EXCEPT ![d] = [SyncIdle EXCEPT !.at = at]]
    BY <1>3 DEF SyncFault, SyncFails
  <2>2. syncer'[d].at = at
    BY <1>0, <2>1 DEF SyncIdle
  <2> QED BY <1>0, <2>1, <2>2 DEF SyncersHaveRead
<1>4. ASSUME NEW d \in Docs, SyncStep(d) PROVE SyncersHaveRead'
  <2>1. CASE SyncReads(d)
    <3>1. syncer'[d].at = "index" => syncer'[d].meta \in Entries
      BY <1>0, <2>1, MetadataType DEF SyncReads, SyncRead, SyncIdle
    <3>2. \A e \in Docs : e # d => syncer'[e] = syncer[e]
      BY <1>0, <2>1 DEF SyncReads, SyncRead
    <3> QED BY <1>0, <3>1, <3>2 DEF SyncersHaveRead
  <2>2. CASE \E i \in Indices : SyncIndex(d, i)
    <3>1. PICK i \in Indices : SyncIndex(d, i)
      BY <2>2
    <3>2. /\ syncer[d].at = "index" /\ syncer'[d].meta = syncer[d].meta
          /\ \A e \in Docs : e # d => syncer'[e] = syncer[e]
      <4>1. PICK todo, at, missing :
              syncer' = [syncer EXCEPT ![d].todo = todo, ![d].at = at,
                                       ![d].missing = missing]
        BY <3>1 DEF SyncIndex
      <4>2. syncer[d].at = "index"
        BY <3>1 DEF SyncIndex
      <4> QED BY <1>0, <4>1, <4>2 DEF SyncStates
    <3> QED BY <1>0, <3>2 DEF SyncersHaveRead
  <2>3. CASE SyncMark(d)
    <3>1. syncer' = [syncer EXCEPT ![d] = SyncIdle]
      BY <2>3, Zenon DEF SyncMark
    <3> QED BY <1>0, <3>1 DEF SyncersHaveRead, SyncIdle
  <2> QED BY <1>4, <2>1, <2>2, <2>3 DEF SyncStep
<1>5. CASE \/ UnpinStep \/ ReindexStep \/ SwapStep \/ SwapFault
           \/ \E d \in Docs : Edit(d)
           \/ \E p \in Pairs : \/ PortBeat(p) \/ PortStep(p) \/ PortFault(p)
                               \/ KickoffIndexing(p) \/ IndexingStep(p)
                               \/ PruneBeat(p) \/ PruneStep(p) \/ PruneFault(p)
                               \/ Delete(p) \/ DeletionStep(p)
                               \/ DeletionFault(p)
           \/ \E c \in cleanup : CleanupStep(c) \/ CleanupFault(c)
           \/ UNCHANGED vars
  <2>1. UNCHANGED syncer
    BY <1>5 DEF UnpinStep, ReindexStep, SwapStep, SwapFault, Edit,
                EditMetadata, PortBeat, PortStep, PortReads, PortFault,
                KickoffIndexing, IndexingStep, IndexWrites, PruneBeat,
                PruneStep, PruneGenerates, PruneFault, Delete, DeletionStep,
                DeletionGenerates, DeletionFault, DeletionCutShort,
                CleanupStep, CleanupReads, CleanupFault, CleanupRepeated,
                othersOfPort, othersOfSwap, othersOfIndexing, othersOfCleanup,
                othersOfPruning, othersOfDeletion, vars
  <2> QED BY <1>1, <2>1
<1> QED BY <1>2, <1>3, <1>4, <1>5 DEF Next

(* No cc_pair that is being deleted is kept again.                         *)
LEMMA PairsGo ==
  ASSUME TypeOK, TasksAreFresh, [Next]_vars
  PROVE  PairsOnlyGo
<1>1. ASSUME NEW c \in cleanup, CleanupStep(c) \/ CleanupFault(c)
      PROVE  PairsOnlyGo
  <2>1. UNCHANGED ccStatus
    BY <1>1, OthersKeepPorts
  <2> QED BY <2>1 DEF PairsOnlyGo
<1> QED BY <1>1, OthersLeave DEF TasksAreFresh, CleanupRuns, NothingGoes

(* TasksAreFresh is inductive.                                             *)
LEMMA TasksStayFresh ==
  ASSUME IInv, TasksAreFresh, [Next]_vars
  PROVE  TasksAreFresh'
<1>1. TypeOK /\ PairsOnlyGo /\ repeated \subseteq repeated'
  BY PairsGo, RepeatedGrows DEF IInv
<1>2. CleanupIsFresh'
  BY <1>1, OthersSend, SentAreFresh, CleanupStaysFresh
     DEF CleanupRuns, TasksAreFresh
<1>3. SyncersHaveRead'
  BY <1>1, SyncersRead DEF TasksAreFresh
<1> QED BY <1>2, <1>3 DEF TasksAreFresh

-----------------------------------------------------------------------------
(* DocumentsKept is inductive.                                             *)
LEMMA KeptBefore ==
  ASSUME PairsOnlyGo, NEW p \in Pairs, NEW d \in Docs, Kept(p, d)'
  PROVE  Kept(p, d)
BY DEF PairsOnlyGo, Kept, Indexable

(* Steps that take nothing keep the documents.                             *)
LEMMA OthersKeepDocuments ==
  ASSUME TypeOK, DocumentsKept, NothingGoes, TasksGoOn,
         repeated \subseteq repeated'
  PROVE  DocumentsKept'
<1> SUFFICES ASSUME NEW p \in Pairs, NEW d \in Docs, d \notin repeated',
                    Kept(p, d)'
             PROVE  /\ <<p, d>> \in links'
                    /\ d \in rows'
                    /\ index'["old"][d] # None
                    /\ \A c \in cleanup' :
                         c.doc = d =>
                           /\ c.act # "DELETE"
                           /\ c.at # "done" => <<c.pair, d>> \in links'
  BY DEF DocumentsKept
<1>1. /\ <<p, d>> \in links /\ d \in rows /\ index["old"][d] # None
      /\ \A c \in cleanup :
           c.doc = d =>
             c.act # "DELETE" /\ (c.at # "done" => <<c.pair, d>> \in links)
  BY KeptBefore DEF NothingGoes, DocumentsKept
<1>2. <<p, d>> \in links' /\ d \in rows' /\ index'["old"][d] # None
  BY <1>1 DEF NothingGoes, ChunksStay, Indices
<1>3. ASSUME NEW c \in cleanup', c.doc = d
      PROVE  c.act # "DELETE" /\ (c.at # "done" => <<c.pair, d>> \in links')
  <2>1. CASE \E b \in cleanup : SameTask(b, c)
    BY <1>1, <1>3, <2>1 DEF SameTask, NothingGoes
  <2>2. CASE \E kind, tracked : IsSent(c, kind, tracked)
    <3>1. c.act = "none" /\ <<c.pair, c.doc>> \in links
      BY <2>2 DEF IsSent, Task
    <3> QED BY <1>3, <3>1 DEF NothingGoes
  <2> QED BY <2>1, <2>2, TheySurvive DEF TasksGoOn, TypeOK
<1> QED BY <1>2, <1>3

(* What a cleanup task does to a document that is kept: it may take the    *)
(* link of its own cc_pair, and then it is done.                           *)
LEMMA CleanupSparesKept ==
  ASSUME TypeOK, TasksAreFresh, DocumentsKept,
         NEW c \in cleanup, CleanupStep(c) \/ CleanupFault(c),
         NEW p \in Pairs, NEW d \in Docs \ repeated, Kept(p, d)
  PROVE  /\ <<p, d>> \in links'
         /\ d \in rows'
         /\ \A i \in Indices : index[i][d] # None => index'[i][d] # None
         /\ \A q \in Pairs : <<q, d>> \in links /\ <<q, d>> \notin links' =>
              /\ c.doc = d /\ c.pair = q
              /\ \A e \in cleanup' : e \in cleanup \ {c} \/ e.at = "done"
<1>0. /\ c \in CleanupTasks /\ StoreTypeOK
      /\ <<p, d>> \in links /\ d \in rows
      /\ c.doc = d => c.act # "DELETE" /\ c.pair # p
  BY TasksOnKept DEF TypeOK, CleanupTypeOK, DocumentsKept, TasksAreFresh
<1>1. CASE \/ CleanupReads(c) \/ CleanupRetries(c) \/ CleanupGivesUp(c)
           \/ CleanupEnds(c) \/ CleanupRepeated(c)
  BY <1>0, <1>1 DEF CleanupReads, CleanupRead, CleanupRetries, CleanupGivesUp,
                    CleanupEnds, CleanupRepeated, CleanupRepeats, storeVars,
                    dbVars
<1>2. CASE CleanupIndex(c)
  <2>1. UNCHANGED <<links, rows>>
    BY <1>2 DEF CleanupIndex, dbVars
  <2>2. CASE c.act = "DELETE"
    <3>1. c.doc # d /\ DeleteFrom(c.into, c.doc)
      BY <1>0, <1>2, <2>2 DEF CleanupIndex
    <3>2. \A i \in Indices : index'[i][d] = index[i][d]
      BY <1>0, <3>1 DEF DeleteFrom, StoreTypeOK
    <3> QED BY <1>0, <2>1, <3>2
  <2>3. CASE c.act # "DELETE"
    <3>1. UpdateIn(c.into, c.doc, c.meta) /\ c.at = "index"
      BY <1>2, <2>3 DEF CleanupIndex
    <3>2. c.meta \in Entries /\ c.doc \in Docs
      BY <1>0, <2>3, <3>1 DEF TasksAreFresh, CleanupIsFresh, CleanupTasks
    <3>3. ChunksStay
      BY <1>0, <3>1, <3>2, UpdateLeavesChunks
    <3> QED BY <1>0, <2>1, <3>3 DEF ChunksStay
  <2> QED BY <2>2, <2>3
<1>3. CASE CommitDelete(c)
  <2>1. c.doc # d
    BY <1>0, <1>3 DEF CommitDelete
  <2> QED BY <1>0, <1>3, <2>1 DEF CommitDelete
<1>4. CASE CommitUpdate(c) \/ CleanupExhausted(c)
  <2> DEFINE done == [c EXCEPT !.at = "done"]
  <2>1. UNCHANGED <<rows, index>>
    BY <1>4 DEF CommitUpdate, CleanupExhausted
  <2>2. \/ UNCHANGED links
        \/ links' = links \ {<<c.pair, c.doc>>} /\ Becomes(c, done)
    BY <1>4 DEF CommitUpdate, CleanupExhausted
  <2>3. done.at = "done"
    BY <1>0 DEF CleanupTasks
  <2> HIDE DEF done
  <2> QED BY <1>0, <2>1, <2>2, <2>3 DEF Becomes
<1> QED BY <1>1, <1>2, <1>3, <1>4 DEF CleanupStep, CleanupFault

(* The other tasks of a kept document still find its two links, after one  *)
(* of them has moved or taken its own.                                     *)
LEMMA CleanupKeepsDocuments ==
  ASSUME TypeOK, TasksAreFresh, DocumentsKept, PairsOnlyGo,
         repeated \subseteq repeated',
         NEW c \in cleanup, CleanupStep(c) \/ CleanupFault(c)
  PROVE  DocumentsKept'
<1> SUFFICES ASSUME NEW p \in Pairs, NEW d \in Docs, d \notin repeated',
                    Kept(p, d)'
             PROVE  /\ <<p, d>> \in links'
                    /\ d \in rows'
                    /\ index'["old"][d] # None
                    /\ \A e \in cleanup' :
                         e.doc = d =>
                           /\ e.act # "DELETE"
                           /\ e.at # "done" => <<e.pair, d>> \in links'
  BY DEF DocumentsKept
<1>0. Kept(p, d) /\ d \in Docs \ repeated /\ CleanupIsFresh
  BY KeptBefore DEF TasksAreFresh
<1>1. /\ <<p, d>> \in links /\ index["old"][d] # None
      /\ \A e \in cleanup :
           e.doc = d =>
             e.act # "DELETE" /\ (e.at # "done" => <<e.pair, d>> \in links)
  BY <1>0 DEF DocumentsKept
<1>2. /\ <<p, d>> \in links' /\ d \in rows' /\ index'["old"][d] # None
      /\ \A q \in Pairs : <<q, d>> \in links /\ <<q, d>> \notin links' =>
           /\ c.doc = d /\ c.pair = q
           /\ \A e \in cleanup' : e \in cleanup \ {c} \/ e.at = "done"
  BY <1>0, <1>1, CleanupSparesKept DEF Indices
<1>3. ASSUME NEW e \in cleanup, e # c, e.doc = d
      PROVE  e.act # "DELETE" /\ (e.at # "done" => <<e.pair, d>> \in links')
  <2>1. /\ e.act # "DELETE" /\ (e.at # "done" => <<e.pair, d>> \in links)
        /\ e.pair \in Pairs
    BY <1>0, <1>1, <1>3 DEF TypeOK, CleanupTypeOK, CleanupTasks
  <2>2. c.doc = d => c.pair # e.pair
    BY <1>0, <1>3, TasksOnKept DEF CleanupIsFresh
  <2> QED BY <1>2, <2>1, <2>2
<1>4. CASE cleanup' = cleanup \ {c}
  BY <1>2, <1>3, <1>4
<1>5. ASSUME NEW e, IsMoved(c, e), cleanup' = (cleanup \ {c}) \cup {e},
             e \notin cleanup \ {c}, e.doc = d
      PROVE  e.act # "DELETE" /\ (e.at # "done" => <<e.pair, d>> \in links')
  <2>1. c.doc = d /\ c.pair = e.pair /\ c.pair \in Pairs
    BY <1>0, <1>5 DEF IsMoved, TypeOK, CleanupTypeOK, CleanupTasks
  <2>2. /\ c.act # "DELETE" /\ (c.at # "done" => <<c.pair, d>> \in links)
        /\ c.pair # p
    BY <1>0, <1>1, <2>1, TasksOnKept
  <2>3. c.at # "done" => ConnectorCount(c.doc) # 1
    BY <1>1, <2>1, <2>2, TwoHolders
  <2>4. e.act # "DELETE"
    BY <1>5, <2>2, <2>3 DEF IsMoved
  <2>5. ASSUME e.at # "done" PROVE <<e.pair, d>> \in links'
    <3>1. c.at # "done"
      BY <1>5, <2>1, <2>5 DEF IsMoved
    <3> QED BY <1>2, <1>5, <2>1, <2>2, <2>5, <3>1
  <2> QED BY <2>4, <2>5
<1> QED BY <1>0, <1>2, <1>3, <1>4, <1>5, CleanupMoves

(* DocumentsKept is inductive.                                             *)
LEMMA DocumentsStayKept ==
  ASSUME IInv, TasksAreFresh, DocumentsKept, [Next]_vars
  PROVE  DocumentsKept'
<1>1. TypeOK /\ PairsOnlyGo /\ repeated \subseteq repeated'
  BY PairsGo, RepeatedGrows DEF IInv
<1>2. CASE CleanupRuns
  BY <1>1, <1>2, CleanupKeepsDocuments DEF CleanupRuns
<1>3. CASE ~CleanupRuns
  BY <1>1, <1>3, OthersLeave, OthersSend, OthersKeepDocuments DEF TasksAreFresh
<1> QED BY <1>2, <1>3

(* No chunk of a document that is kept goes, and nobody is kept again.     *)
LEMMA KeptChunksStay ==
  ASSUME IInv, TasksAreFresh, DocumentsKept, [Next]_vars,
         NEW p \in Pairs, NEW d \in Docs, d \notin repeated', Kept(p, d)'
  PROVE  /\ Kept(p, d) /\ d \in Docs \ repeated
         /\ index["new"][d] # None => index'["new"][d] # None
<1>1. TypeOK /\ PairsOnlyGo /\ repeated \subseteq repeated'
  BY PairsGo, RepeatedGrows DEF IInv
<1>2. Kept(p, d) /\ d \in Docs \ repeated
  BY <1>1, KeptBefore
<1>3. CASE CleanupRuns
  BY <1>1, <1>2, <1>3, CleanupSparesKept DEF CleanupRuns, Indices
<1>4. CASE NothingGoes
  BY <1>2, <1>4 DEF NothingGoes, ChunksStay, Indices
<1> QED BY <1>1, <1>2, <1>3, <1>4, OthersLeave DEF TasksAreFresh

-----------------------------------------------------------------------------
(* The settings of a switchover, in the order its steps go through: "old"  *)
(* is PRESENT until the swap begins, "new" is promoted after it, and a     *)
(* backfill goes on only after an INSTANT swap.                            *)
SettingsInStep ==
    /\ setting["old"] \in {"PRESENT", "PAST"}
    /\ setting["new"] = "PRESENT" => setting["old"] = "PAST"
    /\ setting["old"] = "PAST" => setting["new"] # "NONE"
    /\ swapper = "promote" =>
         setting["old"] = "PAST" /\ setting["new"] = "FUTURE"
    /\ swapper = "settle" => setting["new"] = "PRESENT"
    /\ backfill => switchover = "INSTANT" /\ setting["old"] = "PAST"

(* There are no attempts before the reindex.  Of a cc_pair that is not     *)
(* being deleted, only one in scope has an attempt, no swap leaves it      *)
(* behind, only the cancellation of the reindex cancels it, and it copies  *)
(* from "old".                                                             *)
PortInStep(p) ==
    /\ setting["new"] = "NONE" => port[p].status = "NONE"
    /\ port[p].status = "NONE" => port[p] = NoPort
    /\ ccStatus[p] \in Indexable =>
         /\ port[p].status # "NONE" => InScope(p)
         /\ InScope(p) /\ setting["old"] = "PAST" /\ ~backfill =>
              port[p].status \in {"SUCCESS", "CANCELED"}
         /\ port[p].status = "CANCELED" \/ port[p].cancel =>
              setting["new"] = "PAST"
         /\ copier[p].at # "idle" => copier[p].src = "old"

SettingsSame == UNCHANGED <<setting, switchover, backfill, swapper>>

(* Only a reindex, a swap or the end of a backfill writes settings.        *)
LEMMA OthersKeepSettings ==
  ASSUME [Next]_vars, ~UnpinStep, ~ReindexStep, ~SwapStep, ~SwapFault
  PROVE  SettingsSame
<1> USE DEF SettingsSame, settingVars, storeVars
<1>1. CASE SyncBeat
  BY <1>1 DEF SyncBeat, GenerateSyncTasks, othersOfSync
<1>2. ASSUME NEW d \in Docs, Edit(d) \/ SyncFault(d) PROVE SettingsSame
  BY <1>2 DEF Edit, EditMetadata, SyncFault, SyncFails, othersOfSync
<1>3. ASSUME NEW d \in Docs, SyncStep(d) PROVE SettingsSame
  <2>1. UNCHANGED swapper
    BY <1>3 DEF SyncStep, SyncReads, othersOfSync
  <2>2. CASE SyncReads(d) \/ \E i \in Indices : SyncIndex(d, i)
    BY <2>1, <2>2 DEF SyncReads, SyncRead, SyncIndex
  <2>3. CASE SyncMark(d)
    <3>1. UNCHANGED settingVars
      BY <2>3, Zenon DEF SyncMark
    <3> QED BY <2>1, <3>1
  <2> QED BY <1>3, <2>2, <2>3 DEF SyncStep
<1>4. ASSUME NEW p \in Pairs, PortBeat(p) \/ PortStep(p) \/ PortFault(p)
      PROVE  SettingsSame
  BY <1>4 DEF PortBeat, PortStep, PortReads, PortFault, SchedulePort, EnqueueFails,
              FailStalled, PortStart, PortStops, PortYields, PortFails,
              PortDies, PortFinish, PortPage, PortRead, PortAborts, PortWrite,
              PortRetries, PortCopy, PortCommit, othersOfPort
<1>5. ASSUME NEW p \in Pairs, KickoffIndexing(p) \/ IndexingStep(p)
      PROVE  SettingsSame
  <2>1. UNCHANGED swapper
    BY <1>5 DEF KickoffIndexing, IndexingStep, IndexWrites, othersOfIndexing
  <2>2. UNCHANGED settingVars
    BY <1>5 DEF KickoffIndexing, IndexingStep, IndexDue, IndexCreate,
                IndexCheck, IndexTransition, IndexTake, IndexPrepare,
                IndexWrites, IndexWrite, IndexFails, IndexEnd
  <2> QED BY <2>1, <2>2
<1>6. ASSUME NEW p \in Pairs, PruneBeat(p) \/ PruneStep(p) \/ PruneFault(p)
      PROVE  SettingsSame
  BY <1>6 DEF PruneBeat, PruneStep, PruneGenerates, PruneFault, PruneCheck, PruneCreate,
              PruneGenerate, PruneMonitor, PruneFails, othersOfPruning
<1>7. ASSUME NEW p \in Pairs, Delete(p) \/ DeletionStep(p) \/ DeletionFault(p)
      PROVE  SettingsSame
  BY <1>7 DEF Delete, RequestDeletion, DeletionStep, DeletionFault,
              RaiseDeletionFence, DeletionBlocked, GenerateCleanup,
              ResetDeletionFence, RestartDeletion, FinishDeletion,
              DeletionBeatDies, DeletionRaises, GenerateInPart,
              ResetFenceInUse, DeletionGenerates, DeletionCutShort,
              deletionFrame, othersOfDeletion
<1>8. ASSUME NEW c \in cleanup, CleanupStep(c) \/ CleanupFault(c)
      PROVE  SettingsSame
  BY <1>8 DEF CleanupStep, CleanupFault, CleanupReads, CleanupRead,
              CleanupIndex, CommitDelete, CommitUpdate, CleanupEnds,
              CleanupRetries, CleanupRepeated, CleanupRepeats,
              CleanupExhausted, CleanupGivesUp, othersOfCleanup
<1>9. CASE UNCHANGED vars
  BY <1>9 DEF vars
<1> QED BY <1>1, <1>2, <1>3, <1>4, <1>5, <1>6, <1>7, <1>8, <1>9 DEF Next

(* SettingsInStep is inductive.                                            *)
LEMMA SettingsStep ==
  ASSUME TypeOK, SettingsInStep, [Next]_vars
  PROVE  SettingsInStep'
<1>0. setting \in [Indices -> {"NONE", "PRESENT", "FUTURE", "PAST"}]
      /\ "old" \in Indices /\ "new" \in Indices
  BY DEF TypeOK, StoreTypeOK, Indices
<1>1. CASE UnpinStep
  BY <1>1 DEF UnpinStep, UnpinSource, othersOfPort, SettingsInStep
<1>2. CASE ReindexStep
  BY <1>0, <1>2 DEF ReindexStep, StartReindex, SettingsInStep
<1>3. CASE SwapStep
  <2>1. CASE BeginSwap
    <3>1. /\ setting'["old"] = "PAST" /\ setting'["new"] = "FUTURE"
          /\ swapper' = "promote" /\ switchover' = switchover
      BY <1>0, <2>1 DEF BeginSwap
    <3>2. backfill' => switchover = "INSTANT"
      BY <2>1 DEF BeginSwap
    <3> QED BY <3>1, <3>2 DEF SettingsInStep
  <2>2. CASE PromoteNew
    BY <1>0, <2>2 DEF PromoteNew, SettingsInStep
  <2>3. CASE SettleSwap
    BY <2>3 DEF SettleSwap, SettingsInStep, storeVars, settingVars
  <2> QED BY <1>3, <2>1, <2>2, <2>3 DEF SwapStep
<1>4. CASE SwapFault
  BY <1>0, <1>4 DEF SwapFault, CancelReindex, SwapDies, SettingsInStep,
                    storeVars, settingVars
<1>5. CASE SettingsSame
  BY <1>5 DEF SettingsSame, SettingsInStep
<1> QED BY <1>1, <1>2, <1>3, <1>4, <1>5, OthersKeepSettings

-----------------------------------------------------------------------------
(* PortInStep is inductive.                                                *)
LEMMA ScopeStays ==
  ASSUME PairsOnlyGo, UNCHANGED switchover, NEW p \in Pairs
  PROVE  /\ InScope(p)' => InScope(p)
         /\ ccStatus'[p] \in Indexable =>
              ccStatus[p] \in Indexable /\ InScope(p)' = InScope(p)
BY DEF PairsOnlyGo, InScope, Indexable

(* A port that nobody touches stays in step.                               *)
LEMMA SamePortInStep ==
  ASSUME NEW p \in Pairs, PortInStep(p), PairsOnlyGo, SettingsSame,
         port'[p] = port[p], copier'[p] = copier[p]
  PROVE  PortInStep(p)'
BY ScopeStays DEF PortInStep, SettingsSame

(* A deletion cancels or forgets the port of its own cc_pair alone.        *)
LEMMA DeletionSparesPorts ==
  ASSUME IInv, NEW p \in Pairs,
         Delete(p) \/ DeletionStep(p) \/ DeletionFault(p), NEW q \in Pairs
  PROVE  /\ copier' = copier
         /\ \/ port'[q] = port[q]
            \/ /\ ccStatus[q] \notin Indexable
               /\ port'[q] \in {Canceled(port[q]), NoPort}
<1>0. TypeOK /\ port \in [Pairs -> PortRows]
      /\ (fence[p] # "none" => ccStatus[p] = "DELETING")
  BY DEF IInv, TypeOK, PortTypeOK, FenceHolds, Fenced
<1>1. CASE PortsKept
  BY <1>1 DEF PortsKept, portVars
<1>2. CASE ~PortsKept
  <2>1. CASE \E timedOut \in BOOLEAN : DeletionBlocked(p, timedOut)
    BY <1>0, <2>1 DEF DeletionBlocked, Indexable, deletionFrame
  <2>2. CASE FinishDeletion(p)
    BY <1>0, <2>2 DEF FinishDeletion, Indexable
  <2>3. CASE \/ Delete(p) \/ RaiseDeletionFence(p) \/ DeletionGenerates(p)
             \/ ResetDeletionFence(p) \/ ResetFenceInUse(p)
             \/ RestartDeletion(p) \/ DeletionCutShort(p)
    BY <2>3 DEF Delete, RequestDeletion, RaiseDeletionFence, GenerateCleanup,
                ResetDeletionFence, ResetFenceInUse, RestartDeletion,
                DeletionBeatDies, DeletionRaises, GenerateInPart,
                DeletionGenerates, DeletionCutShort, deletionFrame, portVars
  <2> QED BY <2>1, <2>2, <2>3 DEF DeletionStep, DeletionFault
<1> QED BY <1>1, <1>2

(* The port of a cc_pair that is deleted has nothing to keep.              *)
LEMMA DeletionKeepsStep ==
  ASSUME IInv, NEW p \in Pairs,
         Delete(p) \/ DeletionStep(p) \/ DeletionFault(p), SettingsSame,
         NEW q \in Pairs, PortInStep(q)
  PROVE  PortInStep(q)'
<1>0. PairsOnlyGo
  BY DeletionLeaves DEF IInv, NothingGoes
<1>1. CASE port'[q] = port[q]
  BY <1>0, <1>1, DeletionSparesPorts, SamePortInStep
<1>2. CASE /\ ccStatus[q] \notin Indexable
           /\ port'[q] \in {Canceled(port[q]), NoPort}
  <2>1. port[q].status = "NONE" => port'[q] = NoPort
    BY <1>2 DEF PortInStep, Canceled, NoPort
  <2>2. port'[q].status = "NONE" => port'[q] = NoPort
    <3>1. port[q] \in PortRows
      BY DEF IInv, TypeOK, PortTypeOK
    <3> QED BY <1>2, <2>1, <3>1, CanceledKeepsRow DEF NoPort
  <2>3. ccStatus'[q] \notin Indexable
    BY <1>0, <1>2 DEF PairsOnlyGo
  <2> QED BY <2>1, <2>2, <2>3 DEF PortInStep, SettingsSame, NoPort
<1> QED BY <1>1, <1>2, DeletionSparesPorts

(* What a port does to its own row and task                                *)
LEMMA PortKeepsStep ==
  ASSUME IInv, SettingsInStep, NEW p \in Pairs, PortAct(p), SettingsSame,
         PortInStep(p)
  PROVE  PortInStep(p)'
<1>0. /\ port \in [Pairs -> PortRows] /\ port[p] \in PortRows
      /\ copier \in [Pairs -> CopierStates] /\ copier[p] \in CopierStates
      /\ UNCHANGED ccStatus /\ PairInv(p)
      /\ ccStatus[p] \in PairStates
  BY PortActKeepsPairs DEF IInv, PortInv, TypeOK, StoreTypeOK, PortTypeOK
<1>1. InScope(p)' = InScope(p)
  BY <1>0 DEF InScope, SettingsSame
<1>2. CASE SchedulePort(p)
  <2>1. /\ copier' = copier
        /\ port'[p].status = "NOT_STARTED" /\ port'[p].cancel = FALSE
        /\ port[p].status \in {"NONE", "FAILED"}
        /\ PortTarget /\ Listed(p)
    BY <1>0, <1>2 DEF SchedulePort, PortRows
  <2>2. setting["new"] # "NONE"
    BY <2>1 DEF PortTarget
  <2>3. ccStatus[p] \in Indexable => InScope(p)
    BY <2>1 DEF Listed, Indexable
  <2> QED BY <1>0, <1>1, <2>1, <2>2, <2>3 DEF PortInStep, SettingsSame
<1>3. CASE PortStart(p)
  <2>1. /\ port'[p].status = "IN_PROGRESS"
        /\ port'[p].cancel = port[p].cancel
        /\ copier'[p].src = IF backfill THEN "old" ELSE Primary
        /\ port[p].status = "NOT_STARTED"
    BY <1>0, <1>3
       DEF PortStart, CopierBecomes, PortRows, CopierStates, CopierIdle
  <2>2. ccStatus[p] \in Indexable => setting["old"] = "PRESENT" \/ backfill
    BY <2>1 DEF PortInStep, SettingsInStep
  <2>3. setting["old"] = "PRESENT" => Primary = "old"
    <3> SUFFICES ASSUME setting["old"] = "PRESENT" PROVE Primary = "old"
      OBVIOUS
    <3>1. \A i \in Indices : setting[i] = "PRESENT" <=> i = "old"
      BY DEF Indices, SettingsInStep
    <3>2. Primary = CHOOSE i \in Indices : i = "old"
      BY <3>1 DEF Primary
    <3> QED BY <3>2 DEF Indices
  <2> QED BY <1>0, <1>1, <2>1, <2>2, <2>3 DEF PortInStep, SettingsSame
<1>4. CASE \/ EnqueueFails(p) \/ FailStalled(p) \/ PortYields(p)
           \/ PortFails(p) \/ PortFinish(p) \/ PortStops(p)
  <2>1. /\ \/ port'[p] = port[p]
           \/ /\ port[p].status \in PortActive
              /\ port'[p].status \in {"FAILED", "SUCCESS", "CANCELED"}
              /\ port'[p].cancel = port[p].cancel
              /\ port'[p].status = "CANCELED" => PortStops(p)
        /\ copier'[p] = copier[p] \/ copier'[p].at = "idle"
    BY <1>0, <1>4
       DEF EnqueueFails, FailStalled, PortYields, PortFails, PortFinish,
           PortStops, Terminal, CopierStops, CopierBecomes, CopierIdle,
           PortRows
  <2>2. port'[p].status = "CANCELED" /\ port'[p] # port[p] =>
          port[p].cancel \/ ccStatus[p] \notin Indexable
    BY <2>1 DEF PortStops, MustAck, IsPortActive, Indexable
  <2> QED BY <1>0, <1>1, <2>1, <2>2 DEF PortInStep, SettingsSame, PortActive
<1>5. CASE \/ PortDies(p) \/ PortPage(p) \/ PortRead(p) \/ PortAborts(p)
           \/ PortWrite(p) \/ PortRetries(p)
           \/ \E d \in Docs : PortCopy(p, d)
  <2>1. /\ port' = port
        /\ copier[p].at # "idle"
        /\ \/ copier'[p].at = "idle"
           \/ copier'[p].src = copier[p].src
    <3> USE DEF CopierBecomes, CopierStates
    <3>1. CASE PortDies(p)
      BY <1>0, <3>1 DEF PortDies, CopierStops, CopierIdle
    <3>2. CASE PortPage(p)
      BY <1>0, <3>2 DEF PortPage
    <3>3. CASE PortRead(p)
      BY <1>0, <3>3 DEF PortRead
    <3>4. CASE PortAborts(p)
      BY <1>0, <3>4 DEF PortAborts
    <3>7. CASE PortRetries(p)
      BY <1>0, <3>7 DEF PortRetries
    <3>5. CASE PortWrite(p)
      <4>1. copier' = [copier EXCEPT ![p] = [copier[p] EXCEPT !.at = "copy"]]
            /\ port' = port /\ copier[p].at = "write"
        BY <3>5 DEF PortWrite
      <4> QED BY <1>0, <4>1
    <3>6. CASE \E d \in Docs : PortCopy(p, d)
      <4>1. PICK d \in Docs : PortCopy(p, d)
        BY <3>6
      <4> DEFINE at == IF copier[p].pit[d] # None /\ Survives(p, d)
                       THEN "write" ELSE "copy"
      <4>2. /\ copier' = [copier EXCEPT ![p] =
                    [copier[p] EXCEPT !.left = @ \ {d}, !.doc = d, !.at = at]]
            /\ port' = port /\ copier[p].at = "copy"
        BY <4>1 DEF PortCopy
      <4> HIDE DEF at
      <4> QED BY <1>0, <4>2
    <3> QED BY <1>5, <3>1, <3>2, <3>3, <3>4, <3>5, <3>6, <3>7
  <2> QED BY <1>0, <1>1, <2>1 DEF PortInStep, SettingsSame
<1>6. CASE PortCommit(p)
  <2>1. copier[p].at = "copy" /\ port[p].status = "IN_PROGRESS"
    BY <1>0, <1>6 DEF PortCommit, PairInv, CopierHasPort, WithBatch
  <2>2. /\ port'[p].status = port[p].status /\ port'[p].cancel = port[p].cancel
        /\ copier'[p].src = copier[p].src
    <3>1. /\ port' = [port EXCEPT ![p].cursor = Max(copier[p].batch)]
          /\ copier' = [copier EXCEPT ![p] =
                [copier[p] EXCEPT !.at = "top",
                                  !.cursor = Max(copier[p].batch),
                                  !.doc = 0, !.batch = {}, !.pit = Unread]]
      BY <1>6, <2>1 DEF PortCommit, CopierBecomes, IsPortActive, PortActive
    <3> QED BY <1>0, <3>1 DEF PortRows, CopierStates
  <2> QED BY <1>0, <1>1, <2>1, <2>2 DEF PortInStep, SettingsSame
<1> QED BY <1>2, <1>3, <1>4, <1>5, <1>6 DEF PortAct

(* What a cancellation does to a port                                      *)
LEMMA CanceledRow ==
  ASSUME NEW row \in PortRows
  PROVE  /\ row.status \notin PortActive => Canceled(row) = row
         /\ row.status \in PortActive => Canceled(row).status # "NONE"
BY DEF PortRows, PortActive, Canceled

(* A swap, or the end of a backfill, goes on only when the ports in scope  *)
(* are done; so it leaves none of them behind.                             *)
LEMMA SwapKeepsStep ==
  ASSUME IInv, SettingsInStep,
         UnpinStep \/ ReindexStep \/ SwapStep \/ SwapFault,
         NEW p \in Pairs, PortInStep(p)
  PROVE  PortInStep(p)'
<1>0. /\ setting \in [Indices -> {"NONE", "PRESENT", "FUTURE", "PAST"}]
      /\ "old" \in Indices /\ "new" \in Indices
      /\ port \in [Pairs -> PortRows] /\ port[p] \in PortRows
  BY DEF IInv, TypeOK, StoreTypeOK, PortTypeOK, Indices
<1>1. CASE UnpinStep
  <2>1. /\ UNCHANGED <<ccStatus, setting, switchover, port, copier>>
        /\ backfill' = FALSE
        /\ InScope(p) => port[p].status \in {"SUCCESS", "CANCELED"}
    BY <1>1 DEF UnpinStep, UnpinSource, dbVars, portVars, BackfillPending
  <2> QED BY <2>1 DEF PortInStep, InScope
<1>2. CASE ReindexStep
  <2>1. /\ UNCHANGED <<ccStatus, port, copier>>
        /\ setting["new"] = "NONE"
        /\ setting'["old"] = setting["old"] /\ setting'["new"] = "FUTURE"
    BY <1>0, <1>2 DEF ReindexStep, StartReindex, dbVars, portVars
  <2>2. setting["old"] # "PAST" /\ port[p] = NoPort
    BY <2>1 DEF SettingsInStep, PortInStep
  <2> QED BY <2>1, <2>2 DEF PortInStep, NoPort
<1>3. CASE BeginSwap
  <2>1. /\ UNCHANGED <<ccStatus, switchover, port, copier>>
        /\ setting'["new"] = setting["new"] /\ setting["new"] = "FUTURE"
    BY <1>0, <1>3 DEF BeginSwap, dbVars, portVars
  <2>2. ~backfill' => switchover # "INSTANT"
    BY <1>3 DEF BeginSwap
  <2>3. ~backfill' /\ InScope(p) => port[p].status = "SUCCESS"
    BY <1>3, <2>2 DEF BeginSwap, PortSwapReady, Required
  <2> QED BY <2>1, <2>3 DEF PortInStep, InScope
<1>4. CASE PromoteNew
  <2>1. /\ UNCHANGED <<ccStatus, switchover, backfill, port, copier>>
        /\ setting'["old"] = setting["old"] /\ setting'["new"] = "PRESENT"
        /\ setting["new"] = "FUTURE"
    BY <1>0, <1>4 DEF PromoteNew, dbVars, portVars, SettingsInStep
  <2> QED BY <2>1 DEF PortInStep, InScope
<1>5. CASE SettleSwap
  <2>1. /\ UNCHANGED <<ccStatus, switchover, backfill, setting, copier>>
        /\ setting["new"] = "PRESENT" /\ setting["old"] = "PAST"
    BY <1>5 DEF SettleSwap, storeVars, dbVars, settingVars, SettingsInStep
  <2>2. CASE port'[p] = port[p]
    BY <2>1, <2>2 DEF PortInStep, InScope
  <2>3. CASE port'[p] # port[p]
    <3>1. switchover # "INSTANT" /\ port'[p] = Canceled(port[p])
      BY <1>5, <2>3 DEF SettleSwap
    <3>2. port[p].status \in PortActive /\ ~backfill
      BY <1>0, <2>3, <3>1, CanceledRow DEF SettingsInStep
    <3>3. port[p].status \notin {"SUCCESS", "CANCELED", "NONE"}
      BY <3>2 DEF PortActive
    <3>4. ccStatus[p] \notin Indexable
      BY <2>1, <3>2, <3>3 DEF PortInStep
    <3>5. port'[p].status # "NONE"
      BY <1>0, <3>1, <3>2, CanceledRow
    <3> QED BY <2>1, <3>4, <3>5 DEF PortInStep
  <2> QED BY <2>2, <2>3
<1>6. CASE CancelReindex
  <2>1. /\ UNCHANGED <<ccStatus, switchover, backfill, copier>>
        /\ setting'["old"] = setting["old"] /\ setting'["new"] = "PAST"
        /\ port'[p] = Canceled(port[p])
    BY <1>0, <1>6 DEF CancelReindex, dbVars
  <2>2. /\ port'[p].status = "NONE" => port'[p] = port[p]
        /\ port[p].status \in {"SUCCESS", "CANCELED", "NONE"} =>
             port'[p] = port[p]
    BY <1>0, <2>1, CanceledRow DEF PortActive
  <2>3. InScope(p)' = InScope(p)
    BY <2>1 DEF InScope
  <2> QED BY <2>1, <2>2, <2>3 DEF PortInStep
<1>7. CASE SwapDies
  BY <1>7 DEF SwapDies, storeVars, dbVars, settingVars, portVars, PortInStep,
              InScope
<1> QED BY <1>1, <1>2, <1>3, <1>4, <1>5, <1>6, <1>7 DEF SwapStep, SwapFault

(* PortInStep is inductive.                                                *)
LEMMA PortsStayInStep ==
  ASSUME IInv, SettingsInStep, [Next]_vars, NEW q \in Pairs, PortInStep(q)
  PROVE  PortInStep(q)'
<1>0. TypeOK /\ PortTypeOK
  BY DEF IInv, TypeOK
<1>1. CASE UnpinStep \/ ReindexStep \/ SwapStep \/ SwapFault
  BY <1>1, SwapKeepsStep
<1>2. CASE SettingsSame
  <2>1. CASE \E p \in Pairs : Delete(p) \/ DeletionStep(p) \/ DeletionFault(p)
    BY <1>2, <2>1, DeletionKeepsStep
  <2>2. ASSUME NEW p \in Pairs, PortBeat(p) \/ PortStep(p) \/ PortFault(p)
        PROVE  PortInStep(q)'
    <3>1. PortAct(p)
      BY <2>2 DEF PortBeat, PortStep, PortReads, PortFault, PortAct
    <3>2. CASE q = p
      BY <1>2, <3>1, <3>2, PortKeepsStep
    <3>3. CASE q # p
      <4>1. port'[q] = port[q] /\ copier'[q] = copier[q] /\ PairsOnlyGo
        BY <1>0, <3>1, <3>3, OtherPairs, PortLeaves DEF NothingGoes
      <4> QED BY <1>2, <4>1, SamePortInStep
    <3> QED BY <3>2, <3>3
  <2>3. CASE \/ SyncBeat
             \/ \E d \in Docs : Edit(d) \/ SyncStep(d) \/ SyncFault(d)
             \/ \E p \in Pairs : \/ KickoffIndexing(p) \/ IndexingStep(p)
                                 \/ PruneBeat(p) \/ PruneStep(p)
                                 \/ PruneFault(p)
             \/ \E c \in cleanup : CleanupStep(c) \/ CleanupFault(c)
             \/ UNCHANGED vars
    <3>1. UNCHANGED <<port, copier, ccStatus>>
      BY <2>3, OthersKeepPorts DEF PortsKept, portVars
    <3>2. PairsOnlyGo
      BY <3>1 DEF PairsOnlyGo
    <3> QED BY <1>2, <3>1, <3>2, SamePortInStep
  <2> QED BY <1>1, <2>1, <2>2, <2>3 DEF Next
<1> QED BY <1>1, <1>2, OthersKeepSettings

-----------------------------------------------------------------------------
(* The copies of what a cc_pair keeps.                                     *)
(* An attempt's bound is no lower than what the cc_pair keeps, and what    *)
(* its cursor has passed is in "new".  One that has nothing more to page   *)
(* has passed everything.                                                  *)
PassedIsCopied(p, d) ==
    /\ port[p].status # "NONE" =>
         d <= port[p].upTo /\ (d <= port[p].cursor => index["new"][d] # None)
    /\ port[p].status = "SUCCESS" \/ copier[p].at = "finish" =>
         d <= port[p].cursor

(* A batch leaves out nothing that its end would pass; and of what it has  *)
(* read, what is neither left nor about to be written is in "new".         *)
BatchIsCopied(p, d) ==
    /\ copier[p].at \in WithBatch =>
         \A e \in copier[p].batch :
           port[p].cursor < d /\ d <= e => d \in copier[p].batch
    /\ copier[p].at \in {"copy", "write"} /\ d \in copier[p].batch =>
         /\ copier[p].pit[d] # None
         /\ \/ d \in copier[p].left
            \/ index["new"][d] # None
            \/ copier[p].at = "write" /\ copier[p].doc = d

CopyInv(p, d) == PassedIsCopied(p, d) /\ BatchIsCopied(p, d)

CopiesKept ==
    \A p \in Pairs, d \in Docs \ repeated : Kept(p, d) => CopyInv(p, d)

(* A row that keeps its cursor and bound, and a task without a batch       *)
LEMMA RowAloneKeepsCopy ==
  ASSUME NEW p \in Pairs, NEW d \in Docs, CopyInv(p, d),
         index["new"][d] # None => index'["new"][d] # None,
         port'[p].cursor = port[p].cursor, port'[p].upTo = port[p].upTo,
         port[p].status # "NONE",
         port'[p].status = "SUCCESS" =>
           port[p].status = "SUCCESS" \/ copier[p].at = "finish",
         copier'[p].at \notin WithBatch \cup {"finish"}
  PROVE  CopyInv(p, d)'
BY DEF CopyInv, PassedIsCopied, BatchIsCopied, WithBatch

(* A row whose cursor and bound stay, and a task that nobody touches       *)
LEMMA SameKeepsCopy ==
  ASSUME NEW p \in Pairs, NEW d \in Docs, CopyInv(p, d),
         index["new"][d] # None => index'["new"][d] # None,
         port'[p].cursor = port[p].cursor, port'[p].upTo = port[p].upTo,
         port'[p].status \in {"NONE", "SUCCESS"} \/
           port[p].status \in {"NONE", "SUCCESS"} =>
             port'[p].status = port[p].status,
         copier'[p] = copier[p]
  PROVE  CopyInv(p, d)'
BY DEF CopyInv, PassedIsCopied, BatchIsCopied, WithBatch

(* A page has everything up to its end.                                    *)
LEMMA PageIsClosed ==
  ASSUME NEW p \in Pairs, NEW d \in Remaining(p), NEW e \in NextPage(p), d <= e
  PROVE  d \in NextPage(p)
<1> DEFINE below(x) == {f \in Remaining(p) : f < x}
<1>1. /\ Remaining(p) \in SUBSET (1..NDocs) /\ NDocs \in Nat
      /\ e \in Remaining(p) /\ Cardinality(below(e)) < PageSize
  BY DocumentStoreAssumption DEF Remaining, LinkedTo, Docs, NextPage
<1>2. below(d) \subseteq below(e)
  BY <1>1
<1>3. IsFiniteSet(below(e))
  <2>1. below(e) \subseteq 1..NDocs /\ IsFiniteSet(1..NDocs)
    BY <1>1, FS_Interval
  <2> QED BY <2>1, FS_Subset
<1>4. /\ Cardinality(below(d)) <= Cardinality(below(e))
      /\ Cardinality(below(d)) \in Nat /\ Cardinality(below(e)) \in Nat
  BY <1>2, <1>3, FS_Subset, FS_CardinalityType
<1>5. Cardinality(below(d)) < PageSize
  BY <1>1, <1>4, ReindexPortAssumption
<1> QED BY <1>5 DEF NextPage

(* What an attempt starts with                                             *)
LEMMA ScheduleKeepsCopy ==
  ASSUME IInv, NEW p \in Pairs, PortInStep(p), NEW d \in Docs, CopyInv(p, d),
         Kept(p, d), <<p, d>> \in links, SchedulePort(p)
  PROVE  CopyInv(p, d)'
<1>0. /\ port \in [Pairs -> PortRows] /\ port[p] \in PortRows
      /\ PairInv(p)
      /\ NDocs \in Nat /\ d \in 1..NDocs
  BY DocumentStoreAssumption DEF IInv, PortInv, TypeOK, PortTypeOK, Docs
<1>1. /\ UNCHANGED <<copier, index>>
      /\ port[p].status \in {"NONE", "FAILED"}
      /\ port'[p].status = "NOT_STARTED" /\ port'[p].cursor = port[p].cursor
      /\ port'[p].upTo = IF port[p].status = "NONE" THEN Snapshot(p)
                         ELSE port[p].upTo
  BY <1>0 DEF SchedulePort, PortRows, storeVars
<1>2. copier[p].at \notin WithBatch \cup {"finish"}
  BY <1>0, <1>1 DEF PairInv, CopierHasPort
<1>3. d <= Snapshot(p)
  <2>1. d \in LinkedTo(p) /\ LinkedTo(p) \in SUBSET Docs
    BY DEF LinkedTo
  <2>2. d <= Max(LinkedTo(p))
    BY <2>1, MaxDocument
  <2> QED BY <2>1, <2>2 DEF Snapshot
<1>4. port[p].status = "NONE" => port[p].cursor = 0
  BY DEF PortInStep, NoPort
<1> QED BY <1>0, <1>1, <1>2, <1>3, <1>4
        DEF CopyInv, PassedIsCopied, BatchIsCopied, WithBatch

(* One task takes its step.                                                *)
LEMMA BatchKeepsCopy ==
  ASSUME IInv, NEW p \in Pairs, PortInStep(p), NEW d \in Docs, CopyInv(p, d),
         Kept(p, d), <<p, d>> \in links, index["old"][d] # None,
         \/ PortPage(p) \/ PortRead(p) \/ PortRetries(p)
         \/ \E x \in Docs : PortCopy(p, x)
         \/ PortWrite(p)
  PROVE  CopyInv(p, d)'
<1> DEFINE c == copier[p]
<1>0. /\ port \in [Pairs -> PortRows] /\ port[p] \in PortRows
      /\ copier \in [Pairs -> CopierStates] /\ c \in CopierStates
      /\ PairInv(p)
      /\ NDocs \in Nat /\ d \in 1..NDocs
  BY DocumentStoreAssumption DEF IInv, PortInv, TypeOK, PortTypeOK, Docs
<1>1. CASE PortPage(p)
  <2>1. /\ port' = port /\ index' = index
        /\ copier'[p].at = (IF Remaining(p) = {} THEN "finish" ELSE "read")
        /\ copier'[p].batch = NextPage(p)
    BY <1>0, <1>1 DEF PortPage, CopierBecomes, CopierStates, storeVars
  <2>2. port[p].status = "IN_PROGRESS" /\ c.cursor = port[p].cursor
    BY <1>0, <1>1 DEF PortPage, PairInv, CopierHasPort, IsPortActive, PortActive
  <2>3. d <= port[p].upTo
    BY <2>2 DEF CopyInv, PassedIsCopied
  <2>4. port[p].cursor < d => d \in Remaining(p)
    BY <2>2, <2>3 DEF Remaining, LinkedTo
  <2>5. Remaining(p) = {} => d <= port[p].cursor
    BY <1>0, <2>4 DEF PortRows
  <2>6. \A e \in NextPage(p) :
          port[p].cursor < d /\ d <= e => d \in NextPage(p)
    BY <2>4, PageIsClosed
  <2> HIDE DEF c
  <2> QED BY <2>1, <2>2, <2>5, <2>6
          DEF CopyInv, PassedIsCopied, BatchIsCopied, WithBatch
<1>2. CASE PortRead(p)
  <2>1. /\ port' = port /\ index' = index
        /\ c.at = "read" /\ copier'[p].at = "copy"
        /\ copier'[p].batch = c.batch /\ copier'[p].left = c.batch
        /\ copier'[p].pit = [x \in Docs |-> IF x \in c.batch
                                            THEN index[c.src][x] ELSE None]
    BY <1>0, <1>2 DEF PortRead, CopierBecomes, CopierStates, storeVars
  <2>2. c.src = "old"
    BY <2>1 DEF PortInStep, Kept
  <2>3. d \in c.batch => copier'[p].pit[d] # None
    BY <2>1, <2>2
  <2> HIDE DEF c
  <2> QED BY <2>1, <2>3
          DEF c, CopyInv, PassedIsCopied, BatchIsCopied, WithBatch
<1>3. CASE PortRetries(p)
  <2>1. /\ port' = port /\ index' = index
        /\ c.at \in WithBatch /\ copier'[p].at = "read"
        /\ copier'[p].batch = c.batch
    BY <1>0, <1>3
       DEF PortRetries, CopierBecomes, CopierStates, storeVars, WithBatch
  <2> HIDE DEF c
  <2> QED BY <2>1 DEF c, CopyInv, PassedIsCopied, BatchIsCopied, WithBatch
<1>4. ASSUME NEW x \in Docs, PortCopy(p, x) PROVE CopyInv(p, d)'
  <2> DEFINE at == IF c.pit[x] # None /\ Survives(p, x)
                   THEN "write" ELSE "copy"
  <2>1. /\ copier' = [copier EXCEPT ![p] =
                        [c EXCEPT !.left = @ \ {x}, !.doc = x, !.at = at]]
        /\ c.at = "copy" /\ x \in c.left
        /\ port' = port /\ index' = index
    BY <1>4 DEF PortCopy, CopierBecomes, storeVars
  <2>2. /\ at \in {"write", "copy"}
        /\ x = d /\ c.pit[d] # None => at = "write"
    BY DEF Survives
  <2> HIDE DEF at
  <2>3. /\ copier'[p].at = at /\ copier'[p].doc = x
        /\ copier'[p].left = c.left \ {x}
        /\ copier'[p].batch = c.batch /\ copier'[p].pit = c.pit
    BY <1>0, <2>1 DEF CopierStates
  <2> HIDE DEF c
  <2> QED BY <2>1, <2>2, <2>3
          DEF c, CopyInv, PassedIsCopied, BatchIsCopied, WithBatch
<1>5. CASE PortWrite(p)
  <2>1. /\ copier' = [copier EXCEPT ![p] = [c EXCEPT !.at = "copy"]]
        /\ c.at = "write" /\ port' = port
        /\ index' = [index EXCEPT !["new"][c.doc] =
                       IF @ = None THEN c.pit[c.doc] ELSE @]
    BY <1>5 DEF PortWrite, CopierBecomes
  <2>2. /\ copier'[p].at = "copy" /\ copier'[p].left = c.left
        /\ copier'[p].batch = c.batch /\ copier'[p].pit = c.pit
    BY <1>0, <2>1 DEF CopierStates
  <2>3. index \in [Indices -> [Docs -> Entries \cup {None}]]
        /\ "new" \in Indices
    BY DEF IInv, TypeOK, StoreTypeOK, Indices
  <2> HIDE DEF c
  <2>4. index["new"][d] # None => index'["new"][d] # None
    BY <2>1, <2>3
  <2>5. c.doc = d /\ c.pit[d] # None => index'["new"][d] # None
    BY <2>1, <2>3
  <2> QED BY <2>1, <2>2, <2>4, <2>5
          DEF c, CopyInv, PassedIsCopied, BatchIsCopied, WithBatch
<1> QED BY <1>1, <1>2, <1>3, <1>4, <1>5

(* The cursor moves to the end of a batch that is copied.                  *)
LEMMA CommitKeepsCopy ==
  ASSUME IInv, NEW p \in Pairs, NEW d \in Docs, CopyInv(p, d), PortCommit(p)
  PROVE  CopyInv(p, d)'
<1> DEFINE c == copier[p]
<1>0. /\ port \in [Pairs -> PortRows] /\ port[p] \in PortRows
      /\ copier \in [Pairs -> CopierStates] /\ c \in CopierStates
      /\ PairInv(p)
      /\ NDocs \in Nat /\ d \in 1..NDocs
  BY DocumentStoreAssumption DEF IInv, PortInv, TypeOK, PortTypeOK, Docs
<1>1. /\ c.at = "copy" /\ c.left = {} /\ port[p].status = "IN_PROGRESS"
      /\ c.batch # {} /\ c.batch \in SUBSET Docs
  BY <1>0
     DEF PortCommit, PairInv, CopierHasPort, BatchIsNext, WithBatch,
         CopierStates
<1>2. Max(c.batch) \in c.batch
  BY <1>1, MaxDocument
<1>3. /\ port' = [port EXCEPT ![p].cursor = Max(c.batch)]
      /\ copier' = [copier EXCEPT ![p] =
                      [c EXCEPT !.at = "top", !.cursor = Max(c.batch),
                                !.doc = 0, !.batch = {}, !.pit = Unread]]
      /\ index' = index
  BY <1>1
     DEF PortCommit, CopierBecomes, IsPortActive, PortActive, storeVars
<1>4. /\ port'[p].status = port[p].status /\ port'[p].upTo = port[p].upTo
      /\ port'[p].cursor = Max(c.batch) /\ copier'[p].at = "top"
  BY <1>0, <1>3 DEF PortRows, CopierStates
<1>5. d <= Max(c.batch) => index["new"][d] # None
  <2>1. CASE d <= port[p].cursor
    BY <1>1, <2>1 DEF CopyInv, PassedIsCopied
  <2>2. CASE port[p].cursor < d /\ d <= Max(c.batch)
    BY <1>1, <1>2, <2>2 DEF CopyInv, BatchIsCopied, WithBatch
  <2>3. d <= port[p].cursor \/ port[p].cursor < d
    BY <1>0 DEF PortRows
  <2> QED BY <2>1, <2>2, <2>3
<1> HIDE DEF c
<1> QED BY <1>1, <1>3, <1>4, <1>5
        DEF CopyInv, PassedIsCopied, BatchIsCopied, WithBatch

(* Every step of a port keeps what it has passed copied.                   *)
LEMMA PortKeepsCopy ==
  ASSUME IInv, NEW p \in Pairs, PortInStep(p), NEW d \in Docs, CopyInv(p, d),
         Kept(p, d), <<p, d>> \in links, index["old"][d] # None, PortAct(p)
  PROVE  CopyInv(p, d)'
<1>0. /\ port \in [Pairs -> PortRows] /\ port[p] \in PortRows
      /\ copier \in [Pairs -> CopierStates] /\ copier[p] \in CopierStates
      /\ PairInv(p) /\ ccStatus[p] \in Indexable
  BY DEF IInv, PortInv, TypeOK, PortTypeOK, Kept
<1>1. CASE \/ EnqueueFails(p) \/ FailStalled(p) \/ PortStart(p) \/ PortStops(p)
           \/ PortYields(p) \/ PortFails(p) \/ PortDies(p) \/ PortFinish(p)
           \/ PortAborts(p)
  <2>1. index' = index
    BY <1>1 DEF EnqueueFails, FailStalled, PortStart, PortStops, PortYields,
                PortFails, PortDies, PortFinish, PortAborts, storeVars
  <2>2. /\ port'[p].cursor = port[p].cursor /\ port'[p].upTo = port[p].upTo
        /\ port'[p].status = "SUCCESS" =>
             port[p].status = "SUCCESS" \/ copier[p].at = "finish"
    BY <1>0, <1>1
       DEF EnqueueFails, FailStalled, PortStart, PortStops, PortYields,
           PortFails, PortDies, PortFinish, PortAborts, Terminal, PortRows
  <2>3. copier'[p].at \notin WithBatch \cup {"finish"}
    <3>1. CASE EnqueueFails(p) \/ FailStalled(p)
      BY <3>1 DEF EnqueueFails, FailStalled, WithBatch
    <3>2. CASE PortStart(p)
      BY <1>0, <3>2 DEF PortStart, CopierBecomes, CopierIdle, CopierStates,
                        WithBatch
    <3>4. CASE PortAborts(p)
      BY <1>0, <3>4 DEF PortAborts, CopierBecomes, CopierIdle, CopierStates,
                        WithBatch
    <3>3. CASE \/ PortStops(p) \/ PortYields(p) \/ PortFails(p)
               \/ PortDies(p) \/ PortFinish(p)
      BY <1>0, <3>3 DEF PortStops, PortYields, PortFails, PortDies, PortFinish,
                        CopierStops, CopierBecomes, CopierIdle, WithBatch
    <3> QED BY <1>1, <3>1, <3>2, <3>3, <3>4
  <2>4. port[p].status # "NONE"
    <3>1. CASE EnqueueFails(p) \/ FailStalled(p) \/ PortStart(p)
      BY <3>1 DEF EnqueueFails, FailStalled, PortStart
    <3>2. CASE copier[p].at # "idle"
      BY <1>0, <3>2 DEF PairInv, CopierHasPort, CopierStates, CopierPlaces,
                        WithBatch, Indexable
    <3> QED BY <1>1, <3>1, <3>2
            DEF PortStops, PortYields, PortFails, PortDies, PortFinish,
                PortAborts
  <2> QED BY <2>1, <2>2, <2>3, <2>4, RowAloneKeepsCopy
<1> QED BY <1>1, ScheduleKeepsCopy, BatchKeepsCopy, CommitKeepsCopy DEF PortAct


(* CopiesKept is inductive: what is not a step of the cc_pair's own port   *)
(* leaves its cursor alone, and takes away no copy of what it keeps.       *)
LEMMA CopiesStayKept ==
  ASSUME IInv, TasksAreFresh, DocumentsKept, CopiesKept,
         \A p \in Pairs : PortInStep(p), [Next]_vars
  PROVE  CopiesKept'
<1> SUFFICES ASSUME NEW p \in Pairs, NEW d \in Docs, d \notin repeated',
                    Kept(p, d)'
             PROVE  CopyInv(p, d)'
  BY DEF CopiesKept
<1>1. /\ Kept(p, d) /\ CopyInv(p, d) /\ PortInStep(p)
      /\ index["new"][d] # None => index'["new"][d] # None
      /\ <<p, d>> \in links /\ index["old"][d] # None
  BY KeptChunksStay DEF CopiesKept, DocumentsKept
<1>2. /\ PortTypeOK /\ TypeOK /\ port[p] \in PortRows
      /\ ccStatus'[p] \in Indexable
  BY DEF IInv, TypeOK, PortTypeOK, Kept
<1>3. CASE PortsKept
  BY <1>1, <1>3, SameKeepsCopy DEF PortsKept, portVars
<1>4. CASE CancelEvery \/ \E q \in Pairs : CancelOne(q)
  <2>1. /\ copier' = copier
        /\ port'[p] \in {port[p], Canceled(port[p])}
    BY <1>2, <1>4 DEF CancelEvery, CancelOne, PortTypeOK
  <2>2. /\ port'[p].cursor = port[p].cursor /\ port'[p].upTo = port[p].upTo
        /\ port'[p].status \in {"NONE", "SUCCESS"} \/
             port[p].status \in {"NONE", "SUCCESS"} =>
               port'[p].status = port[p].status
    BY <1>2, <2>1, CanceledKeepsRow
  <2> QED BY <1>1, <2>1, <2>2, SameKeepsCopy
<1>5. ASSUME NEW q \in Pairs, PortAct(q) PROVE CopyInv(p, d)'
  <2>1. CASE q = p
    BY <1>1, <1>5, <2>1, PortKeepsCopy
  <2>2. CASE q # p
    BY <1>1, <1>2, <1>5, <2>2, OtherPairs, SameKeepsCopy
  <2> QED BY <2>1, <2>2
<1>6. ASSUME NEW q \in Pairs, FinishDeletion(q) PROVE CopyInv(p, d)'
  <2>1. q # p
    BY <1>2, <1>6 DEF FinishDeletion, Indexable, TypeOK, StoreTypeOK
  <2>2. port'[p] = port[p] /\ copier' = copier
    BY <1>2, <1>6, <2>1 DEF FinishDeletion, PortTypeOK
  <2> QED BY <1>1, <2>2, SameKeepsCopy
<1> QED BY <1>2, <1>3, <1>4, <1>5, <1>6, EveryStepChangesPorts DEF PortChange

-----------------------------------------------------------------------------
(* The theorems                                                            *)
KeptInv ==
    /\ IInv
    /\ TasksAreFresh
    /\ DocumentsKept
    /\ SettingsInStep
    /\ \A p \in Pairs : PortInStep(p)
    /\ CopiesKept

(* Before the first step everything is linked, and nobody is at work.      *)
LEMMA InitKeptInv == Init => KeptInv
<1> SUFFICES ASSUME Init PROVE KeptInv
  OBVIOUS
<1>1. TasksAreFresh
  BY DEF Init, CleanupInit, SyncInit, SyncIdle, TasksAreFresh, CleanupIsFresh,
         SyncersHaveRead
<1>2. DocumentsKept
  <2> SUFFICES ASSUME NEW p \in Pairs, NEW d \in Docs, Kept(p, d)
               PROVE  <<p, d>> \in links /\ d \in rows /\ index["old"][d] # None
    BY DEF Init, CleanupInit, DocumentsKept
  <2>1. <<p, d>> \in links /\ d \in rows
    BY DEF Init, StoreInit, Kept
  <2>2. Holders(d) # {} /\ Holders(d) \in SUBSET Pairs
    BY <2>1 DEF Holders
  <2>3. index["old"][d] = [access |-> Holders(d), edits |-> 0]
    BY <2>2 DEF Init, StoreInit, Indices
  <2>4. index["old"][d] \in Entries
    BY <2>2, <2>3 DEF Entries
  <2> QED BY <2>1, <2>4, DocumentStoreAssumption
<1>3. SettingsInStep
  BY DEF Init, StoreInit, SwapInit, SettingsInStep, Indices
<1>4. ASSUME NEW p \in Pairs PROVE PortInStep(p)
  <2>1. port[p] = NoPort /\ copier[p] = CopierIdle
    BY DEF Init, PortInit
  <2>2. setting["old"] = "PRESENT"
    BY DEF Init, StoreInit, Indices
  <2> QED BY <2>1, <2>2 DEF PortInStep, NoPort, CopierIdle
<1>5. ASSUME NEW p \in Pairs, NEW d \in Docs PROVE CopyInv(p, d)
  <2>1. port[p] = NoPort /\ copier[p] = CopierIdle
    BY DEF Init, PortInit
  <2> QED BY <2>1 DEF CopyInv, PassedIsCopied, BatchIsCopied, NoPort,
                      CopierIdle, WithBatch
<1> QED BY InitIInv, <1>1, <1>2, <1>3, <1>4, <1>5 DEF KeptInv, CopiesKept

(* All of it is inductive together.                                        *)
LEMMA KeptInvStep ==
  ASSUME KeptInv, [Next]_vars
  PROVE  KeptInv'
<1>1. IInv'
  <2>1. BatchesInHand
    BY DEF KeptInv, IInv, PortInv, PairInv, BatchIsNext, BatchesInHand,
           WithBatch
  <2> QED BY <2>1, TypeStep, PortInvStep, FenceStep DEF KeptInv, IInv
<1>2. TasksAreFresh' /\ DocumentsKept'
  BY TasksStayFresh, DocumentsStayKept DEF KeptInv
<1>3. SettingsInStep'
  BY SettingsStep DEF KeptInv, IInv
<1>4. \A p \in Pairs : PortInStep(p)'
  BY PortsStayInStep DEF KeptInv
<1>5. CopiesKept'
  BY CopiesStayKept DEF KeptInv
<1> QED BY <1>1, <1>2, <1>3, <1>4, <1>5 DEF KeptInv

(* The inductive invariant                                                 *)
THEOREM KeptInvariance == Spec => []KeptInv
<1>1. KeptInv /\ [Next]_vars => KeptInv'
  BY KeptInvStep
<1> QED BY InitKeptInv, <1>1, PTL DEF Spec

(* For any number of cc_pairs and documents: whatever a cc_pair keeps has  *)
(* its link, its row and its chunks, whichever deletions of other cc_pairs *)
(* fail, are repeated, give up or race each other for the last link        *)
(* (document_by_cc_pair_cleanup_task, get_document_connector_count).       *)
THEOREM SharedSurvives == Spec => []SharedDocumentSurvives
<1>1. KeptInv => SharedDocumentSurvives
  BY DEF KeptInv, DocumentsKept, SharedDocumentSurvives
<1> QED BY KeptInvariance, <1>1, PTL

(* And whatever the cursor of its port has passed is in the "new" index,   *)
(* with any page size, wherever the task died, yielded or was resumed      *)
(* (run_port_attempt).                                                     *)
THEOREM CopiedOncePassed == Spec => []PortedMeansCopied
<1>1. KeptInv => PortedMeansCopied
  BY DEF KeptInv, CopiesKept, CopyInv, PassedIsCopied, PortedMeansCopied
<1> QED BY KeptInvariance, <1>1, PTL

(* And once "new" serves the searches and no backfill goes on, it has all  *)
(* that the cc_pairs in scope keep: no switchover, and no end of a         *)
(* backfill, leaves a document behind (_port_swap_ready,                   *)
(* port_backfill_has_pending_work).                                        *)
THEOREM SwitchoverWaits == Spec => []BacklogServed
<1>1. KeptInv => BacklogServed
  <2> SUFFICES ASSUME KeptInv, setting["new"] = "PRESENT", ~backfill,
                      NEW p \in Pairs, NEW d \in Docs \ repeated, Kept(p, d),
                      InScope(p)
               PROVE  index["new"][d] # None
    BY DEF BacklogServed
  <2>1. /\ setting["old"] = "PAST" /\ PortInStep(p) /\ CopyInv(p, d)
        /\ ccStatus[p] \in Indexable
    BY DEF KeptInv, SettingsInStep, CopiesKept, Kept
  <2>2. port[p].status = "SUCCESS"
    BY <2>1 DEF PortInStep
  <2> QED BY <2>1, <2>2 DEF CopyInv, PassedIsCopied
<1> QED BY KeptInvariance, <1>1, PTL
=============================================================================
