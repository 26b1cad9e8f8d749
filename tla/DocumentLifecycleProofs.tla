---------------------- MODULE DocumentLifecycleProofs ----------------------
(***************************************************************************)
(* Proofs about DocumentLifecycle: its types, that the rows of its ports   *)
(* keep the contract of PortContract, and that a deletion cleans up only   *)
(* what nobody writes any more.                                            *)
(*                                                                         *)
(* The argument.  A task that has a batch in hand runs an attempt that is  *)
(* IN_PROGRESS and has not moved on without it: whatever ends an attempt   *)
(* either is that task, or finds the task gone, or only asks it to stop    *)
(* (CopierHasPort).  So a commit moves a cursor forward, and only while    *)
(* its attempt runs, which is the contract; and a deletion that sees no    *)
(* active attempt sees no task with a batch either.  From there until its  *)
(* counted tasks are done the cc_pair is DELETING, which stops the port at *)
(* the top of its loop (FenceHolds).  Nothing of the kind is true of an    *)
(* index attempt: its tasks outlive it.                                    *)
(***************************************************************************)
EXTENDS DocumentProperties, GreatestNumber, FiniteSetTheorems, TLAPS

-----------------------------------------------------------------------------
(* Types.  Each group of jobs writes its own variables and some of         *)
(* DocumentStore, so that for each action only the types of what it writes *)
(* are proved, and the rest is unchanged.                                  *)

(* What the operators of the actions return.                               *)
LEMMA MetadataType ==
  ASSUME StoreTypeOK, NEW d \in Docs
  PROVE  Metadata(d) \in Entries
BY DEF StoreTypeOK, Metadata, Entries, Access, Holders

LEMMA MaxDocument ==
  ASSUME NEW S \in SUBSET Docs, S # {}
  PROVE  Max(S) \in S /\ \A d \in S : d <= Max(S)
<1>1. NDocs \in Nat /\ S \in SUBSET (1..NDocs)
  BY DocumentStoreAssumption DEF Docs
<1>2. \E e \in S : \A f \in S : f <= e
  BY <1>1, GreatestUpTo
<1>3. \E e \in S : \A f \in S : e >= f
  BY <1>1, <1>2
<1> QED BY <1>1, <1>3 DEF Max

LEMMA SnapshotType ==
  ASSUME NEW p \in Pairs
  PROVE  Snapshot(p) \in 0..NDocs
<1>1. LinkedTo(p) \in SUBSET Docs /\ NDocs \in Nat
  BY DocumentStoreAssumption DEF LinkedTo
<1>2. LinkedTo(p) # {} => Max(LinkedTo(p)) \in Docs
  BY <1>1, MaxDocument
<1> QED BY <1>1, <1>2 DEF Snapshot, Docs

LEMMA DeleteFromType ==
  ASSUME StoreTypeOK, NEW into, NEW d \in Docs, DeleteFrom(into, d)
  PROVE  index' \in [Indices -> [Docs -> Entries \cup {None}]]
BY DEF StoreTypeOK, DeleteFrom

LEMMA UpdateInType ==
  ASSUME StoreTypeOK, NEW into, NEW d \in Docs,
         NEW meta \in Entries \cup {None}, UpdateIn(into, d, meta)
  PROVE  index' \in [Indices -> [Docs -> Entries \cup {None}]]
BY DEF StoreTypeOK, UpdateIn

LEMMA StoreSame ==
  ASSUME StoreTypeOK, UNCHANGED storeVars
  PROVE  StoreTypeOK'
BY DEF StoreTypeOK, storeVars, dbVars, settingVars

LEMMA IdleTypes ==
  /\ CopierIdle \in CopierStates
  /\ SyncIdle \in SyncStates
  /\ IndexerIdle \in IndexerStates
  /\ NoPort \in PortRows
BY DocumentStoreAssumption
   DEF CopierIdle, CopierStates, CopierPlaces, Unread, Indices, SyncIdle,
       SyncStates, SyncPlaces, IndexerIdle, IndexerStates, IndexStatuses,
       NoPort, PortRows

-----------------------------------------------------------------------------
(* Init                                                                    *)
LEMMA InitTypes == Init => TypeOK
<1> SUFFICES ASSUME Init PROVE TypeOK
  OBVIOUS
<1>1. StoreTypeOK
  <2> USE DEF Init, StoreInit, StoreTypeOK
  <2>1. /\ ccStatus \in [Pairs -> PairStates]
        /\ links \subseteq Pairs \X Docs
        /\ rows \subseteq Docs
        /\ stale \subseteq Docs
        /\ deferred \subseteq Docs
        /\ switchover \in IndexModes
        /\ backfill \in BOOLEAN
    BY DocumentStoreAssumption DEF PairStates, IndexModes
  <2>2. edits \in [Docs -> Nat]
    OBVIOUS
  <2>3. setting \in [Indices -> {"NONE", "PRESENT", "FUTURE", "PAST"}]
    OBVIOUS
  <2>4. index \in [Indices -> [Docs -> Entries \cup {None}]]
    <3>1. \A d \in Docs : [access |-> Holders(d), edits |-> 0] \in Entries
      BY DEF Entries, Holders
    <3> QED BY <3>1
  <2> QED BY <2>1, <2>2, <2>3, <2>4
<1>2. PortTypeOK /\ SyncTypeOK /\ IndexerTypeOK
  BY IdleTypes DEF Init, PortInit, PortTypeOK, SyncInit, SyncTypeOK,
                   IndexerInit, IndexerTypeOK, IndexerIdle
<1> QED BY <1>1, <1>2, FS_EmptySet
        DEF Init, TypeOK, SwapInit, SwapTypeOK, CleanupInit, CleanupTypeOK,
            PruneInit, PruneTypeOK, PrunePlaces, DeletionInit,
            DeletionTypeOK, FencePlaces

-----------------------------------------------------------------------------
(* The reindex port                                                        *)
LEMMA TerminalType ==
  ASSUME PortTypeOK, NEW p \in Pairs, NEW status \in PortTerminal,
         Terminal(p, status)
  PROVE  port' \in [Pairs -> PortRows]
BY DEF PortTypeOK, PortRows, Terminal

LEMMA CanceledType ==
  ASSUME NEW row \in PortRows
  PROVE  Canceled(row) \in PortRows
BY DEF PortRows, PortActive, PortTerminal, Canceled

LEMMA CopierType ==
  ASSUME PortTypeOK, NEW p \in Pairs, NEW c \in CopierStates,
         CopierBecomes(p, c)
  PROVE  copier' \in [Pairs -> CopierStates]
BY DEF PortTypeOK, CopierBecomes

LEMMA CopierStopsType ==
  ASSUME PortTypeOK, NEW p \in Pairs, CopierStops(p)
  PROVE  copier' \in [Pairs -> CopierStates]
BY IdleTypes, CopierType DEF CopierStops

LEMMA PortRowSteps ==
  ASSUME StoreTypeOK, PortTypeOK, NEW p \in Pairs,
         SchedulePort(p) \/ EnqueueFails(p) \/ FailStalled(p)
  PROVE  StoreTypeOK' /\ PortTypeOK'
<1>1. CASE SchedulePort(p)
  <2>1. port' \in [Pairs -> PortRows]
    <3>1. Snapshot(p) \in 0..NDocs /\ port[p].upTo \in 0..NDocs
                                   /\ port[p].cursor \in 0..NDocs
      BY SnapshotType DEF PortTypeOK, PortRows
    <3>2. port \in [Pairs -> PortRows]
      BY DEF PortTypeOK
    <3> QED BY <1>1, <3>1, <3>2 DEF SchedulePort, PortRows, PortActive
  <2> QED BY <1>1, <2>1, StoreSame DEF SchedulePort, PortTypeOK
<1>2. CASE EnqueueFails(p)
  BY <1>2, TerminalType, StoreSame
     DEF EnqueueFails, PortTypeOK, PortTerminal
<1>3. CASE FailStalled(p)
  BY <1>3, TerminalType, StoreSame DEF FailStalled, PortTypeOK, PortTerminal
<1> QED BY <1>1, <1>2, <1>3

LEMMA PortStartTypes ==
  ASSUME StoreTypeOK, PortTypeOK, NEW p \in Pairs, PortStart(p)
  PROVE  StoreTypeOK' /\ PortTypeOK'
<1>1. port' \in [Pairs -> PortRows]
  BY DEF PortStart, PortTypeOK, PortRows, PortActive
<1>2. copier' \in [Pairs -> CopierStates]
  <2>1. ~backfill => Primary \in Indices
    BY DEF PortStart, HasPrimary, Primary
  <2>2. port[p].cursor \in 0..NDocs /\ "old" \in Indices
    BY DEF PortTypeOK, PortRows, Indices
  <2>3. copier \in [Pairs -> CopierStates] /\ CopierIdle \in CopierStates
    BY IdleTypes DEF PortTypeOK
  <2> DEFINE c == [CopierIdle EXCEPT
                     !.at = "top", !.cursor = port[p].cursor,
                     !.src = IF backfill THEN "old" ELSE Primary]
  <2>4. c \in CopierStates
    BY <2>1, <2>2, <2>3 DEF CopierStates, CopierPlaces
  <2>5. CopierBecomes(p, c)
    BY DEF PortStart
  <2> HIDE DEF c
  <2> QED BY <2>4, <2>5, CopierType
<1> QED BY <1>1, <1>2, StoreSame DEF PortStart, PortTypeOK

LEMMA PortEnds ==
  ASSUME StoreTypeOK, PortTypeOK, NEW p \in Pairs,
         PortStops(p) \/ PortYields(p) \/ PortFinish(p) \/ PortFails(p)
           \/ PortDies(p)
  PROVE  StoreTypeOK' /\ PortTypeOK'
<1>1. copier' \in [Pairs -> CopierStates]
  BY CopierStopsType DEF PortStops, PortYields, PortFinish, PortFails, PortDies
<1>2. port' \in [Pairs -> PortRows]
  BY TerminalType DEF PortStops, PortYields, PortFinish, PortFails, PortDies,
                      PortTerminal, PortTypeOK
<1> QED BY <1>1, <1>2, StoreSame
        DEF PortStops, PortYields, PortFinish, PortFails, PortDies, PortTypeOK

LEMMA PortBatchTypes ==
  ASSUME StoreTypeOK, PortTypeOK, NEW p \in Pairs,
         PortPage(p) \/ PortRead(p) \/ PortAborts(p) \/ PortRetries(p)
           \/ \E d \in Docs : PortCopy(p, d)
  PROVE  StoreTypeOK' /\ PortTypeOK'
<1>1. StoreTypeOK'
  BY StoreSame DEF PortPage, PortRead, PortAborts, PortRetries, PortCopy
<1>2. port' \in [Pairs -> PortRows]
  BY DEF PortPage, PortRead, PortAborts, PortRetries, PortCopy, PortTypeOK
<1>3. copier[p] \in CopierStates
  BY DEF PortTypeOK
<1>4. SUFFICES \E c \in CopierStates : CopierBecomes(p, c)
  BY <1>1, <1>2, CopierType DEF PortTypeOK
<1>5. CASE PortPage(p)
  <2>1. NextPage(p) \in SUBSET Docs
    BY DEF NextPage, Remaining, LinkedTo
  <2>2. [copier[p] EXCEPT
           !.at = IF Remaining(p) = {} THEN "finish" ELSE "read",
           !.batch = NextPage(p)] \in CopierStates
    BY <1>3, <2>1 DEF CopierStates, CopierPlaces
  <2> QED BY <1>5, <2>2 DEF PortPage
<1>6. CASE PortRead(p)
  <2> DEFINE pit == [d \in Docs |-> IF d \in copier[p].batch
                                   THEN index[copier[p].src][d] ELSE None]
  <2>1. pit \in [Docs -> Entries \cup {None}]
    BY <1>3 DEF StoreTypeOK, CopierStates
  <2>2. CopierBecomes(p, [copier[p] EXCEPT !.at = "copy",
                            !.left = copier[p].batch, !.pit = pit])
    BY <1>6 DEF PortRead
  <2> HIDE DEF pit
  <2>3. [copier[p] EXCEPT !.at = "copy", !.left = copier[p].batch,
                          !.pit = pit] \in CopierStates
    BY <1>3, <2>1 DEF CopierStates, CopierPlaces
  <2> QED BY <2>2, <2>3
<1>7. CASE PortAborts(p)
  <2>1. [copier[p] EXCEPT !.at = "top", !.batch = {}, !.left = {},
                          !.pit = Unread] \in CopierStates
    BY <1>3 DEF CopierStates, CopierPlaces, Unread
  <2> QED BY <1>7, <2>1 DEF PortAborts
<1>8. CASE PortRetries(p)
  <2>1. [copier[p] EXCEPT !.at = "read", !.left = {}, !.doc = 0,
                          !.pit = Unread] \in CopierStates
    <3>1. 0 \in 0..NDocs /\ Unread \in [Docs -> Entries \cup {None}]
      BY DocumentStoreAssumption DEF Unread
    <3> QED BY <1>3, <3>1 DEF CopierStates, CopierPlaces
  <2> QED BY <1>8, <2>1 DEF PortRetries
<1>9. CASE \E d \in Docs : PortCopy(p, d)
  <2>1. PICK d \in Docs : PortCopy(p, d)
    BY <1>9
  <2>2. d \in 0..NDocs
    BY DocumentStoreAssumption DEF Docs
  <2>3. [copier[p] EXCEPT
           !.left = @ \ {d}, !.doc = d,
           !.at = IF copier[p].pit[d] # None /\ Survives(p, d)
                  THEN "write" ELSE "copy"] \in CopierStates
    BY <1>3, <2>2 DEF CopierStates, CopierPlaces
  <2> QED BY <2>1, <2>3 DEF PortCopy
<1> QED BY <1>5, <1>6, <1>7, <1>8, <1>9

LEMMA PortWriteTypes ==
  ASSUME StoreTypeOK, PortTypeOK, NEW p \in Pairs, PortWrite(p)
  PROVE  StoreTypeOK' /\ PortTypeOK'
<1>1. copier[p] \in CopierStates
  BY DEF PortTypeOK
<1>2. index' \in [Indices -> [Docs -> Entries \cup {None}]]
  <2>1. copier[p].pit \in [Docs -> Entries \cup {None}]
    BY <1>1 DEF CopierStates
  <2> DEFINE d == copier[p].doc
             entries == [index["new"] EXCEPT ![d] =
                           IF @ = None THEN copier[p].pit[d] ELSE @]
  <2>2. "new" \in Indices /\ index \in [Indices -> [Docs -> Entries \cup {None}]]
    BY DEF Indices, StoreTypeOK
  <2>3. entries \in [Docs -> Entries \cup {None}]
    BY <2>1, <2>2
  <2>4. index' = [index EXCEPT !["new"] = entries]
    BY DEF PortWrite
  <2> HIDE DEF entries
  <2> QED BY <2>2, <2>3, <2>4
<1>3. [copier[p] EXCEPT !.at = "copy"] \in CopierStates
  BY <1>1 DEF CopierStates, CopierPlaces
<1>4. copier' \in [Pairs -> CopierStates]
  BY <1>3, CopierType DEF PortWrite
<1> QED BY <1>2, <1>4
        DEF PortWrite, StoreTypeOK, PortTypeOK, dbVars, settingVars

(* A batch in hand is never empty, so that its last document is one.       *)
BatchesInHand ==
    \A p \in Pairs : copier[p].at \in {"read", "copy", "write"}
                       => copier[p].batch # {}

LEMMA PortCommitTypes ==
  ASSUME StoreTypeOK, PortTypeOK, BatchesInHand, NEW p \in Pairs, PortCommit(p)
  PROVE  StoreTypeOK' /\ PortTypeOK'
<1>1. /\ copier[p] \in CopierStates
      /\ port \in [Pairs -> PortRows]
      /\ StoreTypeOK'
  BY StoreSame DEF PortTypeOK, PortCommit
<1> DEFINE last == Max(copier[p].batch)
<1>2. last \in 0..NDocs /\ 0 \in 0..NDocs
  <2>1. copier[p].batch \in SUBSET Docs /\ copier[p].batch # {}
    BY <1>1 DEF BatchesInHand, PortCommit, CopierStates
  <2>2. last \in Docs
    BY <2>1, MaxDocument
  <2> QED BY <2>2, DocumentStoreAssumption DEF Docs
<1>3. CASE IsPortActive(p)
  <2>1. /\ port' = [port EXCEPT ![p].cursor = last]
        /\ CopierBecomes(p, [copier[p] EXCEPT
                               !.at = "top", !.cursor = last, !.doc = 0,
                               !.batch = {}, !.pit = Unread])
    BY <1>3 DEF PortCommit
  <2> HIDE DEF last
  <2>2. port' \in [Pairs -> PortRows]
    BY <1>1, <1>2, <2>1 DEF PortRows
  <2>3. [copier[p] EXCEPT !.at = "top", !.cursor = last, !.doc = 0,
                          !.batch = {}, !.pit = Unread] \in CopierStates
    BY <1>1, <1>2 DEF CopierStates, CopierPlaces, Unread
  <2> QED BY <1>1, <2>1, <2>2, <2>3, CopierType DEF PortTypeOK
<1>4. CASE ~IsPortActive(p)
  BY <1>1, <1>4, CopierStopsType DEF PortCommit, PortTypeOK
<1> QED BY <1>3, <1>4

-----------------------------------------------------------------------------
(* Metadata sync and switchover                                            *)
LEMMA UnpinTypes ==
  ASSUME StoreTypeOK, PortTypeOK, UnpinSource
  PROVE  StoreTypeOK' /\ PortTypeOK'
BY DEF UnpinSource, StoreTypeOK, PortTypeOK, dbVars, portVars

LEMMA EditTypes ==
  ASSUME StoreTypeOK, SyncTypeOK, NEW d \in Docs, EditMetadata(d)
  PROVE  StoreTypeOK' /\ SyncTypeOK'
BY DEF EditMetadata, StoreTypeOK, SyncTypeOK, settingVars

LEMMA GenerateSyncTypes ==
  ASSUME StoreTypeOK, SyncTypeOK, GenerateSyncTasks
  PROVE  StoreTypeOK' /\ SyncTypeOK'
<1>1. [SyncIdle EXCEPT !.at = "queued"] \in SyncStates
  BY IdleTypes DEF SyncStates, SyncPlaces
<1>2. StoreTypeOK'
  BY StoreSame DEF GenerateSyncTasks
<1> QED BY <1>1, <1>2, IdleTypes DEF GenerateSyncTasks, SyncTypeOK

LEMMA SyncTypes ==
  ASSUME StoreTypeOK, SyncTypeOK, NEW d \in Docs,
         \/ SyncRead(d) \/ SyncMark(d)
         \/ \E i \in Indices : SyncIndex(d, i)
         \/ \E at \in {"queued", "idle"} : SyncFails(d, at)
  PROVE  StoreTypeOK' /\ SyncTypeOK'
<1>0. syncer[d] \in SyncStates /\ SyncIdle \in SyncStates
  BY IdleTypes DEF SyncTypeOK
<1>1. CASE SyncRead(d)
  <2>1. /\ Metadata(d) \in Entries
        /\ ActiveIndices \in SUBSET Indices
        /\ Filling \in SUBSET Indices
    BY MetadataType DEF ActiveIndices, Filling
  <2> DEFINE read == [at |-> "index", todo |-> ActiveIndices,
                      filling |-> Filling, meta |-> Metadata(d),
                      missing |-> FALSE]
  <2>2. read \in SyncStates
    BY <2>1 DEF SyncStates, SyncPlaces
  <2>3. syncer' = [syncer EXCEPT ![d] = IF d \in rows THEN read ELSE SyncIdle]
    BY <1>1 DEF SyncRead
  <2> HIDE DEF read
  <2> QED BY <1>0, <1>1, <2>2, <2>3, StoreSame DEF SyncRead, SyncTypeOK
<1>2. CASE SyncMark(d)
  BY <1>0, <1>2
     DEF SyncMark, StoreTypeOK, SyncTypeOK, MarkSynced, settingVars
<1>3. CASE \E i \in Indices : SyncIndex(d, i)
  <2>1. PICK i \in Indices : SyncIndex(d, i)
    BY <1>3
  <2>2. syncer[d].meta \in Entries \cup {None}
    BY <1>0 DEF SyncStates
  <2>3. index' \in [Indices -> [Docs -> Entries \cup {None}]]
    BY <2>1, <2>2, UpdateInType DEF SyncIndex
  <2>4. syncer' \in [Docs -> SyncStates]
    <3> DEFINE missing == index[i][d] = None /\ i \in syncer[d].filling
               todo == IF missing THEN {} ELSE syncer[d].todo \ {i}
               s == [syncer[d] EXCEPT
                       !.todo = todo,
                       !.at = IF todo = {} THEN "mark" ELSE "index",
                       !.missing = missing]
    <3>1. todo \in SUBSET Indices /\ missing \in BOOLEAN
      BY <1>0 DEF SyncStates
    <3>2. syncer' = [syncer EXCEPT ![d] = s]
      BY <2>1 DEF SyncIndex
    <3> HIDE DEF missing, todo
    <3>3. s \in SyncStates
      BY <1>0, <3>1 DEF SyncStates, SyncPlaces
    <3> HIDE DEF s
    <3> QED BY <3>2, <3>3 DEF SyncTypeOK
  <2> QED BY <2>1, <2>3, <2>4
          DEF SyncIndex, StoreTypeOK, SyncTypeOK, dbVars, settingVars
<1>4. CASE \E at \in {"queued", "idle"} : SyncFails(d, at)
  <2>1. PICK at \in {"queued", "idle"} : SyncFails(d, at)
    BY <1>4
  <2>2. [SyncIdle EXCEPT !.at = at] \in SyncStates
    BY <1>0 DEF SyncStates, SyncPlaces
  <2> QED BY <2>1, <2>2, StoreSame DEF SyncFails, SyncTypeOK
<1> QED BY <1>1, <1>2, <1>3, <1>4

LEMMA AllCanceledType ==
  ASSUME PortTypeOK, port' = [p \in Pairs |-> Canceled(port[p])]
  PROVE  port' \in [Pairs -> PortRows]
<1>1. \A p \in Pairs : Canceled(port[p]) \in PortRows
  BY CanceledType DEF PortTypeOK
<1> QED BY <1>1

LEMMA SwapTypes ==
  ASSUME StoreTypeOK, PortTypeOK, SwapTypeOK,
         \/ \E mode \in Modes : StartReindex(mode)
         \/ CancelReindex \/ BeginSwap \/ PromoteNew \/ SettleSwap \/ SwapDies
  PROVE  StoreTypeOK' /\ PortTypeOK' /\ SwapTypeOK'
<1> USE DEF SwapTypeOK
<1>1. CASE \E mode \in Modes : StartReindex(mode)
  BY <1>1, DocumentStoreAssumption
     DEF StartReindex, StoreTypeOK, PortTypeOK, dbVars, portVars
<1>2. CASE CancelReindex
  BY <1>2, AllCanceledType DEF CancelReindex, StoreTypeOK, PortTypeOK, dbVars
<1>3. CASE BeginSwap
  BY <1>3 DEF BeginSwap, StoreTypeOK, PortTypeOK, dbVars, portVars
<1>4. CASE PromoteNew
  BY <1>4 DEF PromoteNew, StoreTypeOK, PortTypeOK, dbVars, portVars
<1>5. CASE SettleSwap
  <2>1. port' \in [Pairs -> PortRows]
    BY <1>5, AllCanceledType DEF SettleSwap, PortTypeOK
  <2> QED BY <1>5, <2>1, StoreSame DEF SettleSwap, PortTypeOK
<1>6. CASE SwapDies
  BY <1>6, StoreSame DEF SwapDies, PortTypeOK, portVars
<1> QED BY <1>1, <1>2, <1>3, <1>4, <1>5, <1>6

-----------------------------------------------------------------------------
(* Index attempts                                                          *)
IndexerChange(p) ==
    \E r \in IndexerStates :
       (r.at # "idle" => r.doc # 0) /\ indexer' = [indexer EXCEPT ![p] = r]

LEMMA IndexerChangeType ==
  ASSUME IndexerTypeOK, NEW p \in Pairs, IndexerChange(p)
  PROVE  IndexerTypeOK'
BY DEF IndexerTypeOK, IndexerChange

LEMMA AttemptChange ==
  ASSUME IndexerTypeOK, NEW p \in Pairs, NEW status \in IndexStatuses,
         AttemptBecomes(p, status)
  PROVE  IndexerTypeOK'
<1> DEFINE r == [indexer[p] EXCEPT !.status = status]
<1>1. /\ indexer[p] \in IndexerStates
      /\ indexer[p].at # "idle" => indexer[p].doc # 0
  BY DEF IndexerTypeOK
<1>2. r \in IndexerStates /\ (r.at # "idle" => r.doc # 0)
  BY <1>1 DEF IndexerStates
<1>3. indexer' = [indexer EXCEPT ![p] = r]
  BY DEF AttemptBecomes
<1> HIDE DEF r
<1> QED BY <1>2, <1>3, IndexerChangeType DEF IndexerChange

LEMMA TaskChange ==
  ASSUME IndexerTypeOK, NEW p \in Pairs,
         NEW at \in {"idle", "taken", "prepared"}, NEW d \in 0..NDocs,
         at # "idle" => d # 0, TaskBecomes(p, at, d)
  PROVE  IndexerTypeOK'
<1> DEFINE r == [indexer[p] EXCEPT !.at = at, !.doc = d]
<1>1. /\ indexer[p] \in IndexerStates
      /\ indexer[p].at # "idle" => indexer[p].doc # 0
  BY DEF IndexerTypeOK
<1>2. r \in IndexerStates /\ (r.at # "idle" => r.doc # 0)
  BY <1>1 DEF IndexerStates
<1>3. indexer' = [indexer EXCEPT ![p] = r]
  BY DEF TaskBecomes
<1> HIDE DEF r
<1> QED BY <1>2, <1>3, IndexerChangeType DEF IndexerChange

(* The attempt itself: whatever becomes of it, the store stays.            *)
LEMMA AttemptTypes ==
  ASSUME IndexerTypeOK, NEW p \in Pairs,
         \/ IndexDue(p) \/ IndexCreate(p) \/ IndexTransition(p) \/ IndexEnd(p)
         \/ \E fenced \in BOOLEAN : IndexCheck(p, fenced)
         \/ \E d \in Docs : IndexTake(p, d)
  PROVE  IndexerTypeOK' /\ UNCHANGED storeVars
<1>0. /\ indexer[p] \in IndexerStates
      /\ indexer[p].at # "idle" => indexer[p].doc # 0
      /\ NDocs \in Nat /\ Fetchable(p) \in SUBSET Docs
  BY DocumentStoreAssumption DEF IndexerTypeOK, Fetchable
<1>1. CASE IndexDue(p)
  <2>1. PICK i \in ActiveIndices :
          indexer' = [indexer EXCEPT ![p].status = "due", ![p].into = i]
    BY <1>1 DEF IndexDue
  <2> DEFINE r == [indexer[p] EXCEPT !.status = "due", !.into = i]
  <2>2. r \in IndexerStates /\ (r.at # "idle" => r.doc # 0)
    BY <1>0 DEF IndexerStates, IndexStatuses, ActiveIndices
  <2>3. indexer' = [indexer EXCEPT ![p] = r]
    BY <2>1
  <2> HIDE DEF r
  <2> QED BY <1>1, <2>2, <2>3, IndexerChangeType DEF IndexerChange, IndexDue
<1>2. CASE IndexCreate(p) \/ \E fenced \in BOOLEAN : IndexCheck(p, fenced)
  BY <1>2, AttemptChange DEF IndexCreate, IndexCheck, IndexStatuses
<1>3. CASE IndexTransition(p)
  <2> DEFINE todo == IF ccStatus[p] = "ACTIVE" THEN Fetchable(p) ELSE {}
             r == [indexer[p] EXCEPT !.status = "running", !.todo = todo]
  <2>1. todo \in SUBSET Docs
    BY <1>0
  <2>2. r \in IndexerStates /\ (r.at # "idle" => r.doc # 0)
    <3> HIDE DEF todo
    <3> QED BY <1>0, <2>1 DEF IndexerStates, IndexStatuses
  <2>3. indexer' = [indexer EXCEPT ![p] = r]
    BY <1>3 DEF IndexTransition
  <2> HIDE DEF r
  <2> QED BY <1>3, <2>2, <2>3, IndexerChangeType
          DEF IndexerChange, IndexTransition
<1>4. CASE IndexEnd(p)
  <2> DEFINE r == [indexer[p] EXCEPT !.status = "none", !.todo = {}]
  <2>1. r \in IndexerStates /\ (r.at # "idle" => r.doc # 0)
    BY <1>0 DEF IndexerStates, IndexStatuses
  <2>2. indexer' = [indexer EXCEPT ![p] = r]
    BY <1>4 DEF IndexEnd
  <2> HIDE DEF r
  <2> QED BY <1>4, <2>1, <2>2, IndexerChangeType DEF IndexerChange, IndexEnd
<1>5. ASSUME NEW d \in Docs, IndexTake(p, d)
      PROVE  IndexerTypeOK' /\ UNCHANGED storeVars
  <2> DEFINE r == [indexer[p] EXCEPT !.todo = @ \ {d}, !.at = "taken",
                                     !.doc = d, !.dest = indexer[p].into]
  <2>0. d \in 0..NDocs /\ d # 0
    BY DocumentStoreAssumption DEF Docs
  <2>1. r \in IndexerStates /\ (r.at # "idle" => r.doc # 0)
    BY <1>0, <2>0 DEF IndexerStates
  <2>2. indexer' = [indexer EXCEPT ![p] = r]
    BY <1>5 DEF IndexTake
  <2> HIDE DEF r
  <2> QED BY <1>5, <2>1, <2>2, IndexerChangeType DEF IndexerChange, IndexTake
<1> QED BY <1>1, <1>2, <1>3, <1>4, <1>5

LEMMA IndexingTypes ==
  ASSUME StoreTypeOK, IndexerTypeOK, NEW p \in Pairs,
         \/ \E unchanged \in BOOLEAN : IndexPrepare(p, unchanged)
         \/ IndexWrite(p) \/ IndexFails(p)
  PROVE  StoreTypeOK' /\ IndexerTypeOK'
<1> DEFINE d == indexer[p].doc
           into == indexer[p].dest
<1>0. /\ indexer[p] \in IndexerStates /\ NDocs \in Nat
      /\ indexer[p].at # "idle" => d # 0
      /\ d \in 0..NDocs /\ 0 \in 0..NDocs
  BY DocumentStoreAssumption DEF IndexerTypeOK, IndexerStates
<1>1. ASSUME NEW unchanged \in BOOLEAN, IndexPrepare(p, unchanged)
      PROVE  StoreTypeOK' /\ IndexerTypeOK'
  <2>1. IndexerTypeOK'
    BY <1>0, <1>1, TaskChange DEF IndexPrepare
  <2>2. /\ rows' = rows \cup {d}
        /\ links' = links \cup {<<p, d>>}
        /\ stale' = stale \/ stale' = stale \cup {d}
        /\ UNCHANGED <<ccStatus, edits, deferred, settingVars, index>>
    BY <1>1 DEF IndexPrepare
  <2>3. d \in Docs
    BY <1>0, <1>1 DEF IndexPrepare, Docs
  <2> HIDE DEF d
  <2> QED BY <2>1, <2>2, <2>3 DEF StoreTypeOK, settingVars
<1>2. CASE IndexWrite(p)
  <2>1. d \in Docs /\ into \in Indices
    BY <1>0, <1>2 DEF IndexWrite, IndexerStates, StoreTypeOK
  <2>2. Metadata(d) \in Entries
    BY <2>1, MetadataType
  <2>3. /\ index' = [index EXCEPT ![into][d] = Metadata(d)]
        /\ stale' = stale \cup {d}
        /\ UNCHANGED <<ccStatus, links, rows, edits, deferred, settingVars>>
    BY <1>2 DEF IndexWrite
  <2>4. IndexerTypeOK'
    BY <1>0, <1>2, TaskChange DEF IndexWrite
  <2> HIDE DEF d, into
  <2>5. index' \in [Indices -> [Docs -> Entries \cup {None}]]
    BY <2>1, <2>2, <2>3 DEF StoreTypeOK
  <2> QED BY <2>1, <2>3, <2>4, <2>5 DEF StoreTypeOK, settingVars
<1>3. CASE IndexFails(p)
  BY <1>0, <1>3, TaskChange, StoreSame DEF IndexFails
<1> QED BY <1>1, <1>2, <1>3

-----------------------------------------------------------------------------
(* Cleanup tasks, pruning and deletion                                     *)
LEMMA FreshNrType ==
  ASSUME CleanupTypeOK, NEW p, NEW d
  PROVE  FreshNr(p, d) \in Nat
<1> DEFINE T == TasksOf(p, d)
           n == Cardinality(T)
<1>1. IsFiniteSet(T) /\ n \in Nat
  BY FS_Subset, FS_CardinalityType DEF CleanupTypeOK, TasksOf
<1>2. \E i \in 0..n : \A c \in T : c.nr # i
  <2> SUFFICES ASSUME \A i \in 0..n : \E c \in T : c.nr = i PROVE FALSE
    OBVIOUS
  <2> DEFINE f == [i \in 0..n |-> CHOOSE c \in T : c.nr = i]
  <2>1. f \in [0..n -> T] /\ \A i \in 0..n : f[i].nr = i
    OBVIOUS
  <2>2. IsFiniteSet(0..n) /\ Cardinality(0..n) = n + 1
    BY <1>1, FS_Interval
  <2> HIDE DEF f
  <2>3. \E i, j \in 0..n : i # j /\ f[i] = f[j]
    BY <1>1, <2>1, <2>2, FS_PigeonHole
  <2> QED BY <2>1, <2>3
<1> QED BY <1>1, <1>2 DEF FreshNr

LEMMA TaskType ==
  ASSUME CleanupTypeOK, NEW kind \in Kinds, NEW p \in Pairs, NEW d \in Docs
  PROVE  Task(kind, p, d) \in CleanupTasks
BY FreshNrType DEF Task, CleanupTasks

LEMMA RetriedType ==
  ASSUME NEW c \in CleanupTasks
  PROVE  Retried(c) \in CleanupTasks
BY DEF Retried, CleanupTasks

LEMMA UntrackType ==
  ASSUME CleanupTypeOK, NEW kind, NEW p
  PROVE  /\ Untrack(kind, p) \subseteq CleanupTasks
         /\ IsFiniteSet(Untrack(kind, p))
<1>1. Untrack(kind, p) \subseteq CleanupTasks
  BY DEF CleanupTypeOK, CleanupTasks, Untrack
<1> DEFINE f == [c \in cleanup |->
                   IF c.kind = kind /\ c.pair = p
                   THEN [c EXCEPT !.tracked = FALSE] ELSE c]
<1>2. f \in Surjection(cleanup, Untrack(kind, p))
  BY DEF Surjection, Untrack
<1> HIDE DEF f
<1>3. IsFiniteSet(Untrack(kind, p))
  BY <1>2, FS_Surjection DEF CleanupTypeOK
<1> QED BY <1>1, <1>3

(* A finite set of tasks, one for each of some documents                   *)
LEMMA SentType ==
  ASSUME NEW D \in SUBSET Docs, NEW f, NEW T, f \in [D -> CleanupTasks],
         T = {f[d] : d \in D}
  PROVE  T \subseteq CleanupTasks /\ IsFiniteSet(T)
<1>1. IsFiniteSet(D)
  <2>1. IsFiniteSet(Docs)
    BY DocumentStoreAssumption, FS_Interval DEF Docs
  <2> QED BY <2>1, FS_Subset
<1>2. f \in Surjection(D, T)
  BY DEF Surjection
<1> QED BY <1>1, <1>2, FS_Surjection

LEMMA BecomesType ==
  ASSUME CleanupTypeOK, NEW c \in cleanup, NEW next \in CleanupTasks,
         Becomes(c, next)
  PROVE  CleanupTypeOK'
<1>1. IsFiniteSet(cleanup \ {c})
  BY FS_RemoveElement DEF CleanupTypeOK
<1>2. IsFiniteSet((cleanup \ {c}) \cup {next})
  BY <1>1, FS_AddElement
<1> QED BY <1>2 DEF CleanupTypeOK, Becomes

LEMMA EndsType ==
  ASSUME CleanupTypeOK, NEW c \in cleanup, Ends(c)
  PROVE  CleanupTypeOK'
BY FS_RemoveElement DEF CleanupTypeOK, Ends

LEMMA CleanupReadTypes ==
  ASSUME StoreTypeOK, CleanupTypeOK, NEW c \in cleanup, CleanupRead(c)
  PROVE  StoreTypeOK' /\ CleanupTypeOK'
<1>1. c \in CleanupTasks /\ c.doc \in Docs
  BY DEF CleanupTypeOK, CleanupTasks
<1> DEFINE holders == ConnectorCount(c.doc)
           read == [c EXCEPT
                      !.at = "index",
                      !.act = IF holders = 1 THEN "DELETE" ELSE "UPDATE",
                      !.into = ActiveIndices,
                      !.meta = IF holders = 1 THEN None ELSE Metadata(c.doc)]
<1>2. Metadata(c.doc) \in Entries /\ ActiveIndices \in SUBSET Indices
  BY <1>1, MetadataType DEF ActiveIndices
<1>3. read \in CleanupTasks
  <2> HIDE DEF holders
  <2> QED BY <1>1, <1>2 DEF CleanupTasks
<1>4. Ends(c) \/ Becomes(c, read)
  BY DEF CleanupRead
<1> HIDE DEF read
<1>5. CleanupTypeOK'
  BY <1>3, <1>4, BecomesType, EndsType
<1> QED BY <1>5, StoreSame DEF CleanupRead

LEMMA CleanupIndexTypes ==
  ASSUME StoreTypeOK, CleanupTypeOK, NEW c \in cleanup, CleanupIndex(c)
  PROVE  StoreTypeOK' /\ CleanupTypeOK'
<1>1. /\ c \in CleanupTasks /\ c.doc \in Docs
      /\ c.meta \in Entries \cup {None}
  BY DEF CleanupTypeOK, CleanupTasks
<1>2. [c EXCEPT !.at = "commit"] \in CleanupTasks
  BY <1>1 DEF CleanupTasks
<1>3. CleanupTypeOK'
  BY <1>1, <1>2, RetriedType, BecomesType DEF CleanupIndex
<1>4. index' \in [Indices -> [Docs -> Entries \cup {None}]]
  BY <1>1, DeleteFromType, UpdateInType DEF CleanupIndex
<1> QED BY <1>3, <1>4 DEF CleanupIndex, StoreTypeOK, dbVars, settingVars

LEMMA CleanupEndTypes ==
  ASSUME StoreTypeOK, CleanupTypeOK, NEW c \in cleanup,
         CommitDelete(c) \/ CommitUpdate(c) \/ CleanupEnds(c)
           \/ CleanupRetries(c) \/ CleanupRepeats(c) \/ CleanupExhausted(c)
           \/ CleanupGivesUp(c)
  PROVE  StoreTypeOK' /\ CleanupTypeOK'
<1>1. /\ c \in CleanupTasks /\ c.doc \in Docs
      /\ [c EXCEPT !.at = "done"] \in CleanupTasks
      /\ Retried(c) \in CleanupTasks
      /\ \A tracked \in {c.tracked, FALSE} :
            [Retried(c) EXCEPT !.tracked = tracked] \in CleanupTasks
  <2>1. c \in CleanupTasks
    BY DEF CleanupTypeOK
  <2>2. Retried(c) \in CleanupTasks /\ c.tracked \in BOOLEAN
    BY <2>1, RetriedType DEF CleanupTasks
  <2> QED BY <2>1, <2>2 DEF CleanupTasks
<1>2. CASE CommitDelete(c)
  <2>1. CleanupTypeOK'
    BY <1>1, <1>2, BecomesType DEF CommitDelete
  <2> QED BY <1>1, <1>2, <2>1
          DEF CommitDelete, StoreTypeOK, MarkSynced, settingVars
<1>3. CASE CommitUpdate(c)
  <2>1. CleanupTypeOK'
    BY <1>1, <1>3, BecomesType DEF CommitUpdate
  <2> QED BY <1>1, <1>3, <2>1
          DEF CommitUpdate, StoreTypeOK, MarkSynced, settingVars
<1>4. CASE CleanupRetries(c) \/ CleanupRepeats(c)
  BY <1>1, <1>4, BecomesType, StoreSame DEF CleanupRetries, CleanupRepeats
<1>5. CASE CleanupExhausted(c)
  <2>1. CleanupTypeOK'
    BY <1>1, <1>5, BecomesType DEF CleanupExhausted
  <2> QED BY <1>1, <1>5, <2>1 DEF CleanupExhausted, StoreTypeOK, settingVars
<1>6. CASE CleanupGivesUp(c) \/ CleanupEnds(c)
  BY <1>6, EndsType, StoreSame DEF CleanupGivesUp, CleanupEnds
<1> QED BY <1>2, <1>3, <1>4, <1>5, <1>6

LEMMA PruningTypes ==
  ASSUME StoreTypeOK, CleanupTypeOK, PruneTypeOK, NEW p \in Pairs,
         \/ \E deleting \in BOOLEAN : PruneCheck(p, deleting)
         \/ PruneCreate(p) \/ PruneGenerate(p) \/ PruneMonitor(p)
         \/ \E sent \in SUBSET Docs : PruneFails(p, sent)
  PROVE  StoreTypeOK' /\ CleanupTypeOK' /\ PruneTypeOK'
<1>1. StoreTypeOK'
  BY StoreSame
     DEF PruneCheck, PruneCreate, PruneGenerate, PruneFails, PruneMonitor
<1>2. PruneTypeOK'
  BY DEF PruneTypeOK, PrunePlaces, PruneCheck, PruneCreate, PruneGenerate,
         PruneFails, PruneMonitor
<1>3. CleanupTypeOK'
  <2>1. /\ Untrack("prune", p) \subseteq CleanupTasks
        /\ IsFiniteSet(Untrack("prune", p))
    BY UntrackType
  <2>2. \A d \in Docs :
          /\ Task("prune", p, d) \in CleanupTasks
          /\ [Task("prune", p, d) EXCEPT !.tracked = FALSE] \in CleanupTasks
    <3>1. \A d \in Docs : Task("prune", p, d) \in CleanupTasks
      BY TaskType DEF Kinds
    <3>2. ASSUME NEW t \in CleanupTasks
          PROVE  [t EXCEPT !.tracked = FALSE] \in CleanupTasks
      BY DEF CleanupTasks
    <3> QED BY <3>1, <3>2
  <2>3. CASE UNCHANGED cleanup
    BY <2>3 DEF CleanupTypeOK
  <2>4. CASE PruneCreate(p)
    BY <2>1, <2>4 DEF PruneCreate, CleanupTypeOK
  <2>5. CASE PruneGenerate(p)
    <3> DEFINE D == Prunable(p)
               T == {Task("prune", p, d) : d \in D}
               f == [d \in D |-> Task("prune", p, d)]
    <3>1. D \in SUBSET Docs
      BY DEF Prunable, LinkedTo
    <3>2. f \in [D -> CleanupTasks] /\ T = {f[d] : d \in D}
      BY <2>2, <3>1
    <3>3. T \subseteq CleanupTasks /\ IsFiniteSet(T)
      <4> HIDE DEF D, T, f
      <4> QED BY <3>1, <3>2, SentType
    <3>4. cleanup' = cleanup \cup T
      BY <2>5 DEF PruneGenerate
    <3> HIDE DEF T
    <3> QED BY <3>3, <3>4, FS_Union DEF CleanupTypeOK
  <2>6. ASSUME NEW sent \in SUBSET Docs, PruneFails(p, sent)
        PROVE  CleanupTypeOK'
    <3> DEFINE t(d) == [Task("prune", p, d) EXCEPT !.tracked = FALSE]
               T == {t(d) : d \in sent}
               f == [d \in sent |-> t(d)]
    <3>1. f \in [sent -> CleanupTasks] /\ T = {f[d] : d \in sent}
      BY <2>2
    <3>2. T \subseteq CleanupTasks /\ IsFiniteSet(T)
      <4> HIDE DEF T, f
      <4> QED BY <3>1, SentType
    <3>3. cleanup' = Untrack("prune", p) \cup T
      BY <2>6 DEF PruneFails
    <3> HIDE DEF T
    <3> QED BY <2>1, <3>2, <3>3, FS_Union DEF CleanupTypeOK
  <2> QED BY <2>3, <2>4, <2>5, <2>6 DEF PruneCheck, PruneMonitor
<1> QED BY <1>1, <1>2, <1>3

LEMMA RequestDeletionTypes ==
  ASSUME TypeOK, NEW p \in Pairs, RequestDeletion(p)
  PROVE  /\ StoreTypeOK' /\ PortTypeOK' /\ IndexerTypeOK' /\ CleanupTypeOK'
         /\ PruneTypeOK' /\ DeletionTypeOK'
<1>1. IndexerTypeOK'
  <2>1. AttemptBecomes(p, "none") \/ UNCHANGED indexer
    BY DEF RequestDeletion, NotStartedCanceled
  <2> QED BY <2>1, AttemptChange DEF TypeOK, IndexerTypeOK, IndexStatuses
<1> QED BY <1>1
        DEF RequestDeletion, TypeOK, StoreTypeOK, PortTypeOK, CleanupTypeOK,
            PruneTypeOK, DeletionTypeOK, PairStates, settingVars, portVars

LEMMA GenerateCleanupType ==
  ASSUME CleanupTypeOK, NEW p \in Pairs, NEW ids \in SUBSET LinkedTo(p),
         cleanup' = Untrack("delete", p) \cup TasksFor(p, ids)
  PROVE  CleanupTypeOK'
<1> DEFINE f == [d \in ids |-> Task("delete", p, d)]
<1>1. ids \in SUBSET Docs
  BY DEF LinkedTo
<1>2. f \in [ids -> CleanupTasks] /\ TasksFor(p, ids) = {f[d] : d \in ids}
  BY <1>1, TaskType DEF TasksFor, Kinds
<1>3. TasksFor(p, ids) \subseteq CleanupTasks /\ IsFiniteSet(TasksFor(p, ids))
  <2> HIDE DEF f
  <2> QED BY <1>1, <1>2, SentType
<1> QED BY <1>3, UntrackType, FS_Union DEF CleanupTypeOK

LEMMA DeletionTypes ==
  ASSUME TypeOK, NEW p \in Pairs,
         \/ RaiseDeletionFence(p) \/ GenerateCleanup(p) \/ ResetDeletionFence(p)
         \/ ResetFenceInUse(p) \/ RestartDeletion(p) \/ FinishDeletion(p)
         \/ \E timedOut \in BOOLEAN : DeletionBlocked(p, timedOut)
         \/ \E sent \in SUBSET Docs :
              DeletionBeatDies(p, sent) \/ DeletionRaises(p, sent)
  PROVE  /\ StoreTypeOK' /\ PortTypeOK' /\ IndexerTypeOK' /\ CleanupTypeOK'
         /\ PruneTypeOK' /\ DeletionTypeOK'
<1> USE DEF TypeOK, deletionFrame
<1>0. PortTypeOK /\ CleanupTypeOK /\ port \in [Pairs -> PortRows]
  BY DEF PortTypeOK
<1>1. CASE RaiseDeletionFence(p) \/ ResetDeletionFence(p) \/ RestartDeletion(p)
  BY <1>1, StoreSame
     DEF RaiseDeletionFence, ResetDeletionFence, RestartDeletion, PortTypeOK,
         IndexerTypeOK, CleanupTypeOK, PruneTypeOK, DeletionTypeOK, FencePlaces
<1>2. CASE GenerateCleanup(p)
  <2>1. CleanupTypeOK'
    BY <1>0, <1>2, GenerateCleanupType DEF GenerateCleanup
  <2> QED BY <1>2, <2>1, StoreSame
          DEF GenerateCleanup, PortTypeOK, IndexerTypeOK, PruneTypeOK,
              DeletionTypeOK, FencePlaces
<1>3. ASSUME NEW sent \in SUBSET Docs,
             DeletionBeatDies(p, sent) \/ DeletionRaises(p, sent)
      PROVE  /\ StoreTypeOK' /\ PortTypeOK' /\ IndexerTypeOK'
             /\ CleanupTypeOK' /\ PruneTypeOK' /\ DeletionTypeOK'
  <2>1. GenerateInPart(p, sent)
    BY <1>3 DEF DeletionBeatDies, DeletionRaises
  <2>2. CleanupTypeOK'
    BY <1>0, <2>1, GenerateCleanupType DEF GenerateInPart
  <2>3. DeletionTypeOK'
    BY <1>3 DEF DeletionBeatDies, DeletionRaises, DeletionTypeOK, FencePlaces
  <2> QED BY <2>1, <2>2, <2>3, StoreSame
          DEF GenerateInPart, PortTypeOK, IndexerTypeOK, PruneTypeOK
<1>4. CASE FinishDeletion(p)
  <2>1. port' \in [Pairs -> PortRows]
    BY <1>0, <1>4, IdleTypes DEF FinishDeletion
  <2>2. IndexerTypeOK'
    <3> DEFINE r == [indexer[p] EXCEPT !.status = "none", !.todo = {}]
    <3>1. /\ indexer[p] \in IndexerStates
          /\ indexer[p].at # "idle" => indexer[p].doc # 0
      BY DEF IndexerTypeOK
    <3>2. r \in IndexerStates /\ (r.at # "idle" => r.doc # 0)
      BY <3>1 DEF IndexerStates, IndexStatuses
    <3>3. indexer' = [indexer EXCEPT ![p] = r]
      BY <1>4 DEF FinishDeletion
    <3> HIDE DEF r
    <3> QED BY <3>2, <3>3, IndexerChangeType DEF IndexerChange
  <2> QED BY <1>4, <2>1, <2>2
          DEF FinishDeletion, StoreTypeOK, PortTypeOK, CleanupTypeOK,
              PruneTypeOK, DeletionTypeOK, FencePlaces, PairStates,
              settingVars
<1>5. CASE \E timedOut \in BOOLEAN : DeletionBlocked(p, timedOut)
  <2>1. PICK timedOut \in BOOLEAN : DeletionBlocked(p, timedOut)
    BY <1>5
  <2>2. port' \in [Pairs -> PortRows]
    <3>1. Canceled(port[p]) \in PortRows
      BY <1>0, CanceledType
    <3> QED BY <1>0, <2>1, <3>1 DEF DeletionBlocked
  <2>3. CleanupTypeOK'
    BY <1>0, <2>1, UntrackType DEF DeletionBlocked, CleanupTypeOK
  <2>4. PruneTypeOK' /\ DeletionTypeOK'
    BY <2>1 DEF DeletionBlocked, PruneTypeOK, DeletionTypeOK, FencePlaces,
                PrunePlaces
  <2> QED BY <2>1, <2>2, <2>3, <2>4, StoreSame
          DEF DeletionBlocked, PortTypeOK, IndexerTypeOK
<1>6. CASE ResetFenceInUse(p)
  <2>1. CleanupTypeOK'
    BY <1>0, <1>6, UntrackType DEF ResetFenceInUse, CleanupTypeOK
  <2> QED BY <1>6, <2>1, StoreSame
          DEF ResetFenceInUse, PortTypeOK, IndexerTypeOK, PruneTypeOK,
              DeletionTypeOK, FencePlaces
<1> QED BY <1>1, <1>2, <1>3, <1>4, <1>5, <1>6

-----------------------------------------------------------------------------
(* Each action of the jobs keeps every type: its own lemma gives the types *)
(* of what it writes.                                                      *)
LEMMA MishapType ==
  ASSUME TypeOK, NEW kind, Mishap(kind)
  PROVE  mishaps' \in Nat
BY DEF TypeOK, Mishap

HistoryTypeOK ==
    overtaken \subseteq Docs /\ repeated \subseteq Docs /\ intruded \subseteq Docs

LEMMA HistoryTypes ==
  ASSUME TypeOK,
         \/ UNCHANGED history
         \/ \E ds \in SUBSET Docs : Overtakes(ds) \/ Repeats(ds)
         \/ \E d \in Nat : Intrudes(d)
  PROVE  HistoryTypeOK'
BY DEF TypeOK, HistoryTypeOK, history, Overtakes, Repeats, Intrudes,
       BeingCleaned

LEMMA SyncJobTypes ==
  ASSUME TypeOK,
         \/ SyncBeat
         \/ \E d \in Docs : Edit(d) \/ SyncStep(d) \/ SyncFault(d)
  PROVE  TypeOK'
<1>1. StoreTypeOK /\ SyncTypeOK /\ mishaps \in Nat
  BY DEF TypeOK
<1>2. StoreTypeOK' /\ SyncTypeOK'
  BY <1>1, EditTypes, GenerateSyncTypes, SyncTypes
     DEF SyncBeat, Edit, SyncReads, SyncStep, SyncFault
<1>3. mishaps' \in Nat
  BY <1>1, MishapType DEF SyncBeat, Edit, SyncReads, SyncStep, SyncFault
<1>4. UNCHANGED othersOfSync
  BY DEF SyncBeat, Edit, SyncReads, SyncStep, SyncFault
<1>5. HistoryTypeOK'
  BY HistoryTypes DEF SyncBeat, Edit, SyncReads, SyncStep, SyncFault
<1> QED BY <1>2, <1>3, <1>4, <1>5
        DEF TypeOK, HistoryTypeOK, PortTypeOK, SwapTypeOK, IndexerTypeOK, CleanupTypeOK,
            PruneTypeOK, DeletionTypeOK, othersOfSync, portVars, taskVars,
            deletionVars

LEMMA PortJobTypes ==
  ASSUME TypeOK, BatchesInHand,
         \/ UnpinStep
         \/ \E p \in Pairs : PortBeat(p) \/ PortStep(p) \/ PortFault(p)
  PROVE  TypeOK'
<1>1. StoreTypeOK /\ PortTypeOK /\ mishaps \in Nat
  BY DEF TypeOK
<1>2. StoreTypeOK' /\ PortTypeOK'
  BY <1>1, UnpinTypes, PortRowSteps, PortStartTypes, PortEnds, PortBatchTypes,
     PortWriteTypes, PortCommitTypes
     DEF UnpinStep, PortBeat, PortReads, PortStep, PortFault
<1>3. mishaps' \in Nat
  BY <1>1, MishapType DEF UnpinStep, PortBeat, PortReads, PortStep, PortFault
<1>4. UNCHANGED othersOfPort
  BY DEF UnpinStep, PortBeat, PortReads, PortStep, PortFault
<1>5. HistoryTypeOK'
  <2>1. ASSUME NEW p \in Pairs, PortReads(p) PROVE HistoryTypeOK'
    <3>1. {d \in copier[p].batch \cap BeingSynced : syncer[d].filling = {}}
            \in SUBSET Docs
      BY DEF BeingSynced
    <3> QED BY <2>1, <3>1, HistoryTypes DEF PortReads
  <2> QED BY <2>1, HistoryTypes DEF UnpinStep, PortBeat, PortStep, PortFault
<1> QED BY <1>2, <1>3, <1>4, <1>5
        DEF TypeOK, HistoryTypeOK, SyncTypeOK, SwapTypeOK, IndexerTypeOK, CleanupTypeOK,
            PruneTypeOK, DeletionTypeOK, othersOfPort, taskVars, deletionVars

LEMMA SwapJobTypes ==
  ASSUME TypeOK, ReindexStep \/ SwapStep \/ SwapFault
  PROVE  TypeOK'
<1>1. StoreTypeOK /\ PortTypeOK /\ SwapTypeOK /\ mishaps \in Nat
  BY DEF TypeOK
<1>2. StoreTypeOK' /\ PortTypeOK' /\ SwapTypeOK'
  BY <1>1, SwapTypes DEF ReindexStep, SwapStep, SwapFault
<1>3. mishaps' \in Nat
  BY <1>1, MishapType DEF ReindexStep, SwapStep, SwapFault
<1>4. UNCHANGED othersOfSwap
  BY DEF ReindexStep, SwapStep, SwapFault
<1>5. HistoryTypeOK'
  BY HistoryTypes DEF ReindexStep, SwapStep, SwapFault
<1> QED BY <1>2, <1>3, <1>4, <1>5
        DEF TypeOK, HistoryTypeOK, SyncTypeOK, IndexerTypeOK, CleanupTypeOK, PruneTypeOK,
            DeletionTypeOK, othersOfSwap, taskVars, deletionVars

LEMMA IndexingJobTypes ==
  ASSUME TypeOK, NEW p \in Pairs, KickoffIndexing(p) \/ IndexingStep(p)
  PROVE  TypeOK'
<1>1. /\ StoreTypeOK /\ IndexerTypeOK /\ mishaps \in Nat
      /\ (Fenced(p) \/ stop[p]) \in BOOLEAN
  BY DEF TypeOK
<1>2. StoreTypeOK' /\ IndexerTypeOK'
  <2>1. CASE \/ IndexWrites(p) \/ IndexFails(p)
             \/ \E unchanged \in BOOLEAN : IndexPrepare(p, unchanged)
    BY <1>1, <2>1, IndexingTypes DEF IndexWrites
  <2>2. CASE \/ IndexDue(p) \/ IndexCreate(p) \/ IndexTransition(p)
             \/ IndexEnd(p) \/ IndexCheck(p, Fenced(p) \/ stop[p])
             \/ \E d \in Docs : IndexTake(p, d)
    <3>1. IndexerTypeOK' /\ UNCHANGED storeVars
      BY <1>1, <2>2, AttemptTypes
    <3> QED BY <1>1, <3>1, StoreSame
  <2> QED BY <2>1, <2>2 DEF KickoffIndexing, IndexingStep
<1>3. UNCHANGED <<othersOfIndexing, mishaps>>
  BY DEF KickoffIndexing, IndexWrites, IndexingStep
<1>4. HistoryTypeOK'
  <2>1. indexer[p].doc \in Nat
    BY <1>1, DocumentStoreAssumption DEF IndexerTypeOK, IndexerStates
  <2> QED BY <2>1, HistoryTypes DEF KickoffIndexing, IndexWrites, IndexingStep
<1> QED BY <1>1, <1>2, <1>3, <1>4
        DEF TypeOK, HistoryTypeOK, PortTypeOK, SyncTypeOK, SwapTypeOK, CleanupTypeOK,
            PruneTypeOK, DeletionTypeOK, othersOfIndexing, portVars,
            taskVars, deletionVars

LEMMA CleanupJobTypes ==
  ASSUME TypeOK, NEW c \in cleanup, CleanupStep(c) \/ CleanupFault(c)
  PROVE  TypeOK'
<1>1. StoreTypeOK /\ CleanupTypeOK /\ mishaps \in Nat
  BY DEF TypeOK
<1>2. StoreTypeOK' /\ CleanupTypeOK'
  BY <1>1, CleanupReadTypes, CleanupIndexTypes, CleanupEndTypes
     DEF CleanupReads, CleanupStep, CleanupRepeated, CleanupFault
<1>3. mishaps' \in Nat
  BY <1>1, MishapType
     DEF CleanupReads, CleanupStep, CleanupRepeated, CleanupFault
<1>4. UNCHANGED othersOfCleanup
  BY DEF CleanupReads, CleanupStep, CleanupRepeated, CleanupFault
<1>5. HistoryTypeOK'
  <2>1. {c.doc} \in SUBSET Docs /\ {c.doc} \cap BeingSynced \in SUBSET Docs
    BY <1>1 DEF CleanupTypeOK, CleanupTasks
  <2> QED BY <2>1, HistoryTypes
          DEF CleanupReads, CleanupStep, CleanupRepeated, CleanupFault
<1> QED BY <1>2, <1>3, <1>4, <1>5
        DEF TypeOK, HistoryTypeOK, PortTypeOK, SyncTypeOK, SwapTypeOK, IndexerTypeOK,
            PruneTypeOK, DeletionTypeOK, othersOfCleanup, portVars,
            deletionVars

LEMMA PruningJobTypes ==
  ASSUME TypeOK, NEW p \in Pairs, PruneBeat(p) \/ PruneStep(p) \/ PruneFault(p)
  PROVE  TypeOK'
<1>1. /\ StoreTypeOK /\ CleanupTypeOK /\ PruneTypeOK /\ mishaps \in Nat
      /\ Fenced(p) \in BOOLEAN
  BY DEF TypeOK, Fenced
<1>2. StoreTypeOK' /\ CleanupTypeOK' /\ PruneTypeOK'
  BY <1>1, PruningTypes DEF PruneBeat, PruneGenerates, PruneStep, PruneFault
<1>3. mishaps' \in Nat
  BY <1>1, MishapType DEF PruneBeat, PruneGenerates, PruneStep, PruneFault
<1>4. UNCHANGED othersOfPruning
  BY DEF PruneBeat, PruneGenerates, PruneStep, PruneFault
<1>5. HistoryTypeOK'
  <2>1. Prunable(p) \in SUBSET Docs
    BY DEF Prunable, LinkedTo
  <2>2. \A ds \in SUBSET Docs : Resends(p, ds) => HistoryTypeOK'
    BY HistoryTypes DEF Resends
  <2> QED BY <2>1, <2>2, HistoryTypes
          DEF PruneBeat, PruneGenerates, PruneStep, PruneFault
<1> QED BY <1>2, <1>3, <1>4, <1>5
        DEF TypeOK, HistoryTypeOK, PortTypeOK, SyncTypeOK, SwapTypeOK, IndexerTypeOK,
            DeletionTypeOK, othersOfPruning, portVars, deletionVars

LEMMA DeletionJobTypes ==
  ASSUME TypeOK, NEW p \in Pairs,
         Delete(p) \/ DeletionStep(p) \/ DeletionFault(p)
  PROVE  TypeOK'
<1>1. mishaps \in Nat
  BY DEF TypeOK
<1>2. /\ StoreTypeOK' /\ PortTypeOK' /\ IndexerTypeOK' /\ CleanupTypeOK'
      /\ PruneTypeOK' /\ DeletionTypeOK'
  BY RequestDeletionTypes, DeletionTypes
     DEF Delete, DeletionGenerates, DeletionStep, DeletionCutShort,
         DeletionFault
<1>3. mishaps' \in Nat
  BY <1>1, MishapType
     DEF Delete, DeletionGenerates, DeletionStep, DeletionCutShort,
         DeletionFault
<1>4. UNCHANGED othersOfDeletion
  BY DEF Delete, DeletionGenerates, DeletionStep, DeletionCutShort,
         DeletionFault
<1>5. HistoryTypeOK'
  <2>1. LinkedTo(p) \cap rows \in SUBSET Docs
    BY DEF LinkedTo
  <2>2. \A ds \in SUBSET Docs : Resends(p, ds) => HistoryTypeOK'
    BY HistoryTypes DEF Resends
  <2> QED BY <2>1, <2>2, HistoryTypes
          DEF Delete, DeletionGenerates, DeletionStep, DeletionCutShort,
              DeletionFault
<1> QED BY <1>2, <1>3, <1>4, <1>5 DEF TypeOK, HistoryTypeOK, SyncTypeOK, SwapTypeOK, othersOfDeletion

LEMMA StutterTypes ==
  ASSUME TypeOK, UNCHANGED vars
  PROVE  TypeOK'
<1>1. StoreTypeOK'
  BY StoreSame DEF TypeOK, vars
<1> QED BY <1>1
        DEF TypeOK, PortTypeOK, SyncTypeOK, SwapTypeOK, IndexerTypeOK,
            CleanupTypeOK, PruneTypeOK, DeletionTypeOK, vars, portVars,
            taskVars, deletionVars, history

LEMMA TypeStep ==
  ASSUME TypeOK, BatchesInHand, [Next]_vars
  PROVE  TypeOK'
BY SyncJobTypes, PortJobTypes, SwapJobTypes, IndexingJobTypes,
   CleanupJobTypes, PruningJobTypes, DeletionJobTypes, StutterTypes DEF Next

-----------------------------------------------------------------------------
(* A task with a batch in hand                                             *)
WithBatch == {"read", "copy", "write"}

(* A task past the top of its loop runs an attempt that is IN_PROGRESS,    *)
(* and its cursor is the attempt's.  At the top it may also have lost its  *)
(* row to a deletion.                                                      *)
CopierHasPort(p) ==
    /\ copier[p].at \in WithBatch \cup {"finish"} =>
         port[p].status = "IN_PROGRESS" /\ copier[p].cursor = port[p].cursor
    /\ copier[p].at = "top" =>
         \/ port[p].status = "IN_PROGRESS" /\ copier[p].cursor = port[p].cursor
         \/ port[p].status = "NONE" /\ ccStatus[p] = "GONE"

(* A batch is not empty, and lies between the cursor and the bound of its  *)
(* attempt.                                                                *)
BatchIsNext(p) ==
    copier[p].at \in WithBatch =>
      /\ copier[p].batch # {}
      /\ \A d \in copier[p].batch : port[p].cursor < d /\ d <= port[p].upTo

(* Behind the fence of a deletion that has sent tasks, and as long as one  *)
(* that it sent is counted, no port writes.                                *)
FenceHolds ==
    \A p \in Pairs :
      /\ Fenced(p) => ccStatus[p] = "DELETING"
      /\ fence[p] \in {"ready", "orphan"} \/ Tracked("delete", p) # {} =>
           /\ ccStatus[p] = "DELETING"
           /\ copier[p].at \notin WithBatch \cup {"finish"}

PairInv(p) == CopierHasPort(p) /\ BatchIsNext(p)
PortInv    == \A p \in Pairs : PairInv(p)

IInv == TypeOK /\ PortInv /\ FenceHolds

-----------------------------------------------------------------------------
(* What the steps of the jobs do to the ports.                             *)
PortAct(p) ==
    \/ SchedulePort(p) \/ EnqueueFails(p) \/ FailStalled(p)
    \/ PortStart(p)
    \/ PortStops(p) \/ PortYields(p) \/ PortFails(p) \/ PortDies(p)
    \/ PortFinish(p)
    \/ PortPage(p)
    \/ PortRead(p) \/ PortAborts(p) \/ PortWrite(p) \/ PortRetries(p)
    \/ \E d \in Docs : PortCopy(p, d)
    \/ PortCommit(p)

(* Every row but p's stays.                                                *)
CancelOne(p) ==
    /\ port' = [port EXCEPT ![p] = Canceled(@)]
    /\ UNCHANGED <<copier, ccStatus>>

CancelEvery ==
    /\ port' = [p \in Pairs |-> Canceled(port[p])]
    /\ UNCHANGED <<copier, ccStatus>>

PortsKept ==
    /\ UNCHANGED portVars
    /\ \A p \in Pairs : ccStatus[p] = "GONE" => ccStatus'[p] = "GONE"

PortChange ==
    \/ PortsKept
    \/ CancelEvery
    \/ \E p \in Pairs : PortAct(p) \/ CancelOne(p) \/ FinishDeletion(p)

LEMMA DeletionChangesPorts ==
  ASSUME TypeOK, NEW p \in Pairs,
         Delete(p) \/ DeletionStep(p) \/ DeletionFault(p)
  PROVE  PortsKept \/ CancelOne(p) \/ FinishDeletion(p)
<1>1. CASE Delete(p)
  BY <1>1 DEF Delete, RequestDeletion, Indexable, PortsKept, portVars, TypeOK,
              StoreTypeOK
<1>2. CASE \E timedOut \in BOOLEAN : DeletionBlocked(p, timedOut)
  BY <1>2 DEF DeletionBlocked, PortsKept, CancelOne, deletionFrame, storeVars,
              dbVars, portVars
<1>3. CASE \/ RaiseDeletionFence(p) \/ GenerateCleanup(p)
           \/ ResetDeletionFence(p) \/ ResetFenceInUse(p)
           \/ RestartDeletion(p)
           \/ \E sent \in SUBSET Docs :
                DeletionBeatDies(p, sent) \/ DeletionRaises(p, sent)
  BY <1>3 DEF RaiseDeletionFence, GenerateCleanup, ResetDeletionFence,
              ResetFenceInUse, RestartDeletion, DeletionBeatDies,
              DeletionRaises, GenerateInPart, PortsKept, deletionFrame,
              storeVars, dbVars, portVars
<1> QED BY <1>1, <1>2, <1>3
        DEF DeletionGenerates, DeletionStep, DeletionCutShort, DeletionFault

LEMMA SwapChangesPorts ==
  ASSUME ReindexStep \/ SwapStep \/ SwapFault
  PROVE  (PortsKept \/ CancelEvery) /\ UNCHANGED ccStatus
BY DEF ReindexStep, SwapStep, SwapFault, StartReindex, BeginSwap, PromoteNew,
       SettleSwap, CancelReindex, SwapDies, PortsKept, CancelEvery, dbVars,
       storeVars, portVars

LEMMA PortJobChangesPorts ==
  ASSUME \/ UnpinStep
         \/ \E p \in Pairs : PortBeat(p) \/ PortStep(p) \/ PortFault(p)
  PROVE  PortsKept \/ \E p \in Pairs : PortAct(p)
<1>1. CASE UnpinStep
  BY <1>1 DEF UnpinStep, UnpinSource, PortsKept, dbVars
<1>2. CASE \E p \in Pairs : PortBeat(p) \/ PortStep(p) \/ PortFault(p)
  BY <1>2 DEF PortBeat, PortReads, PortStep, PortFault, PortAct
<1> QED BY <1>1, <1>2

LEMMA OthersKeepPorts ==
  ASSUME \/ SyncBeat
         \/ \E d \in Docs : Edit(d) \/ SyncStep(d) \/ SyncFault(d)
         \/ \E p \in Pairs : \/ KickoffIndexing(p) \/ IndexingStep(p)
                             \/ PruneBeat(p) \/ PruneStep(p) \/ PruneFault(p)
         \/ \E c \in cleanup : CleanupStep(c) \/ CleanupFault(c)
         \/ UNCHANGED vars
  PROVE  PortsKept /\ UNCHANGED ccStatus
<1> USE DEF PortsKept, storeVars, dbVars
<1>1. CASE SyncBeat \/ \E d \in Docs : Edit(d) \/ SyncStep(d) \/ SyncFault(d)
  <2>1. UNCHANGED portVars
    BY <1>1 DEF SyncBeat, Edit, SyncReads, SyncStep, SyncFault, othersOfSync
  <2>2. UNCHANGED ccStatus
    <3>1. CASE SyncBeat
      BY <3>1 DEF SyncBeat, GenerateSyncTasks
    <3>2. ASSUME NEW d \in Docs, Edit(d) \/ SyncFault(d)
          PROVE  UNCHANGED ccStatus
      BY <3>2 DEF Edit, EditMetadata, SyncFault, SyncFails
    <3>3. ASSUME NEW d \in Docs, SyncStep(d)
          PROVE  UNCHANGED ccStatus
      <4>1. CASE SyncRead(d)
        BY <4>1 DEF SyncRead
      <4>2. CASE \E i \in Indices : SyncIndex(d, i)
        BY <4>2 DEF SyncIndex
      <4>3. CASE SyncMark(d)
        BY <4>3, Zenon DEF SyncMark
      <4> QED BY <3>3, <4>1, <4>2, <4>3 DEF SyncReads, SyncStep
    <3> QED BY <1>1, <3>1, <3>2, <3>3
  <2> QED BY <2>1, <2>2
<1>2. CASE \E p \in Pairs : KickoffIndexing(p) \/ IndexingStep(p)
  <2>1. UNCHANGED portVars
    BY <1>2 DEF KickoffIndexing, IndexWrites, IndexingStep, othersOfIndexing
  <2>2. ASSUME NEW p \in Pairs, KickoffIndexing(p) PROVE UNCHANGED ccStatus
    BY <2>2 DEF KickoffIndexing, IndexDue
  <2>3. ASSUME NEW p \in Pairs, IndexingStep(p) PROVE UNCHANGED ccStatus
    BY <2>3 DEF IndexingStep, IndexWrites, IndexWrite, IndexCreate, IndexCheck,
                IndexTransition, IndexTake, IndexPrepare, IndexFails, IndexEnd
  <2> QED BY <1>2, <2>1, <2>2, <2>3
<1>3. CASE \E p \in Pairs : PruneBeat(p) \/ PruneStep(p) \/ PruneFault(p)
  BY <1>3 DEF PruneBeat, PruneGenerates, PruneStep, PruneFault, PruneCheck,
              PruneCreate, PruneGenerate, PruneMonitor, PruneFails,
              othersOfPruning
<1>4. CASE \E c \in cleanup : CleanupStep(c) \/ CleanupFault(c)
  BY <1>4 DEF CleanupReads, CleanupStep, CleanupRepeated, CleanupFault,
              CleanupRead, CleanupIndex, CommitDelete, CommitUpdate,
              CleanupEnds, CleanupRetries, CleanupRepeats, CleanupExhausted,
              CleanupGivesUp, othersOfCleanup
<1>5. CASE UNCHANGED vars
  BY <1>5 DEF vars
<1> QED BY <1>1, <1>2, <1>3, <1>4, <1>5

LEMMA EveryStepChangesPorts ==
  ASSUME TypeOK, [Next]_vars
  PROVE  PortChange
BY DeletionChangesPorts, SwapChangesPorts, PortJobChangesPorts,
   OthersKeepPorts DEF Next, PortChange

-----------------------------------------------------------------------------
(* PortInv is inductive.                                                   *)
(* The row that a task at work runs.                                       *)
RowKept(p) ==
    copier[p].at # "idle" /\ port[p].status \in {"IN_PROGRESS", "NONE"} =>
      /\ port'[p].status = port[p].status
      /\ port'[p].cursor = port[p].cursor
      /\ port'[p].upTo = port[p].upTo

LEMMA PairKept ==
  ASSUME NEW p \in Pairs, PairInv(p), copier'[p] = copier[p], RowKept(p),
         ccStatus[p] = "GONE" => ccStatus'[p] = "GONE"
  PROVE  PairInv(p)'
BY DEF PairInv, CopierHasPort, BatchIsNext, WithBatch, RowKept

LEMMA CanceledKeepsRow ==
  ASSUME NEW row \in PortRows
  PROVE  /\ row.status # "NOT_STARTED" => Canceled(row).status = row.status
         /\ row.status = "NOT_STARTED" => Canceled(row).status = "CANCELED"
         /\ Canceled(row).cursor = row.cursor
         /\ Canceled(row).upTo = row.upTo
BY DEF PortRows, Canceled

LEMMA OtherPairs ==
  ASSUME PortTypeOK, NEW p \in Pairs, PortAct(p), NEW q \in Pairs, q # p
  PROVE  port'[q] = port[q] /\ copier'[q] = copier[q]
BY DEF PortTypeOK, PortAct, SchedulePort, EnqueueFails, FailStalled, PortStart,
       PortStops, PortYields, PortFails, PortDies, PortFinish, PortPage,
       PortRead, PortAborts, PortWrite, PortRetries, PortCopy, PortCommit,
       Terminal, CopierStops, CopierBecomes

LEMMA PortActKeepsPairs ==
  ASSUME NEW p \in Pairs, PortAct(p)
  PROVE  UNCHANGED ccStatus
BY DEF PortAct, SchedulePort, EnqueueFails, FailStalled, PortStart,
       PortStops, PortYields, PortFails, PortDies, PortFinish, PortPage,
       PortRead, PortAborts, PortWrite, PortRetries, PortCopy, PortCommit,
       storeVars, dbVars

LEMMA PageAhead ==
  ASSUME NEW p \in Pairs, PortTypeOK, Remaining(p) # {}
  PROVE  NextPage(p) # {} /\ NextPage(p) \subseteq Remaining(p)
<1>1. Remaining(p) \in SUBSET (1..NDocs) /\ NDocs \in Nat
  BY DocumentStoreAssumption DEF Remaining, LinkedTo, Docs
<1>2. PICK first \in Remaining(p) : \A d \in Remaining(p) : first <= d
  <2>1. Remaining(p) \in SUBSET Nat
    BY <1>1
  <2> QED BY <2>1, LeastNatural
<1>3. {e \in Remaining(p) : e < first} = {}
  BY <1>1, <1>2
<1>4. Cardinality({e \in Remaining(p) : e < first}) < PageSize
  BY <1>3, FS_EmptySet, ReindexPortAssumption
<1> QED BY <1>4 DEF NextPage

LEMMA PortActKeepsInv ==
  ASSUME TypeOK, NEW p \in Pairs, PairInv(p), PortAct(p)
  PROVE  PairInv(p)'
<1> DEFINE c == copier[p]
<1>0. /\ port \in [Pairs -> PortRows] /\ copier \in [Pairs -> CopierStates]
      /\ port[p] \in PortRows /\ copier[p] \in CopierStates
      /\ PortTypeOK /\ UNCHANGED ccStatus
  BY PortActKeepsPairs DEF TypeOK, PortTypeOK
<1>1. CASE SchedulePort(p) \/ EnqueueFails(p) \/ FailStalled(p)
  <2>1. copier'[p] = copier[p]
    BY <1>1 DEF SchedulePort, EnqueueFails, FailStalled
  <2>2. copier[p].at = "idle" \/ port[p].status \in {"FAILED", "NONE"}
    BY <1>1 DEF SchedulePort, EnqueueFails, FailStalled
  <2>3. ccStatus[p] = "GONE" => ~SchedulePort(p)
    BY DEF SchedulePort, Listed, InScope
  <2>4. copier[p].at = "idle"
    BY <1>0, <1>1, <2>2, <2>3
       DEF PairInv, CopierHasPort, CopierStates, CopierPlaces, WithBatch,
           EnqueueFails, FailStalled, SchedulePort
  <2> QED BY <1>0, <2>1, <2>4, PairKept DEF RowKept
<1>2. CASE PortStart(p)
  BY <1>0, <1>2
     DEF PortStart, CopierBecomes, PairInv, CopierHasPort, BatchIsNext,
         WithBatch, CopierIdle, PortRows, CopierStates
<1>3. CASE PortStops(p) \/ PortYields(p) \/ PortFails(p) \/ PortDies(p)
           \/ PortFinish(p)
  <2>1. copier'[p].at = "idle"
    BY <1>0, <1>3 DEF PortStops, PortYields, PortFails, PortDies, PortFinish,
                      CopierStops, CopierBecomes, CopierIdle
  <2> QED BY <2>1 DEF PairInv, CopierHasPort, BatchIsNext, WithBatch
<1>4. CASE PortPage(p)
  <2>1. /\ port'[p] = port[p]
        /\ copier'[p] = [c EXCEPT !.at = IF Remaining(p) = {} THEN "finish"
                                         ELSE "read",
                                  !.batch = NextPage(p)]
    BY <1>0, <1>4 DEF PortPage, CopierBecomes
  <2>2. port[p].status = "IN_PROGRESS" /\ c.cursor = port[p].cursor
    BY <1>4 DEF PortPage, PairInv, CopierHasPort, IsPortActive, PortActive
  <2>3. /\ copier'[p].at = (IF Remaining(p) = {} THEN "finish" ELSE "read")
        /\ copier'[p].batch = NextPage(p)
        /\ copier'[p].cursor = c.cursor
    BY <1>0, <2>1 DEF CopierStates
  <2>4. copier'[p].at = "read" =>
          /\ NextPage(p) # {}
          /\ \A d \in NextPage(p) : port[p].cursor < d /\ d <= port[p].upTo
    BY <1>0, <2>2, <2>3, PageAhead DEF Remaining
  <2> HIDE DEF c
  <2> QED BY <2>1, <2>2, <2>3, <2>4
          DEF PairInv, CopierHasPort, BatchIsNext, WithBatch
<1>5. CASE \/ PortRead(p) \/ PortAborts(p) \/ PortWrite(p) \/ PortRetries(p)
           \/ \E d \in Docs : PortCopy(p, d)
  <2>1. c.at \in WithBatch /\ port' = port
    BY <1>5 DEF PortRead, PortAborts, PortWrite, PortRetries, PortCopy,
                WithBatch
  <2>2. /\ copier'[p].cursor = c.cursor
        /\ \/ copier'[p].at \in WithBatch /\ copier'[p].batch = c.batch
           \/ copier'[p].at = "top"
    <3> USE DEF CopierBecomes, CopierStates, WithBatch
    <3>1. CASE PortRead(p)
      BY <1>0, <3>1 DEF PortRead
    <3>2. CASE PortAborts(p)
      BY <1>0, <3>2 DEF PortAborts
    <3>3. CASE PortRetries(p)
      BY <1>0, <3>3 DEF PortRetries
    <3>4. CASE PortWrite(p)
      <4>1. copier' = [copier EXCEPT ![p] = [c EXCEPT !.at = "copy"]]
        BY <3>4 DEF PortWrite
      <4> QED BY <1>0, <2>1, <4>1
    <3>5. CASE \E d \in Docs : PortCopy(p, d)
      <4>1. PICK d \in Docs : PortCopy(p, d)
        BY <3>5
      <4> DEFINE at == IF c.pit[d] # None /\ Survives(p, d)
                       THEN "write" ELSE "copy"
      <4>2. /\ copier' = [copier EXCEPT ![p] =
                            [c EXCEPT !.left = @ \ {d}, !.doc = d, !.at = at]]
            /\ at \in {"write", "copy"}
        BY <4>1 DEF PortCopy
      <4> HIDE DEF at
      <4> QED BY <1>0, <4>2
    <3> QED BY <1>5, <3>1, <3>2, <3>3, <3>4, <3>5
  <2> HIDE DEF c
  <2>3. port[p].status = "IN_PROGRESS" /\ c.cursor = port[p].cursor
    BY <2>1 DEF c, PairInv, CopierHasPort, WithBatch
  <2> QED BY <2>1, <2>2, <2>3
          DEF c, PairInv, CopierHasPort, BatchIsNext, WithBatch
<1>6. CASE PortCommit(p)
  <2>1. c.at \in WithBatch /\ port[p].status = "IN_PROGRESS"
    BY <1>6 DEF PortCommit, WithBatch, PairInv, CopierHasPort
  <2>2. /\ copier'[p].at = "top"
        /\ port'[p].status = port[p].status
        /\ port'[p].cursor = Max(c.batch)
        /\ copier'[p].cursor = Max(c.batch)
    <3>1. /\ port' = [port EXCEPT ![p].cursor = Max(c.batch)]
          /\ copier' = [copier EXCEPT ![p] =
                          [c EXCEPT !.at = "top", !.cursor = Max(c.batch),
                                    !.doc = 0, !.batch = {}, !.pit = Unread]]
      BY <1>6, <2>1 DEF PortCommit, CopierBecomes, IsPortActive, PortActive
    <3> QED BY <1>0, <3>1 DEF PortRows, CopierStates
  <2> HIDE DEF c
  <2> QED BY <2>1, <2>2 DEF PairInv, CopierHasPort, BatchIsNext, WithBatch
<1> QED BY <1>1, <1>2, <1>3, <1>4, <1>5, <1>6 DEF PortAct

LEMMA PortInvStep ==
  ASSUME TypeOK, PortInv, FenceHolds, [Next]_vars
  PROVE  PortInv'
<1>0. /\ port \in [Pairs -> PortRows] /\ PortTypeOK
      /\ \A p \in Pairs : ccStatus[p] \in PairStates
  BY DEF TypeOK, PortTypeOK, StoreTypeOK
<1> SUFFICES ASSUME NEW q \in Pairs PROVE PairInv(q)'
  BY DEF PortInv
<1>1. PairInv(q)
  BY DEF PortInv
<1>2. CASE PortsKept
  BY <1>1, <1>2, PairKept DEF PortsKept, portVars, RowKept
<1>3. CASE CancelEvery
  <2>1. copier'[q] = copier[q] /\ ccStatus'[q] = ccStatus[q] /\ RowKept(q)
    BY <1>0, <1>3, CanceledKeepsRow DEF CancelEvery, RowKept
  <2> QED BY <1>1, <2>1, PairKept
<1>4. ASSUME NEW p \in Pairs, CancelOne(p) PROVE PairInv(q)'
  <2>1. copier'[q] = copier[q] /\ ccStatus'[q] = ccStatus[q] /\ RowKept(q)
    BY <1>0, <1>4, CanceledKeepsRow DEF CancelOne, RowKept
  <2> QED BY <1>1, <2>1, PairKept
<1>5. ASSUME NEW p \in Pairs, PortAct(p) PROVE PairInv(q)'
  <2>1. CASE q = p
    BY <1>1, <1>5, <2>1, PortActKeepsInv
  <2>2. CASE q # p
    <3>1. port'[q] = port[q] /\ copier'[q] = copier[q] /\ UNCHANGED ccStatus
      BY <1>0, <1>5, <2>2, OtherPairs, PortActKeepsPairs
    <3> QED BY <1>1, <3>1, PairKept DEF RowKept
  <2> QED BY <2>1, <2>2
<1>6. ASSUME NEW p \in Pairs, FinishDeletion(p), FenceHolds
      PROVE  PairInv(q)'
  <2>1. copier' = copier /\ fence[p] = "ready"
    BY <1>6 DEF FinishDeletion
  <2>2. CASE q = p
    <3>1. copier[p].at \notin WithBatch \cup {"finish"}
      BY <1>6, <2>1 DEF FenceHolds
    <3>2. port'[p].status = "NONE" /\ ccStatus'[p] = "GONE"
      BY <1>0, <1>6 DEF FinishDeletion, NoPort, TypeOK, StoreTypeOK
    <3> QED BY <2>1, <2>2, <3>1, <3>2 DEF PairInv, CopierHasPort, BatchIsNext
  <2>3. CASE q # p
    <3>1. port'[q] = port[q] /\ ccStatus'[q] = ccStatus[q]
      BY <1>0, <1>6, <2>3 DEF FinishDeletion, TypeOK, StoreTypeOK
    <3> QED BY <1>1, <2>1, <3>1, PairKept DEF RowKept
  <2> QED BY <2>2, <2>3
<1> QED BY <1>2, <1>3, <1>4, <1>5, <1>6, EveryStepChangesPorts DEF PortChange

-----------------------------------------------------------------------------
(* The rows keep the contract.                                             *)
Statuses == [p \in Pairs |-> port[p].status]
Cursors  == [p \in Pairs |-> port[p].cursor]
Bounds   == [p \in Pairs |-> port[p].upTo]

(* A row that is written shows in the contract's variables.                *)
LEMMA RowShows ==
  ASSUME port \in [Pairs -> PortRows], NEW p \in Pairs, NEW row \in PortRows,
         port' = [port EXCEPT ![p] = row]
  PROVE  /\ Statuses' = [Statuses EXCEPT ![p] = row.status]
         /\ Cursors' = [Cursors EXCEPT ![p] = row.cursor]
         /\ Bounds' = [Bounds EXCEPT ![p] = row.upTo]
         /\ row.cursor = port[p].cursor => Cursors' = Cursors
         /\ row.upTo = port[p].upTo => Bounds' = Bounds
         /\ row.status = port[p].status => Statuses' = Statuses
BY DEF Statuses, Cursors, Bounds

ContractStep == [Contract!Step]_<<Statuses, Cursors, Bounds>>

LEMMA TerminalKeepsContract ==
  ASSUME PortTypeOK, NEW p \in Pairs, NEW status \in PortTerminal,
         port[p].status = "NOT_STARTED" => status # "SUCCESS",
         Terminal(p, status)
  PROVE  ContractStep
<1>1. CASE port[p].status \notin PortActive
  BY <1>1 DEF Terminal, ContractStep, Statuses, Cursors, Bounds
<1>2. CASE port[p].status \in PortActive
  <2> DEFINE row == [port[p] EXCEPT !.status = status]
  <2>1. /\ row \in PortRows /\ row.status = status
        /\ row.cursor = port[p].cursor /\ row.upTo = port[p].upTo
    BY DEF PortTypeOK, PortRows
  <2>2. port' = [port EXCEPT ![p] = row]
    BY <1>2 DEF Terminal
  <2> HIDE DEF row
  <2>3. /\ Statuses' = [Statuses EXCEPT ![p] = status]
        /\ Cursors' = Cursors /\ Bounds' = Bounds
    BY <2>1, <2>2, RowShows DEF PortTypeOK
  <2>4. Statuses[p] = port[p].status
    BY DEF Statuses
  <2>5. Contract!Finish(p)
    BY <1>2, <2>3, <2>4
       DEF Contract!Finish, Contract!Becomes, PortActive, PortTerminal,
           Statuses, Cursors, Bounds
  <2> QED BY <2>5 DEF ContractStep, Contract!Step
<1> QED BY <1>1, <1>2

LEMMA CanceledKeepsContract ==
  ASSUME PortTypeOK, NEW p \in Pairs, port' = [port EXCEPT ![p] = Canceled(@)]
  PROVE  ContractStep
<1> DEFINE row == Canceled(port[p])
<1>1. /\ row \in PortRows /\ port \in [Pairs -> PortRows]
      /\ row.cursor = port[p].cursor /\ row.upTo = port[p].upTo
      /\ port[p].status # "NOT_STARTED" => row.status = port[p].status
      /\ port[p].status = "NOT_STARTED" => row.status = "CANCELED"
  BY CanceledType, CanceledKeepsRow DEF PortTypeOK
<1>2. port' = [port EXCEPT ![p] = row]
  OBVIOUS
<1> HIDE DEF row
<1>3. /\ Statuses' = [Statuses EXCEPT ![p] = row.status]
      /\ Cursors' = Cursors /\ Bounds' = Bounds
      /\ row.status = port[p].status => Statuses' = Statuses
  BY <1>1, <1>2, RowShows
<1>4. CASE port[p].status # "NOT_STARTED"
  BY <1>1, <1>3, <1>4 DEF ContractStep
<1>5. CASE port[p].status = "NOT_STARTED"
  <2>1. Contract!Finish(p)
    BY <1>1, <1>3, <1>5
       DEF Contract!Finish, Contract!Becomes, Statuses, Cursors, Bounds
  <2> QED BY <2>1 DEF ContractStep, Contract!Step
<1> QED BY <1>4, <1>5

LEMMA AllCanceledKeepsContract ==
  ASSUME PortTypeOK, port' = [p \in Pairs |-> Canceled(port[p])]
  PROVE  ContractStep
<1>1. \A p \in Pairs :
        /\ port'[p].cursor = port[p].cursor
        /\ port'[p].upTo = port[p].upTo
        /\ port'[p].status = IF port[p].status = "NOT_STARTED" THEN "CANCELED"
                             ELSE port[p].status
  BY CanceledKeepsRow DEF PortTypeOK
<1>2. Contract!CancelAll
  BY <1>1 DEF Contract!CancelAll
<1> QED BY <1>2 DEF ContractStep, Contract!Step

LEMMA ScheduleKeepsContract ==
  ASSUME PortTypeOK, NEW p \in Pairs, SchedulePort(p)
  PROVE  ContractStep
<1> DEFINE bound == IF port[p].status = "NONE" THEN Snapshot(p)
                    ELSE port[p].upTo
           row == [status |-> "NOT_STARTED", cancel |-> FALSE,
                   cursor |-> port[p].cursor, upTo |-> bound]
<1>1. /\ port \in [Pairs -> PortRows] /\ port[p] \in PortRows
      /\ bound \in 0..NDocs
  BY SnapshotType DEF PortTypeOK, PortRows
<1>2. port' = [port EXCEPT ![p] = row]
  BY <1>1 DEF SchedulePort
<1>3. row \in PortRows
  <2> HIDE DEF bound
  <2> QED BY <1>1 DEF PortRows, PortActive
<1>4. row.status = "NOT_STARTED" /\ row.cursor = port[p].cursor
      /\ row.upTo = bound
  OBVIOUS
<1> HIDE DEF row
<1>5. /\ Statuses' = [Statuses EXCEPT ![p] = row.status]
      /\ Cursors' = Cursors /\ Bounds' = [Bounds EXCEPT ![p] = row.upTo]
      /\ row.upTo = port[p].upTo => Bounds' = Bounds
  BY <1>1, <1>2, <1>3, <1>4, RowShows
<1>6. CASE port[p].status = "NONE"
  <2>1. Contract!Create(p)
    BY <1>1, <1>4, <1>5, <1>6
       DEF Contract!Create, Contract!Becomes, Statuses, Cursors, Bounds
  <2> QED BY <2>1 DEF ContractStep, Contract!Step
<1>7. CASE port[p].status = "FAILED"
  <2>1. Contract!Resume(p)
    BY <1>4, <1>5, <1>7
       DEF Contract!Resume, Contract!Becomes, Statuses, Cursors, Bounds
  <2> QED BY <2>1 DEF ContractStep, Contract!Step
<1> QED BY <1>6, <1>7 DEF SchedulePort

LEMMA StartKeepsContract ==
  ASSUME PortTypeOK, NEW p \in Pairs, PortStart(p)
  PROVE  ContractStep
<1> DEFINE row == [port[p] EXCEPT !.status = "IN_PROGRESS"]
<1>1. /\ row \in PortRows /\ row.status = "IN_PROGRESS"
      /\ row.cursor = port[p].cursor /\ row.upTo = port[p].upTo
      /\ port \in [Pairs -> PortRows]
  BY DEF PortTypeOK, PortRows, PortActive
<1>2. port' = [port EXCEPT ![p] = row]
  BY DEF PortStart
<1> HIDE DEF row
<1>3. /\ Statuses' = [Statuses EXCEPT ![p] = row.status]
      /\ Cursors' = Cursors /\ Bounds' = Bounds
  BY <1>1, <1>2, RowShows
<1>4. Contract!Begin(p)
  BY <1>1, <1>3 DEF PortStart, Contract!Begin, Contract!Becomes, Statuses, Cursors,
              Bounds
<1> QED BY <1>4 DEF ContractStep, Contract!Step

(* The commit of a batch: its last document is ahead of the cursor, and    *)
(* not beyond the bound.                                                   *)
LEMMA CommitKeepsContract ==
  ASSUME PortTypeOK, NEW p \in Pairs, PairInv(p), PortCommit(p)
  PROVE  ContractStep
<1> DEFINE last == Max(copier[p].batch)
           row == [port[p] EXCEPT !.cursor = last]
<1>1. /\ port[p].status = "IN_PROGRESS"
      /\ copier[p].batch # {}
      /\ \A d \in copier[p].batch : port[p].cursor < d /\ d <= port[p].upTo
  BY DEF PortCommit, PairInv, CopierHasPort, BatchIsNext, WithBatch
<1>2. copier[p].batch \in SUBSET Docs /\ NDocs \in Nat
  BY DocumentStoreAssumption DEF PortTypeOK, CopierStates
<1>3. last \in copier[p].batch
  BY <1>1, <1>2, MaxDocument
<1>4. /\ port \in [Pairs -> PortRows]
      /\ port[p].cursor \in Nat /\ port[p].upTo \in Nat /\ last \in 1..NDocs
      /\ last \in (port[p].cursor + 1)..port[p].upTo
  BY <1>1, <1>2, <1>3 DEF PortTypeOK, PortRows, Docs
<1>5. port' = [port EXCEPT ![p] = row]
  BY <1>1 DEF PortCommit, IsPortActive, PortActive
<1> HIDE DEF last
<1>6. /\ row \in PortRows /\ row.cursor = last
      /\ row.upTo = port[p].upTo /\ row.status = port[p].status
  BY <1>2, <1>4 DEF PortRows
<1> HIDE DEF row
<1>7. /\ Cursors' = [Cursors EXCEPT ![p] = last]
      /\ Statuses' = Statuses /\ Bounds' = Bounds
  BY <1>4, <1>5, <1>6, RowShows
<1>8. Contract!Advance(p)
  BY <1>1, <1>4, <1>7 DEF Contract!Advance, Statuses, Cursors, Bounds
<1> QED BY <1>8 DEF ContractStep, Contract!Step

LEMMA ForgetKeepsContract ==
  ASSUME PortTypeOK, NEW p \in Pairs, FinishDeletion(p)
  PROVE  ContractStep
<1>1. /\ port' = [port EXCEPT ![p] = NoPort]
      /\ port \in [Pairs -> PortRows] /\ NoPort \in PortRows
  BY IdleTypes DEF FinishDeletion, PortTypeOK
<1>2. /\ Statuses' = [Statuses EXCEPT ![p] = NoPort.status]
      /\ Cursors' = [Cursors EXCEPT ![p] = NoPort.cursor]
      /\ Bounds' = [Bounds EXCEPT ![p] = NoPort.upTo]
  BY <1>1, RowShows
<1>3. NoPort.status = "NONE" /\ NoPort.cursor = 0 /\ NoPort.upTo = NDocs
  BY DEF NoPort
<1>4. Contract!Forget(p)
  BY <1>2, <1>3
     DEF Contract!Forget, Contract!Becomes, Statuses, Cursors, Bounds
<1> QED BY <1>4 DEF ContractStep, Contract!Step

LEMMA PortActKeepsContract ==
  ASSUME PortTypeOK, NEW p \in Pairs, PairInv(p), PortAct(p)
  PROVE  ContractStep
<1>1. CASE SchedulePort(p)
  BY <1>1, ScheduleKeepsContract
<1>2. CASE EnqueueFails(p) \/ FailStalled(p) \/ PortYields(p) \/ PortFails(p)
  BY <1>2, TerminalKeepsContract
     DEF EnqueueFails, FailStalled, PortYields, PortFails, PortTerminal
<1>3. CASE PortStart(p)
  BY <1>3, StartKeepsContract
<1>4. CASE PortStops(p)
  BY <1>4, TerminalKeepsContract DEF PortStops, PortTerminal
<1>5. CASE PortFinish(p)
  BY <1>5, TerminalKeepsContract
     DEF PortFinish, PortTerminal, PairInv, CopierHasPort
<1>6. CASE \/ PortPage(p) \/ PortRead(p) \/ PortAborts(p) \/ PortWrite(p)
           \/ PortRetries(p) \/ PortDies(p)
           \/ \E d \in Docs : PortCopy(p, d)
  <2>1. UNCHANGED port
    BY <1>6 DEF PortPage, PortRead, PortAborts, PortWrite, PortRetries,
                PortDies, PortCopy
  <2> QED BY <2>1 DEF ContractStep, Statuses, Cursors, Bounds
<1>7. CASE PortCommit(p)
  BY <1>7, CommitKeepsContract
<1> QED BY <1>1, <1>2, <1>3, <1>4, <1>5, <1>6, <1>7 DEF PortAct

LEMMA StepKeepsContract ==
  ASSUME TypeOK, PortInv, [Next]_vars
  PROVE  ContractStep
<1>0. PortTypeOK /\ \A p \in Pairs : PairInv(p)
  BY DEF TypeOK, PortInv
<1>1. CASE PortsKept
  BY <1>1 DEF PortsKept, portVars, ContractStep, Statuses, Cursors, Bounds
<1>2. CASE CancelEvery
  BY <1>0, <1>2, AllCanceledKeepsContract DEF CancelEvery
<1>3. CASE \E p \in Pairs : PortAct(p)
  BY <1>0, <1>3, PortActKeepsContract
<1>4. CASE \E p \in Pairs : CancelOne(p)
  BY <1>0, <1>4, CanceledKeepsContract DEF CancelOne
<1>5. CASE \E p \in Pairs : FinishDeletion(p)
  BY <1>0, <1>5, ForgetKeepsContract
<1> QED BY <1>1, <1>2, <1>3, <1>4, <1>5, EveryStepChangesPorts DEF PortChange

-----------------------------------------------------------------------------
(* The fence of a deletion                                                 *)
AtWork(q) == copier[q].at \in WithBatch \cup {"finish"}

(* No port starts to write for a cc_pair that is being deleted.            *)
NobodyStarts ==
    \A q \in Pairs : ccStatus[q] = "DELETING" => (AtWork(q)' => AtWork(q))

FencesKept == UNCHANGED <<ccStatus, fence>>

LEMMA PortStartsNobody ==
  ASSUME PortTypeOK, NEW p \in Pairs, PortAct(p)
  PROVE  \A q \in Pairs : ccStatus[q] = "DELETING" => (AtWork(q)' => AtWork(q))
<1>0. copier \in [Pairs -> CopierStates]
  BY DEF PortTypeOK
<1>1. \A q \in Pairs : q # p => copier'[q] = copier[q]
  BY OtherPairs
<1>2. CASE AtWork(p) \/ UNCHANGED copier
  BY <1>1, <1>2 DEF AtWork
<1>3. CASE PortStart(p)
  BY <1>0, <1>1, <1>3 DEF PortStart, AtWork, CopierBecomes, CopierIdle, WithBatch
<1>4. CASE PortStops(p) \/ PortYields(p) \/ PortDies(p)
  BY <1>0, <1>1, <1>4
     DEF PortStops, PortYields, PortDies, CopierStops, CopierBecomes,
         CopierIdle, AtWork, WithBatch
<1>5. CASE PortPage(p)
  BY <1>1, <1>5 DEF PortPage, MustAck, AtWork
<1>6. \/ AtWork(p) \/ UNCHANGED copier \/ PortStart(p) \/ PortPage(p)
      \/ PortStops(p) \/ PortYields(p) \/ PortDies(p)
  BY DEF PortAct, SchedulePort, EnqueueFails, FailStalled, PortFails,
         PortFinish, PortRead, PortAborts, PortWrite, PortRetries, PortCopy,
         PortCommit, AtWork, WithBatch
<1> QED BY <1>2, <1>3, <1>4, <1>5, <1>6

LEMMA OthersKeepFences ==
  ASSUME TypeOK, [Next]_vars,
         \A p \in Pairs : ~(Delete(p) \/ DeletionStep(p) \/ DeletionFault(p))
  PROVE  FencesKept /\ NobodyStarts
<1>0. PortTypeOK
  BY DEF TypeOK
<1>1. CASE \/ UnpinStep
           \/ \E p \in Pairs : PortBeat(p) \/ PortStep(p) \/ PortFault(p)
  <2>1. UNCHANGED fence
    BY <1>1 DEF UnpinStep, PortBeat, PortReads, PortStep, PortFault,
                othersOfPort, deletionVars
  <2>2. CASE UnpinStep
    BY <2>1, <2>2 DEF UnpinStep, UnpinSource, dbVars, portVars, FencesKept,
                      NobodyStarts, AtWork
  <2>3. CASE \E p \in Pairs : PortBeat(p) \/ PortStep(p) \/ PortFault(p)
    <3>1. PICK p \in Pairs : PortAct(p)
      BY <2>3 DEF PortBeat, PortReads, PortStep, PortFault, PortAct
    <3> QED BY <1>0, <2>1, <3>1, PortActKeepsPairs, PortStartsNobody
            DEF FencesKept, NobodyStarts
  <2> QED BY <1>1, <2>2, <2>3
<1>2. CASE ReindexStep \/ SwapStep \/ SwapFault
  <2>1. UNCHANGED fence
    BY <1>2 DEF ReindexStep, SwapStep, SwapFault, othersOfSwap, deletionVars
  <2>2. UNCHANGED <<copier, ccStatus>>
    BY <1>2, SwapChangesPorts DEF PortsKept, CancelEvery, portVars
  <2> QED BY <2>1, <2>2 DEF FencesKept, NobodyStarts, AtWork
<1>3. CASE \/ SyncBeat
           \/ \E d \in Docs : Edit(d) \/ SyncStep(d) \/ SyncFault(d)
           \/ \E p \in Pairs : KickoffIndexing(p) \/ IndexingStep(p)
           \/ \E p \in Pairs : PruneBeat(p) \/ PruneStep(p) \/ PruneFault(p)
           \/ \E c \in cleanup : CleanupStep(c) \/ CleanupFault(c)
           \/ UNCHANGED vars
  <2>1. UNCHANGED <<copier, ccStatus>>
    BY <1>3, OthersKeepPorts DEF PortsKept, portVars
  <2>2. UNCHANGED fence
    BY <1>3 DEF SyncBeat, Edit, SyncReads, SyncStep, SyncFault,
                KickoffIndexing, IndexWrites, IndexingStep, PruneBeat,
                PruneGenerates, PruneStep, PruneFault, CleanupReads,
                CleanupStep, CleanupRepeated, CleanupFault, othersOfSync,
                othersOfIndexing, othersOfPruning, othersOfCleanup,
                deletionVars, vars
  <2> QED BY <2>1, <2>2 DEF FencesKept, NobodyStarts, AtWork
<1> QED BY <1>1, <1>2, <1>3 DEF Next

(* What a deletion sees is not blocked has no port that writes.            *)
LEMMA NotBlockedNobodyWrites ==
  ASSUME PortInv, NEW p \in Pairs, ~Blocked(p)
  PROVE  ~AtWork(p)
BY DEF PortInv, PairInv, CopierHasPort, AtWork, Blocked, IsPortActive,
       PortActive

-----------------------------------------------------------------------------
(* The tasks a deletion counts                                             *)
NobodyCounts(q) == Tracked("delete", q) = {} => Tracked("delete", q)' = {}

LEMMA BecomesCountsNobody ==
  ASSUME NEW c \in cleanup, NEW next, Becomes(c, next), NEW q \in Pairs,
         next.kind = c.kind, next.pair = c.pair,
         next.tracked = TRUE => c.tracked = TRUE,
         next.tracked \in BOOLEAN, c.tracked \in BOOLEAN
  PROVE  NobodyCounts(q)
BY DEF Becomes, NobodyCounts, Tracked

LEMMA EndsCountsNobody ==
  ASSUME NEW c \in cleanup, Ends(c), NEW q \in Pairs
  PROVE  NobodyCounts(q)
BY DEF Ends, NobodyCounts, Tracked

LEMMA UntrackCountsNobody ==
  ASSUME CleanupTypeOK, NEW p, NEW q \in Pairs, NEW kind,
         \A c \in cleanup' : \/ c \in Untrack(kind, p)
                             \/ c.kind = "prune" \/ c.pair # q
  PROVE  NobodyCounts(q)
<1> SUFFICES ASSUME Tracked("delete", q) = {}, NEW c \in Tracked("delete", q)'
             PROVE  FALSE
  BY DEF NobodyCounts
<1>1. c \in cleanup' /\ c.kind = "delete" /\ c.pair = q /\ c.tracked
  BY DEF Tracked
<1>2. c \in Untrack(kind, p)
  BY <1>1
<1>3. PICK b \in cleanup :
        c = IF b.kind = kind /\ b.pair = p THEN [b EXCEPT !.tracked = FALSE]
            ELSE b
  BY <1>2 DEF Untrack
<1>4. b \in CleanupTasks
  BY DEF CleanupTypeOK
<1>5. c = b
  BY <1>1, <1>3, <1>4 DEF CleanupTasks
<1> QED BY <1>1, <1>5 DEF Tracked

LEMMA CleanupCountsNobody ==
  ASSUME CleanupTypeOK, NEW c \in cleanup, CleanupStep(c) \/ CleanupFault(c),
         NEW q \in Pairs
  PROVE  NobodyCounts(q)
<1>1. c \in CleanupTasks /\ c.tracked \in BOOLEAN
  BY DEF CleanupTypeOK, CleanupTasks
<1>2. CASE Ends(c)
  BY <1>2, EndsCountsNobody
<1> DEFINE Same(next) == /\ next.kind = c.kind /\ next.pair = c.pair
                         /\ next.tracked \in {c.tracked, FALSE}
<1>3. ASSUME NEW next, Becomes(c, next), Same(next)
      PROVE  NobodyCounts(q)
  BY <1>1, <1>3, BecomesCountsNobody
<1>4. CASE CleanupRead(c)
  <2> DEFINE next == [c EXCEPT
                  !.at = "index",
                  !.act = IF ConnectorCount(c.doc) = 1 THEN "DELETE"
                          ELSE "UPDATE",
                  !.into = ActiveIndices,
                  !.meta = IF ConnectorCount(c.doc) = 1 THEN None
                           ELSE Metadata(c.doc)]
  <2>1. Ends(c) \/ Becomes(c, next)
    BY <1>4 DEF CleanupRead
  <2>2. Same(next)
    BY <1>1 DEF CleanupTasks
  <2> HIDE DEF next, Same
  <2> QED BY <1>2, <1>3, <2>1, <2>2
<1>5. /\ Same(Retried(c))
      /\ Same([c EXCEPT !.at = "commit"]) /\ Same([c EXCEPT !.at = "done"])
      /\ \A tracked \in {c.tracked, FALSE} :
            Same([Retried(c) EXCEPT !.tracked = tracked])
  BY <1>1 DEF Retried, CleanupTasks
<1> HIDE DEF Same
<1>6. CASE CleanupIndex(c)
  BY <1>3, <1>5, <1>6 DEF CleanupIndex
<1>7. CASE CommitDelete(c) \/ CommitUpdate(c) \/ CleanupExhausted(c)
  BY <1>3, <1>5, <1>7 DEF CommitDelete, CommitUpdate, CleanupExhausted
<1>8. CASE CleanupRetries(c) \/ CleanupRepeats(c)
  BY <1>3, <1>5, <1>8 DEF CleanupRetries, CleanupRepeats
<1>9. CASE CleanupEnds(c) \/ CleanupGivesUp(c)
  BY <1>2, <1>9 DEF CleanupEnds, CleanupGivesUp
<1> QED BY <1>4, <1>6, <1>7, <1>8, <1>9
        DEF CleanupReads, CleanupStep, CleanupRepeated, CleanupFault

LEMMA PruningCountsNobody ==
  ASSUME TypeOK, NEW p \in Pairs, PruneBeat(p) \/ PruneStep(p) \/ PruneFault(p),
         NEW q \in Pairs
  PROVE  NobodyCounts(q)
<1>0. CleanupTypeOK
  BY DEF TypeOK
<1>1. CASE UNCHANGED cleanup
  BY <1>1 DEF NobodyCounts, Tracked
<1>2. CASE PruneCreate(p)
  BY <1>0, <1>2, UntrackCountsNobody DEF PruneCreate
<1>3. CASE PruneGenerate(p)
  BY <1>3 DEF PruneGenerate, NobodyCounts, Tracked, Task
<1>4. ASSUME NEW sent, PruneFails(p, sent) PROVE NobodyCounts(q)
  <2> DEFINE T == {[Task("prune", p, d) EXCEPT !.tracked = FALSE] : d \in sent}
  <2>1. \A c \in T : c.kind = "prune"
    BY DEF Task
  <2>2. cleanup' = Untrack("prune", p) \cup T
    BY <1>4 DEF PruneFails
  <2> HIDE DEF T
  <2> QED BY <1>0, <2>1, <2>2, UntrackCountsNobody
<1> QED BY <1>1, <1>2, <1>3, <1>4
        DEF PruneBeat, PruneGenerates, PruneStep, PruneFault, PruneCheck,
            PruneMonitor

(* Tasks are counted that were not before only when they are sent, behind  *)
(* a fence that has seen nothing in the way.                               *)
LEMMA DeletionCounts ==
  ASSUME TypeOK, NEW p \in Pairs,
         Delete(p) \/ DeletionStep(p) \/ DeletionFault(p), NEW q \in Pairs
  PROVE  NobodyCounts(q) \/ (q = p /\ fence[p] = "setup" /\ ~Blocked(p))
<1>0. CleanupTypeOK
  BY DEF TypeOK
<1>1. CASE UNCHANGED cleanup
  BY <1>1 DEF NobodyCounts, Tracked
<1>2. CASE ResetFenceInUse(p) \/ \E timedOut \in BOOLEAN : DeletionBlocked(p, timedOut)
  <2>1. \/ cleanup' = cleanup \/ cleanup' = Untrack("prune", p)
        \/ cleanup' = Untrack("delete", p)
    BY <1>2 DEF DeletionBlocked, ResetFenceInUse
  <2> QED BY <1>0, <1>1, <2>1, UntrackCountsNobody
<1>3. CASE GenerateCleanup(p) \/ \E sent \in SUBSET Docs : GenerateInPart(p, sent)
  <2>1. fence[p] = "setup" /\ ~Blocked(p)
    BY <1>3 DEF GenerateCleanup, GenerateInPart
  <2>2. CASE q # p
    <3>1. PICK ids \in SUBSET LinkedTo(p) :
            cleanup' = Untrack("delete", p) \cup TasksFor(p, ids)
      BY <1>3 DEF GenerateCleanup, GenerateInPart
    <3>2. \A c \in TasksFor(p, ids) : c.pair = p
      BY DEF TasksFor, Task
    <3> QED BY <1>0, <2>2, <3>1, <3>2, UntrackCountsNobody
  <2> QED BY <2>1, <2>2
<1> QED BY <1>1, <1>2, <1>3
        DEF Delete, RequestDeletion, DeletionGenerates, DeletionStep,
            DeletionCutShort, DeletionFault, RaiseDeletionFence,
            ResetDeletionFence, RestartDeletion, FinishDeletion,
            DeletionBeatDies, DeletionRaises

LEMMA OthersCountNobody ==
  ASSUME TypeOK, [Next]_vars, NEW q \in Pairs,
         \A p \in Pairs : ~(Delete(p) \/ DeletionStep(p) \/ DeletionFault(p))
  PROVE  NobodyCounts(q)
<1>1. CASE \E c \in cleanup : CleanupStep(c) \/ CleanupFault(c)
  BY <1>1, CleanupCountsNobody DEF TypeOK
<1>2. CASE \E p \in Pairs : PruneBeat(p) \/ PruneStep(p) \/ PruneFault(p)
  BY <1>2, PruningCountsNobody
<1>3. CASE UNCHANGED cleanup
  BY <1>3 DEF NobodyCounts, Tracked
<1>4. CASE \/ SyncBeat \/ UnpinStep \/ ReindexStep \/ SwapStep \/ SwapFault
           \/ \E d \in Docs : Edit(d) \/ SyncStep(d) \/ SyncFault(d)
           \/ \E p \in Pairs : PortBeat(p) \/ PortStep(p) \/ PortFault(p)
           \/ \E p \in Pairs : KickoffIndexing(p) \/ IndexingStep(p)
           \/ UNCHANGED vars
  <2>1. UNCHANGED cleanup
    BY <1>4 DEF SyncBeat, UnpinStep, ReindexStep, SwapStep, SwapFault, Edit,
                SyncReads, SyncStep, SyncFault, PortBeat, PortReads, PortStep,
                PortFault, KickoffIndexing, IndexWrites, IndexingStep,
                othersOfSync, othersOfPort, othersOfSwap, othersOfIndexing,
                taskVars, vars
  <2> QED BY <1>3, <2>1
<1> QED BY <1>1, <1>2, <1>4 DEF Next

-----------------------------------------------------------------------------
(* FenceHolds is inductive.                                                *)
Sent(q) == fence[q] \in {"ready", "orphan"} \/ Tracked("delete", q) # {}

FencePair(q) ==
    /\ Fenced(q) => ccStatus[q] = "DELETING"
    /\ Sent(q) => ccStatus[q] = "DELETING" /\ ~AtWork(q)

LEMMA DeletionFences ==
  ASSUME TypeOK, NEW p \in Pairs, DeletionStep(p) \/ DeletionFault(p)
  PROVE  /\ UNCHANGED copier
         /\ \A q \in Pairs \ {p} : UNCHANGED <<fence[q], ccStatus[q]>>
         /\ FinishDeletion(p) \/ UNCHANGED ccStatus
         /\ \/ fence'[p] = "none"
            \/ fence'[p] = "setup" /\ ccStatus[p] = "DELETING"
            \/ fence'[p] \in {"ready", "orphan"} /\ fence[p] = "setup"
                                                /\ ~Blocked(p)
<1>0. fence \in [Pairs -> FencePlaces] /\ ccStatus \in [Pairs -> PairStates]
  BY DEF TypeOK, DeletionTypeOK, StoreTypeOK
<1>1. CASE FinishDeletion(p)
  BY <1>0, <1>1 DEF FinishDeletion
<1>2. CASE \E sent \in SUBSET Docs :
             DeletionBeatDies(p, sent) \/ DeletionRaises(p, sent)
  BY <1>0, <1>2 DEF DeletionBeatDies, DeletionRaises, GenerateInPart,
                    deletionFrame, storeVars, dbVars
<1>3. CASE \/ RaiseDeletionFence(p) \/ GenerateCleanup(p)
           \/ ResetDeletionFence(p) \/ ResetFenceInUse(p)
           \/ RestartDeletion(p)
           \/ \E timedOut \in BOOLEAN : DeletionBlocked(p, timedOut)
  BY <1>0, <1>3 DEF RaiseDeletionFence, GenerateCleanup, ResetDeletionFence,
                    ResetFenceInUse, RestartDeletion, DeletionBlocked,
                    deletionFrame, storeVars, dbVars
<1> QED BY <1>1, <1>2, <1>3
        DEF DeletionGenerates, DeletionStep, DeletionCutShort, DeletionFault

LEMMA FenceStep ==
  ASSUME TypeOK, PortInv, FenceHolds, [Next]_vars
  PROVE  FenceHolds'
<1>0. /\ fence \in [Pairs -> FencePlaces] /\ ccStatus \in [Pairs -> PairStates]
      /\ \A q \in Pairs : FencePair(q)
  BY DEF TypeOK, DeletionTypeOK, StoreTypeOK, FenceHolds, FencePair, Sent, AtWork
<1> SUFFICES ASSUME NEW q \in Pairs PROVE FencePair(q)'
  BY DEF FenceHolds, FencePair, Sent, AtWork
<1>1. CASE \A p \in Pairs : ~(Delete(p) \/ DeletionStep(p) \/ DeletionFault(p))
  <2>1. FencesKept /\ NobodyStarts /\ NobodyCounts(q)
    BY <1>1, OthersKeepFences, OthersCountNobody
  <2> QED BY <1>0, <2>1
          DEF FencesKept, NobodyStarts, NobodyCounts, FencePair, Sent, Fenced
<1>2. ASSUME NEW p \in Pairs, Delete(p) PROVE FencePair(q)'
  <2>1. /\ UNCHANGED <<fence, cleanup, copier>>
        /\ ccStatus[p] # "DELETING"
        /\ \A r \in Pairs \ {p} : ccStatus'[r] = ccStatus[r]
    BY <1>0, <1>2 DEF Delete, RequestDeletion, Indexable, portVars
  <2> QED BY <1>0, <2>1 DEF FencePair, Sent, Fenced, Tracked, AtWork
<1>3. ASSUME NEW p \in Pairs, DeletionStep(p) \/ DeletionFault(p)
      PROVE  FencePair(q)'
  <2>1. NobodyCounts(q) \/ (q = p /\ fence[p] = "setup" /\ ~Blocked(p))
    BY <1>3, DeletionCounts
  <2>2. CASE FinishDeletion(p)
    BY <1>0, <2>2
       DEF FinishDeletion, FencePair, Sent, Fenced, Tracked, AtWork
  <2>3. CASE ~FinishDeletion(p)
    <3>1. UNCHANGED <<ccStatus, copier>>
      BY <1>3, <2>3, DeletionFences
    <3>2. CASE q # p
      <4>1. fence'[q] = fence[q]
        BY <1>3, <3>2, DeletionFences
      <4> QED BY <1>0, <2>1, <3>1, <3>2, <4>1
              DEF NobodyCounts, FencePair, Sent, Fenced, AtWork
    <3>3. CASE q = p
      <4>1. \/ fence'[p] = "none"
            \/ fence'[p] = "setup" /\ ccStatus[p] = "DELETING"
            \/ fence'[p] \in {"ready", "orphan"} /\ fence[p] = "setup"
                                                /\ ~Blocked(p)
        BY <1>3, DeletionFences
      <4>2. fence[p] = "setup" /\ ~Blocked(p) =>
              ccStatus[p] = "DELETING" /\ ~AtWork(p)
        BY <1>0, NotBlockedNobodyWrites DEF FencePair, Fenced
      <4> QED BY <1>0, <2>1, <3>1, <3>3, <4>1, <4>2
              DEF NobodyCounts, FencePair, Sent, Fenced, AtWork
    <3> QED BY <3>2, <3>3
  <2> QED BY <2>2, <2>3
<1> QED BY <1>1, <1>2, <1>3

-----------------------------------------------------------------------------
(* The theorems                                                            *)
LEMMA InitIInv == Init => IInv
<1> SUFFICES ASSUME Init PROVE IInv
  OBVIOUS
<1>1. PortInv
  BY DEF Init, PortInit, CopierIdle, PortInv, PairInv, CopierHasPort,
         BatchIsNext, WithBatch
<1>2. FenceHolds
  BY DEF Init, DeletionInit, CleanupInit, FenceHolds, Fenced, Tracked
<1> QED BY <1>1, <1>2, InitTypes DEF IInv

(* The inductive invariant                                                 *)
THEOREM JobInvariance == Spec => []IInv
<1>1. IInv /\ [Next]_vars => IInv'
  <2> SUFFICES ASSUME IInv, [Next]_vars PROVE IInv'
    OBVIOUS
  <2>1. BatchesInHand
    BY DEF IInv, PortInv, PairInv, BatchIsNext, BatchesInHand, WithBatch
  <2> QED BY <2>1, TypeStep, PortInvStep, FenceStep DEF IInv
<1> QED BY InitIInv, <1>1, PTL DEF Spec

(* Every variable of the jobs keeps its type; in particular a port's       *)
(* cursor and bound stay within the documents, whatever dies or is retried *)
(* (db/port_attempt.py).                                                   *)
THEOREM JobTypesCorrect == Spec => []TypeOK
<1>1. IInv => TypeOK
  BY DEF IInv
<1> QED BY JobInvariance, <1>1, PTL

(* The rows of port_attempt implement PortContract, for any number of      *)
(* cc_pairs and documents, any page size and with every kind of fault: a   *)
(* cursor moves forward only, while its attempt runs; a first terminal     *)
(* status stays; only a FAILED attempt is resumed, where it stopped.       *)
THEOREM PortImplementsContract == Spec => KeepsPortContract
<1>1. Init => Contract!AttemptInit
  BY DEF Init, PortInit, NoPort, Contract!AttemptInit
<1>2. IInv /\ [Next]_vars => ContractStep
  BY StepKeepsContract DEF IInv
<1>3. ContractStep => [Contract!Step]_(Contract!attemptVars)
  BY DEF ContractStep, Contract!attemptVars, Statuses, Cursors, Bounds
<1> QED BY JobInvariance, <1>1, <1>2, <1>3, PTL
        DEF Spec, KeepsPortContract, Contract!Spec

(* While a task of a deletion is counted, no port has a batch of the       *)
(* cc_pair in hand: neither one that the deletion asked to stop, nor one   *)
(* that starts later (try_generate_document_cc_pair_cleanup_tasks).        *)
THEOREM LastWriter == Spec => []CleanupIsLastWriter
<1>1. IInv => CleanupIsLastWriter
  <2> SUFFICES ASSUME IInv, NEW c \in cleanup, c.kind = "delete", c.tracked
               PROVE  copier[c.pair].at \notin {"read", "copy", "write"}
    BY DEF CleanupIsLastWriter
  <2>1. c.pair \in Pairs /\ c \in Tracked("delete", c.pair)
    BY DEF IInv, TypeOK, CleanupTypeOK, CleanupTasks, Tracked
  <2> QED BY <2>1 DEF IInv, FenceHolds, WithBatch
<1> QED BY JobInvariance, <1>1, PTL
=============================================================================
