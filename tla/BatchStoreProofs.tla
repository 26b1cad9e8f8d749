-------------------------- MODULE BatchStoreProofs --------------------------
(***************************************************************************)
(* Proofs about BatchStore: its types, and, for a Quiet cc_pair, that no   *)
(* stored batch is lost, no two rows share an object and a resume leaves   *)
(* nothing behind.                                                         *)
(*                                                                         *)
(* The argument.  In a cc_pair no two of whose processes met, the attempts *)
(* are at their loops one at a time (TurnsTaken), although each may go on  *)
(* after its verdict until the next one begins.  The one that is at its    *)
(* loop has every row of the cc_pair, or still has it on its list          *)
(* (RowsAreFound).  Its rows have different numbers, so no rename replaces *)
(* a row, and a batch is stored under a number above them.  Tasks of any   *)
(* attempt run beside: one deletes only the batch that it has counted.     *)
(* What is left is the cleanup of a completed attempt, which deletes       *)
(* whatever it finds.  It may do so because of a count (CountsAddUp): the  *)
(* batches that still have to be counted never outnumber the ones          *)
(* completed_batches is short of total_batches, so when the one reaches    *)
(* the other there are none.                                               *)
(***************************************************************************)
EXTENDS BatchStore, GreatestNumber, FiniteSetTheorems, TLAPS

(* A task that is busy has a file and the batch it loaded from it.         *)
TaskHasBatch ==
    \/ task = NoTask
    \/ /\ task.at \in {"index", "delete", "unlink"}
       /\ task.file \in FileIds /\ task.key \in FileIds

(* A batch that is being stored has a number within the bound.             *)
NumbersInRange ==
    \A a \in Attempts : place[a] \in {"put", "queue"} => total[a] \in BatchNums

TypeInv == TypeOK /\ TaskHasBatch /\ NumbersInRange

-----------------------------------------------------------------------------
(* The invariant of one cc_pair                                            *)
AttemptsOf(p) == {a \in Attempts : PairOf[a] = p}
PairRows(p)   == {f \in Rows : Pair(f) = p}
TaskOf(p)     == task.at # "idle" /\ Pair(task.file) = p

(* Nobody has rows or batches of p on a list, in hand or at work but the   *)
(* attempts and tasks of p.                                                *)
KeysApart(p) ==
    /\ \A f \in Rows : Pair(record[f]) = p <=> Pair(f) = p
    /\ \A a \in Attempts :
         /\ \A f \in todo[a] \cup old[a] : Pair(f) = p <=> PairOf[a] = p
         /\ inHand[a] # None =>
              /\ Pair(inHand[a].file) = p <=> PairOf[a] = p
              /\ Pair(inHand[a].key) = p <=> PairOf[a] = p
    /\ task.at # "idle" => (Pair(task.key) = p <=> Pair(task.file) = p)

(* The attempt is at its loop, or waits for the beat task.                 *)
Busy(a) ==
    /\ place[a] \notin {"absent", "start", "over"}
    /\ place[a] = "wait" => status[a] # "ended"

(* An attempt begins its loop when those before it are past theirs.        *)
TurnsTaken(p) ==
    \A a \in AttemptsOf(p) :
        /\ status[a] = "none" <=> place[a] = "absent"
        /\ \A b \in AttemptsOf(p) : b < a =>
             /\ place[a] # "absent" => status[b] = "ended"
             /\ place[a] \notin {"absent", "start", "over"}
                  => place[b] \in {"wait", "over"}

Unborn == {"absent", "start", "discard"}

(* The batch of this key may have been stored.                             *)
Issued(k) ==
    /\ place[k[1]] \notin Unborn
    /\ place[k[1]] \in {"run", "put"} => k[2] < total[k[1]]
    /\ place[k[1]] = "queue" => k[2] <= total[k[1]]

(* A rename keeps the number a batch was stored under, no two rows of the  *)
(* cc_pair have one number, or one object, and none a name of the future.  *)
NamesDiffer(p) ==
    /\ \A f \in PairRows(p) :
         /\ record[f][2] = f[2]
         /\ Issued(record[f])
         /\ place[f[1]] \notin Unborn
    /\ \A f, g \in PairRows(p) : f[2] = g[2] => f = g
    /\ \A f, g \in PairRows(p) : record[f] = record[g] => f = g

ListingsDiffer(p) ==
    \A a \in AttemptsOf(p) :
        /\ \A f, g \in old[a] : f[2] = g[2] => f = g
        /\ place[a] = "adopt" => \A f \in old[a] : f[1] # a
        /\ place[a] \in {"adopt", "reissue"} => todo[a] \subseteq old[a]

(* The row a loop has in hand is still the only one with its number and    *)
(* its batch, if it is there, and when it is to be deleted the batch has   *)
(* lost its object.                                                        *)
InHandIsAlone(p) ==
    \A a \in AttemptsOf(p) : inHand[a] # None =>
        LET f == inHand[a].file  k == inHand[a].key
        IN  /\ place[a] \in {"discard", "clean", "adopt"}
            /\ k[2] = f[2] /\ Issued(k)
            /\ f \in Rows => record[f] = k
            /\ \A h \in PairRows(p) : h[2] = f[2] \/ record[h] = k => h = f
            /\ place[a] = "adopt" => f \in todo[a]
            /\ place[a] # "adopt" => k \notin objects

(* The attempt at its loop has every row of its cc_pair, or still has it   *)
(* on its list.                                                            *)
RowsAreFound(p) ==
    \A a \in AttemptsOf(p) : \A f \in PairRows(p) :
        /\ place[a] = "discard" => \/ f \in todo[a]
                                   \/ inHand[a] # None /\ inHand[a].file = f
        /\ place[a] = "adopt" => f \in todo[a] \/ f[1] = a
        /\ Busy(a) /\ place[a] \notin {"discard", "adopt"} => f[1] = a
        /\ place[a] \in {"run", "put"} => f[2] < total[a]
        /\ place[a] = "queue" => f[2] <= total[a]

(* The object comes before the row.                                        *)
PutHasObject(p) ==
    \A a \in AttemptsOf(p) : place[a] = "put" => <<a, total[a]>> \in objects

(* An attempt of these has neither messages nor tasks yet.                 *)
Newborn == Unborn \cup {"adopt"}

(* A message for the file was sent, and is not to be sent again.           *)
Sent(f) ==
    /\ place[f[1]] \notin Newborn
    /\ place[f[1]] \in {"run", "put", "queue"} => f[2] < total[f[1]]
    /\ place[f[1]] = "reissue" => \A g \in todo[f[1]] : g[2] # f[2]

MessagesAreSent(p) == \A f \in messages : Pair(f) = p => Sent(f)

(* The row from which the task took its batch still points at that batch,  *)
(* if it exists, as it does while the attempt goes on and the batch is not *)
(* counted.                                                                *)
RowOfTask(p) ==
    TaskOf(p) =>
        /\ record[task.file] \in {None, task.key}
        /\ task.at = "index" /\ Busy(task.file[1])
             => record[task.file] = task.key
        /\ task.at # "index" => task.key \in done
        /\ task.at = "unlink" /\ task.file \in Rows
             => record[task.file] \notin objects

(* The task alone has its message.                                         *)
TaskHoldsMessage(p) ==
    TaskOf(p) => Sent(task.file) /\ task.file \notin messages

(* The numbers of the batches that the attempt has still to count, or may  *)
Uncounted(a) ==
    {n \in BatchNums :
       \/ <<a, n>> \in messages
       \/ task.at = "index" /\ task.file = <<a, n>>
       \/ place[a] = "adopt" /\ \E f \in old[a] : f[2] = n
       \/ place[a] = "reissue" /\ \E f \in todo[a] : f[2] = n
       \/ \E f \in PairRows(PairOf[a]) : f[2] = n /\ record[f] \notin done}

(* The batch that is stored and not yet queued is not in the total.        *)
Outstanding(a) ==
    IF place[a] = "queue" THEN Uncounted(a) \ {total[a]} ELSE Uncounted(a)

CountsAddUp(p) ==
    \A a \in AttemptsOf(p) :
        /\ place[a] \in Unborn => counted[a] = 0 /\ total[a] = 0
        /\ Busy(a) /\ place[a] # "discard"
             => counted[a] + Cardinality(Outstanding(a)) <= total[a]
        /\ place[a] = "clean" => counted[a] >= total[a]

NotLost(p) ==
    \A k \in stored \ (done \cup discarded) : Pair(k) = p =>
        k \in objects /\ \E f \in PairRows(p) : record[f] = k

PairInv(p) ==
    /\ TurnsTaken(p)
    /\ NamesDiffer(p)
    /\ ListingsDiffer(p)
    /\ InHandIsAlone(p)
    /\ RowsAreFound(p)
    /\ PutHasObject(p)
    /\ MessagesAreSent(p)
    /\ RowOfTask(p)
    /\ TaskHoldsMessage(p)
    /\ CountsAddUp(p)
    /\ NotLost(p)

(* The inductive invariant                                                 *)
StoreInv ==
    /\ TypeInv
    /\ \A p \in PairIds :
         /\ Apart(p) => KeysApart(p)
         /\ Quiet(p) => PairInv(p)

-----------------------------------------------------------------------------
(* Numbers of batches are numbers, finitely many.                          *)
LEMMA NumbersType == BatchNums \subseteq Nat /\ IsFiniteSet(BatchNums)
<1>1. IsFiniteSet(Attempts)
  <2>1. MaxAttempts \in Nat
    BY BatchStoreAssumption
  <2> QED BY <2>1, FS_Interval DEF Attempts
<1> DEFINE numbers == [a \in Attempts |-> 0..(MaxBatches[a] - 1)]
           all == {numbers[a] : a \in Attempts}
<1>2. \A a \in Attempts :
        numbers[a] = 0..(MaxBatches[a] - 1) /\ MaxBatches[a] - 1 \in Int
  BY BatchStoreAssumption
<1>3. \A a \in Attempts : IsFiniteSet(numbers[a]) /\ numbers[a] \subseteq Nat
  BY <1>2, FS_Interval
<1>4. numbers \in Surjection(Attempts, all)
  BY DEF Surjection
<1>5. BatchNums = UNION all
  BY <1>2 DEF BatchNums
<1> HIDE DEF numbers
<1>6. IsFiniteSet(all)
  BY <1>1, <1>4, FS_Surjection
<1>7. \A T \in all : IsFiniteSet(T) /\ T \subseteq Nat
  BY <1>3
<1> HIDE DEF all
<1>8. IsFiniteSet(UNION all)
  BY <1>6, <1>7, FS_UNION
<1>9. UNION all \subseteq Nat
  BY <1>7
<1> QED BY <1>5, <1>8, <1>9

(* The parts of a name                                                     *)
LEMMA FileType ==
  ASSUME NEW f \in FileIds
  PROVE  /\ f[1] \in Attempts /\ f[2] \in BatchNums /\ f[2] \in Nat
         /\ f = <<f[1], f[2]>> /\ Pair(f) \in PairIds /\ f # None
<1>1. /\ f[1] \in Attempts /\ f[2] \in BatchNums /\ f = <<f[1], f[2]>>
      /\ f # None
  BY BatchStoreAssumption DEF FileIds
<1> QED BY <1>1, NumbersType DEF Pair, PairIds

(* A listing is of files that have a row.                                  *)
LEMMA ListedType ==
  ASSUME NEW a
  PROVE  Listed(a) \in SUBSET Rows /\ Rows \in SUBSET FileIds
  BY DEF Listed, Rows

(* A listing is finite, and its length a number.                           *)
LEMMA FilesAreFinite ==
  ASSUME NEW S \in SUBSET FileIds
  PROVE  IsFiniteSet(S) /\ Cardinality(S) \in Nat
<1>1. IsFiniteSet(Attempts)
  BY BatchStoreAssumption, FS_Interval DEF Attempts
<1>2. IsFiniteSet(FileIds)
  BY <1>1, NumbersType, FS_Product DEF FileIds
<1> QED BY <1>2, FS_Subset, FS_CardinalityType

(* A resumed run carries over the count of an attempt of its own pair.     *)
LEMMA CarriedType ==
  ASSUME TypeOK, NEW a \in Attempts, Earlier(a) # {}
  PROVE  Carried(a) \in Nat
<1> DEFINE b == CHOOSE b \in Earlier(a) : \A c \in Earlier(a) : c <= b
<1>1. Earlier(a) \in SUBSET (1..MaxAttempts)
  BY BatchStoreAssumption DEF Earlier, Attempts
<1>2. b \in Earlier(a)
  BY <1>1, GreatestUpTo, BatchStoreAssumption
<1>3. Carried(a) = counted[b]
  BY DEF Carried
<1> HIDE DEF b
<1> QED BY <1>1, <1>2, <1>3 DEF TypeOK, Attempts

(* The name under which a run stores its next batch                        *)
LEMMA NextName ==
  ASSUME TypeInv, NEW a \in Attempts, place[a] \in {"put", "queue"}
  PROVE  /\ <<a, total[a]>> \in FileIds /\ total[a] \in Nat
         /\ <<a, total[a]>>[1] = a /\ <<a, total[a]>>[2] = total[a]
  BY DEF TypeInv, TypeOK, NumbersInRange, FileIds

(* Types at the start                                                      *)
LEMMA InitType == Init => TypeInv
  BY BatchStoreAssumption
     DEF Init, TypeInv, TypeOK, TaskHasBatch, NumbersInRange, NoTask, Places,
         Idle

(* Every step keeps the types.                                             *)
LEMMA TypeStep ==
  ASSUME TypeInv, Next
  PROVE  TypeInv'
<1> USE BatchStoreAssumption
    DEF TypeInv, TypeOK, TaskHasBatch, NumbersInRange, Goto, Places, Idle
<1>1. ASSUME NEW a \in Attempts, Create(a) \/ Verdict(a)
      PROVE  TypeInv'
  BY <1>1 DEF Create, Verdict
<1>2. ASSUME NEW a \in Attempts, StartOver(a) PROVE TypeInv'
  BY <1>2, ListedType DEF StartOver, Disturb, PairIds
<1>3. ASSUME NEW a \in Attempts, Resume(a) PROVE TypeInv'
  <2>1. Carried(a) \in Nat /\ Listed(a) \in SUBSET FileIds
        /\ Cardinality(Listed(a)) + Carried(a) \in Nat
    BY <1>3, ListedType, FilesAreFinite, CarriedType DEF Resume
  <2> QED BY <1>3, <2>1 DEF Resume, Disturb, PairIds
<1>4. ASSUME NEW a \in Attempts, DeleteListedObject(a) PROVE TypeInv'
  <2>1. PICK f \in todo[a] :
          /\ todo' = [todo EXCEPT ![a] = todo[a] \ {f}]
          /\ IF f \in Rows
             THEN /\ objects' = objects \ {record[f]}
                  /\ inHand' = [inHand EXCEPT
                                  ![a] = [file |-> f, key |-> record[f]]]
                  /\ discarded' \in {discarded \cup {record[f]}, discarded}
             ELSE UNCHANGED <<objects, inHand, discarded>>
    BY <1>4 DEF DeleteListedObject
  <2>2. f \in Rows => record[f] \in FileIds /\ f \in FileIds
    BY DEF Rows
  <2>3. UNCHANGED <<record, status, place, old, total, counted, messages, task,
                    stored, done, deaths, disturbed>>
    BY <1>4 DEF DeleteListedObject
  <2> QED BY <2>1, <2>2, <2>3 DEF Row
<1>5. ASSUME NEW a \in Attempts, DeleteListedRow(a) PROVE TypeInv'
  BY <1>5 DEF DeleteListedRow
<1>6. ASSUME NEW a \in Attempts,
             \/ ListingDone(a) \/ AllAdopted(a) \/ AllReissued(a)
             \/ FinishRun(a) \/ ProcessStops(a)
      PROVE  TypeInv'
  BY <1>6 DEF ListingDone, AllAdopted, AllReissued, FinishRun, ProcessStops
<1>7. ASSUME NEW a \in Attempts, ReadForRename(a) PROVE TypeInv'
  <2>1. PICK f \in todo[a] :
          IF f \in Rows
          THEN /\ inHand' = [inHand EXCEPT
                               ![a] = [file |-> f, key |-> record[f]]]
               /\ UNCHANGED place
          ELSE place' = [place EXCEPT ![a] = "over"] /\ UNCHANGED inHand
    BY <1>7 DEF ReadForRename
  <2>2. f \in Rows => record[f] \in FileIds /\ f \in FileIds
    BY DEF Rows
  <2>3. UNCHANGED <<record, objects, status, todo, old, total, counted,
                    messages, task, stored, done, discarded, deaths,
                    disturbed>>
    BY <1>7 DEF ReadForRename
  <2> QED BY <2>1, <2>2, <2>3 DEF Row
<1>8. ASSUME NEW a \in Attempts, AdoptBatch(a) PROVE TypeInv'
  <2>1. inHand[a] \in Row
    BY <1>8 DEF AdoptBatch
  <2>2. <<a, inHand[a].file[2]>> \in FileIds
    BY <2>1 DEF Row, FileIds
  <2> QED BY <1>8, <2>1, <2>2 DEF AdoptBatch, Renamed, Row
<1>9. ASSUME NEW a \in Attempts, ReissueBatch(a) PROVE TypeInv'
  <2>1. PICK f \in todo[a] :
          /\ todo' = [todo EXCEPT ![a] = todo[a] \ {f}]
          /\ \/ messages' = messages \cup {<<a, f[2]>>} /\ UNCHANGED place
             \/ place' = [place EXCEPT ![a] = "over"] /\ UNCHANGED messages
    BY <1>9 DEF ReissueBatch
  <2>2. f \in FileIds
    OBVIOUS
  <2>3. <<a, f[2]>> \in FileIds
    BY <2>2 DEF FileIds
  <2>4. UNCHANGED <<record, objects, status, old, inHand, total, counted, task,
                    stored, done, discarded, deaths, disturbed>>
    BY <1>9 DEF ReissueBatch
  <2> QED BY <2>1, <2>3, <2>4
<1>10. ASSUME NEW a \in Attempts, PutBatch(a) PROVE TypeInv'
  <2>1. total[a] \in BatchNums /\ <<a, total[a]>> \in FileIds
    BY <1>10 DEF PutBatch, BatchNums, FileIds
  <2> QED BY <1>10, <2>1 DEF PutBatch
<1>11. ASSUME NEW a \in Attempts, RecordBatch(a) PROVE TypeInv'
  BY <1>11, NextName DEF RecordBatch
<1>12. ASSUME NEW a \in Attempts, QueueBatch(a) PROVE TypeInv'
  BY <1>12, NextName DEF QueueBatch
<1>13. ASSUME NEW a \in Attempts, Complete(a) PROVE TypeInv'
  BY <1>13, ListedType DEF Complete
<1>14. CASE PickUp
  BY <1>14 DEF PickUp, NoTask, Rows
<1>15. CASE TaskRaises
  BY <1>15 DEF TaskRaises, NoTask
<1>16. CASE CountBatch
  <2>1. task.file \in FileIds /\ task.key \in FileIds
    BY <1>16 DEF CountBatch, NoTask
  <2>2. task.file[1] \in Attempts
    BY <2>1 DEF FileIds
  <2>3. counted' \in [Attempts -> Nat]
    BY <1>16, <2>2 DEF CountBatch
  <2>4. TaskHasBatch' /\ task' \in [at : {"idle", "index", "delete", "unlink"},
                  file : FileIds \cup {None}, key : FileIds \cup {None}]
    BY <1>16, <2>1 DEF CountBatch
  <2> QED BY <1>16, <2>1, <2>3, <2>4 DEF CountBatch
<1>17. CASE DeleteBatchObject
  BY <1>17 DEF DeleteBatchObject, NoTask
<1>18. CASE DeleteBatchRow
  BY <1>18 DEF DeleteBatchRow, NoTask
<1>19. CASE TaskDies
  BY <1>19, FileType DEF TaskDies, NoTask
<1> QED
  BY <1>1, <1>2, <1>3, <1>4, <1>5, <1>6, <1>7, <1>8, <1>9, <1>10, <1>11, <1>12,
     <1>13, <1>14, <1>15, <1>16, <1>17, <1>18, <1>19
     DEF Next

-----------------------------------------------------------------------------
(* What the steps of other cc_pairs do to p: nothing.                      *)
AttemptStep(a) ==
    \/ Create(a) \/ StartOver(a) \/ Resume(a)
    \/ DeleteListedObject(a) \/ DeleteListedRow(a) \/ ListingDone(a)
    \/ ReadForRename(a) \/ AdoptBatch(a) \/ AllAdopted(a)
    \/ ReissueBatch(a) \/ AllReissued(a)
    \/ PutBatch(a) \/ RecordBatch(a) \/ QueueBatch(a) \/ FinishRun(a)
    \/ Complete(a) \/ Verdict(a) \/ ProcessStops(a)

TaskGoesOn ==
    \/ TaskRaises \/ CountBatch \/ DeleteBatchObject \/ DeleteBatchRow
    \/ TaskDies

(* What the listing of a cc_pair returns, when its id is Apart             *)
LEMMA ListedApart ==
  ASSUME NEW p \in PairIds, Apart(p), NEW a \in Attempts
  PROVE  /\ \A f \in Listed(a) : Pair(f) = p <=> PairOf[a] = p
         /\ PairOf[a] = p => Listed(a) = PairRows(p)
<1>1. ASSUME NEW q \in Nat PROVE DecimalPrefix(q, q)
  <2>1. q \div (10 ^ 0) = q
    <3>1. 10 ^ 0 = 1
      OBVIOUS
    <3> QED BY <3>1
  <2> QED BY <2>1 DEF DecimalPrefix, MaxDigits
<1>2. p \in Nat /\ PairOf[a] \in PairIds
  BY BatchStoreAssumption DEF PairIds
<1>3. \A f \in Rows : Pair(f) \in PairIds
  BY FileType DEF Rows
<1> QED BY <1>1, <1>2, <1>3 DEF Apart, Listed, PairRows

(* The batches of p stay with the attempts and tasks of p.                 *)
LEMMA ApartStep ==
  ASSUME NEW p \in PairIds, Apart(p), TypeInv, KeysApart(p), Next
  PROVE  KeysApart(p)'
<1> USE DEF TypeInv, TypeOK, KeysApart, Rows, Pair
<1>1. ASSUME NEW a \in Attempts,
             \/ Create(a) \/ ListingDone(a) \/ AllReissued(a) \/ PutBatch(a)
             \/ QueueBatch(a) \/ FinishRun(a) \/ Verdict(a)
             \/ ProcessStops(a) \/ AllAdopted(a)
      PROVE  KeysApart(p)'
  BY <1>1 DEF Create, ListingDone, AllReissued, PutBatch, QueueBatch,
     FinishRun, Verdict, ProcessStops, AllAdopted
<1>2. ASSUME NEW a \in Attempts, StartOver(a) \/ Resume(a) \/ Complete(a)
      PROVE  KeysApart(p)'
  <2>1. \A f \in Listed(a) : PairOf[f[1]] = p <=> PairOf[a] = p
    BY ListedApart
  <2>2. /\ todo' = [todo EXCEPT ![a] = Listed(a)]
        /\ old' \in {old, [old EXCEPT ![a] = Listed(a)]}
        /\ UNCHANGED <<record, inHand, task>>
    BY <1>2 DEF StartOver, Resume, Complete
  <2> QED BY <2>1, <2>2
<1>3. ASSUME NEW a \in Attempts, DeleteListedObject(a) PROVE KeysApart(p)'
  <2>1. PICK f \in todo[a] :
          /\ todo' = [todo EXCEPT ![a] = todo[a] \ {f}]
          /\ IF f \in Rows
             THEN inHand' = [inHand EXCEPT
                               ![a] = [file |-> f, key |-> record[f]]]
             ELSE UNCHANGED inHand
    BY <1>3 DEF DeleteListedObject
  <2>2. UNCHANGED <<record, old, task>>
    BY <1>3 DEF DeleteListedObject
  <2> QED BY <2>1, <2>2
<1>4. ASSUME NEW a \in Attempts, DeleteListedRow(a) PROVE KeysApart(p)'
  BY <1>4 DEF DeleteListedRow
<1>5. ASSUME NEW a \in Attempts, ReadForRename(a) PROVE KeysApart(p)'
  <2>1. PICK f \in todo[a] :
          IF f \in Rows
          THEN inHand' = [inHand EXCEPT
                            ![a] = [file |-> f, key |-> record[f]]]
          ELSE UNCHANGED inHand
    BY <1>5 DEF ReadForRename
  <2>2. UNCHANGED <<record, todo, old, task>>
    BY <1>5 DEF ReadForRename
  <2> QED BY <2>1, <2>2
<1>6. ASSUME NEW a \in Attempts, AdoptBatch(a) PROVE KeysApart(p)'
  <2> DEFINE f == inHand[a].file  k == inHand[a].key  g == <<a, f[2]>>
  <2>1. /\ record' \in {record, [record EXCEPT ![g] = k, ![f] = None]}
        /\ inHand[a] # None
    BY <1>6 DEF AdoptBatch, Renamed
  <2>2. f \in FileIds /\ k \in FileIds /\ g[1] = a
        /\ (PairOf[k[1]] = p <=> PairOf[a] = p)
    BY <2>1 DEF Row
  <2>3. /\ todo' = [todo EXCEPT ![a] = todo[a] \ {f}]
        /\ inHand' = [inHand EXCEPT ![a] = None]
        /\ UNCHANGED <<old, task>>
    BY <1>6 DEF AdoptBatch
  <2> HIDE DEF f, k, g
  <2> QED BY <2>1, <2>2, <2>3
<1>7. ASSUME NEW a \in Attempts, ReissueBatch(a) PROVE KeysApart(p)'
  <2>1. PICK f \in todo[a] : todo' = [todo EXCEPT ![a] = todo[a] \ {f}]
    BY <1>7 DEF ReissueBatch
  <2>2. UNCHANGED <<record, inHand, old, task>>
    BY <1>7 DEF ReissueBatch
  <2> QED BY <2>1, <2>2
<1>8. ASSUME NEW a \in Attempts, RecordBatch(a) PROVE KeysApart(p)'
  <2> DEFINE g == <<a, total[a]>>
  <2>1. record' = [record EXCEPT ![g] = g] /\ g[1] = a
        /\ UNCHANGED <<todo, inHand, old, task>>
    BY <1>8 DEF RecordBatch
  <2> HIDE DEF g
  <2> QED BY <2>1
<1>9. CASE PickUp
  BY <1>9 DEF PickUp, NoTask
<1>10. CASE TaskGoesOn
  BY <1>10 DEF TaskGoesOn, TaskRaises, CountBatch, DeleteBatchObject,
     DeleteBatchRow, TaskDies, NoTask
<1> QED
  BY <1>1, <1>2, <1>3, <1>4, <1>5, <1>6, <1>7, <1>8, <1>9, <1>10
     DEF Next, TaskGoesOn

(* Nothing of p is changed.                                                *)
Untouched(p) ==
    /\ \A f \in FileIds : Pair(f) = p =>
         /\ record'[f] = record[f]
         /\ f \in objects' <=> f \in objects
         /\ f \in messages' <=> f \in messages
         /\ f \in stored' <=> f \in stored
         /\ f \in done' <=> f \in done
         /\ f \in discarded' <=> f \in discarded
    /\ \A a \in AttemptsOf(p) :
         /\ place'[a] = place[a] /\ status'[a] = status[a]
         /\ todo'[a] = todo[a] /\ old'[a] = old[a] /\ inHand'[a] = inHand[a]
         /\ total'[a] = total[a] /\ counted'[a] = counted[a]
    /\ task' = task \/ (~TaskOf(p) /\ ~TaskOf(p)')

(* Attempts of other cc_pairs leave p alone.                               *)
LEMMA OtherAttempt ==
  ASSUME NEW p \in PairIds, TypeInv, KeysApart(p),
         NEW a \in Attempts, PairOf[a] # p, AttemptStep(a)
  PROVE  Untouched(p)
<1> USE DEF TypeInv, TypeOK, KeysApart, Untouched, AttemptsOf, Pair, Goto, Rows
<1>1. CASE Create(a) \/ StartOver(a) \/ Resume(a) \/ ListingDone(a)
           \/ AllAdopted(a) \/ AllReissued(a) \/ FinishRun(a)
           \/ Complete(a) \/ Verdict(a) \/ ProcessStops(a)
  BY <1>1 DEF Create, StartOver, Resume, ListingDone, AllAdopted, AllReissued,
     FinishRun, Complete, Verdict, ProcessStops
<1>2. CASE DeleteListedObject(a)
  <2>1. PICK f \in todo[a] :
          IF f \in Rows
          THEN /\ objects' = objects \ {record[f]}
               /\ inHand' = [inHand EXCEPT
                               ![a] = [file |-> f, key |-> record[f]]]
               /\ discarded' \in {discarded \cup {record[f]}, discarded}
          ELSE UNCHANGED <<objects, inHand, discarded>>
    BY <1>2 DEF DeleteListedObject
  <2>2. f \in Rows => PairOf[record[f][1]] # p
    OBVIOUS
  <2>3. /\ \A b \in AttemptsOf(p) : todo'[b] = todo[b]
        /\ UNCHANGED <<record, status, place, old, total, counted, messages,
                       task, stored, done>>
    BY <1>2 DEF DeleteListedObject
  <2> QED BY <2>1, <2>2, <2>3
<1>3. CASE DeleteListedRow(a)
  BY <1>3 DEF DeleteListedRow, Row
<1>4. CASE ReadForRename(a)
  BY <1>4 DEF ReadForRename
<1>5. CASE AdoptBatch(a)
  <2> DEFINE f == inHand[a].file  k == inHand[a].key  g == <<a, f[2]>>
  <2>1. /\ record' \in {record, [record EXCEPT ![g] = k, ![f] = None]}
        /\ inHand[a] # None
    BY <1>5 DEF AdoptBatch, Renamed
  <2>2. PairOf[f[1]] # p /\ g[1] = a
    BY <2>1
  <2>3. /\ \A b \in AttemptsOf(p) : todo'[b] = todo[b] /\ inHand'[b] = inHand[b]
        /\ UNCHANGED <<objects, status, place, old, total, counted, messages,
                       task, stored, done, discarded>>
    BY <1>5 DEF AdoptBatch
  <2> HIDE DEF f, k, g
  <2>4. \A h \in FileIds : PairOf[h[1]] = p => h # f /\ h # g
    BY <2>2
  <2> QED BY <2>1, <2>3, <2>4
<1>6. CASE ReissueBatch(a)
  BY <1>6 DEF ReissueBatch
<1>7. CASE PutBatch(a) \/ RecordBatch(a) \/ QueueBatch(a)
  <2> DEFINE g == <<a, total[a]>>
  <2>1. \A h \in FileIds : PairOf[h[1]] = p => h # g
    OBVIOUS
  <2>2. /\ record' \in {record, [record EXCEPT ![g] = g]}
        /\ objects' \in {objects, objects \cup {g}}
        /\ stored' \in {stored, stored \cup {g}}
        /\ messages' \in {messages, messages \cup {g}}
        /\ \A b \in AttemptsOf(p) : place'[b] = place[b] /\ total'[b] = total[b]
        /\ UNCHANGED <<status, todo, old, inHand, counted, task, done,
                       discarded>>
    BY <1>7 DEF PutBatch, RecordBatch, QueueBatch
  <2> HIDE DEF g
  <2> QED BY <2>1, <2>2
<1> QED BY <1>1, <1>2, <1>3, <1>4, <1>5, <1>6, <1>7 DEF AttemptStep

(* So do their tasks.                                                      *)
LEMMA OtherTask ==
  ASSUME NEW p \in PairIds, TypeInv, KeysApart(p), ~TaskOf(p), TaskGoesOn
  PROVE  Untouched(p)
<1> USE DEF TypeInv, TypeOK, TaskHasBatch, KeysApart, Untouched, AttemptsOf,
        TaskOf, Pair, NoTask, Rows
<1>1. CASE TaskRaises
  BY <1>1 DEF TaskRaises
<1>2. CASE CountBatch
  <2>1. PairOf[task.file[1]] # p /\ PairOf[task.key[1]] # p
        /\ task.file \in FileIds /\ task.key \in FileIds
    BY <1>2 DEF CountBatch
  <2>2. task.file[1] \in Attempts
    BY <2>1, FileType
  <2>3. \A b \in AttemptsOf(p) : counted'[b] = counted[b]
    BY <1>2, <2>1, <2>2 DEF CountBatch
  <2>4. done' = done \cup {task.key} /\ task'.file = task.file
        /\ UNCHANGED <<record, objects, status, place, todo, old, inHand, total,
                messages, stored, discarded>>
    BY <1>2, <2>1 DEF CountBatch
  <2> QED BY <2>1, <2>3, <2>4
<1>3. CASE DeleteBatchObject
  <2>1. PairOf[task.file[1]] # p /\ task.file \in FileIds
    BY <1>3 DEF DeleteBatchObject
  <2>2. task.file \in Rows => PairOf[record[task.file][1]] # p
    BY <2>1
  <2>3. /\ \/ /\ task.file \in Rows /\ objects' = objects \ {record[task.file]}
              /\ task'.file = task.file
           \/ UNCHANGED objects /\ task' = NoTask
        /\ UNCHANGED <<record, status, place, todo, old, inHand, total, counted,
                   messages, stored, done, discarded>>
    BY <1>3, <2>1 DEF DeleteBatchObject
  <2> QED BY <2>1, <2>2, <2>3
<1>4. CASE DeleteBatchRow
  BY <1>4 DEF DeleteBatchRow
<1>5. CASE TaskDies
  BY <1>5 DEF TaskDies
<1> QED BY <1>1, <1>2, <1>3, <1>4, <1>5 DEF TaskGoesOn

(* What p's invariant says depends on nothing else.                        *)
LEMMA UntouchedKeeps ==
  ASSUME NEW p \in PairIds, TypeInv, TypeInv', KeysApart(p), KeysApart(p)',
         PairInv(p), Untouched(p)
  PROVE  PairInv(p)'
<1> USE DEF TypeInv, TypeOK, PairInv
<1>1. /\ AttemptsOf(p)' = AttemptsOf(p) /\ AttemptsOf(p) \subseteq Attempts
      /\ \A a \in AttemptsOf(p) :
           /\ place'[a] = place[a] /\ status'[a] = status[a]
           /\ todo'[a] = todo[a] /\ old'[a] = old[a] /\ inHand'[a] = inHand[a]
           /\ total'[a] = total[a] /\ counted'[a] = counted[a]
  BY DEF Untouched, AttemptsOf
<1>2. /\ PairRows(p)' = PairRows(p)
      /\ \A f \in PairRows(p) :
           /\ record'[f] = record[f]
           /\ f \in FileIds /\ Pair(f) = p
           /\ record[f] \in FileIds /\ Pair(record[f]) = p
  BY DEF Untouched, PairRows, Rows, Pair, KeysApart
<1>3. \A k \in FileIds : Pair(k) = p =>
        /\ k[1] \in AttemptsOf(p)
        /\ k \in objects' <=> k \in objects
        /\ k \in messages' <=> k \in messages
        /\ k \in stored' <=> k \in stored
        /\ k \in done' <=> k \in done
        /\ k \in discarded' <=> k \in discarded
        /\ k \in Rows' <=> k \in Rows
        /\ record'[k] = record[k]
  BY FileType DEF Untouched, AttemptsOf, Pair, Rows
<1>4. \A k \in FileIds : Pair(k) = p =>
         (Issued(k)' <=> Issued(k)) /\ (Sent(k)' <=> Sent(k))
  BY <1>1, <1>3 DEF Issued, Sent
<1>5. \A a \in AttemptsOf(p) : Busy(a)' <=> Busy(a)
  BY <1>1 DEF Busy
<1>6. \/ task' = task
      \/ (~TaskOf(p) /\ ~TaskOf(p)')
  BY DEF Untouched
<1>7. TurnsTaken(p)'
  BY <1>1 DEF TurnsTaken
<1>8. NamesDiffer(p)'
  <2>1. \A f \in PairRows(p) : f[1] \in AttemptsOf(p)
    BY <1>2, <1>3
  <2> QED BY <1>1, <1>2, <1>4, <2>1 DEF NamesDiffer
<1>9. ListingsDiffer(p)'
  BY <1>1 DEF ListingsDiffer
<1>10. InHandIsAlone(p)'
  <2> SUFFICES ASSUME NEW a \in AttemptsOf(p), inHand[a] # None,
                      NEW f \in FileIds, NEW k \in FileIds,
                      f = inHand[a].file, k = inHand[a].key
               PROVE  /\ place'[a] \in {"discard", "clean", "adopt"}
                      /\ k[2] = f[2] /\ Issued(k)'
                      /\ f \in Rows' => record'[f] = k
                      /\ \A h \in PairRows(p)' :
                           h[2] = f[2] \/ record'[h] = k => h = f
                      /\ place'[a] = "adopt" => f \in todo'[a]
                      /\ place'[a] # "adopt" => k \notin objects'
    <3>1. \A a \in AttemptsOf(p) : inHand[a] # None =>
             inHand[a].file \in FileIds /\ inHand[a].key \in FileIds
      BY DEF Row, AttemptsOf
    <3> QED BY <1>1, <3>1 DEF InHandIsAlone, Issued
  <2>1. Pair(f) = p /\ Pair(k) = p
    BY DEF AttemptsOf, KeysApart
  <2>2. /\ place[a] \in {"discard", "clean", "adopt"}
        /\ k[2] = f[2] /\ Issued(k)
        /\ f \in Rows => record[f] = k
        /\ \A h \in PairRows(p) : h[2] = f[2] \/ record[h] = k => h = f
        /\ place[a] = "adopt" => f \in todo[a]
        /\ place[a] # "adopt" => k \notin objects
    BY DEF InHandIsAlone
  <2>3. Issued(k)'
    BY <1>4, <2>1, <2>2
  <2>4. /\ f \in Rows' => record'[f] = k
        /\ \A h \in PairRows(p)' : h[2] = f[2] \/ record'[h] = k => h = f
    BY <1>2, <1>3, <2>1, <2>2
  <2> QED BY <1>1, <1>3, <2>1, <2>2, <2>3, <2>4
<1>11. RowsAreFound(p)'
  BY <1>1, <1>2, <1>5 DEF RowsAreFound
<1>12. PutHasObject(p)'
  <2>1. ASSUME NEW a \in AttemptsOf(p), place[a] = "put"
        PROVE  <<a, total[a]>> \in objects'
    <3>1. <<a, total[a]>> \in objects /\ <<a, total[a]>> \in FileIds
          /\ Pair(<<a, total[a]>>) = p
      BY <2>1, NextName DEF PutHasObject, AttemptsOf, Pair
    <3> QED BY <1>3, <3>1
  <2> QED BY <1>1, <2>1 DEF PutHasObject
<1>13. MessagesAreSent(p)'
  BY <1>3, <1>4 DEF MessagesAreSent, Pair
<1>14. ASSUME TaskOf(p)
       PROVE  RowOfTask(p)' /\ TaskHoldsMessage(p)'
  <2>1. task' = task /\ TaskOf(p)' /\ task.at # "idle"
    BY <1>6, <1>14 DEF TaskOf
  <2>2. /\ task.file \in FileIds /\ task.key \in FileIds
        /\ Pair(task.file) = p /\ Pair(task.key) = p
    BY <1>14 DEF TaskHasBatch, NoTask, TaskOf, KeysApart
  <2>3. task.file \in Rows => record[task.file] \in FileIds
                                /\ Pair(record[task.file]) = p
    BY <1>2, <2>2 DEF PairRows
  <2>4. RowOfTask(p)'
    BY <1>3, <1>5, <1>14, <2>1, <2>2, <2>3 DEF RowOfTask
  <2>5. TaskHoldsMessage(p)'
    BY <1>3, <1>4, <1>14, <2>1, <2>2 DEF TaskHoldsMessage, Sent
  <2> QED BY <2>4, <2>5
<1>15. RowOfTask(p)' /\ TaskHoldsMessage(p)'
  <2>1. CASE TaskOf(p)
    BY <2>1, <1>14
  <2>2. CASE ~TaskOf(p)
    <3>1. ~TaskOf(p)'
      BY <1>6, <2>2 DEF TaskOf
    <3> QED BY <3>1 DEF RowOfTask, TaskHoldsMessage
  <2> QED BY <2>1, <2>2
<1>16. ASSUME NEW a \in AttemptsOf(p)
       PROVE  Outstanding(a)' = Outstanding(a)
  <2>1. ASSUME NEW n \in BatchNums
        PROVE  /\ <<a, n>> \in messages' <=> <<a, n>> \in messages
               /\ (task'.at = "index" /\ task'.file = <<a, n>>)
                    <=> (task.at = "index" /\ task.file = <<a, n>>)
    <3>1. <<a, n>> \in FileIds /\ Pair(<<a, n>>) = p
      BY DEF FileIds, Pair, AttemptsOf
    <3> QED BY <1>3, <1>6, <3>1 DEF TaskOf
  <2>2. \A n \in BatchNums :
          (\E f \in PairRows(p)' : f[2] = n /\ record'[f] \notin done')
            <=> \E f \in PairRows(p) : f[2] = n /\ record[f] \notin done
    BY <1>2, <1>3
  <2>3. PairOf[a] = p
    BY DEF AttemptsOf
  <2>4. Uncounted(a)' = Uncounted(a)
    BY <1>1, <2>1, <2>2, <2>3 DEF Uncounted
  <2> QED BY <1>1, <2>4 DEF Outstanding
<1>17. CountsAddUp(p)'
  BY <1>1, <1>5, <1>16 DEF CountsAddUp
<1>18. NotLost(p)'
  <2> SUFFICES ASSUME NEW k \in stored' \ (done' \cup discarded'), Pair(k) = p
               PROVE  k \in objects' /\ \E f \in PairRows(p)' : record'[f] = k
    BY DEF NotLost, Pair
  <2>1. k \in FileIds
    OBVIOUS
  <2> QED BY <1>2, <1>3, <2>1 DEF NotLost
<1> QED
  BY <1>7, <1>8, <1>9, <1>10, <1>11, <1>12, <1>13, <1>15, <1>17, <1>18

-----------------------------------------------------------------------------
(* A step of an attempt or a task of p, none of which meets another        *)
OwnStep(p) ==
    /\ Apart(p) /\ p \notin disturbed'
    /\ TypeInv /\ TypeInv'
    /\ KeysApart(p) /\ KeysApart(p)'
    /\ PairInv(p)
    /\ \/ \E a \in AttemptsOf(p) : AttemptStep(a)
       \/ PickUp
       \/ TaskOf(p) /\ TaskGoesOn

(* No two attempts of a cc_pair are at their loops.                        *)
LEMMA OneTurn ==
  ASSUME NEW p, TurnsTaken(p), NEW a \in AttemptsOf(p), NEW b \in AttemptsOf(p),
         Busy(a), Busy(b)
  PROVE  a = b
<1>1. a \in Nat /\ b \in Nat
  BY DEF AttemptsOf, Attempts
<1>2. ASSUME NEW c \in AttemptsOf(p), NEW d \in AttemptsOf(p), d < c,
             Busy(c), Busy(d)
      PROVE  FALSE
  BY <1>2 DEF TurnsTaken, Busy
<1> QED BY <1>1, <1>2

(* Whoever has a row in hand is at its loop.                               *)
LEMMA HandIsBusy ==
  ASSUME NEW p, PairInv(p), NEW a \in AttemptsOf(p), NEW b \in AttemptsOf(p),
         Busy(a), a # b
  PROVE  inHand[b] = None /\ ~Busy(b)
<1>1. ~Busy(b)
  BY OneTurn DEF PairInv
<1> QED BY <1>1 DEF PairInv, InHandIsAlone, Busy

(* The steps that move no attempt of p to another place                    *)
LEMMA TasksStay ==
  ASSUME NEW p, PickUp \/ TaskGoesOn
  PROVE  UNCHANGED <<place, status, todo, old, inHand, total>>
  BY DEF PickUp, TaskGoesOn, TaskRaises, CountBatch, DeleteBatchObject,
     DeleteBatchRow, TaskDies

(* An attempt begins its loop after the others of its cc_pair.             *)
LEMMA TurnStep ==
  ASSUME NEW p \in PairIds, OwnStep(p)
  PROVE  TurnsTaken(p)'
<1> USE DEF OwnStep, TypeInv, TypeOK, PairInv, TurnsTaken, AttemptsOf, Goto
<1>0. Attempts \subseteq Nat
  BY DEF Attempts
<1>1. ASSUME NEW a \in AttemptsOf(p), Create(a) PROVE TurnsTaken(p)'
  <2>1. /\ \A b \in AttemptsOf(p) : b < a => status[b] = "ended"
        /\ \A b \in AttemptsOf(p) : a < b => place[b] = "absent"
    BY <1>0, <1>1 DEF Create, Earlier, Attempts
  <2>2. \A b \in AttemptsOf(p) :
          /\ place'[b] = IF b = a THEN "start" ELSE place[b]
          /\ status'[b] = IF b = a THEN "active" ELSE status[b]
    BY <1>1 DEF Create
  <2> QED BY <1>0, <1>1, <2>1, <2>2 DEF Create
<1>2. ASSUME NEW a \in AttemptsOf(p), StartOver(a) \/ Resume(a)
      PROVE  TurnsTaken(p)'
  <2>1. /\ place[a] = "start" /\ UNCHANGED status
        /\ \E x \in {"discard", "adopt"} : place' = [place EXCEPT ![a] = x]
        /\ \A b \in Earlier(a) : place[b] \in Idle
    BY <1>2 DEF StartOver, Resume, Disturb
  <2>2. \A b \in AttemptsOf(p) : b < a => place[b] \in {"wait", "over"}
    BY <2>1 DEF Earlier, Attempts, Idle
  <2> QED BY <1>0, <2>1, <2>2
<1>3. ASSUME NEW a \in AttemptsOf(p),
             \/ DeleteListedObject(a) \/ DeleteListedRow(a)
             \/ ReadForRename(a) \/ AdoptBatch(a) \/ AllAdopted(a)
             \/ ReissueBatch(a) \/ AllReissued(a) \/ ListingDone(a)
             \/ PutBatch(a) \/ RecordBatch(a) \/ QueueBatch(a) \/ FinishRun(a)
             \/ ProcessStops(a)
      PROVE  TurnsTaken(p)'
  <2>1. /\ UNCHANGED status
        /\ place[a] \notin {"absent", "wait", "over"}
        /\ \E x \in Places \ {"absent"} :
             /\ place' = [place EXCEPT ![a] = x]
             /\ place[a] = "start" => x \in {"start", "over"}
    BY <1>3 DEF DeleteListedObject, DeleteListedRow, ReadForRename, AdoptBatch,
       AllAdopted, ReissueBatch, AllReissued, ListingDone, PutBatch,
       RecordBatch, QueueBatch, FinishRun, ProcessStops, Idle, Places
  <2> QED BY <1>0, <2>1
<1>4. ASSUME NEW a \in AttemptsOf(p), Complete(a) \/ Verdict(a)
      PROVE  TurnsTaken(p)'
  <2>1. /\ status' = [status EXCEPT ![a] = "ended"] /\ status[a] = "active"
        /\ \/ UNCHANGED place
           \/ place[a] = "wait" /\ place' = [place EXCEPT ![a] = "clean"]
    BY <1>4 DEF Complete, Verdict
  <2> QED BY <1>0, <2>1
<1>5. CASE PickUp \/ TaskGoesOn
  BY <1>5, TasksStay
<1> QED BY <1>1, <1>2, <1>3, <1>4, <1>5 DEF AttemptStep

(* What a rename does: the row of f becomes the row of g, the same number  *)
(* under the attempt, which no other row bears.                            *)
Renames(p, a, f, g, k) ==
    /\ place[a] = "adopt" /\ Busy(a) /\ UNCHANGED place
    /\ f \in todo[a] /\ Pair(f) = p /\ f # g
    /\ g[1] = a /\ g[2] = f[2] /\ Pair(g) = p /\ g \notin Rows
    /\ Pair(k) = p /\ k[2] = f[2] /\ Issued(k)
    /\ f \in Rows => record[f] = k
    /\ \A h \in PairRows(p) : h[2] = f[2] \/ record[h] = k => h = f
    /\ \A h \in FileIds :
         record'[h] = IF h = g THEN k ELSE IF h = f THEN None ELSE record[h]
    /\ todo' = [todo EXCEPT ![a] = @ \ {f}]
    /\ inHand' = [inHand EXCEPT ![a] = None]
    /\ UNCHANGED <<objects, status, old, total, counted, messages, task, stored,
                   done, discarded>>

(* That is what adopting a batch does.                                     *)
LEMMA AdoptRenames ==
  ASSUME NEW p \in PairIds, OwnStep(p), NEW a \in AttemptsOf(p), AdoptBatch(a)
  PROVE  \E f, g, k \in FileIds : Renames(p, a, f, g, k)
<1> USE DEF OwnStep, TypeInv, TypeOK, PairInv
<1> DEFINE f == inHand[a].file  k == inHand[a].key  g == <<a, f[2]>>
<1>1. /\ place[a] = "adopt" /\ inHand[a] # None /\ UNCHANGED place
      /\ record' = Renamed(f, g, k)
      /\ todo' = [todo EXCEPT ![a] = @ \ {f}]
      /\ inHand' = [inHand EXCEPT ![a] = None]
      /\ UNCHANGED <<objects, status, old, total, counted, messages, task,
                     stored, done, discarded>>
  BY DEF AdoptBatch
<1>2. f \in FileIds /\ k \in FileIds
  BY <1>1 DEF Row, AttemptsOf
<1>3. g \in FileIds /\ g[1] = a /\ g[2] = f[2] /\ Pair(g) = p
  BY <1>2 DEF FileIds, Pair, AttemptsOf
<1>4. /\ f \in todo[a] /\ k[2] = f[2] /\ Issued(k)
      /\ f \in Rows => record[f] = k
      /\ \A h \in PairRows(p) : h[2] = f[2] \/ record[h] = k => h = f
  BY <1>1 DEF InHandIsAlone
<1>5. Pair(f) = p /\ Pair(k) = p
  BY <1>1 DEF KeysApart, AttemptsOf
<1>6. f # g
  BY <1>1, <1>3, <1>4 DEF ListingsDiffer
<1>7. g \notin Rows
  BY <1>3, <1>4, <1>6 DEF PairRows
<1>8. Busy(a)
  BY <1>1 DEF Busy
<1>9. \A h \in FileIds :
        record'[h] = IF h = g THEN k ELSE IF h = f THEN None ELSE record[h]
  <2> HIDE DEF f, k, g
  <2> QED BY <1>1, <1>2, <1>3, <1>6 DEF Renamed
<1> HIDE DEF f, k, g
<1>10. Renames(p, a, f, g, k)
  BY <1>1, <1>3, <1>4, <1>5, <1>6, <1>7, <1>8, <1>9 DEF Renames
<1> QED BY <1>2, <1>3, <1>10

(* What storing a batch does: its row is new, and above the others.        *)
Stores(p, a, g) ==
    /\ place[a] = "put" /\ Busy(a) /\ place' = [place EXCEPT ![a] = "queue"]
    /\ g[1] = a /\ g[2] = total[a] /\ total[a] \in Nat /\ Pair(g) = p
    /\ g \notin Rows /\ g \in objects
    /\ \A h \in PairRows(p) :
         h[2] < total[a] /\ record[h] # g /\ h[2] # total[a]
    /\ \A h \in FileIds : record'[h] = IF h = g THEN g ELSE record[h]
    /\ stored' = stored \cup {g}
    /\ UNCHANGED <<objects, status, todo, old, inHand, total, counted, messages,
                   task, done, discarded>>

(* That is what the row's upsert does in the extraction loop.              *)
LEMMA RecordStores ==
  ASSUME NEW p \in PairIds, OwnStep(p), NEW a \in AttemptsOf(p), RecordBatch(a)
  PROVE  \E g \in FileIds : Stores(p, a, g)
<1> USE DEF OwnStep, TypeInv, TypeOK, PairInv
<1> DEFINE g == <<a, total[a]>>
<1>1. /\ place[a] = "put" /\ place' = [place EXCEPT ![a] = "queue"]
      /\ record' = [record EXCEPT ![g] = g]
      /\ stored' = stored \cup {g}
      /\ UNCHANGED <<objects, status, todo, old, inHand, total, counted,
                     messages, task, done, discarded>>
  BY DEF RecordBatch, Goto
<1>2. g \in FileIds /\ g[1] = a /\ g[2] = total[a] /\ total[a] \in Nat
      /\ Pair(g) = p
  BY <1>1, NextName DEF AttemptsOf, Pair
<1>3. g \in objects
  BY <1>1 DEF PutHasObject
<1>4. ASSUME NEW h \in PairRows(p)
      PROVE  h[2] < total[a] /\ h[2] # total[a] /\ record[h] # g
  <2>1. h[2] \in Nat /\ h[2] < total[a]
    BY <1>1, FileType DEF RowsAreFound, PairRows, Rows
  <2>2. record[h][2] = h[2]
    BY DEF NamesDiffer
  <2> QED BY <1>2, <2>1, <2>2
<1>5. g \notin Rows
  BY <1>2, <1>4 DEF PairRows
<1>6. Busy(a)
  BY <1>1 DEF Busy
<1> HIDE DEF g
<1>7. \A h \in FileIds : record'[h] = IF h = g THEN g ELSE record[h]
  BY <1>1, <1>2
<1>8. Stores(p, a, g)
  BY <1>1, <1>2, <1>3, <1>4, <1>5, <1>6, <1>7 DEF Stores
<1> QED BY <1>2, <1>8

-----------------------------------------------------------------------------
(* The steps of an attempt that neither begin a run nor rename, store,     *)
(* queue or reissue: they add no name to a listing, number or place an     *)
(* attempt may not have.                                                   *)
OtherStep(a) ==
    \/ DeleteListedObject(a) \/ DeleteListedRow(a) \/ ListingDone(a)
    \/ ReadForRename(a) \/ AllAdopted(a) \/ AllReissued(a) \/ FinishRun(a)
    \/ Complete(a) \/ Verdict(a) \/ ProcessStops(a) \/ Create(a) \/ PutBatch(a)

(* A batch that may have been stored remains one.                          *)
LEMMA IssuedStep ==
  ASSUME NEW p \in PairIds, OwnStep(p), NEW k \in FileIds, Issued(k)
  PROVE  Issued(k)'
<1> USE DEF OwnStep, TypeInv, TypeOK, AttemptsOf, Issued, Unborn, Goto
<1>1. k[1] \in Attempts /\ k[2] \in Nat
  BY FileType
<1>2. ASSUME NEW a \in AttemptsOf(p),
             StartOver(a) \/ Resume(a) \/ AdoptBatch(a) \/ ReissueBatch(a)
      PROVE  Issued(k)'
  BY <1>1, <1>2 DEF StartOver, Resume, AdoptBatch, ReissueBatch
<1>3. ASSUME NEW a \in AttemptsOf(p), RecordBatch(a) PROVE Issued(k)'
  <2>1. place[a] = "put" /\ place' = [place EXCEPT ![a] = "queue"]
        /\ total' = total /\ total[k[1]] \in Nat
    BY <1>1, <1>3 DEF RecordBatch
  <2> QED BY <1>1, <2>1
<1>4. ASSUME NEW a \in AttemptsOf(p), QueueBatch(a) PROVE Issued(k)'
  <2>1. /\ place[a] = "queue" /\ place' = [place EXCEPT ![a] = "run"]
        /\ total' = [total EXCEPT ![a] = total[a] + 1] /\ total[a] \in Nat
    BY <1>4 DEF QueueBatch
  <2> QED BY <1>1, <2>1
<1>5. ASSUME NEW a \in AttemptsOf(p), OtherStep(a) PROVE Issued(k)'
  <2>1. CASE Create(a)
    BY <1>1, <2>1 DEF Create, PairInv, TurnsTaken
  <2>2. CASE PutBatch(a)
    BY <1>1, <2>2 DEF PutBatch
  <2>3. CASE ListingDone(a)
    BY <1>1, <2>3 DEF ListingDone
  <2>4. CASE FinishRun(a) \/ ReadForRename(a) \/ AllAdopted(a)
             \/ AllReissued(a)
    BY <1>1, <2>4 DEF ReadForRename, AllAdopted, AllReissued, FinishRun
  <2>5. CASE \/ DeleteListedObject(a) \/ DeleteListedRow(a) \/ Complete(a)
             \/ Verdict(a) \/ ProcessStops(a)
    BY <1>1, <2>5 DEF DeleteListedObject, DeleteListedRow, Complete, Verdict,
       ProcessStops
  <2> QED BY <1>5, <2>1, <2>2, <2>3, <2>4, <2>5 DEF OtherStep
<1>6. CASE PickUp \/ TaskGoesOn
  BY <1>6, TasksStay
<1> QED
  BY <1>2, <1>3, <1>4, <1>5, <1>6 DEF AttemptStep, OtherStep

(* No attempt is unborn again.                                             *)
LEMMA BornStep ==
  ASSUME NEW p \in PairIds, OwnStep(p), NEW b \in Attempts,
         place[b] \notin Unborn
  PROVE  place'[b] \notin Unborn
<1> USE DEF OwnStep, TypeInv, TypeOK, PairInv, AttemptsOf, Unborn, Goto
<1>1. ASSUME NEW a \in AttemptsOf(p),
             \/ StartOver(a) \/ Resume(a) \/ AdoptBatch(a) \/ ReissueBatch(a)
             \/ RecordBatch(a) \/ QueueBatch(a)
      PROVE  place'[b] \notin Unborn
  BY <1>1 DEF StartOver, Resume, AdoptBatch, ReissueBatch, RecordBatch,
     QueueBatch
<1>2. ASSUME NEW a \in AttemptsOf(p), OtherStep(a)
      PROVE  place'[b] \notin Unborn
  BY <1>2 DEF OtherStep, DeleteListedObject, DeleteListedRow, ListingDone,
     ReadForRename, AllAdopted, AllReissued, FinishRun, Complete, Verdict,
     ProcessStops, Create, PutBatch, TurnsTaken
<1>3. CASE PickUp \/ TaskGoesOn
  BY <1>3, TasksStay
<1> QED BY <1>1, <1>2, <1>3 DEF AttemptStep, OtherStep

(* The steps that leave every row or delete it                             *)
LEMMA RowsShrink ==
  ASSUME NEW p \in PairIds, OwnStep(p),
         \A a \in AttemptsOf(p) : ~AdoptBatch(a) /\ ~RecordBatch(a)
  PROVE  \A f \in FileIds : record'[f] \in {record[f], None}
<1> USE DEF OwnStep, TypeInv, TypeOK
<1>1. ASSUME NEW a \in AttemptsOf(p),
             \/ OtherStep(a) \/ StartOver(a) \/ Resume(a) \/ ReissueBatch(a)
             \/ QueueBatch(a)
      PROVE  \A f \in FileIds : record'[f] \in {record[f], None}
  BY <1>1 DEF OtherStep, DeleteListedObject, DeleteListedRow, ListingDone,
     ReadForRename, AllAdopted, AllReissued, FinishRun, Complete, Verdict,
     ProcessStops, Create, PutBatch, StartOver, Resume, ReissueBatch,
     QueueBatch
<1>2. CASE PickUp \/ TaskGoesOn
  BY <1>2 DEF PickUp, TaskGoesOn, TaskRaises, CountBatch, DeleteBatchObject,
     DeleteBatchRow, TaskDies
<1> QED BY <1>1, <1>2 DEF AttemptStep, OtherStep

(* What a row is                                                           *)
LEMMA RowType ==
  ASSUME NEW p, TypeInv, KeysApart(p), NEW f \in PairRows(p)
  PROVE  /\ f \in FileIds /\ f \in Rows /\ Pair(f) = p /\ f[1] \in AttemptsOf(p)
         /\ record[f] \in FileIds /\ Pair(record[f]) = p
  BY FileType DEF TypeInv, TypeOK, KeysApart, PairRows, Rows, Pair, AttemptsOf

(* The names of rows: only a rename and a new batch change what they say.  *)
LEMMA NamesStep ==
  ASSUME NEW p \in PairIds, OwnStep(p)
  PROVE  NamesDiffer(p)'
<1> USE DEF OwnStep, PairInv
<1>1. record \in [FileIds -> FileIds \cup {None}] /\ None \notin FileIds
      /\ NamesDiffer(p)
  BY BatchStoreAssumption DEF TypeInv, TypeOK
<1>2. \A f \in PairRows(p) :
        /\ f \in FileIds /\ f \in Rows /\ f[1] \in Attempts
        /\ record[f] \in FileIds /\ Issued(record[f])
        /\ place'[f[1]] \notin Unborn
  BY RowType, BornStep DEF NamesDiffer, AttemptsOf
<1>0. \A c \in FileIds : Issued(c) => Issued(c)'
  BY IssuedStep
<1>3. ASSUME NEW a \in AttemptsOf(p), AdoptBatch(a) PROVE NamesDiffer(p)'
  <2>1. PICK f, g, k \in FileIds : Renames(p, a, f, g, k)
    BY <1>3, AdoptRenames
  <2>2. Issued(k)' /\ k[2] = g[2] /\ place'[g[1]] \notin Unborn
    BY <2>1, IssuedStep DEF Renames, Unborn
  <2>3. ASSUME NEW h \in PairRows(p)'
        PROVE  /\ h \in FileIds
               /\ \/ h = g /\ record'[h] = k
                  \/ /\ h # g /\ h # f /\ h \in PairRows(p)
                     /\ record'[h] = record[h]
    BY <1>1, <2>1, <2>3 DEF Renames, PairRows, Rows, Pair
  <2>4. ASSUME NEW h \in PairRows(p)'
        PROVE  /\ record'[h][2] = h[2]
               /\ \E c \in FileIds : c = record'[h] /\ Issued(c)'
               /\ place'[h[1]] \notin Unborn
    BY <1>0, <1>1, <1>2, <2>2, <2>3 DEF NamesDiffer
  <2>5. ASSUME NEW h \in PairRows(p), h # f
        PROVE  h[2] # g[2] /\ record[h] # k
    BY <2>1, <2>5 DEF Renames
  <2>6. \A h, i \in PairRows(p)' :
           h[2] = i[2] \/ record'[h] = record'[i] => h = i
    BY <1>1, <2>1, <2>3, <2>5 DEF NamesDiffer
  <2> QED BY <2>4, <2>6 DEF NamesDiffer, Issued
<1>4. ASSUME NEW a \in AttemptsOf(p), RecordBatch(a) PROVE NamesDiffer(p)'
  <2>1. PICK g \in FileIds : Stores(p, a, g)
    BY <1>4, RecordStores
  <2>2. Issued(g)' /\ place'[g[1]] \notin Unborn
    BY <2>1 DEF Stores, Issued, Unborn, TypeInv, TypeOK, AttemptsOf
  <2>3. ASSUME NEW h \in PairRows(p)'
        PROVE  /\ h \in FileIds
               /\ \/ h = g /\ record'[h] = g
                  \/ h # g /\ h \in PairRows(p) /\ record'[h] = record[h]
    BY <1>1, <2>1, <2>3 DEF Stores, PairRows, Rows, Pair
  <2>4. ASSUME NEW h \in PairRows(p)'
        PROVE  /\ record'[h][2] = h[2]
               /\ \E c \in FileIds : c = record'[h] /\ Issued(c)'
               /\ place'[h[1]] \notin Unborn
    BY <1>0, <1>1, <1>2, <2>2, <2>3 DEF NamesDiffer
  <2>5. \A h \in PairRows(p) : h[2] # g[2] /\ record[h] # g
    BY <2>1 DEF Stores
  <2>6. \A h, i \in PairRows(p)' :
           h[2] = i[2] \/ record'[h] = record'[i] => h = i
    BY <1>1, <2>1, <2>3, <2>5 DEF NamesDiffer
  <2> QED BY <2>4, <2>6 DEF NamesDiffer, Issued
<1>5. ASSUME \A f \in FileIds : record'[f] \in {record[f], None}
      PROVE  NamesDiffer(p)'
  <2>1. \A h \in PairRows(p)' : h \in PairRows(p) /\ record'[h] = record[h]
    BY <1>1, <1>5 DEF PairRows, Rows, Pair
  <2>2. \A h \in PairRows(p)' :
           \E c \in FileIds : c = record'[h] /\ Issued(c)'
    BY <1>0, <1>2, <2>1
  <2> QED BY <1>1, <1>2, <2>1, <2>2 DEF NamesDiffer, Issued
<1> QED BY <1>3, <1>4, <1>5, RowsShrink

(* A listing is of rows of the cc_pair, and a loop only shortens it.       *)
LEMMA ListingsStep ==
  ASSUME NEW p \in PairIds, OwnStep(p)
  PROVE  ListingsDiffer(p)'
<1> USE DEF OwnStep, TypeInv, TypeOK, PairInv, ListingsDiffer, AttemptsOf, Goto
<1>1. ASSUME NEW a \in AttemptsOf(p), Resume(a) PROVE ListingsDiffer(p)'
  <2>1. Listed(a) = PairRows(p)
    BY ListedApart
  <2>2. /\ todo' = [todo EXCEPT ![a] = PairRows(p)]
        /\ old' = [old EXCEPT ![a] = PairRows(p)]
        /\ place' = [place EXCEPT ![a] = "adopt"] /\ place[a] = "start"
    BY <1>1, <2>1 DEF Resume
  <2>3. \A f, g \in PairRows(p) : f[1] # a /\ (f[2] = g[2] => f = g)
    BY <2>2 DEF NamesDiffer, Unborn
  <2>4. ASSUME NEW b \in AttemptsOf(p)
        PROVE  IF b = a
               THEN todo'[b] = PairRows(p) /\ old'[b] = PairRows(p)
               ELSE /\ todo'[b] = todo[b] /\ old'[b] = old[b]
                    /\ place'[b] = place[b]
    BY <2>2
  <2> QED BY <2>3, <2>4
<1>2. ASSUME NEW a \in AttemptsOf(p),
             AdoptBatch(a) \/ ReissueBatch(a) \/ DeleteListedObject(a)
      PROVE  ListingsDiffer(p)'
  <2>1. /\ \A b \in Attempts : /\ todo'[b] \subseteq todo[b]
                                /\ place'[b] \in {place[b], "over"}
        /\ old' = old
    BY <1>2 DEF AdoptBatch, ReissueBatch, DeleteListedObject
  <2> QED BY <2>1
<1>3. ASSUME NEW a \in AttemptsOf(p), StartOver(a) \/ Complete(a) \/ Create(a)
      PROVE  ListingsDiffer(p)'
  BY <1>3 DEF StartOver, Complete, Create
<1>4. ASSUME NEW a \in AttemptsOf(p),
             \/ DeleteListedRow(a) \/ ListingDone(a) \/ ReadForRename(a)
             \/ AllAdopted(a) \/ AllReissued(a) \/ FinishRun(a) \/ Verdict(a)
             \/ ProcessStops(a) \/ PutBatch(a) \/ RecordBatch(a)
             \/ QueueBatch(a)
      PROVE  ListingsDiffer(p)'
  BY <1>4 DEF DeleteListedRow, ListingDone, ReadForRename, AllAdopted,
     AllReissued, FinishRun, Verdict, ProcessStops, PutBatch, RecordBatch,
     QueueBatch
<1>5. CASE PickUp \/ TaskGoesOn
  BY <1>5, TasksStay
<1> QED BY <1>1, <1>2, <1>3, <1>4, <1>5 DEF AttemptStep

(* While an attempt is at its loop, no other attempt of its cc_pair does   *)
(* anything to the files.                                                  *)
LEMMA OthersRest ==
  ASSUME NEW p \in PairIds, OwnStep(p), NEW b \in AttemptsOf(p), Busy(b),
         NEW a \in AttemptsOf(p), a # b, AttemptStep(a)
  PROVE  /\ Create(a) \/ Verdict(a) \/ ProcessStops(a)
         /\ UNCHANGED <<record, objects, messages, task, stored, done,
                        discarded, total, counted>>
         /\ place'[b] = place[b] /\ status'[b] = status[b]
         /\ todo'[b] = todo[b] /\ old'[b] = old[b] /\ inHand'[b] = inHand[b]
<1> USE DEF OwnStep, TypeInv, TypeOK, PairInv, AttemptsOf, Goto
<1>0. Attempts \subseteq Nat
  BY DEF Attempts
<1>1. ~Busy(a)
  BY OneTurn
<1>2. ~StartOver(a) /\ ~Resume(a)
  <2> SUFFICES ASSUME place[a] = "start", Disturb(a) PROVE FALSE
    BY DEF StartOver, Resume
  <2>1. \A c \in Earlier(a) : place[c] \in Idle
    BY DEF Disturb
  <2>2. CASE b < a
    <3>1. b \in Earlier(a) /\ status[b] = "ended"
      BY <1>0, <2>2 DEF Earlier, Attempts, TurnsTaken
    <3> QED BY <2>1, <3>1 DEF Busy, Idle
  <2>3. CASE a < b
    BY <2>3 DEF TurnsTaken, Busy
  <2> QED BY <1>0, <2>2, <2>3
<1>3. Create(a) \/ Verdict(a) \/ ProcessStops(a)
  BY <1>1, <1>2 DEF AttemptStep, Busy, DeleteListedObject, DeleteListedRow,
     ListingDone, ReadForRename, AdoptBatch, AllAdopted, ReissueBatch,
     AllReissued, PutBatch, RecordBatch, QueueBatch, FinishRun, Complete
<1> QED BY <1>3 DEF Create, Verdict, ProcessStops

(* What is said of the row that an attempt has in hand                     *)
Holds(p, b, f, k) ==
    /\ place[b] \in {"discard", "clean", "adopt"}
    /\ k[2] = f[2]
    /\ f \in Rows => record[f] = k
    /\ \A h \in PairRows(p) : h[2] = f[2] \/ record[h] = k => h = f
    /\ place[b] = "adopt" => f \in todo[b]
    /\ place[b] # "adopt" => k \notin objects

(* A row stays in hand until the loop that has it is done with it.         *)
LEMMA HandStays ==
  ASSUME NEW p \in PairIds, OwnStep(p), NEW b \in AttemptsOf(p),
         inHand[b] # None, inHand'[b] # None
  PROVE  /\ inHand'[b] = inHand[b] /\ place'[b] = place[b]
         /\ todo'[b] = todo[b] /\ objects' \subseteq objects
         /\ \A f \in FileIds : record'[f] \in {record[f], None}
<1> USE DEF OwnStep, TypeInv, TypeOK, AttemptsOf, Goto
<1>1. place[b] \in {"discard", "clean", "adopt"} /\ Busy(b)
      /\ (place[b] = "adopt" => todo[b] # {})
  BY DEF PairInv, InHandIsAlone, Busy
<1>2. ASSUME NEW a \in AttemptsOf(p), a # b, AttemptStep(a)
      PROVE  /\ inHand'[b] = inHand[b] /\ place'[b] = place[b]
             /\ todo'[b] = todo[b] /\ UNCHANGED <<objects, record>>
  BY <1>1, <1>2, OthersRest
<1>3. ASSUME AttemptStep(b)
      PROVE  UNCHANGED <<inHand, place, todo, objects, record>>
  <2>1. Verdict(b) \/ DeleteListedRow(b) \/ AdoptBatch(b) \/ ProcessStops(b)
    BY <1>1, <1>3 DEF AttemptStep, Create, StartOver, Resume,
       DeleteListedObject, ListingDone, ReadForRename, AllAdopted,
       ReissueBatch, AllReissued, PutBatch, RecordBatch, QueueBatch,
       FinishRun, Complete, PairInv, TurnsTaken
  <2>2. Verdict(b)
    BY <2>1 DEF DeleteListedRow, AdoptBatch, ProcessStops
  <2> QED BY <2>2 DEF Verdict
<1>4. CASE PickUp \/ TaskGoesOn
  BY <1>4 DEF PickUp, TaskGoesOn, TaskRaises, CountBatch, DeleteBatchObject,
     DeleteBatchRow, TaskDies
<1> QED BY <1>2, <1>3, <1>4

(* Whatever the tasks delete meanwhile, the row in hand is alone.          *)
LEMMA HandStep ==
  ASSUME NEW p \in PairIds, OwnStep(p)
  PROVE  InHandIsAlone(p)'
<1> USE DEF OwnStep, TypeInv, TypeOK, PairInv
<1> SUFFICES ASSUME NEW b \in AttemptsOf(p), inHand'[b] # None,
                    NEW f \in FileIds, NEW k \in FileIds,
                    f = inHand'[b].file, k = inHand'[b].key
             PROVE  Holds(p, b, f, k)' /\ Issued(k)'
  <2>1. \A b \in AttemptsOf(p) : inHand'[b] # None =>
           inHand'[b].file \in FileIds /\ inHand'[b].key \in FileIds
    BY DEF Row, AttemptsOf
  <2>2. AttemptsOf(p)' = AttemptsOf(p)
    BY DEF AttemptsOf
  <2> QED BY <2>1, <2>2 DEF InHandIsAlone, Holds, Issued
<1>1. CASE inHand[b] # None
  <2>1. /\ inHand'[b] = inHand[b] /\ place'[b] = place[b]
        /\ todo'[b] = todo[b] /\ objects' \subseteq objects
        /\ \A h \in FileIds : record'[h] \in {record[h], None}
    BY <1>1, HandStays
  <2>2. Holds(p, b, f, k) /\ Issued(k)
    BY <1>1, <2>1 DEF InHandIsAlone, Holds
  <2>3. \A h \in PairRows(p)' : h \in PairRows(p) /\ record'[h] = record[h]
    BY <2>1 DEF PairRows, Rows, Pair
  <2>4. f \in Rows' => f \in Rows /\ record'[f] = record[f]
    BY <2>1 DEF Rows
  <2> QED BY <2>1, <2>2, <2>3, <2>4, IssuedStep DEF Holds
<1>2. CASE inHand[b] = None
  <2>1. DeleteListedObject(b) \/ ReadForRename(b)
    <3>1. ASSUME NEW a \in AttemptsOf(p), a # b, AttemptStep(a)
          PROVE  inHand'[b] = inHand[b]
      BY <3>1 DEF AttemptStep, Create, StartOver, Resume, DeleteListedObject,
         DeleteListedRow, ListingDone, ReadForRename, AdoptBatch, AllAdopted,
         ReissueBatch, AllReissued, PutBatch, RecordBatch, QueueBatch,
         FinishRun, Complete, Verdict, ProcessStops, AttemptsOf
    <3>2. ASSUME AttemptStep(b), ~DeleteListedObject(b), ~ReadForRename(b)
          PROVE  inHand'[b] = None
      BY <1>2, <3>2 DEF AttemptStep, Create, StartOver, Resume,
         DeleteListedRow, ListingDone, AdoptBatch, AllAdopted,
         ReissueBatch, AllReissued, PutBatch, RecordBatch, QueueBatch,
         FinishRun, Complete, Verdict, ProcessStops, AttemptsOf
    <3>3. PickUp \/ TaskGoesOn => inHand' = inHand
      BY TasksStay
    <3> QED BY <1>2, <3>1, <3>2, <3>3
  <2>2. /\ f \in todo[b] /\ f \in Rows /\ k = record[f] /\ record' = record
        /\ place' = place /\ place[b] \in {"discard", "clean", "adopt"}
        /\ place[b] = "adopt" => todo' = todo
        /\ place[b] # "adopt" => k \notin objects'
    <3>1. CASE DeleteListedObject(b)
      <4>1. PICK g \in todo[b] :
              IF g \in Rows
              THEN /\ objects' = objects \ {record[g]}
                   /\ inHand' = [inHand EXCEPT
                                   ![b] = [file |-> g, key |-> record[g]]]
              ELSE UNCHANGED inHand
        BY <3>1 DEF DeleteListedObject
      <4>2. g \in Rows /\ f = g /\ k = record[g]
            /\ objects' = objects \ {record[g]}
        BY <1>2, <4>1 DEF AttemptsOf
      <4>3. record' = record /\ place' = place
            /\ place[b] \in {"discard", "clean"}
        BY <3>1 DEF DeleteListedObject
      <4> QED BY <4>2, <4>3
    <3>2. CASE ReadForRename(b)
      <4>1. PICK g \in todo[b] :
              IF g \in Rows
              THEN /\ inHand' = [inHand EXCEPT
                                   ![b] = [file |-> g, key |-> record[g]]]
                   /\ UNCHANGED place
              ELSE UNCHANGED inHand
        BY <3>2 DEF ReadForRename
      <4>2. g \in Rows /\ f = g /\ k = record[g] /\ place' = place
        BY <1>2, <4>1 DEF AttemptsOf
      <4>3. record' = record /\ todo' = todo /\ place[b] = "adopt"
        BY <3>2 DEF ReadForRename
      <4> QED BY <4>2, <4>3
    <3> QED BY <2>1, <3>1, <3>2
  <2>3. f \in PairRows(p)
    BY <2>2 DEF PairRows, KeysApart, AttemptsOf
  <2>4. k[2] = f[2] /\ Issued(k)
        /\ \A h \in PairRows(p) : h[2] = f[2] \/ record[h] = k => h = f
    BY <2>2, <2>3 DEF NamesDiffer
  <2>5. PairRows(p)' = PairRows(p) /\ Rows' = Rows
    BY <2>2 DEF PairRows, Rows
  <2> QED BY <2>2, <2>4, <2>5, IssuedStep DEF Holds
<1> QED BY <1>1, <1>2

(* The rows of the cc_pair stay with the attempt that is at its loop.      *)
LEMMA FoundStep ==
  ASSUME NEW p \in PairIds, OwnStep(p)
  PROVE  RowsAreFound(p)'
<1> USE DEF OwnStep, TypeInv, TypeOK, PairInv, RowsAreFound, Goto
<1>0. /\ None \notin FileIds /\ AttemptsOf(p)' = AttemptsOf(p)
      /\ AttemptsOf(p) \subseteq Attempts
  BY BatchStoreAssumption DEF AttemptsOf
<1>1. ASSUME NEW a \in AttemptsOf(p), AdoptBatch(a) PROVE RowsAreFound(p)'
  <2>1. PICK f, g, k \in FileIds : Renames(p, a, f, g, k)
    BY <1>1, AdoptRenames
  <2>2. ASSUME NEW h \in PairRows(p)'
        PROVE  h = g \/ (h # f /\ h \in PairRows(p))
    BY <2>1, <2>2 DEF Renames, PairRows, Rows, Pair
  <2>3. \A b \in AttemptsOf(p) : b # a => ~Busy(b)
    BY <2>1, OneTurn DEF Renames
  <2>4. \A b \in AttemptsOf(p) :
          /\ place'[b] = place[b] /\ status'[b] = status[b]
          /\ b = a => place[b] = "adopt" /\ todo'[b] = todo[b] \ {f}
    BY <1>0, <2>1 DEF Renames
  <2> QED BY <1>0, <2>1, <2>2, <2>3, <2>4 DEF Renames, Busy
<1>2. ASSUME NEW a \in AttemptsOf(p), RecordBatch(a) PROVE RowsAreFound(p)'
  <2>1. PICK g \in FileIds : Stores(p, a, g)
    BY <1>2, RecordStores
  <2>2. ASSUME NEW h \in PairRows(p)'
        PROVE  h = g \/ h \in PairRows(p)
    BY <2>1, <2>2 DEF Stores, PairRows, Rows, Pair
  <2>3. \A b \in AttemptsOf(p) : b # a => ~Busy(b)
    BY <2>1, OneTurn DEF Stores
  <2>4. \A b \in AttemptsOf(p) :
          /\ place'[b] = IF b = a THEN "queue" ELSE place[b]
          /\ status'[b] = status[b] /\ total'[b] = total[b]
    BY <1>0, <2>1 DEF Stores
  <2>5. \A h \in PairRows(p) : h[1] = a /\ h[2] < total[a] /\ h[2] \in Nat
    BY <2>1, FileType DEF Stores, PairRows, Rows
  <2> QED BY <1>0, <2>1, <2>2, <2>3, <2>4, <2>5 DEF Stores, Busy
<1>3. ASSUME NEW a \in AttemptsOf(p), QueueBatch(a) PROVE RowsAreFound(p)'
  <2>1. \A b \in AttemptsOf(p) :
          /\ place'[b] = IF b = a THEN "run" ELSE place[b]
          /\ total'[b] = IF b = a THEN total[a] + 1 ELSE total[b]
    BY <1>0, <1>3 DEF QueueBatch
  <2>2. \A h \in PairRows(p) : h[2] \in Nat
    BY FileType DEF PairRows, Rows
  <2>3. /\ place[a] = "queue" /\ total[a] \in Nat
        /\ UNCHANGED <<record, status, todo, inHand>>
    BY <1>0, <1>3 DEF QueueBatch
  <2>4. PairRows(p)' = PairRows(p)
    BY <2>3 DEF PairRows, Rows
  <2> QED BY <1>0, <2>1, <2>2, <2>3, <2>4 DEF Busy
<1>4. ASSUME \A f \in FileIds : record'[f] \in {record[f], None}
      PROVE  \A h \in PairRows(p)' : h \in PairRows(p)
  BY <1>0, <1>4 DEF PairRows, Rows, Pair
<1>5. ASSUME NEW a \in AttemptsOf(p), StartOver(a) \/ Resume(a)
      PROVE  RowsAreFound(p)'
  <2>1. Listed(a) = PairRows(p)
    BY ListedApart DEF AttemptsOf
  <2>2. /\ \E x \in {"discard", "adopt"} : place' = [place EXCEPT ![a] = x]
        /\ todo' = [todo EXCEPT ![a] = PairRows(p)]
        /\ \A b \in Attempts : b # a => total'[b] = total[b]
        /\ UNCHANGED <<record, status, inHand>>
    BY <1>5, <2>1 DEF StartOver, Resume
  <2>3. PairRows(p)' = PairRows(p)
    BY <2>2 DEF PairRows, Rows
  <2> QED BY <1>0, <2>2, <2>3 DEF Busy
<1>6. ASSUME NEW a \in AttemptsOf(p), DeleteListedObject(a)
      PROVE  RowsAreFound(p)'
  <2>1. PICK f \in todo[a] :
          /\ todo' = [todo EXCEPT ![a] = todo[a] \ {f}]
          /\ IF f \in Rows
             THEN inHand' = [inHand EXCEPT
                               ![a] = [file |-> f, key |-> record[f]]]
             ELSE UNCHANGED inHand
    BY <1>6 DEF DeleteListedObject
  <2>2. /\ place[a] \in {"discard", "clean"} /\ inHand[a] = None
        /\ UNCHANGED <<record, status, place, total>>
    BY <1>6 DEF DeleteListedObject
  <2>3. PairRows(p)' = PairRows(p) /\ PairRows(p) \subseteq Rows
    BY <2>2 DEF PairRows, Rows
  <2>4. f \in Rows => inHand'[a] # None /\ inHand'[a].file = f
    <3>1. f \in FileIds /\ (f \in Rows => record[f] \in FileIds)
      BY <1>0 DEF Rows
    <3>2. [file |-> f, key |-> record[f]] # None \/ f \notin Rows
      BY <3>1, BatchStoreAssumption
    <3> QED BY <1>0, <2>1, <3>2
  <2> QED BY <1>0, <2>1, <2>2, <2>3, <2>4 DEF Busy
<1>7. ASSUME NEW a \in AttemptsOf(p), DeleteListedRow(a)
      PROVE  RowsAreFound(p)'
  <2>1. /\ record' = [record EXCEPT ![inHand[a].file] = None]
        /\ inHand' = [inHand EXCEPT ![a] = None]
        /\ UNCHANGED <<status, place, todo, total>>
    BY <1>7 DEF DeleteListedRow
  <2>2. \A h \in PairRows(p)' : h \in PairRows(p) /\ h # inHand[a].file
    BY <1>0, <2>1 DEF PairRows, Rows, Pair
  <2> QED BY <1>0, <2>1, <2>2 DEF Busy
<1>8. ASSUME NEW a \in AttemptsOf(p),
             \/ ListingDone(a) \/ ReadForRename(a) \/ AllAdopted(a)
             \/ ReissueBatch(a) \/ AllReissued(a) \/ FinishRun(a)
             \/ Complete(a) \/ Verdict(a) \/ ProcessStops(a) \/ Create(a)
             \/ PutBatch(a)
      PROVE  RowsAreFound(p)'
  <2>1. UNCHANGED <<record, total>> /\ PairRows(p)' = PairRows(p)
    BY <1>8 DEF ListingDone, ReadForRename, AllAdopted, ReissueBatch,
       AllReissued, FinishRun, Complete, Verdict, ProcessStops, Create,
       PutBatch, PairRows, Rows
  <2>2. CASE ListingDone(a)
    BY <1>0, <2>1, <2>2 DEF ListingDone, Busy
  <2>3. CASE ReadForRename(a)
    <3>1. /\ place[a] = "adopt" /\ UNCHANGED <<todo, status>>
          /\ \A b \in Attempts : \/ place'[b] = place[b]
                                 \/ b = a /\ place'[b] = "over"
          /\ \A b \in Attempts : b # a => inHand'[b] = inHand[b]
      BY <2>3 DEF ReadForRename, AttemptsOf
    <3> QED BY <1>0, <2>1, <3>1 DEF Busy
  <2>4. CASE AllAdopted(a) \/ AllReissued(a) \/ FinishRun(a) \/ PutBatch(a)
    BY <1>0, <2>1, <2>4 DEF AllAdopted, AllReissued, FinishRun, PutBatch, Busy
  <2>5. CASE ReissueBatch(a)
    <3>1. /\ place[a] = "reissue" /\ UNCHANGED <<inHand, status>>
          /\ \A b \in Attempts :
               /\ place'[b] \in {place[b], "over"}
               /\ b # a => place'[b] = place[b] /\ todo'[b] = todo[b]
      BY <2>5 DEF ReissueBatch
    <3> QED BY <1>0, <2>1, <3>1 DEF Busy
  <2>6. CASE Complete(a) \/ Verdict(a) \/ ProcessStops(a) \/ Create(a)
    BY <1>0, <2>1, <2>6 DEF Complete, Verdict, ProcessStops, Create, Busy
  <2> QED BY <1>8, <2>2, <2>3, <2>4, <2>5, <2>6
<1>9. CASE PickUp \/ TaskGoesOn
  <2>1. \A f \in FileIds : record'[f] \in {record[f], None}
    BY <1>9 DEF PickUp, TaskGoesOn, TaskRaises, CountBatch, DeleteBatchObject,
       DeleteBatchRow, TaskDies
  <2> QED BY <1>0, <1>4, <1>9, <2>1, TasksStay DEF Busy
<1> QED
  BY <1>1, <1>2, <1>3, <1>5, <1>6, <1>7, <1>8, <1>9 DEF AttemptStep

(* Nobody deletes the object between its put and its row.                  *)
LEMMA PutStep ==
  ASSUME NEW p \in PairIds, OwnStep(p)
  PROVE  PutHasObject(p)'
<1> USE DEF OwnStep, TypeInv, TypeOK, PairInv
<1> SUFFICES ASSUME NEW b \in AttemptsOf(p), place'[b] = "put"
             PROVE  <<b, total'[b]>> \in objects'
  BY DEF PutHasObject, AttemptsOf
<1>1. CASE place[b] = "put"
  <2>1. Busy(b) /\ <<b, total[b]>> \in objects /\ total[b] \in Nat
    BY <1>1 DEF Busy, PutHasObject, AttemptsOf
  <2>2. ASSUME NEW a \in AttemptsOf(p), AttemptStep(a)
        PROVE  total'[b] = total[b] /\ objects' = objects
    <3>1. CASE a # b
      BY <2>1, <2>2, <3>1, OthersRest
    <3>2. CASE a = b
      <4>1. Verdict(b)
        BY <1>1, <2>2, <3>2
           DEF AttemptStep, Create, StartOver, Resume, DeleteListedObject,
           DeleteListedRow, ListingDone, ReadForRename, AdoptBatch, AllAdopted,
           ReissueBatch, AllReissued, PutBatch, RecordBatch, QueueBatch,
           FinishRun, Complete, ProcessStops, Goto, AttemptsOf, TurnsTaken
      <4> QED BY <4>1 DEF Verdict
    <3> QED BY <3>1, <3>2
  <2>3. CASE DeleteBatchObject /\ TaskOf(p)
    <3>1. /\ total' = total
          /\ \/ objects' = objects
             \/ /\ task.file \in Rows
                /\ objects' = objects \ {record[task.file]}
      BY <2>3 DEF DeleteBatchObject
    <3>2. task.file \in Rows => task.file \in PairRows(p)
      BY <2>3 DEF TaskOf, PairRows
    <3>3. \A h \in PairRows(p) : record[h][2] < total[b] /\ record[h][2] \in Nat
      BY <1>1, FileType DEF NamesDiffer, RowsAreFound, PairRows, Rows
    <3>4. task.file \in Rows => record[task.file] # <<b, total[b]>>
      BY <2>1, <3>2, <3>3
    <3> QED BY <2>1, <3>1, <3>4
  <2>4. CASE PickUp \/ TaskRaises \/ CountBatch \/ DeleteBatchRow \/ TaskDies
    BY <2>1, <2>4 DEF PickUp, TaskRaises, CountBatch, DeleteBatchRow, TaskDies
  <2> QED BY <2>1, <2>2, <2>3, <2>4 DEF TaskGoesOn
<1>2. CASE place[b] # "put"
  <2>1. PutBatch(b)
    <3>1. ~(PickUp \/ TaskGoesOn)
      BY <1>2, TasksStay
    <3>2. PICK a \in AttemptsOf(p) : AttemptStep(a)
      BY <3>1
    <3> QED
      BY <1>2, <3>2
         DEF AttemptStep, Create, StartOver, Resume, DeleteListedObject,
         DeleteListedRow, ListingDone, ReadForRename, AdoptBatch, AllAdopted,
         ReissueBatch, AllReissued, PutBatch, RecordBatch, QueueBatch,
         FinishRun, Complete, Verdict, ProcessStops, Goto, AttemptsOf
  <2> QED BY <2>1 DEF PutBatch
<1> QED BY <1>1, <1>2

-----------------------------------------------------------------------------
(* What was sent stays sent: a total only grows, a list only shrinks, and  *)
(* an attempt is newborn once.                                             *)
LEMMA SentStep ==
  ASSUME NEW p \in PairIds, OwnStep(p), NEW e \in FileIds, Sent(e)
  PROVE  Sent(e)'
<1> USE DEF OwnStep, TypeInv, TypeOK, Sent, Goto, Unborn, Newborn, AttemptsOf
<1>1. e[1] \in Attempts /\ e[2] \in Nat
  BY FileType
<1>2. ASSUME NEW a \in AttemptsOf(p), QueueBatch(a) PROVE Sent(e)'
  <2>1. /\ place[a] = "queue" /\ total[a] \in Nat /\ todo' = todo
        /\ place' = [place EXCEPT ![a] = "run"]
        /\ total' = [total EXCEPT ![a] = total[a] + 1]
    BY <1>2 DEF QueueBatch
  <2> QED BY <1>1, <2>1
<1>3. ASSUME NEW a \in AttemptsOf(p),
             \/ RecordBatch(a) \/ AdoptBatch(a) \/ StartOver(a) \/ Resume(a)
      PROVE  Sent(e)'
  BY <1>1, <1>3 DEF RecordBatch, AdoptBatch, StartOver, Resume
<1>4. ASSUME NEW a \in AttemptsOf(p), ReissueBatch(a) PROVE Sent(e)'
  <2>1. /\ \A b \in Attempts : /\ todo'[b] \subseteq todo[b]
                               /\ place'[b] \in {place[b], "over"}
        /\ total' = total
    BY <1>4 DEF ReissueBatch
  <2> QED BY <1>1, <2>1
<1>5. ASSUME NEW a \in AttemptsOf(p), OtherStep(a) PROVE Sent(e)'
  <2>1. CASE Create(a)
    BY <1>1, <2>1 DEF Create, PairInv, TurnsTaken
  <2>2. CASE PutBatch(a)
    BY <1>1, <2>2 DEF PutBatch
  <2>3. CASE ListingDone(a)
    BY <1>1, <2>3 DEF ListingDone
  <2>4. CASE FinishRun(a) \/ ReadForRename(a) \/ AllAdopted(a)
             \/ AllReissued(a)
    BY <1>1, <2>4 DEF ReadForRename, AllAdopted, AllReissued, FinishRun
  <2>5. CASE \/ DeleteListedObject(a) \/ DeleteListedRow(a) \/ Complete(a)
             \/ Verdict(a) \/ ProcessStops(a)
    BY <1>1, <2>5 DEF DeleteListedObject, DeleteListedRow, Complete, Verdict,
       ProcessStops
  <2> QED BY <1>5, <2>1, <2>2, <2>3, <2>4, <2>5 DEF OtherStep
<1>6. CASE PickUp \/ TaskGoesOn
  BY <1>1, <1>6, TasksStay
<1> QED
  BY <1>2, <1>3, <1>4, <1>5, <1>6 DEF AttemptStep, OtherStep

(* A message that is added is of a batch just stored or just taken off the *)
(* list, which no task has; or it is the message of a task that died.      *)
LEMMA NewMessage ==
  ASSUME NEW p \in PairIds, OwnStep(p), NEW e \in messages', e \notin messages
  PROVE  /\ e \in FileIds
         /\ \/ ~Sent(e) /\ Sent(e)' /\ UNCHANGED task
            \/ /\ TaskDies /\ TaskOf(p) /\ task.at = "index" /\ e = task.file
               /\ Sent(e)
<1> USE DEF OwnStep, TypeInv, TypeOK, Sent, Goto, Newborn, Unborn, AttemptsOf
<1>0. e \in FileIds
  OBVIOUS
<1>1. ASSUME NEW a \in AttemptsOf(p), QueueBatch(a)
      PROVE  ~Sent(e) /\ Sent(e)' /\ UNCHANGED task
  <2>1. /\ place[a] = "queue" /\ total[a] \in Nat
        /\ place' = [place EXCEPT ![a] = "run"]
        /\ total' = [total EXCEPT ![a] = total[a] + 1]
        /\ messages' = messages \cup {<<a, total[a]>>} /\ task' = task
    BY <1>1 DEF QueueBatch
  <2>2. e[1] = a /\ e[2] = total[a]
    BY <2>1
  <2> QED BY <2>1, <2>2
<1>2. ASSUME NEW a \in AttemptsOf(p), ReissueBatch(a)
      PROVE  ~Sent(e) /\ Sent(e)' /\ UNCHANGED task
  <2>1. place[a] = "reissue" /\ UNCHANGED <<task, total>>
    BY <1>2 DEF ReissueBatch
  <2>2. PICK f \in todo[a] :
          /\ todo' = [todo EXCEPT ![a] = todo[a] \ {f}]
          /\ messages' = messages \cup {<<a, f[2]>>} /\ UNCHANGED place
    BY <1>2 DEF ReissueBatch
  <2>3. e[1] = a /\ e[2] = f[2]
    BY <2>2
  <2>4. \A g \in todo[a] \ {f} : g[2] # f[2]
    BY <2>1, <2>2 DEF PairInv, ListingsDiffer
  <2> QED BY <2>1, <2>2, <2>3, <2>4
<1>3. ASSUME NEW a \in AttemptsOf(p),
             \/ StartOver(a) \/ Resume(a) \/ AdoptBatch(a) \/ RecordBatch(a)
             \/ OtherStep(a)
      PROVE  FALSE
  BY <1>3 DEF StartOver, Resume, AdoptBatch, RecordBatch, OtherStep,
     DeleteListedObject, DeleteListedRow, ListingDone, ReadForRename,
     AllAdopted, AllReissued, FinishRun, Complete, Verdict, ProcessStops,
     Create, PutBatch
<1>4. ASSUME PickUp \/ TaskRaises \/ CountBatch \/ DeleteBatchObject
             \/ DeleteBatchRow
      PROVE  FALSE
  BY <1>4 DEF PickUp, TaskRaises, CountBatch, DeleteBatchObject,
     DeleteBatchRow
<1>5. ASSUME TaskDies, TaskOf(p)
      PROVE  task.at = "index" /\ e = task.file /\ Sent(e)
  <2>1. e = task.file
    BY <1>5 DEF TaskDies
  <2>2. task.at = "index"
    BY <1>5 DEF TaskDies, TaskOf
  <2> QED BY <1>5, <2>1, <2>2 DEF PairInv, TaskHoldsMessage
<1> QED
  BY <1>0, <1>1, <1>2, <1>3, <1>4, <1>5 DEF AttemptStep, OtherStep, TaskGoesOn

(* So every message stays one that was sent.                               *)
LEMMA MessagesStep ==
  ASSUME NEW p \in PairIds, OwnStep(p)
  PROVE  MessagesAreSent(p)'
<1>1. messages \subseteq FileIds
  BY DEF OwnStep, TypeInv, TypeOK
<1>2. ASSUME NEW e \in messages', Pair(e) = p PROVE Sent(e)'
  <2>1. CASE e \in messages
    BY <1>1, <1>2, <2>1, SentStep DEF OwnStep, PairInv, MessagesAreSent
  <2>2. CASE e \notin messages
    BY <2>2, NewMessage, SentStep
  <2> QED BY <2>1, <2>2
<1> QED BY <1>2 DEF MessagesAreSent, Sent, Pair

(* There are finitely many batches left to count.                          *)
LEMMA UncountedIsFinite ==
  ASSUME NEW a
  PROVE  IsFiniteSet(Uncounted(a))
BY NumbersType, FS_Subset DEF Uncounted

(* When completed_batches has reached total_batches, none is left.         *)
LEMMA CompleteIsDone ==
  ASSUME NEW p, TypeInv, PairInv(p), NEW a \in AttemptsOf(p),
         place[a] \in {"wait", "clean"}, Busy(a), counted[a] >= total[a]
  PROVE  Uncounted(a) = {}
<1>1. Outstanding(a) = Uncounted(a)
  BY DEF Outstanding
<1>2. Cardinality(Uncounted(a)) \in Nat
  BY UncountedIsFinite, FS_CardinalityType
<1>3. counted[a] + Cardinality(Uncounted(a)) <= total[a]
  BY <1>1 DEF PairInv, CountsAddUp
<1>4. Cardinality(Uncounted(a)) = 0
  BY <1>2, <1>3 DEF TypeInv, TypeOK, AttemptsOf
<1> QED BY <1>4, UncountedIsFinite, FS_EmptySet

(* The row of the task's batch: renames and new batches do not touch it    *)
(* while its attempt goes on, and only the loop of a later attempt, or the *)
(* task, deletes it.                                                       *)
LEMMA TaskRowStep ==
  ASSUME NEW p \in PairIds, OwnStep(p), TaskOf(p)'
  PROVE  RowOfTask(p)'
<1> USE DEF OwnStep, TypeInv, TypeOK, PairInv, AttemptsOf
<1>0. None \notin FileIds
  BY BatchStoreAssumption
<1>1. ASSUME TaskOf(p)
      PROVE  /\ task.file \in FileIds /\ task.key \in FileIds
             /\ Pair(task.file) = p /\ Sent(task.file)
             /\ task.file[1] \in AttemptsOf(p)
             /\ task.file = <<task.file[1], task.file[2]>>
             /\ task.file[2] \in BatchNums /\ task.file[2] \in Nat
  BY <1>1, FileType DEF TaskOf, TaskHasBatch, NoTask, TaskHoldsMessage, Pair
<1>2. ASSUME task' = task,
             NEW e \in FileIds, e = task.file,
             record'[e] \in {record[e], None}, done \subseteq done',
             task.at = "index" /\ Busy(e[1])'
               => Busy(e[1]) /\ record'[e] = record[e],
             task.at = "unlink" /\ record[e] # None /\ record'[e] # None
                 /\ record[e] \notin objects
               => record[e] \notin objects'
      PROVE  RowOfTask(p)'
  <2>1. TaskOf(p)
    BY <1>2 DEF TaskOf
  <2>2. /\ record[e] \in {None, task.key}
        /\ task.at = "index" /\ Busy(e[1]) => record[e] = task.key
        /\ task.at # "index" => task.key \in done
        /\ task.at = "unlink" /\ e \in Rows => record[e] \notin objects
    BY <1>2, <2>1 DEF RowOfTask, Busy
  <2>3. e \in Rows' <=> record'[e] # None
    BY DEF Rows
  <2>4. e \in Rows <=> record[e] # None
    BY DEF Rows
  <2>5. /\ record'[e] \in {None, task.key}
        /\ task.at = "index" /\ Busy(e[1])' => record'[e] = task.key
        /\ task.at # "index" => task.key \in done'
        /\ task.at = "unlink" /\ e \in Rows' => record'[e] \notin objects'
    BY <1>2, <2>2, <2>3, <2>4
  <2> QED BY <1>2, <2>5 DEF RowOfTask, Busy
<1>3. ASSUME NEW a \in AttemptsOf(p), AttemptStep(a)
      PROVE  RowOfTask(p)'
  <2>1. task' = task
    BY <1>3 DEF AttemptStep, Create, StartOver, Resume, DeleteListedObject,
       DeleteListedRow, ListingDone, ReadForRename, AdoptBatch, AllAdopted,
       ReissueBatch, AllReissued, PutBatch, RecordBatch, QueueBatch, FinishRun,
       Complete, Verdict, ProcessStops
  <2>2. TaskOf(p)
    BY <2>1 DEF TaskOf
  <2>3. PICK e \in FileIds : e = task.file
    BY <1>1, <2>2
  <2>4. /\ Pair(e) = p /\ Sent(e) /\ e[1] \in AttemptsOf(p)
        /\ e = <<e[1], e[2]>> /\ e[2] \in BatchNums /\ e[2] \in Nat
    BY <1>1, <2>2, <2>3
  <2>5. CASE AdoptBatch(a)
    <3>1. PICK f, g, k \in FileIds : Renames(p, a, f, g, k)
      BY <2>5, AdoptRenames
    <3>2. e # g /\ (e = f => ~Busy(e[1]))
      BY <2>4, <3>1, OneTurn DEF Renames, Sent, Newborn
    <3>3. /\ record'[e] \in {record[e], None}
          /\ Busy(e[1]) => record'[e] = record[e]
          /\ UNCHANGED <<place, status, objects, done>>
      BY <3>1, <3>2 DEF Renames
    <3> QED BY <1>2, <2>1, <2>3, <3>3 DEF Busy
  <2>6. CASE RecordBatch(a)
    <3>1. PICK g \in FileIds : Stores(p, a, g)
      BY <2>6, RecordStores
    <3>2. e # g
      BY <2>4, <3>1 DEF Stores, Sent
    <3>3. /\ record'[e] = record[e] /\ UNCHANGED <<status, objects, done>>
          /\ place' = [place EXCEPT ![a] = "queue"] /\ place[a] = "put"
      BY <3>1, <3>2 DEF Stores
    <3> QED BY <1>2, <2>1, <2>3, <2>4, <3>3 DEF Busy
  <2>7. CASE DeleteListedRow(a)
    <3>1. /\ record' = [record EXCEPT ![inHand[a].file] = None]
          /\ UNCHANGED <<place, status, objects, done>>
          /\ place[a] \in {"discard", "clean"}
      BY <2>7 DEF DeleteListedRow
    <3>2. ASSUME e = inHand[a].file, task.at = "index", Busy(e[1])
          PROVE  FALSE
      <4>1. Busy(a)
        BY <3>1 DEF Busy
      <4>2. e[1] = a /\ place[a] = "clean"
        BY <2>4, <3>1, <3>2, <4>1, OneTurn DEF Sent, Newborn, Unborn
      <4>3. Uncounted(a) = {}
        BY <4>1, <4>2, CompleteIsDone DEF CountsAddUp
      <4> QED BY <2>3, <2>4, <3>2, <4>2, <4>3 DEF Uncounted
    <3>3. /\ record'[e] \in {record[e], None}
          /\ task.at = "index" /\ Busy(e[1]) => record'[e] = record[e]
      BY <2>3, <3>1, <3>2
    <3> QED BY <1>2, <2>1, <2>3, <3>1, <3>3 DEF Busy
  <2>8. CASE PutBatch(a)
    <3>1. /\ objects' = objects \cup {<<a, total[a]>>} /\ place[a] = "run"
          /\ place' = [place EXCEPT ![a] = "put"]
          /\ UNCHANGED <<record, status, done>> /\ total[a] \in Nat
      BY <2>8 DEF PutBatch, Goto
    <3>2. \A h \in PairRows(p) : record[h][2] < total[a] /\ record[h][2] \in Nat
      BY <3>1, FileType DEF NamesDiffer, RowsAreFound, PairRows, Rows
    <3>3. e \in Rows => record[e] # <<a, total[a]>>
      BY <2>4, <3>1, <3>2 DEF PairRows
    <3>4. Busy(e[1])' => Busy(e[1])
      BY <2>4, <3>1 DEF Busy
    <3> QED BY <1>2, <2>1, <2>3, <3>1, <3>3, <3>4 DEF Rows
  <2>9. CASE \/ DeleteListedObject(a) \/ ReadForRename(a) \/ ReissueBatch(a)
    <3>1. /\ UNCHANGED <<record, status, done>> /\ objects' \subseteq objects
          /\ \A b \in Attempts : place'[b] \in {place[b], "over"}
      BY <2>9 DEF DeleteListedObject, ReadForRename, ReissueBatch, Goto
    <3> QED BY <1>2, <2>1, <2>3, <2>4, <3>1 DEF Busy
  <2>10. CASE \/ ListingDone(a) \/ AllAdopted(a) \/ AllReissued(a)
              \/ FinishRun(a) \/ Complete(a) \/ Verdict(a) \/ ProcessStops(a)
              \/ QueueBatch(a)
    <3>1. UNCHANGED <<record, objects, done>>
      BY <2>10 DEF ListingDone, AllAdopted, AllReissued, FinishRun, Complete,
         Verdict, ProcessStops, QueueBatch
    <3>2. Busy(e[1])' => Busy(e[1])
      BY <2>4, <2>10 DEF ListingDone, AllAdopted, AllReissued, FinishRun,
         Complete, Verdict, ProcessStops, QueueBatch, Busy, Goto, Sent, Newborn,
         Unborn
    <3> QED BY <1>2, <2>1, <2>3, <3>1, <3>2
  <2>11. CASE StartOver(a) \/ Resume(a) \/ Create(a)
    <3>1. UNCHANGED <<record, objects, done>> /\ a # e[1]
      BY <2>4, <2>11 DEF StartOver, Resume, Create, Sent, Newborn, Unborn,
         TurnsTaken
    <3>2. place'[e[1]] = place[e[1]] /\ status'[e[1]] = status[e[1]]
      BY <2>4, <2>11, <3>1 DEF StartOver, Resume, Create, Goto
    <3> QED BY <1>2, <2>1, <2>3, <3>1, <3>2 DEF Busy
  <2> QED
    BY <1>3, <2>5, <2>6, <2>7, <2>8, <2>9, <2>10, <2>11 DEF AttemptStep
<1>4. CASE PickUp
  <2>1. task'.at = "index" /\ record'[task'.file] = task'.key
    BY <1>4 DEF PickUp, NoTask, TaskOf
  <2> QED BY <2>1 DEF RowOfTask
<1>5. CASE TaskOf(p) /\ CountBatch
  <2>1. /\ task'.at = "delete" /\ task'.file = task.file /\ task'.key = task.key
        /\ task.key \in done' /\ record' = record
    BY <1>5 DEF CountBatch
  <2>2. record[task.file] \in {None, task.key}
    BY <1>5 DEF RowOfTask
  <2> QED BY <2>1, <2>2 DEF RowOfTask
<1>6. CASE TaskOf(p) /\ DeleteBatchObject
  <2>1. /\ task.file \in Rows /\ objects' = objects \ {record[task.file]}
        /\ task' = [task EXCEPT !.at = "unlink"] /\ task.at = "delete"
        /\ UNCHANGED <<record, done>>
    BY <1>6 DEF DeleteBatchObject, NoTask, TaskOf
  <2>2. /\ task'.at = "unlink" /\ task'.file = task.file
        /\ task'.key = task.key
    BY <2>1
  <2>3. record[task.file] \in {None, task.key} /\ task.key \in done
    BY <1>6, <2>1 DEF RowOfTask
  <2> QED BY <2>1, <2>2, <2>3 DEF RowOfTask
<1>7. CASE TaskOf(p) /\ (TaskRaises \/ DeleteBatchRow \/ TaskDies)
  BY <1>7 DEF TaskRaises, DeleteBatchRow, TaskDies, NoTask, TaskOf
<1> QED BY <1>3, <1>4, <1>5, <1>6, <1>7 DEF TaskGoesOn

(* The task alone has its message: it took it, and none like it is sent.   *)
LEMMA TaskStepHolds ==
  ASSUME NEW p \in PairIds, OwnStep(p)
  PROVE  TaskHoldsMessage(p)'
<1> USE DEF OwnStep, TypeInv, TypeOK, PairInv, TaskHasBatch
<1> SUFFICES ASSUME TaskOf(p)'
             PROVE  Sent(task.file)' /\ task'.file \notin messages'
  BY DEF TaskHoldsMessage
<1>1. CASE PickUp
  <2>1. PICK f \in messages : messages' = messages \ {f} /\ task'.file = f
    BY <1>1 DEF PickUp, NoTask, TaskOf
  <2>2. Sent(f)' /\ f \in FileIds
    BY <2>1, SentStep DEF MessagesAreSent, TaskOf
  <2> QED BY <2>1, <2>2 DEF Sent
<1>2. CASE ~PickUp
  <2>1. \/ task' = task
        \/ /\ task.at # "idle"
           /\ task' \in {[task EXCEPT !.at = "delete"],
                         [task EXCEPT !.at = "unlink"]}
    <3>1. ASSUME NEW a \in AttemptsOf(p), AttemptStep(a) PROVE task' = task
      BY <3>1 DEF AttemptStep, Create, StartOver, Resume, DeleteListedObject,
         DeleteListedRow, ListingDone, ReadForRename, AdoptBatch, AllAdopted,
         ReissueBatch, AllReissued, PutBatch, RecordBatch, QueueBatch,
         FinishRun, Complete, Verdict, ProcessStops
    <3>2. CASE TaskGoesOn
      BY <3>2 DEF TaskGoesOn, TaskRaises, CountBatch, DeleteBatchObject,
         DeleteBatchRow, TaskDies, TaskOf, NoTask
    <3> QED BY <1>2, <3>1, <3>2
  <2>2. TaskOf(p) /\ task'.file = task.file /\ ~TaskDies
    BY <2>1 DEF TaskOf, TaskDies, NoTask
  <2>3. PICK e \in FileIds : e = task.file
    BY <2>2 DEF TaskOf, NoTask
  <2>4. Sent(e) /\ e \notin messages
    BY <2>2, <2>3 DEF TaskHoldsMessage
  <2>5. Sent(e)' /\ e \notin messages'
    BY <2>2, <2>4, SentStep, NewMessage
  <2> QED BY <2>2, <2>3, <2>5 DEF Sent
<1> QED BY <1>1, <1>2

-----------------------------------------------------------------------------
(* Where an attempt may go by a step that leaves its total alone           *)
LEMMA PlaceStep ==
  ASSUME NEW p \in PairIds, OwnStep(p), NEW b \in AttemptsOf(p),
         ~Resume(b), ~ListingDone(b), ~RecordBatch(b), ~QueueBatch(b)
  PROVE  /\ \/ place'[b] \in {place[b], "over"}
            \/ place[b] = "absent" /\ place'[b] = "start"
            \/ place[b] = "start" /\ place'[b] = "discard"
            \/ place[b] = "adopt" /\ place'[b] = "reissue"
            \/ place[b] \in {"reissue", "run"} /\ place'[b] = "wait"
            \/ place[b] = "run" /\ place'[b] = "put"
            \/ /\ place[b] = "wait" /\ place'[b] = "clean" /\ Busy(b)
               /\ counted[b] >= total[b]
         /\ status[b] = "ended" => status'[b] = "ended"
         /\ total'[b] = total[b]
         /\ counted'[b] = counted[b] \/ CountBatch
<1> USE DEF OwnStep, TypeInv, TypeOK, AttemptsOf, Goto
<1>1. ASSUME NEW a \in AttemptsOf(p), a # b, AttemptStep(a)
      PROVE  /\ place'[b] = place[b] /\ status'[b] = status[b]
             /\ total'[b] = total[b] /\ counted'[b] = counted[b]
  BY <1>1 DEF AttemptStep, Create, StartOver, Resume, DeleteListedObject,
     DeleteListedRow, ListingDone, ReadForRename, AdoptBatch, AllAdopted,
     ReissueBatch, AllReissued, PutBatch, RecordBatch, QueueBatch,
     FinishRun, Complete, Verdict, ProcessStops
<1>2. CASE Create(b)
  BY <1>2 DEF Create, PairInv, TurnsTaken
<1>3. CASE StartOver(b) \/ AdoptBatch(b) \/ ReissueBatch(b)
  BY <1>3 DEF StartOver, AdoptBatch, ReissueBatch
<1>4. CASE DeleteListedObject(b) \/ DeleteListedRow(b) \/ ReadForRename(b)
           \/ AllAdopted(b) \/ AllReissued(b) \/ FinishRun(b)
  BY <1>4 DEF DeleteListedObject, DeleteListedRow, ReadForRename,
     AllAdopted, AllReissued, FinishRun
<1>5. CASE PutBatch(b) \/ Complete(b) \/ Verdict(b) \/ ProcessStops(b)
  BY <1>5 DEF PutBatch, Complete, Verdict, ProcessStops, Busy
<1>6. CASE PickUp \/ TaskGoesOn
  <2>1. counted' = counted \/ CountBatch
    BY <1>6 DEF PickUp, TaskGoesOn, TaskRaises, DeleteBatchObject,
       DeleteBatchRow, TaskDies
  <2> QED BY <1>6, <2>1, TasksStay
<1> QED BY <1>1, <1>2, <1>3, <1>4, <1>5, <1>6 DEF AttemptStep

(* No step but the beginning of a run and the storing of a batch adds to   *)
(* what an attempt has still to count.                                     *)
LEMMA UncountedShrinks ==
  ASSUME NEW p \in PairIds, OwnStep(p), NEW b \in AttemptsOf(p),
         Busy(b)', place'[b] # "discard",
         ~Resume(b), ~ListingDone(b), ~RecordBatch(b), ~QueueBatch(b)
  PROVE  Busy(b) /\ place[b] # "discard" /\ Uncounted(b)' \subseteq Uncounted(b)
<1> USE DEF OwnStep, TypeInv, TypeOK, PairInv
<1>1. Busy(b) /\ place[b] # "discard"
  BY PlaceStep DEF Busy, AttemptsOf
<1>2. PairOf[b] = p /\ b \in Attempts /\ None \notin FileIds
  BY BatchStoreAssumption DEF AttemptsOf
<1> SUFFICES ASSUME NEW n \in Uncounted(b)'
             PROVE  n \in Uncounted(b)
  BY <1>1
<1>3. /\ n \in BatchNums
      /\ \/ <<b, n>> \in messages'
         \/ task'.at = "index" /\ task'.file = <<b, n>>
         \/ place'[b] = "adopt" /\ \E f \in old'[b] : f[2] = n
         \/ place'[b] = "reissue" /\ \E f \in todo'[b] : f[2] = n
         \/ \E f \in PairRows(p)' : f[2] = n /\ record'[f] \notin done'
  BY <1>2 DEF Uncounted
<1>4. ASSUME /\ n \in BatchNums
             /\ \/ <<b, n>> \in messages
                \/ task.at = "index" /\ task.file = <<b, n>>
                \/ place[b] = "adopt" /\ \E f \in old[b] : f[2] = n
                \/ place[b] = "reissue" /\ \E f \in todo[b] : f[2] = n
                \/ \E f \in PairRows(p) : f[2] = n /\ record[f] \notin done
      PROVE  n \in Uncounted(b)
  BY <1>2, <1>4 DEF Uncounted
<1>5. ASSUME \A f \in FileIds : record'[f] \in {record[f], None}
      PROVE  \A f \in PairRows(p)' : f \in PairRows(p) /\ record'[f] = record[f]
  BY <1>2, <1>5 DEF PairRows, Rows, Pair
<1>6. ASSUME AdoptBatch(b) PROVE n \in Uncounted(b)
  <2>1. PICK f, g, k \in FileIds : Renames(p, b, f, g, k)
    BY <1>6, AdoptRenames
  <2>2. ASSUME NEW h \in PairRows(p)'
        PROVE  h = g \/ (h \in PairRows(p) /\ record'[h] = record[h])
    BY <1>2, <2>1, <2>2 DEF Renames, PairRows, Rows, Pair
  <2>3. f \in old[b] /\ f[2] = g[2] /\ place[b] = "adopt"
    BY <2>1 DEF Renames, ListingsDiffer
  <2>4. UNCHANGED <<place, messages, task, old, done>>
    BY <2>1 DEF Renames
  <2> QED BY <1>3, <1>4, <2>2, <2>3, <2>4
<1>7. ASSUME NEW a \in AttemptsOf(p), a # b, AttemptStep(a)
      PROVE  n \in Uncounted(b)
  <2>1. /\ UNCHANGED <<record, messages, task, done>>
        /\ place'[b] = place[b] /\ todo'[b] = todo[b] /\ old'[b] = old[b]
    BY <1>1, <1>7, OthersRest
  <2> QED BY <1>3, <1>4, <1>5, <2>1
<1>8. ASSUME ReissueBatch(b) PROVE n \in Uncounted(b)
  <2>1. PICK f \in todo[b] :
          /\ todo' = [todo EXCEPT ![b] = todo[b] \ {f}]
          /\ messages' = messages \cup {<<b, f[2]>>} \/ UNCHANGED messages
    BY <1>8 DEF ReissueBatch
  <2>2. /\ place[b] = "reissue" /\ place'[b] \in {"reissue", "over"}
        /\ UNCHANGED <<record, task, old, done>>
    BY <1>2, <1>8 DEF ReissueBatch, Goto
  <2> QED BY <1>2, <1>3, <1>4, <1>5, <2>1, <2>2
<1>9. ASSUME AllAdopted(b) \/ AllReissued(b) \/ FinishRun(b) \/ PutBatch(b)
             \/ Complete(b) \/ Verdict(b)
      PROVE  n \in Uncounted(b)
  BY <1>2, <1>3, <1>4, <1>5, <1>9 DEF AllAdopted, AllReissued, FinishRun,
     PutBatch, Complete, Verdict, Goto
<1>10. ASSUME DeleteListedObject(b) \/ DeleteListedRow(b)
      PROVE  n \in Uncounted(b)
  <2>1. /\ place[b] \in {"discard", "clean"} /\ place' = place
        /\ UNCHANGED <<messages, task, old, done>>
        /\ \A f \in FileIds : record'[f] \in {record[f], None}
    BY <1>10 DEF DeleteListedObject, DeleteListedRow
  <2> QED BY <1>3, <1>4, <1>5, <2>1
<1>11. ASSUME ReadForRename(b) PROVE n \in Uncounted(b)
  <2>1. /\ place[b] = "adopt" /\ place'[b] \in {"adopt", "over"}
        /\ UNCHANGED <<record, messages, task, old, done>>
    BY <1>2, <1>11 DEF ReadForRename, Goto
  <2> QED BY <1>3, <1>4, <1>5, <2>1
<1>12. ~Create(b) /\ ~StartOver(b) /\ ~ProcessStops(b)
  BY <1>1, <1>2 DEF Create, StartOver, ProcessStops, TurnsTaken, Busy, Goto
<1>13. ASSUME PickUp \/ TaskGoesOn PROVE n \in Uncounted(b)
  <2>1. /\ \A f \in FileIds : record'[f] \in {record[f], None}
        /\ done \subseteq done'
    BY <1>13 DEF PickUp, TaskGoesOn, TaskRaises, CountBatch,
       DeleteBatchObject, DeleteBatchRow, TaskDies
  <2>2. UNCHANGED <<place, todo, old>>
    BY <1>13, TasksStay
  <2>3. CASE TaskDies
    <3>1. <<b, n>> \in messages' =>
            <<b, n>> \in messages \/ (task.at = "index" /\ task.file = <<b, n>>)
      BY <1>2, <2>3 DEF TaskDies, Pair
    <3>2. task' = NoTask
      BY <2>3 DEF TaskDies
    <3> QED BY <1>3, <1>4, <1>5, <2>1, <2>2, <3>1, <3>2 DEF NoTask
  <2>4. CASE ~TaskDies
    <3>1. /\ messages' \subseteq messages
          /\ task'.at = "index" => \/ task' = task
                                   \/ task'.file \in messages
      BY <1>13, <2>4 DEF PickUp, TaskGoesOn, TaskRaises, CountBatch,
         DeleteBatchObject, DeleteBatchRow, NoTask
    <3> QED BY <1>3, <1>4, <1>5, <2>1, <2>2, <3>1
  <2> QED BY <2>3, <2>4
<1> QED
  BY <1>6, <1>7, <1>8, <1>9, <1>10, <1>11, <1>12, <1>13 DEF AttemptStep

(* A batch that is counted is not among those still to count any more.     *)
LEMMA CountBatchCounts ==
  ASSUME NEW p \in PairIds, OwnStep(p), TaskOf(p), CountBatch
  PROVE  \E b \in AttemptsOf(p), n \in BatchNums :
            /\ place[b] \notin Newborn
            /\ counted' = [counted EXCEPT ![b] = counted[b] + 1]
            /\ Busy(b) => n \in Outstanding(b) /\ n \notin Outstanding(b)'
<1> USE DEF OwnStep, TypeInv, TypeOK, PairInv
<1>1. task.file \in FileIds /\ task.key \in FileIds /\ Pair(task.file) = p
      /\ task.at = "index" /\ Sent(task.file) /\ task.file \notin messages
  BY DEF CountBatch, TaskOf, TaskHasBatch, NoTask, TaskHoldsMessage
<1>2. PICK b \in Attempts, n \in BatchNums : task.file = <<b, n>>
  BY <1>1 DEF FileIds
<1>3. b \in AttemptsOf(p) /\ PairOf[b] = p /\ n \in Nat
      /\ task.file[1] = b /\ task.file[2] = n
  BY <1>1, <1>2, NumbersType DEF AttemptsOf, Pair
<1>4. /\ counted' = [counted EXCEPT ![b] = counted[b] + 1]
      /\ place[b] \notin Newborn
  BY <1>1, <1>3 DEF CountBatch, Sent
<1>5. ASSUME Busy(b)
      PROVE  n \in Outstanding(b) /\ n \notin Outstanding(b)'
  <2>1. place[b] = "queue" => n # total[b]
    BY <1>1, <1>3 DEF Sent
  <2>2. n \in Outstanding(b)
    BY <1>1, <1>2, <2>1 DEF Outstanding, Uncounted
  <2>3. /\ task'.at = "delete" /\ done' = done \cup {task.key}
        /\ UNCHANGED <<record, place, todo, old, total, messages>>
    BY DEF CountBatch
  <2>4. record[task.file] = task.key /\ task.file \in PairRows(p)
    BY <1>1, <1>3, <1>5, BatchStoreAssumption DEF RowOfTask, PairRows, Rows
  <2>5. \A f \in PairRows(p) : f[2] = n => f = task.file
    BY <1>3, <2>4 DEF NamesDiffer
  <2>6. \A f \in PairRows(p)' : f[2] = n => record'[f] \in done'
    BY <2>3, <2>4, <2>5 DEF PairRows, Rows, Pair
  <2>7. place[b] # "adopt"
    BY <1>4 DEF Newborn
  <2>8. place[b] = "reissue" => \A g \in todo[b] : g[2] # n
    BY <1>1, <1>3 DEF Sent
  <2>9. n \notin Uncounted(b)'
    BY <1>1, <1>2, <1>3, <2>3, <2>6, <2>7, <2>8 DEF Uncounted
  <2> QED BY <2>2, <2>9 DEF Outstanding
<1> QED BY <1>3, <1>4, <1>5

(* There are at most as many numbers as files.                             *)
LEMMA NumbersOfFiles ==
  ASSUME NEW S, IsFiniteSet(S)
  PROVE  LET N == {f[2] : f \in S}
         IN  IsFiniteSet(N) /\ Cardinality(N) <= Cardinality(S)
<1> DEFINE N == {f[2] : f \in S}
           numberOf == [f \in S |-> f[2]]
<1>1. numberOf \in Surjection(S, N)
  BY DEF Surjection
<1> HIDE DEF N, numberOf
<1>2. IsFiniteSet(N) /\ Cardinality(N) <= Cardinality(S)
  BY <1>1, FS_Surjection
<1> QED BY <1>2 DEF N

(* An attempt that has sent nothing has no message and no task.            *)
LEMMA NewbornHasNone ==
  ASSUME NEW p, TypeInv, PairInv(p), NEW a \in AttemptsOf(p),
         place[a] \in Newborn, NEW n \in BatchNums
  PROVE  /\ <<a, n>> \notin messages
         /\ ~(task.at = "index" /\ task.file = <<a, n>>)
<1>1. ~Sent(<<a, n>>)
  BY DEF Sent
<1>2. Pair(<<a, n>>) = p
  BY DEF Pair, AttemptsOf
<1>3. <<a, n>> \notin messages
  BY <1>1, <1>2 DEF PairInv, MessagesAreSent
<1>4. ASSUME task.at = "index", task.file = <<a, n>> PROVE FALSE
  BY <1>1, <1>2, <1>4 DEF PairInv, TaskHoldsMessage, TaskOf, Sent
<1> QED BY <1>3, <1>4

(* A resumed run has at most the listed batches to count.                  *)
LEMMA ResumeCounts ==
  ASSUME NEW p \in PairIds, OwnStep(p), NEW a \in AttemptsOf(p), Resume(a)
  PROVE  /\ counted'[a] \in Nat /\ total'[a] \in Nat
         /\ place'[a] = "adopt"
         /\ counted'[a] + Cardinality(Outstanding(a)') <= total'[a]
<1> USE DEF OwnStep, TypeInv, TypeOK, PairInv
<1> DEFINE L == PairRows(p)
           N == {f[2] : f \in L}
<1>0. a \in Attempts /\ PairOf[a] = p
  BY DEF AttemptsOf
<1>1. Listed(a) = L /\ L \in SUBSET FileIds
  BY <1>0, ListedApart DEF PairRows, Rows
<1>2. Cardinality(L) \in Nat /\ IsFiniteSet(L)
  BY <1>1, FilesAreFinite
<1>3. Carried(a) \in Nat
  BY <1>0, CarriedType DEF Resume
<1>4. /\ counted'[a] = Carried(a) /\ total'[a] = Cardinality(L) + Carried(a)
      /\ place'[a] = "adopt" /\ old'[a] = L
      /\ place[a] = "start"
      /\ UNCHANGED <<record, messages, task, done>>
  BY <1>0, <1>1 DEF Resume, Goto
<1>5. Outstanding(a)' \subseteq N
  <2>1. \A n \in BatchNums :
          /\ <<a, n>> \notin messages
          /\ ~(task.at = "index" /\ task.file = <<a, n>>)
    BY <1>4, NewbornHasNone DEF Newborn, Unborn
  <2>2. PairRows(p)' = L
    BY <1>4 DEF PairRows, Rows
  <2>3. ASSUME NEW n \in Uncounted(a)' PROVE n \in N
    BY <1>0, <1>4, <2>1, <2>2 DEF Uncounted
  <2> QED BY <1>4, <2>3 DEF Outstanding
<1>6. IsFiniteSet(N) /\ Cardinality(N) <= Cardinality(L)
  BY <1>2, NumbersOfFiles
<1>7. Cardinality(Outstanding(a)') <= Cardinality(N)
      /\ Cardinality(Outstanding(a)') \in Nat /\ Cardinality(N) \in Nat
  BY <1>5, <1>6, FS_Subset, FS_CardinalityType
<1> QED BY <1>2, <1>3, <1>4, <1>6, <1>7

(* What the total counts is finite.                                        *)
LEMMA OutstandingIsFinite ==
  ASSUME NEW a
  PROVE  IsFiniteSet(Outstanding(a)) /\ Cardinality(Outstanding(a)) \in Nat
BY UncountedIsFinite, FS_Subset, FS_CardinalityType DEF Outstanding

(* A set with one more element                                             *)
LEMMA OneMore ==
  ASSUME NEW S, IsFiniteSet(S), NEW x
  PROVE  /\ IsFiniteSet(S \cup {x})
         /\ Cardinality(S \cup {x}) \in Nat
         /\ Cardinality(S \cup {x}) <= Cardinality(S) + 1
<1>1. Cardinality(S) \in Nat
  BY FS_CardinalityType
<1>2. /\ IsFiniteSet(S \cup {x})
      /\ \/ Cardinality(S \cup {x}) = Cardinality(S)
         \/ Cardinality(S \cup {x}) = Cardinality(S) + 1
  BY FS_AddElement
<1> QED BY <1>1, <1>2

(* The batches still to count never outnumber the ones completed_batches   *)
(* is short of total_batches.                                              *)
LEMMA CountsStep ==
  ASSUME NEW p \in PairIds, OwnStep(p)
  PROVE  CountsAddUp(p)'
<1> USE DEF OwnStep, TypeInv, TypeOK, PairInv, Goto
<1> SUFFICES ASSUME NEW b \in AttemptsOf(p)
             PROVE  /\ place'[b] \in Unborn
                         => counted'[b] = 0 /\ total'[b] = 0
                    /\ Busy(b)' /\ place'[b] # "discard"
                         => counted'[b] + Cardinality(Outstanding(b)')
                              <= total'[b]
                    /\ place'[b] = "clean" => counted'[b] >= total'[b]
  BY DEF CountsAddUp, AttemptsOf
<1> DEFINE O == Outstanding(b)
<1>0. b \in Attempts /\ PairOf[b] = p /\ None \notin FileIds
  BY BatchStoreAssumption DEF AttemptsOf
<1>1. /\ counted[b] \in Nat /\ total[b] \in Nat
      /\ Cardinality(O) \in Nat /\ IsFiniteSet(O)
      /\ Cardinality(O') \in Nat /\ IsFiniteSet(O')
  <2>1. O' \subseteq BatchNums
    BY DEF Outstanding, Uncounted
  <2>2. IsFiniteSet(O')
    BY <2>1, NumbersType, FS_Subset
  <2> QED BY <1>0, <2>2, OutstandingIsFinite, FS_CardinalityType
<1>2. /\ place[b] \in Unborn => counted[b] = 0 /\ total[b] = 0
      /\ Busy(b) /\ place[b] # "discard"
           => counted[b] + Cardinality(O) <= total[b]
      /\ place[b] = "clean" => counted[b] >= total[b]
  BY DEF CountsAddUp
<1>3. CASE Resume(b)
  BY <1>3, ResumeCounts DEF Unborn
<1>4. CASE ListingDone(b)
  <2>1. CASE place[b] = "discard"
    <3>1. /\ place' = [place EXCEPT ![b] = "run"] /\ todo[b] = {}
          /\ inHand[b] = None
          /\ UNCHANGED <<record, messages, task, done, total, counted>>
      BY <1>4, <2>1 DEF ListingDone
    <3>2. PairRows(p)' = {}
      <4>1. PairRows(p) = {}
        BY <2>1, <3>1 DEF RowsAreFound
      <4> QED BY <3>1, <4>1 DEF PairRows, Rows
    <3>3. \A n \in BatchNums :
            /\ <<b, n>> \notin messages
            /\ ~(task.at = "index" /\ task.file = <<b, n>>)
      BY <2>1, NewbornHasNone DEF Newborn, Unborn
    <3>4. O' = {}
      BY <1>0, <3>1, <3>2, <3>3 DEF Outstanding, Uncounted
    <3> QED BY <1>0, <1>2, <2>1, <3>1, <3>4, FS_EmptySet DEF Unborn
  <2>2. CASE place[b] # "discard"
    BY <1>0, <1>4, <2>2 DEF ListingDone, Busy, Unborn
  <2> QED BY <2>1, <2>2
<1>5. CASE RecordBatch(b)
  <2>1. PICK g \in FileIds : Stores(p, b, g)
    BY <1>5, RecordStores
  <2>2. ASSUME NEW h \in PairRows(p)'
        PROVE  h = g \/ (h \in PairRows(p) /\ record'[h] = record[h])
    BY <1>0, <2>1, <2>2 DEF Stores, PairRows, Rows, Pair
  <2>3. /\ place[b] = "put" /\ place' = [place EXCEPT ![b] = "queue"]
        /\ UNCHANGED <<counted, total, messages, task, done, todo, old>>
        /\ g[2] = total[b] /\ Busy(b)
    BY <2>1 DEF Stores
  <2>4. O' \subseteq O
    BY <1>0, <2>2, <2>3 DEF Outstanding, Uncounted
  <2> QED BY <1>0, <1>1, <1>2, <2>3, <2>4, FS_Subset DEF Unborn
<1>6. CASE QueueBatch(b)
  <2>1. /\ place[b] = "queue" /\ place' = [place EXCEPT ![b] = "run"]
        /\ total' = [total EXCEPT ![b] = total[b] + 1]
        /\ messages' = messages \cup {<<b, total[b]>>}
        /\ UNCHANGED <<record, todo, old, counted, task, done>>
    BY <1>6 DEF QueueBatch
  <2>2. O' \subseteq O \cup {total[b]}
    <3>1. PairRows(p)' = PairRows(p)
      BY <2>1 DEF PairRows, Rows
    <3> QED BY <1>0, <2>1, <3>1 DEF Outstanding, Uncounted
  <2>3. IsFiniteSet(O \cup {total[b]})
        /\ Cardinality(O \cup {total[b]}) <= Cardinality(O) + 1
        /\ Cardinality(O \cup {total[b]}) \in Nat
    <3> HIDE DEF O
    <3> QED BY <1>1, OneMore
  <2>4. Cardinality(O') <= Cardinality(O) + 1
    BY <1>1, <2>2, <2>3, FS_Subset
  <2>5. Busy(b)
    BY <2>1 DEF Busy
  <2> QED BY <1>0, <1>1, <1>2, <2>1, <2>4, <2>5 DEF Unborn
<1>7. CASE ~Resume(b) /\ ~ListingDone(b) /\ ~RecordBatch(b) /\ ~QueueBatch(b)
  <2>1. /\ \/ place'[b] \in {place[b], "over"}
           \/ place[b] = "absent" /\ place'[b] = "start"
           \/ place[b] = "start" /\ place'[b] = "discard"
           \/ place[b] = "adopt" /\ place'[b] = "reissue"
           \/ place[b] \in {"reissue", "run"} /\ place'[b] = "wait"
           \/ place[b] = "run" /\ place'[b] = "put"
           \/ /\ place[b] = "wait" /\ place'[b] = "clean" /\ Busy(b)
              /\ counted[b] >= total[b]
        /\ total'[b] = total[b]
        /\ counted'[b] = counted[b] \/ CountBatch
    BY <1>7, PlaceStep
  <2>2. Busy(b)' /\ place'[b] # "discard"
          => Busy(b) /\ place[b] # "discard" /\ O' \subseteq O
    <3> SUFFICES ASSUME Busy(b)', place'[b] # "discard"
                 PROVE  Busy(b) /\ place[b] # "discard" /\ O' \subseteq O
      OBVIOUS
    <3>1. /\ Busy(b) /\ place[b] # "discard"
          /\ Uncounted(b)' \subseteq Uncounted(b)
      BY <1>7, UncountedShrinks
    <3>2. place'[b] = "queue" <=> place[b] = "queue"
      BY <2>1 DEF Busy
    <3>3. Outstanding(b)' = IF place'[b] = "queue"
                            THEN Uncounted(b)' \ {total'[b]}
                            ELSE Uncounted(b)'
      BY DEF Outstanding
    <3> QED BY <2>1, <3>1, <3>2, <3>3 DEF Outstanding
  <2>3. CASE counted'[b] = counted[b]
    BY <1>1, <1>2, <2>1, <2>2, <2>3, FS_Subset DEF Unborn
  <2>4. CASE counted'[b] # counted[b]
    <3>1. CountBatch /\ place' = place /\ status' = status
      BY <2>1, <2>4 DEF CountBatch
    <3>2. TaskOf(p)
      BY <1>0, <2>4, <3>1, FileType
         DEF CountBatch, TaskOf, TaskHasBatch, NoTask, Pair
    <3>3. PICK n \in BatchNums :
            /\ place[b] \notin Newborn /\ counted'[b] = counted[b] + 1
            /\ Busy(b) => n \in O /\ n \notin O'
      BY <1>0, <2>4, <3>1, <3>2, CountBatchCounts DEF AttemptsOf
    <3>4. CASE ~Busy(b)
      BY <1>1, <1>2, <2>1, <3>1, <3>3, <3>4 DEF Newborn, Unborn, Busy
    <3>5. CASE Busy(b)
      <4>1. O' \subseteq O \ {n} /\ n \in O
        BY <2>2, <3>1, <3>3, <3>5 DEF Newborn, Unborn, Busy
      <4>2. Cardinality(O \ {n}) = Cardinality(O) - 1 /\ IsFiniteSet(O \ {n})
        BY <1>1, <4>1, FS_RemoveElement
      <4>3. Cardinality(O') <= Cardinality(O) - 1
        BY <4>1, <4>2, FS_Subset
      <4> QED
        BY <1>1, <1>2, <2>1, <3>1, <3>3, <3>5, <4>3 DEF Newborn, Unborn
    <3> QED BY <3>4, <3>5
  <2> QED BY <2>3, <2>4
<1> QED BY <1>3, <1>4, <1>5, <1>6, <1>7

-----------------------------------------------------------------------------
(* Whoever deletes an object deletes one that is done or not wanted, a row *)
(* that goes has lost its object before, and a rename keeps it.            *)
LEMMA LostStep ==
  ASSUME NEW p \in PairIds, OwnStep(p)
  PROVE  NotLost(p)'
<1> USE DEF OwnStep, TypeInv, TypeOK, PairInv
<1>0. None \notin FileIds
  BY BatchStoreAssumption
<1>1. ASSUME NEW k \in stored \ (done \cup discarded), Pair(k) = p
      PROVE  k \in FileIds /\ k \in objects
             /\ \E f \in PairRows(p) : record[f] = k
  BY <1>1 DEF NotLost
<1>2. ASSUME stored' \subseteq stored, done \subseteq done',
             discarded \subseteq discarded',
             \A k \in stored \ (done \cup discarded') : Pair(k) = p /\ k \in objects
                => k \in objects',
             \A f \in PairRows(p) :
                \/ record'[f] = record[f]
                \/ record[f] \notin objects
                \/ \E g \in PairRows(p)' : record'[g] = record[f]
      PROVE  NotLost(p)'
  <2> SUFFICES ASSUME NEW k \in stored' \ (done' \cup discarded'), Pair(k) = p
               PROVE  k \in objects' /\ \E f \in PairRows(p)' : record'[f] = k
    BY DEF NotLost, Pair
  <2>1. /\ k \in stored \ (done \cup discarded)
        /\ k \in stored \ (done \cup discarded')
    BY <1>2
  <2>2. k \in FileIds /\ k \in objects /\ k \in objects'
    BY <1>1, <1>2, <2>1
  <2>3. PICK f \in PairRows(p) : record[f] = k
    BY <1>1, <2>1
  <2>4. CASE record'[f] = record[f]
    <3>1. f \in PairRows(p)'
      BY <1>0, <2>2, <2>3, <2>4 DEF PairRows, Rows, Pair
    <3> QED BY <2>2, <2>3, <2>4, <3>1
  <2> QED BY <1>2, <2>2, <2>3, <2>4
<1>3. ASSUME NEW a \in AttemptsOf(p), AdoptBatch(a) PROVE NotLost(p)'
  <2>1. PICK f, g, k \in FileIds : Renames(p, a, f, g, k)
    BY <1>3, AdoptRenames
  <2>2. /\ g \in PairRows(p)' /\ record'[g] = k
        /\ f \in Rows => record[f] = k
    BY <1>0, <2>1 DEF Renames, PairRows, Rows, Pair
  <2>3. ASSUME NEW h \in PairRows(p)
        PROVE  \/ record'[h] = record[h]
               \/ \E i \in PairRows(p)' : record'[i] = record[h]
    BY <2>1, <2>2 DEF Renames, PairRows, Rows
  <2> QED BY <1>2, <2>1, <2>3 DEF Renames
<1>4. ASSUME NEW a \in AttemptsOf(p), RecordBatch(a) PROVE NotLost(p)'
  <2>1. PICK g \in FileIds : Stores(p, a, g)
    BY <1>4, RecordStores
  <2>2. g \in PairRows(p)' /\ record'[g] = g /\ g \in objects'
    BY <1>0, <2>1 DEF Stores, PairRows, Rows, Pair
  <2>3. \A f \in PairRows(p) : f \in PairRows(p)' /\ record'[f] = record[f]
    BY <1>0, <2>1 DEF Stores, PairRows, Rows, Pair
  <2>4. stored' = stored \cup {g} /\ UNCHANGED <<objects, done, discarded>>
    BY <2>1 DEF Stores
  <2>5. ASSUME NEW k \in stored' \ (done' \cup discarded'), Pair(k) = p
        PROVE  k \in objects' /\ \E f \in PairRows(p)' : record'[f] = k
    BY <1>1, <2>2, <2>3, <2>4, <2>5
  <2> QED BY <2>5 DEF NotLost, Pair
<1>5. ASSUME NEW a \in AttemptsOf(p), DeleteListedObject(a) PROVE NotLost(p)'
  <2>1. PICK f \in todo[a] :
          IF f \in Rows
          THEN /\ objects' = objects \ {record[f]}
               /\ discarded' = IF /\ place[a] = "discard"
                                  /\ Pair(record[f]) = PairOf[a]
                               THEN discarded \cup {record[f]}
                               ELSE discarded
          ELSE UNCHANGED <<objects, discarded>>
    BY <1>5 DEF DeleteListedObject
  <2>2. place[a] \in {"discard", "clean"} /\ UNCHANGED <<record, stored, done>>
    BY <1>5 DEF DeleteListedObject
  <2>3. CASE f \notin Rows
    BY <1>2, <2>1, <2>2, <2>3
  <2>4. CASE f \in Rows
    <3>1. Pair(f) = p /\ Pair(record[f]) = p /\ f \in PairRows(p)
          /\ f[2] \in BatchNums
      BY <2>4, FileType DEF KeysApart, PairRows, AttemptsOf, Rows
    <3>2. CASE place[a] = "discard"
      <4>1. discarded' = discarded \cup {record[f]}
            /\ objects' = objects \ {record[f]}
        BY <2>1, <2>4, <3>1, <3>2 DEF AttemptsOf
      <4> QED BY <1>2, <2>2, <4>1
    <3>3. CASE place[a] = "clean"
      <4>1. Uncounted(a) = {}
        BY <3>3, CompleteIsDone DEF CountsAddUp, Busy
      <4>2. record[f] \in done
        BY <3>1, <4>1 DEF Uncounted, AttemptsOf
      <4>3. objects' = objects \ {record[f]} /\ discarded' = discarded
        BY <2>1, <2>4, <3>3
      <4> QED BY <1>2, <2>2, <4>2, <4>3
    <3> QED BY <2>2, <3>2, <3>3
  <2> QED BY <2>3, <2>4
<1>6. ASSUME NEW a \in AttemptsOf(p), DeleteListedRow(a) PROVE NotLost(p)'
  <2>1. /\ record' = [record EXCEPT ![inHand[a].file] = None]
        /\ place[a] \in {"discard", "clean"} /\ inHand[a] # None
        /\ UNCHANGED <<objects, stored, done, discarded>>
    BY <1>6 DEF DeleteListedRow
  <2>2. inHand[a].file \in Rows => record[inHand[a].file] \notin objects
    BY <2>1 DEF InHandIsAlone
  <2>3. \A f \in PairRows(p) :
           record'[f] = record[f] \/ record[f] \notin objects
    BY <2>1, <2>2 DEF PairRows
  <2> QED BY <1>2, <2>1, <2>3
<1>7. ASSUME NEW a \in AttemptsOf(p),
             \/ StartOver(a) \/ Resume(a) \/ ListingDone(a) \/ ReadForRename(a)
             \/ AllAdopted(a) \/ ReissueBatch(a) \/ AllReissued(a)
             \/ QueueBatch(a) \/ FinishRun(a) \/ Complete(a) \/ Verdict(a)
             \/ ProcessStops(a) \/ Create(a) \/ PutBatch(a)
      PROVE  NotLost(p)'
  <2>1. /\ UNCHANGED <<record, stored, done, discarded>>
        /\ objects \subseteq objects'
    BY <1>7 DEF StartOver, Resume, ListingDone, ReadForRename, AllAdopted,
       ReissueBatch, AllReissued, QueueBatch, FinishRun, Complete, Verdict,
       ProcessStops, Create, PutBatch
  <2> QED BY <1>2, <2>1
<1>8. CASE TaskOf(p) /\ DeleteBatchObject
  <2>1. /\ UNCHANGED <<record, stored, done, discarded>>
        /\ \/ objects' = objects
           \/ task.file \in Rows /\ objects' = objects \ {record[task.file]}
    BY <1>8 DEF DeleteBatchObject
  <2>2. task.file \in Rows => record[task.file] \in done
    BY <1>8 DEF DeleteBatchObject, RowOfTask, Rows
  <2> QED BY <1>2, <2>1, <2>2
<1>9. CASE TaskOf(p) /\ DeleteBatchRow
  <2>1. /\ UNCHANGED <<objects, stored, done, discarded>>
        /\ record' = [record EXCEPT ![task.file] = None]
    BY <1>9 DEF DeleteBatchRow
  <2>2. task.file \in Rows => record[task.file] \notin objects
    BY <1>9 DEF DeleteBatchRow, RowOfTask
  <2>3. \A f \in PairRows(p) :
           record'[f] = record[f] \/ record[f] \notin objects
    BY <2>1, <2>2 DEF PairRows
  <2> QED BY <1>2, <2>1, <2>3
<1>10. CASE PickUp \/ TaskRaises \/ CountBatch \/ TaskDies
  <2>1. UNCHANGED <<record, objects, stored, discarded>> /\ done \subseteq done'
    BY <1>10 DEF PickUp, TaskRaises, CountBatch, TaskDies
  <2> QED BY <1>2, <2>1
<1> QED
  BY <1>3, <1>4, <1>5, <1>6, <1>7, <1>8, <1>9, <1>10 DEF AttemptStep, TaskGoesOn

-----------------------------------------------------------------------------
(* The steps of p keep its invariant.                                      *)
LEMMA OwnKeeps ==
  ASSUME NEW p \in PairIds, OwnStep(p)
  PROVE  PairInv(p)'
<1>1. RowOfTask(p)'
  <2>1. CASE TaskOf(p)'
    BY <2>1, TaskRowStep
  <2>2. CASE ~TaskOf(p)'
    BY <2>2 DEF RowOfTask
  <2> QED BY <2>1, <2>2
<1> QED
  BY <1>1, TurnStep, NamesStep, ListingsStep, HandStep, FoundStep, PutStep,
     MessagesStep, TaskStepHolds, CountsStep, LostStep DEF PairInv

(* A cc_pair that is disturbed remains so.                                 *)
LEMMA DisturbedGrows ==
  ASSUME Next
  PROVE  disturbed \subseteq disturbed'
BY DEF Next, Create, StartOver, Resume, Disturb, DeleteListedObject,
   DeleteListedRow, ListingDone, ReadForRename, AdoptBatch, AllAdopted,
   ReissueBatch, AllReissued, PutBatch, RecordBatch, QueueBatch, FinishRun,
   Complete, Verdict, ProcessStops, PickUp, TaskRaises, CountBatch,
   DeleteBatchObject, DeleteBatchRow, TaskDies

(* At the start there is nothing.                                          *)
LEMMA InitKeeps ==
  ASSUME Init, NEW p \in PairIds
  PROVE  KeysApart(p) /\ PairInv(p)
<1> USE DEF Init, AttemptsOf
<1>1. Rows = {} /\ PairRows(p) = {}
  BY DEF Rows, PairRows
<1>2. ~TaskOf(p) /\ \A a \in Attempts : ~Busy(a)
  BY DEF NoTask, TaskOf, Busy
<1>3. KeysApart(p)
  BY <1>1 DEF KeysApart, NoTask
<1>4. TurnsTaken(p)
  BY DEF TurnsTaken
<1>5. NamesDiffer(p) /\ ListingsDiffer(p) /\ InHandIsAlone(p)
      /\ RowsAreFound(p) /\ PutHasObject(p)
  BY <1>1 DEF NamesDiffer, ListingsDiffer, InHandIsAlone, RowsAreFound,
     PutHasObject
<1>6. MessagesAreSent(p) /\ RowOfTask(p) /\ TaskHoldsMessage(p)
  BY <1>2 DEF MessagesAreSent, RowOfTask, TaskHoldsMessage
<1>7. CountsAddUp(p) /\ NotLost(p)
  BY <1>2 DEF CountsAddUp, NotLost
<1> QED BY <1>3, <1>4, <1>5, <1>6, <1>7 DEF PairInv

(* The inductive invariant holds, for any number of attempts, batches,     *)
(* deaths and cc_pairs.                                                    *)
THEOREM BatchesInvariance == Spec => []StoreInv
<1>1. Init => StoreInv
  BY InitType, InitKeeps DEF StoreInv
<1>2. StoreInv /\ [Next]_vars => StoreInv'
  <2> SUFFICES ASSUME StoreInv, [Next]_vars PROVE StoreInv'
    OBVIOUS
  <2>1. CASE Next
    <3>1. TypeInv /\ TypeInv'
      BY <2>1, TypeStep DEF StoreInv
    <3>2. ASSUME NEW p \in PairIds, Apart(p) PROVE KeysApart(p) /\ KeysApart(p)'
      BY <2>1, <3>1, <3>2, ApartStep DEF StoreInv
    <3>3. ASSUME NEW p \in PairIds, Apart(p), p \notin disturbed'
          PROVE  PairInv(p)'
      <4>1. PairInv(p)
        BY <2>1, <3>3, DisturbedGrows DEF StoreInv, Quiet
      <4>2. CASE OwnStep(p)
        BY <4>2, OwnKeeps
      <4>3. CASE ~OwnStep(p)
        <5>1. /\ ~(\E a \in AttemptsOf(p) : AttemptStep(a)) /\ ~PickUp
              /\ ~(TaskOf(p) /\ TaskGoesOn)
          BY <3>1, <3>2, <3>3, <4>1, <4>3 DEF OwnStep
        <5>2. \/ \E a \in Attempts : PairOf[a] # p /\ AttemptStep(a)
              \/ ~TaskOf(p) /\ TaskGoesOn
          BY <2>1, <5>1 DEF Next, AttemptStep, TaskGoesOn, AttemptsOf
        <5>3. Untouched(p)
          BY <3>1, <3>2, <3>3, <5>2, OtherAttempt, OtherTask
        <5> QED BY <3>1, <3>2, <3>3, <4>1, <5>3, UntouchedKeeps
      <4> QED BY <4>2, <4>3
    <3>4. PairIds' = PairIds /\ \A p \in PairIds : Apart(p)' <=> Apart(p)
      BY DEF PairIds, Apart, DecimalPrefix
    <3> QED BY <3>1, <3>2, <3>3, <3>4 DEF StoreInv, Quiet
  <2>2. CASE UNCHANGED vars
    <3> USE <2>2 DEF vars
    <3>1. TypeInv'
      BY DEF StoreInv, TypeInv, TypeOK, TaskHasBatch, NumbersInRange
    <3>2. ASSUME NEW p \in PairIds, KeysApart(p) PROVE KeysApart(p)'
      BY <3>2 DEF KeysApart, Rows
    <3>3. ASSUME NEW p \in PairIds, Apart(p), KeysApart(p), PairInv(p)
          PROVE  PairInv(p)'
      <4>1. Untouched(p)
        BY DEF Untouched
      <4> QED BY <3>1, <3>2, <3>3, <4>1, UntouchedKeeps DEF StoreInv
    <3>4. \A p \in PairIds : Apart(p)' <=> Apart(p)
      BY DEF PairIds, Apart, DecimalPrefix
    <3> QED BY <3>1, <3>2, <3>3, <3>4 DEF StoreInv, Quiet, PairIds
  <2> QED BY <2>1, <2>2
<1> QED BY <1>1, <1>2, PTL DEF Spec

(* Every variable of the batch store keeps its type, whichever attempts,   *)
(* tasks and deaths come together.                                         *)
THEOREM StoreTypeCorrect == Spec => []TypeOK
<1>1. StoreInv => TypeOK
  BY DEF StoreInv, TypeInv
<1> QED BY <1>1, BatchesInvariance, PTL

(* For any number of attempts, batches, deaths and cc_pairs: a stored      *)
(* batch of a Quiet cc_pair that is neither counted nor discarded has its  *)
(* object, and a row for the next run to list, wherever a loop stopped     *)
(* (store_batch, file_store/document_batch_storage.py, and                 *)
(* S3BackedFileStore.delete_file, file_store/file_store.py).               *)
THEOREM BatchesAreKept == Spec => []NoBatchLost
<1>1. StoreInv => NoBatchLost
  <2> SUFFICES ASSUME StoreInv, NEW k \in stored \ (done \cup discarded),
                      Quiet(Pair(k))
               PROVE  k \in objects
                      /\ \E f \in Rows : record[f] = k /\ Pair(f) = Pair(k)
    BY DEF NoBatchLost
  <2>1. k \in FileIds
    BY DEF StoreInv, TypeInv, TypeOK
  <2>2. NotLost(Pair(k))
    BY <2>1, FileType DEF StoreInv, PairInv
  <2> QED BY <2>2 DEF NotLost, PairRows
<1> QED BY <1>1, BatchesInvariance, PTL

(* Two rows never share an object when the cc_pair of one of them is       *)
(* Quiet, whatever deletions lie between the read and the commit of a      *)
(* rename (change_file_id, file_store/file_store.py).                      *)
THEOREM RowsNeverShare == Spec => []OneRowPerObject
<1>1. StoreInv => OneRowPerObject
  <2> SUFFICES ASSUME StoreInv, NEW f \in Rows, NEW g \in Rows,
                      record[f] = record[g], Quiet(Pair(f))
               PROVE  f = g
    BY DEF OneRowPerObject
  <2>1. Pair(f) \in PairIds
    BY FileType DEF Rows
  <2>2. KeysApart(Pair(f)) /\ NamesDiffer(Pair(f))
    BY <2>1 DEF StoreInv, PairInv, Quiet
  <2>3. Pair(g) = Pair(f)
    BY <2>2 DEF KeysApart
  <2> QED BY <2>2, <2>3 DEF NamesDiffer, PairRows
<1> QED BY <1>1, BatchesInvariance, PTL

(* And a run of a Quiet cc_pair that has resumed has given its name to     *)
(* every batch that is left (update_old_batches_to_new_index_attempt,      *)
(* file_store/document_batch_storage.py).                                  *)
THEOREM ResumeTakesAll == Spec => []NothingLeftBehind
<1>1. StoreInv => NothingLeftBehind
  <2> SUFFICES ASSUME StoreInv, NEW a \in Attempts,
                      place[a] = "wait", status[a] = "active",
                      Quiet(PairOf[a]),
                      NEW f \in Rows, Pair(f) = PairOf[a]
               PROVE  f[1] = a
    BY DEF NothingLeftBehind
  <2>1. RowsAreFound(PairOf[a])
    BY DEF StoreInv, PairInv, PairIds
  <2> QED BY <2>1 DEF RowsAreFound, AttemptsOf, PairRows, Busy
<1> QED BY <1>1, BatchesInvariance, PTL
=============================================================================
