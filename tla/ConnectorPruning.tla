-------------------------- MODULE ConnectorPruning -------------------------
(***************************************************************************)
(* Pruning (background/celery/tasks/pruning/tasks.py,                      *)
(* redis/redis_connector_prune.py): a generator task compares the          *)
(* documents of a cc_pair with the ones its source still has, and sends a  *)
(* cleanup task for each of the others.                                    *)
(***************************************************************************)
EXTENDS DocumentCleanup

CONSTANT Vanished   (* <<cc_pair, document>>: gone from the source         *)

ASSUME ConnectorPruningAssumption == Vanished \subseteq Pairs \X Docs

VARIABLE prune   (* checked: try_creating_prune_generator_task is past its *)
                 (* checks; fenced: the fence is up; generated:            *)
                 (* generator_complete is set too                          *)

PrunePlaces == {"none", "checked", "fenced", "generated"}

PruneTypeOK == prune \in [Pairs -> PrunePlaces]
PruneInit   == prune = [p \in Pairs |-> "none"]

Prunable(p) == {d \in LinkedTo(p) : <<p, d>> \in Vanished}

PruneFenced(p) == prune[p] \in {"fenced", "generated"}

-----------------------------------------------------------------------------
(* A cc_pair that is due, and neither pruned nor deleted: deleting tells   *)
(* that its deletion has raised its fence.                                 *)
PruneCheck(p, deleting) ==
    /\ prune[p] = "none"
    /\ Prunable(p) # {}
    /\ ~deleting
    /\ ccStatus[p] \notin {"DELETING", "GONE"}
    /\ prune' = [prune EXCEPT ![p] = "checked"]
    /\ UNCHANGED <<storeVars, cleanup>>

PruneCreate(p) ==
    /\ prune[p] = "checked"
    /\ prune' = [prune EXCEPT ![p] = "fenced"]
    /\ cleanup' = Untrack("prune", p)
    /\ UNCHANGED storeVars

(* connector_pruning_generator_task, once it has the ids of the source.    *)
PruneGenerate(p) ==
    /\ prune[p] = "fenced"
    /\ ccStatus[p] # "GONE"
    /\ prune' = [prune EXCEPT ![p] = "generated"]
    /\ cleanup' = cleanup \cup {Task("prune", p, d) : d \in Prunable(p)}
    /\ UNCHANGED storeVars

(* The generator sees the stop signal, finds no cc_pair or never runs, or  *)
(* it fails with part of the tasks sent: it resets the fence, or           *)
(* validate_pruning_fence does, and with the fence the set of the tasks.   *)
PruneFails(p, sent) ==
    /\ prune[p] = "fenced"
    /\ sent \subseteq Prunable(p)
    /\ prune' = [prune EXCEPT ![p] = "none"]
    /\ cleanup' = Untrack("prune", p)
                    \cup {[Task("prune", p, d) EXCEPT !.tracked = FALSE] :
                             d \in sent}
    /\ UNCHANGED storeVars

(* monitor_ccpair_pruning_taskset                                          *)
PruneMonitor(p) ==
    /\ prune[p] = "generated"
    /\ Tracked("prune", p) = {}
    /\ prune' = [prune EXCEPT ![p] = "none"]
    /\ UNCHANGED <<storeVars, cleanup>>
=============================================================================
