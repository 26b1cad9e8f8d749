----------------------------- MODULE IndexSwap -----------------------------
(***************************************************************************)
(* The switch to a new index (db/swap_index.py), the endpoints that start  *)
(* a reindex and cancel it (server/manage/search_settings.py), under the   *)
(* port flow: one reindex, from "old" to "new".                            *)
(***************************************************************************)
EXTENDS ReindexPort

VARIABLE swapper   (* how far _perform_index_swap has come                 *)

SwapTypeOK == swapper \in {"idle", "promote", "settle"}
SwapInit   == swapper = "idle"

-----------------------------------------------------------------------------
(* set_new_search_settings: a FUTURE row, and its empty index.             *)
StartReindex(mode) ==
    /\ setting["new"] = "NONE"
    /\ HasPrimary
    /\ mode \in Modes
    /\ setting' = [setting EXCEPT !["new"] = "FUTURE"]
    /\ switchover' = mode
    /\ UNCHANGED <<dbVars, backfill, index, portVars, swapper>>

(* cancel_new_embedding: the row is PAST before its ports are canceled, so *)
(* that check_for_port does not replace them.                              *)
CancelReindex ==
    /\ setting["new"] = "FUTURE"
    /\ swapper = "idle"
    /\ setting' = [setting EXCEPT !["new"] = "PAST"]
    /\ port' = [p \in Pairs |-> Canceled(port[p])]
    /\ UNCHANGED <<dbVars, switchover, backfill, index, copier, swapper>>

-----------------------------------------------------------------------------
(* _required_cc_pairs_for_switchover: the scope check_for_port uses.       *)
Required == {p \in Pairs : InScope(p)}

(* Mutant: a FAILED port counts as done                                    *)
ReadyOnceOver ==
    \A p \in Required : IsPortTerminal(p) /\ LinkedTo(p) \cap deferred = {}

(* _port_swap_ready                                                        *)
PortSwapReady ==
    \A p \in Required :
        /\ port[p].status = "SUCCESS"
        /\ LinkedTo(p) \cap deferred = {}

(* check_and_perform_index_swap, up to the commit that makes the old row   *)
(* PAST.  The source of an INSTANT switchover is recorded with it.         *)
BeginSwap ==
    /\ swapper = "idle"
    /\ setting["new"] = "FUTURE"
    /\ HasPrimary
    /\ switchover = "INSTANT" \/ PortSwapReady
    /\ backfill' = (switchover = "INSTANT")
    /\ setting' = [setting EXCEPT !["old"] = "PAST"]
    /\ swapper' = "promote"
    /\ UNCHANGED <<dbVars, switchover, index, portVars>>

PromoteNew ==
    /\ swapper = "promote"
    /\ setting' = [setting EXCEPT !["new"] = "PRESENT"]
    /\ swapper' = "settle"
    /\ UNCHANGED <<dbVars, switchover, backfill, index, portVars>>

(* The ports of cc_pairs that left the required set must not write into    *)
(* the live index; those of an INSTANT switchover go on filling it.        *)
SettleSwap ==
    /\ swapper = "settle"
    /\ port' = IF switchover = "INSTANT" THEN port
               ELSE [p \in Pairs |-> Canceled(port[p])]
    /\ swapper' = "idle"
    /\ UNCHANGED <<storeVars, copier>>

(* The process dies between the commits.                                   *)
SwapDies ==
    /\ swapper # "idle"
    /\ swapper' = "idle"
    /\ UNCHANGED <<storeVars, portVars>>
=============================================================================
