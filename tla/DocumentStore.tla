--------------------------- MODULE DocumentStore ---------------------------
(***************************************************************************)
(* What the background jobs that move documents about share: the rows of   *)
(* document, document_by_connector_credential_pair, search_settings and    *)
(* connector_credential_pair (db/models.py), and the two document indices  *)
(* a reindex goes between, "old" and "new".  A document is a number, in    *)
(* the order of the ids; a cc_pair is a model value.  The metadata of a    *)
(* document is the cc_pairs that give access to it, and how many times     *)
(* anything else about it was edited.                                      *)
(***************************************************************************)
EXTENDS Integers, FiniteSets

CONSTANTS
    Pairs,    (* the cc_pairs                                              *)
    NDocs,    (* documents are 1..NDocs                                    *)
    Links0,   (* <<cc_pair, document>>: what was indexed before            *)
    Paused,   (* the cc_pairs that are paused                              *)
    Modes,    (* switchover types a new reindex may have                   *)
    None

Docs       == 1..NDocs
Indices    == {"old", "new"}
PairStates == {"ACTIVE", "PAUSED", "DELETING", "GONE"}
IndexModes == {"REINDEX", "INSTANT", "ACTIVE_ONLY"}

(* What an index may hold of a document                                    *)
Entries == [access : SUBSET Pairs, edits : Nat]

ASSUME DocumentStoreAssumption ==
    /\ IsFiniteSet(Pairs)
    /\ NDocs \in Nat \ {0}
    /\ Links0 \subseteq Pairs \X Docs
    /\ Paused \subseteq Pairs
    /\ Modes \subseteq IndexModes
    /\ None \notin Entries

VARIABLES
    ccStatus,   (* the status of each cc_pair; GONE: the row is deleted    *)
    links,      (* document_by_connector_credential_pair                   *)
    rows,       (* document                                                *)
    edits,      (* edits of the document's own metadata                    *)
    stale,      (* documents with last_modified > last_synced              *)
    deferred,   (* documents with secondary_only_sync_pending              *)
    setting,    (* status of the search_settings row of each index         *)
    switchover, (* switchover_type of the "new" row                        *)
    backfill,   (* the "new" row has a port_backfill_source_id             *)
    index       (* what each index holds of each document, or None         *)

dbVars      == <<ccStatus, links, rows, edits, stale, deferred>>
settingVars == <<setting, switchover, backfill>>
storeVars   == <<dbVars, settingVars, index>>

StoreTypeOK ==
    /\ ccStatus \in [Pairs -> PairStates]
    /\ links \subseteq Pairs \X Docs
    /\ rows \subseteq Docs
    /\ edits \in [Docs -> Nat]
    /\ stale \subseteq Docs
    /\ deferred \subseteq Docs
    /\ setting \in [Indices -> {"NONE", "PRESENT", "FUTURE", "PAST"}]
    /\ switchover \in IndexModes
    /\ backfill \in BOOLEAN
    /\ index \in [Indices -> [Docs -> Entries \cup {None}]]

-----------------------------------------------------------------------------
Holders(d) == {p \in Pairs : <<p, d>> \in links}
LinkedTo(p) == {d \in Docs : <<p, d>> \in links}

(* get_access_for_document leaves out the cc_pairs that are being deleted. *)
Access(d)   == {p \in Holders(d) : ccStatus[p] # "DELETING"}
Metadata(d) == [access |-> Access(d), edits |-> edits[d]]

(* indexable_statuses                                                      *)
Indexable == {"ACTIVE", "PAUSED"}

(* document_has_indexable_cc_pair                                          *)
HasIndexablePair(d) == \E p \in Holders(d) : ccStatus[p] \in Indexable

(* get_current_search_settings raises when no row is PRESENT.              *)
HasPrimary == \E i \in Indices : setting[i] = "PRESENT"
Primary    == CHOOSE i \in Indices : setting[i] = "PRESENT"
ActiveIndices == {i \in Indices : setting[i] \in {"PRESENT", "FUTURE"}}

(* Every index of into drops the document.                                 *)
DeleteFrom(into, d) ==
    index' = [i \in Indices |->
                IF i \in into THEN [index[i] EXCEPT ![d] = None] ELSE index[i]]

(* OpenSearchDocumentIndex.update changes what is there, and nothing else. *)
UpdateIn(into, d, meta) ==
    index' = [i \in Indices |->
                IF i \in into /\ index[i][d] # None
                THEN [index[i] EXCEPT ![d] = meta]
                ELSE index[i]]

(* mark_document_as_synced                                                 *)
MarkSynced(d) ==
    /\ stale' = stale \ {d}
    /\ deferred' = deferred \ {d}

StoreInit ==
    /\ ccStatus = [p \in Pairs |-> IF p \in Paused THEN "PAUSED" ELSE "ACTIVE"]
    /\ links = Links0
    /\ rows = {l[2] : l \in Links0}
    /\ edits = [d \in Docs |-> 0]
    /\ stale = {}
    /\ deferred = {}
    /\ setting = [i \in Indices |-> IF i = "old" THEN "PRESENT" ELSE "NONE"]
    /\ switchover = "REINDEX"
    /\ backfill = FALSE
    /\ index = [i \in Indices |->
                  [d \in Docs |->
                     IF i = "old" /\ Holders(d) # {}
                     THEN [access |-> Holders(d), edits |-> 0]
                     ELSE None]]
=============================================================================
