---------------------------- MODULE PortContract ----------------------------
(***************************************************************************)
(* What a reindex port promises of the attempts it makes for a cc_pair     *)
(* (the rows of port_attempt), whoever writes them: the beat task, the     *)
(* port task, its watchdog, a cancellation or a deletion.  Of each cc_pair *)
(* only the latest attempt shows.                                          *)
(*   - an attempt starts once, and its first terminal status is its last;  *)
(*   - only a FAILED attempt has a successor, which resumes at its cursor  *)
(*     and keeps its bound;                                                *)
(*   - a cursor moves forward only, and only while its attempt runs.       *)
(***************************************************************************)
EXTENDS Integers

CONSTANTS Pairs,  (* the cc_pairs                                          *)
          Last    (* the last document                                     *)

VARIABLES status, (* of the latest attempt; NONE: there is none            *)
          cursor, (* the last document it has copied                       *)
          bound   (* the last document it is to copy                       *)

attemptVars == <<status, cursor, bound>>

Becomes(p, new) == status' = [status EXCEPT ![p] = new]

AttemptInit ==
    /\ status = [p \in Pairs |-> "NONE"]
    /\ cursor = [p \in Pairs |-> 0]
    /\ bound  = [p \in Pairs |-> Last]

-----------------------------------------------------------------------------
Create(p) ==
    /\ status[p] = "NONE"
    /\ Becomes(p, "NOT_STARTED")
    /\ \E b \in 0..Last : bound' = [bound EXCEPT ![p] = b]
    /\ UNCHANGED cursor

Resume(p) ==
    /\ status[p] = "FAILED"
    /\ Becomes(p, "NOT_STARTED")
    /\ UNCHANGED <<cursor, bound>>

Begin(p) ==
    /\ status[p] = "NOT_STARTED"
    /\ Becomes(p, "IN_PROGRESS")
    /\ UNCHANGED <<cursor, bound>>

Advance(p) ==
    /\ status[p] = "IN_PROGRESS"
    /\ \E c \in (cursor[p] + 1)..bound[p] : cursor' = [cursor EXCEPT ![p] = c]
    /\ UNCHANGED <<status, bound>>

(* Before it starts, an attempt can fail to be sent and be canceled; only  *)
(* one that runs succeeds.                                                 *)
Finish(p) ==
    /\ \/ status[p] = "NOT_STARTED" /\ \E s \in {"FAILED", "CANCELED"} :
                                          Becomes(p, s)
       \/ status[p] = "IN_PROGRESS" /\ \E s \in {"FAILED", "CANCELED",
                                                 "SUCCESS"} : Becomes(p, s)
    /\ UNCHANGED <<cursor, bound>>

(* Attempts that have not started are canceled together.                   *)
CancelAll ==
    /\ status' = [p \in Pairs |-> IF status[p] = "NOT_STARTED"
                                  THEN "CANCELED" ELSE status[p]]
    /\ UNCHANGED <<cursor, bound>>

(* The rows go with their cc_pair.                                         *)
Forget(p) ==
    /\ Becomes(p, "NONE")
    /\ cursor' = [cursor EXCEPT ![p] = 0]
    /\ bound'  = [bound EXCEPT ![p] = Last]

Step ==
    \/ \E p \in Pairs : Create(p) \/ Resume(p) \/ Begin(p) \/ Advance(p)
                        \/ Finish(p) \/ Forget(p)
    \/ CancelAll

Spec == AttemptInit /\ [][Step]_attemptVars
=============================================================================
