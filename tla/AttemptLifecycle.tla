-------------------------- MODULE AttemptLifecycle --------------------------
(***************************************************************************)
(* What the indexing pipeline promises of an index attempt, without how:   *)
(* attempts are created one at a time, in order, each only when no other   *)
(* is active; an attempt begins once; and when it has ended it never runs  *)
(* again, although a later verdict may replace an earlier one.  Only an    *)
(* interruption gives way to any verdict that came before it.              *)
(***************************************************************************)
EXTENDS Naturals

CONSTANT MaxAttempts

VARIABLE status

Attempts  == 1..MaxAttempts
Active    == {"NOT_STARTED", "IN_PROGRESS"}
Succeeded == {"SUCCESS", "COMPLETED_WITH_ERRORS"}
Resumable == {"FAILED", "CANCELED", "INTERRUPTED"}
Terminal  == Succeeded \cup Resumable

Init == status = [a \in Attempts |-> "ABSENT"]

Become(a, s) == status' = [status EXCEPT ![a] = s]

Create(a) ==
    /\ status[a] = "ABSENT"
    /\ \A b \in Attempts : /\ status[b] \notin Active
                           /\ b < a => status[b] # "ABSENT"
    /\ Become(a, "NOT_STARTED")

Begin(a) ==
    /\ status[a] = "NOT_STARTED"
    /\ Become(a, "IN_PROGRESS")

End(a, s) ==
    /\ status[a] # "ABSENT"
    /\ s = "INTERRUPTED" => status[a] \in Active
    /\ Become(a, s)

Next == \E a \in Attempts : \/ Create(a)
                            \/ Begin(a)
                            \/ \E s \in Terminal : End(a, s)

Spec == Init /\ [][Next]_status
=============================================================================
