-------------------------- MODULE ApprovedExecution --------------------------
(***************************************************************************)
(* What the pipeline of an artifact promises to the operator, without the  *)
(* requests, processes and receipts that keep the promise: nothing is      *)
(* performed that was not paid for by an approval of its own, only what    *)
(* was performed can turn out well, and only then is a success reported.   *)
(***************************************************************************)
EXTENDS Naturals

CONSTANT Executions \* what may be performed

VARIABLES
    unspent,   \* approvals that nothing was performed for
    performed, \* the executions that were started
    good,      \* those that turned out well
    reported   \* does the artifact say that it has succeeded

vars == <<unspent, performed, good, reported>>

Init ==
    /\ unspent = 0
    /\ performed = {}
    /\ good = {}
    /\ reported = FALSE

(* An approval is of what comes next: it takes an earlier report back. *)
Approve ==
    /\ unspent' = unspent + 1
    /\ reported' = FALSE
    /\ UNCHANGED <<performed, good>>

Perform(e) ==
    /\ e \notin performed
    /\ unspent > 0
    /\ unspent' = unspent - 1
    /\ performed' = performed \union {e}
    /\ UNCHANGED <<good, reported>>

(* Turning out well and being reported may be one step. *)
Succeed(e) ==
    /\ e \in performed
    /\ good' = good \union {e}
    /\ reported' \in {reported, TRUE}
    /\ UNCHANGED <<unspent, performed>>

Report ==
    /\ reported' \in BOOLEAN
    /\ reported' => good # {}
    /\ UNCHANGED <<unspent, performed, good>>

Next == Approve \/ Report \/ \E e \in Executions : Perform(e) \/ Succeed(e)

Spec == Init /\ [][Next]_vars
=============================================================================
