------------------------------ MODULE SlotQueue ------------------------------
(***************************************************************************)
(* What the table of draft tasks promises to those who queue for it,        *)
(* without the workers, requests and sweeps that keep the promise: a task   *)
(* comes in once, waits, works only while it holds one of the slots, and is *)
(* over for good, whether it worked or not.                                 *)
(***************************************************************************)
EXTENDS Naturals, FiniteSets

CONSTANTS
    Tasks, \* what may be queued
    Limit  \* how many slots there are

VARIABLES
    waiting, \* queued, without a slot
    working, \* holding a slot
    over     \* succeeded, failed or cancelled

vars == <<waiting, working, over>>

Init ==
    /\ waiting = {}
    /\ working = {}
    /\ over = {}

Enter(t) ==
    /\ t \notin waiting \union working \union over
    /\ waiting' = waiting \union {t}
    /\ UNCHANGED <<working, over>>

Admit(t) ==
    /\ t \in waiting
    /\ Cardinality(working) < Limit
    /\ waiting' = waiting \ {t}
    /\ working' = working \union {t}
    /\ UNCHANGED over

(* Any number of tasks may be given up in one step, with or without a slot. *)
Leave(gone) ==
    /\ gone \subseteq waiting \union working
    /\ waiting' = waiting \ gone
    /\ working' = working \ gone
    /\ over' = over \union gone

Next ==
    \/ \E t \in Tasks : Enter(t) \/ Admit(t)
    \/ \E gone \in SUBSET Tasks : Leave(gone)

Spec == Init /\ [][Next]_vars
=============================================================================
