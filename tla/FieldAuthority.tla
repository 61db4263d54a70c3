---------------------------- MODULE FieldAuthority ----------------------------
(***************************************************************************)
(* Who is in charge of each field of an object, the machine that generates *)
(* it or the people who edit it, without the baselines, pins and sessions  *)
(* that keep account of it.  The machine writes the fields that are free;  *)
(* of another field it can only propose a value, and people decide.        *)
(***************************************************************************)

CONSTANTS Fields, Values, None

VARIABLES
    there,    \* is there an object
    value,    \* what its fields hold
    proposal, \* what the machine would have instead (None: nothing)
    free      \* the fields that the machine may write

vars == <<there, value, proposal, free>>

Nothing == [f \in Fields |-> None]

Init ==
    /\ there = FALSE
    /\ value = Nothing
    /\ proposal = Nothing
    /\ free = Fields

Appear ==
    /\ ~there
    /\ there' = TRUE
    /\ value' \in [Fields -> Values]
    /\ UNCHANGED <<proposal, free>>

(* The machine says something of every field.  It gets back only the fields  *)
(* about which it now agrees with people, and a proposal that it makes, or   *)
(* that stays, is about a field that is not free and offers another value.  *)
Generate(said) ==
    /\ there
    /\ value' = [f \in Fields |-> IF f \in free THEN said[f] ELSE value[f]]
    /\ free \subseteq free'
    /\ free' \subseteq free \union {f \in Fields : said[f] = value[f]}
    /\ proposal' \in [Fields -> Values \union {None}]
    /\ \A f \in Fields : proposal'[f] # None =>
          f \notin free' /\ proposal'[f] \in {proposal[f], said[f]} \ {value'[f]}
    /\ UNCHANGED there

(* People give some fields new values, in one step. *)
Decide(fs, new) ==
    /\ there
    /\ value' = [f \in Fields |-> IF f \in fs THEN new[f] ELSE value[f]]
    /\ proposal' = [f \in Fields |-> IF f \in fs THEN None ELSE proposal[f]]
    /\ free' = free \ fs
    /\ UNCHANGED there

(* People, or publishing, take charge of fields as they are. *)
Hold(fs) ==
    /\ there
    /\ free' = free \ fs
    /\ UNCHANGED <<there, value, proposal>>

Keep(f) ==
    /\ proposal[f] # None
    /\ proposal' = [proposal EXCEPT ![f] = None]
    /\ free' = free \ {f}
    /\ UNCHANGED <<there, value>>

Accept(f) ==
    /\ proposal[f] # None
    /\ value' = [value EXCEPT ![f] = proposal[f]]
    /\ proposal' = [proposal EXCEPT ![f] = None]
    /\ free' \in {free, free \union {f}}
    /\ UNCHANGED there

Release(f) ==
    /\ there
    /\ proposal' = [proposal EXCEPT ![f] = None]
    /\ free' \in {free, free \union {f}}
    /\ UNCHANGED <<there, value>>

Vanish ==
    /\ there
    /\ there' = FALSE
    /\ value' = Nothing
    /\ proposal' = Nothing
    /\ free' = Fields

Next ==
    \/ Appear
    \/ \E said \in [Fields -> Values] : Generate(said)
    \/ \E fs \in SUBSET Fields, new \in [Fields -> Values] : Decide(fs, new)
    \/ \E fs \in SUBSET Fields : Hold(fs)
    \/ \E f \in Fields : Keep(f) \/ Accept(f) \/ Release(f)
    \/ Vanish

Spec == Init /\ [][Next]_vars
===============================================================================
