----------------------------- MODULE OntologyMerge -----------------------------
(***************************************************************************)
(* One object of a domain's ontology, on the single row that is both the   *)
(* workbench and what is published.  Generations merge what the machine    *)
(* found into it, people edit it, pin and release its fields, resolve      *)
(* conflicts, publish it, and discard what is not published.               *)
(*                                                                         *)
(* For each field the merge compares the value of the row, the baseline    *)
(* (what the machine said last) and what the machine says now.             *)
(*                                                                         *)
(* Every operation is a session: it loads the row in one step and commits  *)
(* in a later one.  The ORM writes only the columns it changed; baseline,  *)
(* pins and conflicts are JSON documents, a column each for all fields.    *)
(***************************************************************************)
EXTENDS Naturals

CONSTANTS
    Clients,     \* sessions that may be open at the same time
    Fields,      \* the fields of the object that merges look at
    Structural,  \* those that publishing makes the authority of people
    Values,      \* what a field may hold
    None,        \* no value
    MaxRows      \* bound on how often the object is added as a new row

ASSUME MergeAssumption ==
    /\ Structural \subseteq Fields
    /\ None \notin Values
    /\ MaxRows \in Nat

VARIABLES
    row,        \* the row of the object
    open,       \* sessions that have loaded it
    seen,       \*   and what they have loaded
    authority,  \* history: the value that people, or publishing, put in charge
    rejected,   \* history: the machine's value that people last decided against
    touched     \* history: fields that people, or publishing, ever decided on

history == <<authority, rejected, touched>>
vars == <<row, open, seen, history>>

(* No code sets the status "approved". *)
Statuses == {"absent", "suggested", "edited", "pre_published", "published", "deprecated"}

NoConflict == [ours |-> None, theirs |-> None]
Conflicts == [ours : Values, theirs : Values] \union {NoConflict}

Optional == Values \union {None}
Rows == [id : 0..MaxRows, status : Statuses, cur : [Fields -> Optional],
         base : [Fields -> Optional], pinned : SUBSET Fields, conflict : [Fields -> Conflicts]]

NoRow(id) == [id |-> id, status |-> "absent", cur |-> [f \in Fields |-> None],
              base |-> [f \in Fields |-> None], pinned |-> {},
              conflict |-> [f \in Fields |-> NoConflict]]

Present(r) == r.status # "absent"
Nothing == [f \in Fields |-> None]

Init ==
    /\ row = NoRow(0)
    /\ open = {}
    /\ seen = [c \in Clients |-> NoRow(0)]
    /\ authority = Nothing
    /\ rejected = Nothing
    /\ touched = {}

-----------------------------------------------------------------------------
(* Sessions. *)

Load(c) ==
    /\ c \notin open
    /\ open' = open \union {c}
    /\ seen' = [seen EXCEPT ![c] = row]
    /\ UNCHANGED <<row, history>>

Closes(c) ==
    /\ open' = open \ {c}
    /\ seen' = [seen EXCEPT ![c] = NoRow(0)]

(* The value of a column after a session that loaded one value assigns new.  *)
Flushed(current, loaded, new) == IF new = loaded THEN current ELSE new

FlushedRow(current, loaded, new) ==
    [id |-> current.id,
     status |-> Flushed(current.status, loaded.status, new.status),
     cur |-> [f \in Fields |-> Flushed(current.cur[f], loaded.cur[f], new.cur[f])],
     base |-> Flushed(current.base, loaded.base, new.base),
     pinned |-> Flushed(current.pinned, loaded.pinned, new.pinned),
     conflict |-> Flushed(current.conflict, loaded.conflict, new.conflict)]

Loaded(c) == c \in open /\ Present(seen[c])
StillThere(c) == Present(row) /\ row.id = seen[c].id

Commits(c, new) ==
    /\ Loaded(c)
    /\ StillThere(c)
    /\ row' = FlushedRow(row, seen[c], new)
    /\ Closes(c)

(* The session removes the row it loaded; a row that is gone stays gone.    *)
Deletes(c) ==
    /\ Loaded(c)
    /\ row' = IF StillThere(c) THEN NoRow(row.id) ELSE row
    /\ Closes(c)

(* The session changes nothing: its request is refused, the row is gone, or  *)
(* it fails and is rolled back.                                            *)
Leaves(c) ==
    /\ c \in open
    /\ Closes(c)
    /\ UNCHANGED <<row, history>>

-----------------------------------------------------------------------------
(* What a generation merges. *)

UserChanged(r, f) == f \in r.pinned \/ r.cur[f] # r.base[f]
Clashes(r, inc, f) == UserChanged(r, f) /\ inc[f] \notin {r.base[f], r.cur[f]}

(* A conflict of before stays on a field that is pinned. *)
MergedConflicts(r, inc) ==
    [f \in Fields |->
        IF Clashes(r, inc, f) THEN [ours |-> r.cur[f], theirs |-> inc[f]]
        ELSE IF f \in r.pinned THEN r.conflict[f] ELSE NoConflict]

(* Mutants: only pins are respected; the baseline stays where it was.        *)
MergedEager(r, inc) ==
    [r EXCEPT
        !.cur = [f \in Fields |-> IF f \in r.pinned THEN r.cur[f] ELSE inc[f]],
        !.base = inc,
        !.conflict = MergedConflicts(r, inc)]
MergedUnbased(r, inc) ==
    [r EXCEPT
        !.cur = [f \in Fields |-> IF UserChanged(r, f) THEN r.cur[f] ELSE inc[f]],
        !.conflict = MergedConflicts(r, inc)]

MergedRow(r, inc) ==
    [r EXCEPT
        !.cur = [f \in Fields |-> IF UserChanged(r, f) THEN r.cur[f] ELSE inc[f]],
        !.base = inc,
        !.conflict = MergedConflicts(r, inc)]

Incoming == [Fields -> Values]

MergeUpdates(c, inc) ==
    /\ Commits(c, MergedRow(seen[c], inc))
    /\ rejected' = [f \in Fields |-> IF inc[f] = rejected[f] THEN rejected[f] ELSE None]
    /\ UNCHANGED <<authority, touched>>

MergeAdds(c, inc) ==
    /\ c \in open
    /\ ~Present(seen[c])
    /\ ~Present(row)
    /\ row.id < MaxRows
    /\ row' = [NoRow(row.id + 1) EXCEPT !.status = "suggested", !.cur = inc, !.base = inc]
    /\ Closes(c)
    /\ rejected' = Nothing
    /\ touched' = {}
    /\ UNCHANGED authority

(* The machine no longer finds the object.  A row that relations or tables  *)
(* of the warehouse depend on, or that people worked on, is deprecated.     *)
MergeDeprecates(c) ==
    /\ Commits(c, [seen[c] EXCEPT !.status = "deprecated"])
    /\ UNCHANGED history

HasEdits(r) == r.pinned # {} \/ r.status \notin {"suggested", "deprecated"}

MergeDeletes(c) ==
    /\ ~HasEdits(seen[c])
    /\ Deletes(c)
    /\ UNCHANGED history

-----------------------------------------------------------------------------
(* What people do. *)

EditedStatus(s) == IF s \in {"published", "pre_published"} THEN s ELSE "edited"

(* Mutant: an edit that leaves the conflict of the field to be resolved. *)
MarkedPending(r, fs) ==
    [r EXCEPT !.pinned = @ \union fs, !.status = EditedStatus(@)]

(* Pins and status of a row in which people changed the fields fs.          *)
Marked(r, fs) ==
    [r EXCEPT
        !.pinned = @ \union fs,
        !.status = EditedStatus(@),
        !.conflict = [f \in Fields |-> IF f \in fs THEN NoConflict ELSE r.conflict[f]]]

(* An edit of no field confirms or reopens the review of the object. *)
Edit(c, fs, new) ==
    /\ Commits(c, Marked([seen[c] EXCEPT
           !.cur = [f \in Fields |-> IF f \in fs THEN new[f] ELSE seen[c].cur[f]]], fs))
    /\ authority' = [f \in Fields |-> IF f \in fs THEN new[f] ELSE authority[f]]
    /\ rejected' = [f \in Fields |-> IF f \in fs THEN row.base[f] ELSE rejected[f]]
    /\ touched' = touched \union fs

KeepOurs(c, f) ==
    /\ seen[c].conflict[f] # NoConflict
    /\ Commits(c, [seen[c] EXCEPT !.pinned = @ \union {f}, !.conflict[f] = NoConflict])
    /\ authority' = [authority EXCEPT ![f] = row.cur[f]]
    /\ rejected' = [rejected EXCEPT ![f] = row.base[f]]
    /\ touched' = touched \union {f}

Releases(f) ==
    /\ authority' = [authority EXCEPT ![f] = None]
    /\ rejected' = [rejected EXCEPT ![f] = None]
    /\ touched' = touched \union {f}

(* Mutant: accepting a conflict that is not, or no longer, there. *)
AcceptUnchecked(c, f) ==
    /\ Commits(c, [seen[c] EXCEPT !.cur[f] = seen[c].conflict[f].theirs,
                                  !.pinned = @ \ {f}, !.conflict[f] = NoConflict])
    /\ Releases(f)

AcceptTheirs(c, f) ==
    /\ seen[c].conflict[f] # NoConflict
    /\ Commits(c, [seen[c] EXCEPT !.cur[f] = seen[c].conflict[f].theirs,
                                  !.pinned = @ \ {f}, !.conflict[f] = NoConflict])
    /\ Releases(f)

Pin(c, f) ==
    /\ Commits(c, [seen[c] EXCEPT !.pinned = @ \union {f}])
    /\ authority' = [authority EXCEPT ![f] = row.cur[f]]
    /\ touched' = touched \union {f}
    /\ UNCHANGED rejected

Unpin(c, f) ==
    /\ Commits(c, [seen[c] EXCEPT !.pinned = @ \ {f}, !.conflict[f] = NoConflict])
    /\ Releases(f)

PrePublish(c) ==
    /\ Commits(c, [seen[c] EXCEPT !.status = "pre_published"])
    /\ UNCHANGED history

(* Mutants: publishing pins nothing; publishing moves the baseline along.    *)
PublishedUnpinned(r) == [r EXCEPT !.status = "published"]
PublishedRebased(r) ==
    [r EXCEPT !.status = "published", !.pinned = @ \union Structural,
              !.base = [f \in Fields |-> IF f \in Structural THEN r.cur[f] ELSE r.base[f]]]

PublishedRow(r) == [r EXCEPT !.status = "published", !.pinned = @ \union Structural]

(* The object is among those that a version publishes. *)
Publish(c) ==
    /\ seen[c].status # "deprecated"
    /\ Commits(c, PublishedRow(seen[c]))
    /\ authority' = [f \in Fields |->
           IF f \in Structural /\ authority[f] = None THEN row.cur[f] ELSE authority[f]]
    /\ touched' = touched \union Structural
    /\ UNCHANGED rejected

Discard(c) ==
    /\ seen[c].status # "published"
    /\ Deletes(c)
    /\ authority' = Nothing
    /\ rejected' = Nothing
    /\ UNCHANGED touched

-----------------------------------------------------------------------------
Merge(c) ==
    \/ \E inc \in Incoming : MergeUpdates(c, inc)
    \/ \E inc \in Incoming : MergeAdds(c, inc)
    \/ MergeDeprecates(c)
    \/ MergeDeletes(c)

Person(c) ==
    \/ \E fs \in SUBSET Fields, new \in Incoming : Edit(c, fs, new)
    \/ \E f \in Fields : KeepOurs(c, f)
    \/ \E f \in Fields : AcceptTheirs(c, f)
    \/ \E f \in Fields : Pin(c, f)
    \/ \E f \in Fields : Unpin(c, f)
    \/ PrePublish(c)
    \/ Publish(c)
    \/ Discard(c)

Next == \E c \in Clients : Load(c) \/ Leaves(c) \/ Merge(c) \/ Person(c)

Spec == Init /\ [][Next]_vars

-----------------------------------------------------------------------------
Complete(r) == Present(r) => r.cur \in Incoming /\ r.base \in Incoming

TypeOK ==
    /\ row \in Rows /\ Complete(row)
    /\ open \subseteq Clients
    /\ seen \in [Clients -> Rows] /\ \A c \in Clients : Complete(seen[c])
    /\ authority \in [Fields -> Optional]
    /\ rejected \in [Fields -> Optional]
    /\ touched \subseteq Fields

(* No generation undoes what people decided: a value that they typed, kept   *)
(* or pinned, and a published structural value, stays in the row until they  *)
(* change, release or discard it, and the row stays with it.               *)
HumanKept ==
    \A f \in Fields : authority[f] # None => Present(row) /\ row.cur[f] = authority[f]

(* A conflict is asked once: what people decided against is not raised       *)
(* again, whatever they publish or edit meanwhile, until the machine changes *)
(* its mind.                                                               *)
AskedOnce == \A f \in Fields : rejected[f] # None => row.conflict[f] = NoConflict

(* A conflict shows people the value that the row has, and another one.      *)
ConflictShowsRow ==
    \A f \in Fields : row.conflict[f] # NoConflict =>
        row.conflict[f].ours = row.cur[f] /\ row.conflict[f].theirs # row.cur[f]

(* A field that people never decided on has the value the machine last said, *)
(* so that the next generation may refresh it.                             *)
UntouchedFollows ==
    Present(row) => \A f \in Fields \ touched : row.cur[f] = row.base[f]

(* Who is in charge of the fields, as the columns of the row have it: the     *)
(* machine of those that are neither pinned nor differ from the baseline.   *)
Authority == INSTANCE FieldAuthority WITH
    there <- Present(row),
    value <- row.cur,
    proposal <- [f \in Fields |-> row.conflict[f].theirs],
    free <- {f \in Fields : ~UserChanged(row, f)}

(* Where sessions follow one another, pins, baseline and conflicts, three     *)
(* columns that eight operations write, say of every field whose it is: a    *)
(* generation writes the free ones only, and proposes a value for others; no *)
(* edit, pin, release or publication touches a field it is not about.       *)
AuthorityKept == Authority!Spec

(* A value in conflict changes by a decision only: a person's own value, the *)
(* one the conflict offers, or the object going away.                      *)
ConflictDecided ==
    [][\A f \in Fields :
         row.conflict[f] # NoConflict /\ row'.cur[f] # row.cur[f] =>
            \/ ~Present(row')
            \/ authority'[f] = row'.cur[f]
            \/ row'.cur[f] = row.conflict[f].theirs /\ row'.conflict[f] = NoConflict]_vars

=============================================================================
