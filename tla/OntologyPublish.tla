---------------------------- MODULE OntologyPublish ----------------------------
(***************************************************************************)
(* What of an ontology is published, and what becomes of the rest.          *)
(*                                                                          *)
(* The objects of one ontology and the relations between them: generations  *)
(* add, reclassify, deprecate and delete them; people judge, edit, relate   *)
(* and delete them; an object that turns out to be a fact is converted into *)
(* a relation, whose mapping object it stays; publishing promotes what was  *)
(* reviewed and records a version; discarding clears what is not published. *)
(*                                                                          *)
(* An object is named by the source table it was generated from.  Of its    *)
(* fields the role is kept, which decides whether it is published at all;   *)
(* what happens to the value of any field is the subject of OntologyMerge.  *)
(* Sessions follow one another.                                             *)
(***************************************************************************)

CONSTANTS
    Tables,      \* source tables, each with one object at most
    Unsure,      \* bound: the tables whose objects the machine may reclassify
                 \* and people edit; the others are business objects, reviewed
    Joined,      \* bound: the tables between which generations find relations
    Relations,   \* rows of relation_types (bounds how many there are at once)
    None

ASSUME PublishAssumption == Unsure \subseteq Tables /\ Joined \subseteq Tables


(* edited stands for pre_published, too, which differs in nothing here.      *)
Statuses == {"suggested", "edited", "published", "deprecated"}

VARIABLES
    object,     \* object_types: the row of each table
    relation,   \* relation_types
    snapshot,   \* the objects in the snapshot of the last version
    adopted,    \* history: objects with a role of the machine that people
                \* accepted since they were last published
    refused     \* history: the pairs whose generated relation was deleted

vars == <<object, relation, snapshot, adopted, refused>>

ObjectType ==
    [status : Statuses,
     business : BOOLEAN,   \* is table_role business_object
     needs_review : BOOLEAN,
     fixed : BOOLEAN,      \* is table_role in overridden_fields
     pending : BOOLEAN]    \* has_unpublished_change

(* Source and target of a relation, whose direction is left out.            *)
Pairs == {{s, t} : s, t \in Tables} \ {{t} : t \in Tables}

RelationType ==
    [ends : Pairs,
     mapping : Tables \union {None},
     generated : Pairs \union {None},  \* source_signature, None: user_created
     status : Statuses,
     deleted : BOOLEAN]                \* deleted_by_user

(* A row is told from no row. *)
ASSUME RowsAssumption == None \notin ObjectType /\ None \notin RelationType /\ None \notin Pairs

Init ==
    /\ object = [t \in Tables |-> None]
    /\ relation = [r \in Relations |-> None]
    /\ snapshot = {}
    /\ adopted = {}
    /\ refused = {}

Objects == {t \in Tables : object[t] # None}
Related == {r \in Relations : relation[r] # None}

------------------------------------------------------------------------------
(* Generations.                                                              *)

(* What a draft says of the unsure tables that it found: are they business   *)
(* objects, and is that to be reviewed.                                      *)
Verdicts(found) ==
    {v \in [business : BOOLEAN, needs_review : BOOLEAN] :
        found \cap Unsure = {} => v.business /\ v.needs_review}

(* Mutant: a join of a table with itself is a relation, too. *)
JoinsSelf(tables) ==
    {None} \union
    {j \in [ends : SUBSET (tables \cap Joined) \ {{}},
            mapping : tables \union {None}] : j.mapping \notin j.ends}

(* The relation it finds between the given tables, or none.                  *)
Joins(tables) ==
    {None} \union
    {j \in [ends : Pairs \cap SUBSET (tables \cap Joined),
            mapping : tables \union {None}] : j.mapping \notin j.ends}

(* merge_objects on a table that the draft found.  A new row is as the draft *)
(* says.  The role of an old one follows the draft unless it is pinned; a     *)
(* difference then may become a conflict, see AcceptTheirs.  The review mark  *)
(* of an old one is left alone.                                              *)
MergedObject(t, verdict) ==
    LET row == object[t]
        role == t \in Unsure => verdict.business
    IN  IF row = None
        THEN [status |-> "suggested", business |-> role,
              needs_review |-> t \in Unsure /\ verdict.needs_review,
              fixed |-> FALSE, pending |-> FALSE]
        ELSE IF row.fixed THEN row
        ELSE [row EXCEPT !.business = role]

(* Human work on a row keeps it from being deleted by a merge: it was edited *)
(* or published, or has pinned fields.  The argument kept says whether there  *)
(* is a reason that is not followed here: a pinned field other than the role  *)
(* of a deprecated row, or data of the object in the warehouse.              *)
ObjectHasEdits(row) == row.status \in {"edited", "published"} \/ row.fixed

RelationHasEdits(row, kept) ==
    row.status \in {"edited", "published"} \/ (row.status = "deprecated" /\ kept)

(* Mutant: only human work, and data, keep an object that was not found. *)
RemovedObjectReferenced(t, kept) ==
    IF ObjectHasEdits(object[t]) \/ kept
    THEN [object[t] EXCEPT !.status = "deprecated"]
    ELSE None

(* _handle_object_removal: an object that was not found is deleted, unless   *)
(* people worked on it, a relation refers to it as an endpoint, or it has    *)
(* landed in the warehouse.                                                  *)
RemovedObject(t, kept) ==
    IF ObjectHasEdits(object[t]) \/ kept \/ \E r \in Related : t \in relation[r].ends
    THEN [object[t] EXCEPT !.status = "deprecated"]
    ELSE None

ObjectsMerged(found, verdict, removing, kept) ==
    /\ object' = [t \in Tables |->
            IF t \in found THEN MergedObject(t, verdict)
            ELSE IF removing /\ object[t] # None THEN RemovedObject(t, kept)
            ELSE object[t]]
    /\ adopted' = {t \in adopted : object'[t] # None}

(* The signature of a row; that of a row without one is computed.            *)
Signature(r) == IF relation[r].generated = None THEN relation[r].ends ELSE relation[r].generated

Matches(join) == {r \in Related : Signature(r) = join.ends}

NewRelation(join) ==
    [ends |-> join.ends, mapping |-> join.mapping, generated |-> join.ends,
     status |-> "suggested", deleted |-> FALSE]

(* merge_relations on the row of a relation that the draft found: endpoints  *)
(* and mapping object always follow the machine, except on a row that people *)
(* created.                                                                  *)
MergedRelation(r, join) ==
    IF relation[r].generated = None THEN relation[r]
    ELSE [relation[r] EXCEPT !.ends = join.ends, !.mapping = join.mapping]

(* Mutant: a row that people deleted is treated as any other. *)
RemovedRelationDeleted(r, kept) ==
    IF relation[r].generated = None THEN relation[r]
    ELSE IF RelationHasEdits(relation[r], kept)
    THEN [relation[r] EXCEPT !.status = "deprecated"]
    ELSE None

RemovedRelation(r, kept) ==
    IF relation[r].generated = None \/ relation[r].deleted THEN relation[r]
    ELSE IF RelationHasEdits(relation[r], kept)
    THEN [relation[r] EXCEPT !.status = "deprecated"]
    ELSE None

(* The rows after a merge in which only the rows in seen were met.           *)
Unseen(seen, removing, kept) ==
    [r \in Relations |->
        IF removing /\ r \in Related \ seen THEN RemovedRelation(r, kept) ELSE relation[r]]

RelationsMerged(join, removing, kept) ==
    \/ /\ join = None
       /\ relation' = Unseen({}, removing, kept)
    \/ /\ join # None
       /\ \E r \in Matches(join) :
            relation' = [Unseen({r}, removing, kept) EXCEPT ![r] = MergedRelation(r, join)]
    \/ /\ join # None /\ Matches(join) = {}
       /\ \E r \in Relations \ Related :
            relation' = [Unseen({r}, removing, kept) EXCEPT ![r] = NewRelation(join)]

(* Generations of the whole domain, of objects only, of relations only.  A   *)
(* relation whose ends are not found by their names is as one not found.     *)
GenerateAll ==
    \E found \in SUBSET Tables, kept \in BOOLEAN :
        \E verdict \in Verdicts(found), join \in Joins(found) :
            /\ ObjectsMerged(found, verdict, TRUE, kept)
            /\ RelationsMerged(join, TRUE, kept)
            /\ UNCHANGED <<snapshot, refused>>

GenerateObjects ==
    \E found \in SUBSET Tables :
        /\ \E verdict \in Verdicts(found) : ObjectsMerged(found, verdict, FALSE, FALSE)
        /\ UNCHANGED <<relation, snapshot, refused>>

GenerateRelations ==
    \E join \in Joins(Objects) :
        /\ RelationsMerged(join, FALSE, FALSE)
        /\ UNCHANGED <<object, snapshot, adopted, refused>>

------------------------------------------------------------------------------
(* People.                                                                   *)

(* Mutant: a change of published content leaves no mark. *)
MarkEditedSilently(row) ==
    IF row.status = "published" THEN row ELSE [row EXCEPT !.status = "edited"]

(* _mark_edited on an object: what is published stays so and is effective at *)
(* once, but is marked as not in a version yet.                              *)
MarkEdited(row) ==
    IF row.status = "published" THEN [row EXCEPT !.pending = TRUE]
    ELSE [row EXCEPT !.status = "edited"]

MarkEditedRelation(row) ==
    IF row.status = "published" THEN row ELSE [row EXCEPT !.status = "edited"]

(* _mark_overridden on the role: it is pinned.                               *)
WithRole(row, business) == MarkEdited([row EXCEPT !.business = business, !.fixed = TRUE])

(* update_object_type, batch_update_object_types: another role, which is a    *)
(* review of its own, unless the request says otherwise.                     *)
EditRole(t) ==
    /\ t \in Objects \cap Unsure
    /\ \E mark \in BOOLEAN :
            object' = [object EXCEPT ![t] =
                    [WithRole(@, ~@.business) EXCEPT !.needs_review = mark]]
    /\ UNCHANGED <<relation, snapshot, adopted, refused>>

(* The same: other fields, or the review mark alone.                         *)
EditFields(t) ==
    /\ t \in Objects \cap Unsure
    /\ \E mark \in BOOLEAN :
            object' = [object EXCEPT ![t] = MarkEdited([@ EXCEPT !.needs_review = mark])]
    /\ UNCHANGED <<relation, snapshot, adopted, refused>>

PrePublish(t) ==
    /\ t \in Objects \cap Unsure
    /\ object' = [object EXCEPT ![t].status = "edited"]
    /\ UNCHANGED <<relation, snapshot, adopted, refused>>

(* resolve_conflict on the role, when the machine has come to another one    *)
(* than the pinned one; no mark is left on what is published.  The other     *)
(* answer changes nothing that is kept here.                                 *)
AcceptTheirs(t) ==
    /\ t \in Objects \cap Unsure /\ object[t].fixed
    /\ object' = [object EXCEPT ![t].business = ~@, ![t].fixed = FALSE]
    /\ adopted' = adopted \union {t}
    /\ UNCHANGED <<relation, snapshot, refused>>

(* A relation that people create, between objects that are there.            *)
Created(ends, mapping, status) ==
    [ends |-> ends, mapping |-> mapping, generated |-> None, status |-> status,
     deleted |-> FALSE]

Wellformed(ends, mapping) ==
    ends \subseteq Objects /\ mapping \in (Objects \ ends) \union {None}

CreateRelation(r, ends, mapping) ==
    /\ r \notin Related
    /\ Wellformed(ends, mapping)
    /\ relation' = [relation EXCEPT ![r] = Created(ends, mapping, "suggested")]
    /\ UNCHANGED <<object, snapshot, adopted, refused>>

(* update_relation_type, on a row whatever its state.                        *)
UpdateRelation(r, ends, mapping) ==
    /\ r \in Related
    /\ Wellformed(ends, mapping)
    /\ relation' = [relation EXCEPT ![r] =
            MarkEditedRelation([@ EXCEPT !.ends = ends, !.mapping = mapping])]
    /\ UNCHANGED <<object, snapshot, adopted, refused>>

PrePublishRelation(r) ==
    /\ r \in Related
    /\ relation' = [relation EXCEPT ![r].status = "edited"]
    /\ UNCHANGED <<object, snapshot, adopted, refused>>

(* delete_relation_type: the row stays, as deprecated at first, but then it   *)
(* is marked as edited.                                                      *)
DeleteRelation(r) ==
    /\ r \in Related /\ ~relation[r].deleted
    /\ relation' = [relation EXCEPT ![r].deleted = TRUE, ![r].status = "edited"]
    /\ refused' = refused \union ({relation[r].generated} \ {None})
    /\ UNCHANGED <<object, snapshot, adopted>>

(* convert_object_to_relation: a relation with t as its mapping object; its  *)
(* endpoints become business objects, t ceases to be one.                    *)
Convert(t, r, ends) ==
    LET promoted == {e \in ends : ~object[e].business}
    IN  /\ r \notin Related
        /\ t \in Objects \cap Unsure
        /\ Wellformed(ends, t)
        /\ relation' = [relation EXCEPT ![r] = Created(ends, t, "edited")]
        /\ object' = [o \in Tables |->
                IF o = t THEN WithRole(object[o], FALSE)
                ELSE IF o \in promoted
                THEN [WithRole(object[o], TRUE) EXCEPT !.needs_review = FALSE]
                ELSE object[o]]
        /\ UNCHANGED <<snapshot, adopted, refused>>

------------------------------------------------------------------------------
(* Publishing and discarding.                                                *)

(* select_publishable                                                        *)
Confirmed == {t \in Objects : object[t].business /\ ~object[t].needs_review}

Selected ==
    {r \in Related : /\ ~relation[r].deleted
                     /\ relation[r].status # "deprecated"
                     /\ relation[r].ends \subseteq Confirmed}

(* capture_ontology_snapshot, taken before anything is promoted.             *)
Captured ==
    {t \in Objects : object[t].business /\ object[t].status # "deprecated"}

Promoted == {t \in Confirmed : object[t].status # "deprecated"}

(* publish: a snapshot, and what is confirmed is promoted, its pending marks *)
(* cleared, its role pinned.                                                 *)
Publish ==
    /\ snapshot' = Captured
    /\ object' = [t \in Tables |->
            IF t \in Promoted
            THEN [object[t] EXCEPT !.status = "published", !.pending = FALSE, !.fixed = TRUE]
            ELSE object[t]]
    /\ relation' = [r \in Relations |->
            IF r \in Selected THEN [relation[r] EXCEPT !.status = "published"]
            ELSE relation[r]]
    /\ adopted' = adopted \ Promoted
    /\ UNCHANGED refused

Unpublished == {t \in Objects : object[t].status # "published"}

Doomed ==
    {r \in Related : \/ relation[r].status # "published"
                     \/ relation[r].ends \cap Unpublished # {}}

(* discard_unpublished; with the rows of deleted relations goes the memory    *)
(* that they were deleted.                                                   *)
Discard ==
    /\ object' = [t \in Tables |-> IF t \in Unpublished THEN None ELSE object[t]]
    /\ relation' = [r \in Relations |-> IF r \in Doomed THEN None ELSE relation[r]]
    /\ adopted' = adopted \ Unpublished
    /\ refused' = refused \ {relation[r].generated : r \in Doomed}
    /\ UNCHANGED snapshot

------------------------------------------------------------------------------
Next ==
    \/ GenerateAll \/ GenerateObjects \/ GenerateRelations
    \/ \E t \in Tables :
            \/ EditRole(t) \/ EditFields(t) \/ PrePublish(t)
            \/ AcceptTheirs(t)
            \/ \E r \in Relations, ends \in Pairs : Convert(t, r, ends)
    \/ \E r \in Relations :
            \/ PrePublishRelation(r) \/ DeleteRelation(r)
            \/ \E ends \in Pairs, m \in Tables \union {None} :
                    CreateRelation(r, ends, m) \/ UpdateRelation(r, ends, m)
    \/ Publish \/ Discard

Spec == Init /\ [][Next]_vars

------------------------------------------------------------------------------
TypeOK ==
    /\ object \in [Tables -> ObjectType \union {None}]
    /\ relation \in [Relations -> RelationType \union {None}]
    /\ snapshot \subseteq Tables
    /\ adopted \subseteq Tables
    /\ refused \subseteq Pairs

(* No relation refers to an object that is gone, although objects are        *)
(* deleted by generations, which look for relations, and by discarding,      *)
(* which takes the relations along.                                          *)
NoDangling == \A r \in Related : relation[r].ends \subseteq Objects

(* What is visible as a business object is in the last version, or is marked *)
(* as changed since: taken out of the ontology and back in, by whatever way, *)
(* it does not pass for part of a version it was not in.  (Roles of the      *)
(* machine that people accepted leave no mark.)                              *)
VersionOrPending ==
    \A t \in Objects :
        (object[t].status = "published" /\ object[t].business /\ t \notin adopted) =>
            t \in snapshot \/ object[t].pending

(* A generated relation that people deleted does not come back, as long as    *)
(* its row is not discarded.                                                 *)
DeletedStays ==
    \A r \in Related : relation[r].generated \in refused => relation[r].deleted

(* A published relation keeps its mapping object: the conversion of an object *)
(* says that its table is kept as the table of the relation, and discarding   *)
(* that what is published is left alone.                                      *)
MappingKept ==
    \A r \in Related :
        relation[r].status = "published" => relation[r].mapping \in Objects \union {None}
================================================================================
