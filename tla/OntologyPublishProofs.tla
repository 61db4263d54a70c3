------------------------ MODULE OntologyPublishProofs ------------------------
(***************************************************************************)
(* Theorems about OntologyPublish for any number of tables and relations.  *)
(***************************************************************************)
EXTENDS OntologyPublish, TLAPS

(* A published object whose role is not pinned is one of which people        *)
(* accepted a role of the machine.                                           *)
PinnedOrAdopted ==
    \A t \in Objects :
        (object[t].status = "published" /\ ~object[t].fixed) => t \in adopted

(* Every refused pair has its row, which is marked as deleted. *)
Tombstones ==
    \A p \in refused : \E r \in Related : relation[r].generated = p /\ relation[r].deleted

(* Generations find a relation again by its pair. *)
OneRow ==
    \A q, r \in Related :
        (relation[q].generated = relation[r].generated /\ relation[q].generated # None) => q = r

ObjectsInv == TypeOK /\ PinnedOrAdopted /\ VersionOrPending
RelationsInv == Tombstones /\ OneRow
PublishInv == ObjectsInv /\ NoDangling /\ RelationsInv

------------------------------------------------------------------------------
(* Rows stay rows. *)
LEMMA RowsOfObjects ==
    ASSUME TypeOK
    PROVE  /\ \A t \in Objects : object[t] \in ObjectType /\ t \in Tables
           /\ \A t \in Tables : object[t] = None \/ t \in Objects
  BY DEF TypeOK, Objects

LEMMA RowsOfRelations ==
    ASSUME TypeOK
    PROVE  /\ \A r \in Related : relation[r] \in RelationType /\ r \in Relations
           /\ \A r \in Relations : relation[r] = None \/ r \in Related
  BY DEF TypeOK, Related

LEMMA InitPublish == Init => PublishInv
<1> SUFFICES ASSUME Init PROVE PublishInv
  OBVIOUS
<1>1. TypeOK
  BY DEF Init, TypeOK
<1>2. Objects = {} /\ Related = {} /\ refused = {}
  BY DEF Init, Objects, Related
<1> QED
  BY <1>1, <1>2 DEF PublishInv, ObjectsInv, RelationsInv, PinnedOrAdopted, VersionOrPending,
     NoDangling, Tombstones, OneRow

------------------------------------------------------------------------------
(* The objects after a merge of the draft. *)
LEMMA MergedObjects ==
    ASSUME PublishInv,
           NEW found \in SUBSET Tables, NEW verdict \in Verdicts(found),
           NEW removing \in BOOLEAN, NEW kept \in BOOLEAN,
           ObjectsMerged(found, verdict, removing, kept), UNCHANGED snapshot
    PROVE  /\ object' \in [Tables -> ObjectType \union {None}]
           /\ adopted' \subseteq Tables
           /\ PinnedOrAdopted' /\ VersionOrPending'
           /\ found \subseteq Objects'
           /\ \A t \in Objects :
                (t \in found \/ ~removing \/ \E r \in Related : t \in relation[r].ends)
                    => t \in Objects'
<1> USE RowsAssumption
<1>1. TypeOK
  BY DEF PublishInv, ObjectsInv
<1>2. \A t \in Objects : object[t] \in ObjectType /\ t \in Tables
  BY <1>1, RowsOfObjects
<1>3. verdict.business \in BOOLEAN /\ verdict.needs_review \in BOOLEAN
  BY DEF Verdicts
<1>4. ASSUME NEW t \in Tables
      PROVE  /\ MergedObject(t, verdict) \in ObjectType
             /\ MergedObject(t, verdict).status = "published" =>
                    /\ t \in Objects /\ object[t].status = "published"
                    /\ MergedObject(t, verdict).fixed = object[t].fixed
                    /\ MergedObject(t, verdict).pending = object[t].pending
                    /\ object[t].fixed => MergedObject(t, verdict).business = object[t].business
  <2>1. CASE object[t] = None
    BY <2>1, <1>3 DEF MergedObject, ObjectType, Statuses
  <2>2. CASE object[t] # None
    <3>1. t \in Objects /\ object[t] \in ObjectType
      BY <2>2, <1>2 DEF Objects
    <3>2. CASE object[t].fixed
      BY <3>1, <3>2, <2>2 DEF MergedObject
    <3>3. CASE ~object[t].fixed
      <4> DEFINE role == t \in Unsure => verdict.business
      <4>1. MergedObject(t, verdict) = [object[t] EXCEPT !.business = role]
        BY <2>2, <3>3 DEF MergedObject
      <4>2. role \in BOOLEAN
        OBVIOUS
      <4> HIDE DEF role
      <4> QED
        BY <4>1, <4>2, <3>1, <3>3 DEF ObjectType
    <3> QED
      BY <3>2, <3>3
  <2> QED
    BY <2>1, <2>2
<1>5. ASSUME NEW t \in Objects
      PROVE  /\ RemovedObject(t, kept) \in ObjectType \union {None}
             /\ RemovedObject(t, kept) # None => RemovedObject(t, kept).status = "deprecated"
             /\ (\E r \in Related : t \in relation[r].ends) => RemovedObject(t, kept) # None
  <2>1. [object[t] EXCEPT !.status = "deprecated"] \in ObjectType
    BY <1>2 DEF ObjectType, Statuses
  <2>2. [object[t] EXCEPT !.status = "deprecated"].status = "deprecated"
    BY <1>2 DEF ObjectType
  <2> QED
    BY <2>1, <2>2 DEF RemovedObject
<1>6. ASSUME NEW t \in Tables
      PROVE  /\ object'[t] = IF t \in found THEN MergedObject(t, verdict)
                             ELSE IF removing /\ object[t] # None THEN RemovedObject(t, kept)
                             ELSE object[t]
             /\ object'[t] \in ObjectType \union {None}
  BY <1>1, <1>4, <1>5 DEF ObjectsMerged, TypeOK, Objects
<1>7. object' \in [Tables -> ObjectType \union {None}]
  BY <1>6 DEF ObjectsMerged
<1>8. adopted' = {t \in adopted : object'[t] # None} /\ adopted' \subseteq Tables
  BY <1>1 DEF ObjectsMerged, TypeOK
<1>9. ASSUME NEW t \in Objects', object'[t].status = "published"
      PROVE  /\ t \in Objects /\ object[t].status = "published"
             /\ object'[t].fixed = object[t].fixed
             /\ object'[t].pending = object[t].pending
             /\ object[t].fixed => object'[t].business = object[t].business
             /\ t \in adopted <=> t \in adopted'
  <2>1. t \in Tables /\ object'[t] # None
    BY DEF Objects
  <2>2. CASE t \in found
    BY <2>1, <2>2, <1>4, <1>6, <1>8, <1>9
  <2>3. CASE t \notin found /\ removing /\ object[t] # None
    BY <2>1, <2>3, <1>5, <1>6, <1>9 DEF Objects
  <2>4. CASE t \notin found /\ ~(removing /\ object[t] # None)
    BY <2>1, <2>4, <1>6, <1>8, <1>9 DEF Objects
  <2> QED
    BY <2>2, <2>3, <2>4
<1>10. PinnedOrAdopted'
  <2> SUFFICES ASSUME NEW t \in Objects', object'[t].status = "published", ~object'[t].fixed
               PROVE  t \in adopted'
    BY DEF PinnedOrAdopted
  <2> QED
    BY <1>9 DEF PublishInv, ObjectsInv, PinnedOrAdopted
<1>11. VersionOrPending'
  <2> SUFFICES ASSUME NEW t \in Objects', object'[t].status = "published",
                      object'[t].business, t \notin adopted'
               PROVE  t \in snapshot' \/ object'[t].pending
    BY DEF VersionOrPending
  <2>1. t \in Objects /\ object[t].status = "published" /\ t \notin adopted
    BY <1>9
  <2>2. object[t].fixed
    BY <2>1 DEF PublishInv, ObjectsInv, PinnedOrAdopted
  <2>3. object[t].business /\ object'[t].pending = object[t].pending
    BY <2>2, <1>9
  <2> QED
    BY <2>1, <2>3 DEF PublishInv, ObjectsInv, VersionOrPending
<1>12. found \subseteq Objects'
  BY <1>4, <1>6 DEF Objects
<1>13. ASSUME NEW t \in Objects, t \in found \/ ~removing \/ \E r \in Related : t \in relation[r].ends
       PROVE  t \in Objects'
  <2>1. t \in Tables /\ object[t] # None
    BY DEF Objects
  <2> QED
    BY <1>13, <2>1, <1>4, <1>5, <1>6 DEF Objects
<1> QED
  BY <1>7, <1>8, <1>10, <1>11, <1>12, <1>13

(* The relations after it.                                                   *)
LEMMA MergedRelations ==
    ASSUME PublishInv, NEW tables, tables \subseteq Objects',
           NEW join \in Joins(tables), Objects' \subseteq Tables,
           NEW removing \in BOOLEAN, NEW kept \in BOOLEAN,
           \A r \in Related : relation[r].ends \subseteq Objects',
           RelationsMerged(join, removing, kept), UNCHANGED refused
    PROVE  /\ relation' \in [Relations -> RelationType \union {None}]
           /\ NoDangling' /\ RelationsInv'
<1> USE RowsAssumption
<1>1. TypeOK /\ Tombstones /\ OneRow
  BY DEF PublishInv, ObjectsInv, RelationsInv
<1>2. \A r \in Related : relation[r] \in RelationType /\ r \in Relations
  BY <1>1, RowsOfRelations
<1>3. ASSUME NEW r \in Related
      PROVE  /\ RemovedRelation(r, kept) \in RelationType \union {None}
             /\ RemovedRelation(r, kept) # None =>
                    /\ RemovedRelation(r, kept).ends = relation[r].ends
                    /\ RemovedRelation(r, kept).generated = relation[r].generated
                    /\ RemovedRelation(r, kept).deleted = relation[r].deleted
             /\ relation[r].deleted => RemovedRelation(r, kept) # None
  <2> DEFINE old == relation[r]
             row == [old EXCEPT !.status = "deprecated"]
  <2>1. old \in RelationType /\ old # None
    BY <1>2 DEF Related
  <2>2. row \in RelationType /\ row.ends = old.ends /\ row.generated = old.generated
        /\ row.deleted = old.deleted
    BY <2>1 DEF RelationType, Statuses
  <2>3. RemovedRelation(r, kept) \in {old, row, None} /\ (old.deleted => RemovedRelation(r, kept) = old)
    BY DEF RemovedRelation
  <2> HIDE DEF old, row
  <2>4. RemovedRelation(r, kept) = old \/ RemovedRelation(r, kept) = row \/ RemovedRelation(r, kept) = None
    BY <2>3
  <2>5. /\ RemovedRelation(r, kept) \in RelationType \union {None}
        /\ RemovedRelation(r, kept) # None =>
                /\ RemovedRelation(r, kept).ends = old.ends
                /\ RemovedRelation(r, kept).generated = old.generated
                /\ RemovedRelation(r, kept).deleted = old.deleted
        /\ old.deleted => RemovedRelation(r, kept) # None
    BY <2>1, <2>2, <2>3, <2>4
  <2> QED
    BY <2>5 DEF old
<1>4. ASSUME NEW seen, NEW r \in Relations
      PROVE  LET row == Unseen(seen, removing, kept)[r]
             IN  /\ row \in RelationType \union {None}
                 /\ row # None => /\ r \in Related
                                  /\ row.ends = relation[r].ends
                                  /\ row.generated = relation[r].generated
                                  /\ row.deleted = relation[r].deleted
                 /\ (r \in Related /\ relation[r].deleted) => row # None
  <2>1. Unseen(seen, removing, kept)[r] =
            IF removing /\ r \in Related \ seen THEN RemovedRelation(r, kept) ELSE relation[r]
    BY DEF Unseen
  <2>2. CASE r \in Related /\ removing /\ r \notin seen
    BY <2>1, <2>2, <1>3
  <2>3. CASE ~(r \in Related /\ removing /\ r \notin seen)
    BY <2>1, <2>3, <1>1, <1>2 DEF Related, TypeOK
  <2> QED
    BY <2>2, <2>3
<1>5. \A seen : Unseen(seen, removing, kept) \in [Relations -> RelationType \union {None}]
  <2> TAKE seen
  <2>1. \A r \in Relations : Unseen(seen, removing, kept)[r] \in RelationType \union {None}
    BY <1>4
  <2> QED
    BY <2>1 DEF Unseen
<1>6. CASE join = None
  <2>1. relation' = Unseen({}, removing, kept)
    BY <1>6 DEF RelationsMerged
  <2>2. \A r \in Related' : /\ r \in Related /\ relation'[r].ends = relation[r].ends
                            /\ relation'[r].generated = relation[r].generated
                            /\ relation'[r].deleted = relation[r].deleted
    BY <2>1, <1>4 DEF Related
  <2>3. \A r \in Related : relation[r].deleted => r \in Related'
    BY <2>1, <1>2, <1>4 DEF Related
  <2>4. NoDangling'
    BY <2>2 DEF NoDangling
  <2>5. Tombstones'
    BY <2>2, <2>3, <1>1 DEF Tombstones
  <2>6. OneRow'
    BY <2>2, <1>1 DEF OneRow
  <2> QED
    BY <2>1, <2>4, <2>5, <2>6, <1>5 DEF RelationsInv
<1>7. CASE join # None
  <2>1. join.ends \in Pairs /\ join.ends \subseteq tables /\ join.mapping \in Tables \union {None}
    BY <1>7 DEF Joins
  <2>2. PICK r \in Relations, row \in RelationType :
            /\ relation' = [Unseen({r}, removing, kept) EXCEPT ![r] = row]
            /\ row.ends \subseteq Objects'
            /\ row.generated # None
                => /\ r \in Related \/ \A q \in Related : relation[q].generated # row.generated
                   /\ r \in Related => row.generated = relation[r].generated
            /\ r \in Related => /\ row.generated = relation[r].generated
                                /\ row.deleted = relation[r].deleted
    <3>1. CASE Matches(join) = {}
      <4>1. PICK r \in Relations \ Related :
                relation' = [Unseen({r}, removing, kept) EXCEPT ![r] = NewRelation(join)]
        BY <1>7, <3>1 DEF RelationsMerged
      <4>2. /\ NewRelation(join) \in RelationType
            /\ NewRelation(join).ends = join.ends /\ NewRelation(join).generated = join.ends
        BY <2>1 DEF NewRelation, RelationType, Statuses
      <4>3. \A q \in Related : relation[q].generated # join.ends
        BY <3>1, <2>1 DEF Matches, Signature
      <4> QED
        BY <4>1, <4>2, <4>3, <2>1
    <3>2. CASE Matches(join) # {}
      <4>1. PICK r \in Matches(join) :
                relation' = [Unseen({r}, removing, kept) EXCEPT ![r] = MergedRelation(r, join)]
        BY <1>7, <3>2 DEF RelationsMerged
      <4>2. r \in Related /\ r \in Relations /\ relation[r] \in RelationType
        BY <1>2 DEF Matches
      <4>3. /\ MergedRelation(r, join) \in RelationType
            /\ MergedRelation(r, join).ends \in {relation[r].ends, join.ends}
            /\ MergedRelation(r, join).generated = relation[r].generated
            /\ MergedRelation(r, join).deleted = relation[r].deleted
        <5>1. CASE relation[r].generated = None
          BY <5>1, <4>2 DEF MergedRelation
        <5>2. CASE relation[r].generated # None
          BY <5>2, <4>2, <2>1 DEF MergedRelation, RelationType
        <5> QED
          BY <5>1, <5>2
      <4>4. MergedRelation(r, join).ends \subseteq Objects'
        BY <4>2, <4>3, <2>1
      <4> QED
        BY <4>1, <4>2, <4>3, <4>4
    <3> QED
      BY <3>1, <3>2
  <2>3. relation'[r] = row /\ row # None
    BY <2>2, <1>5
  <2>4. \A q \in Relations : q # r => relation'[q] = Unseen({r}, removing, kept)[q]
    BY <2>2, <1>5
  <2>5. relation' \in [Relations -> RelationType \union {None}]
    BY <2>2, <1>5
  <2>6. \A q \in Related' : q # r => /\ q \in Related /\ relation'[q].ends = relation[q].ends
                                     /\ relation'[q].generated = relation[q].generated
                                     /\ relation'[q].deleted = relation[q].deleted
    BY <2>4, <1>4 DEF Related
  <2>7. \A q \in Related : relation[q].deleted => q \in Related'
    BY <2>3, <2>4, <1>2, <1>4 DEF Related
  <2>8. NoDangling'
    BY <2>2, <2>3, <2>6 DEF NoDangling
  <2>9. Tombstones'
    <3> SUFFICES ASSUME NEW p \in refused
                 PROVE  \E q \in Related' : relation'[q].generated = p /\ relation'[q].deleted
      BY DEF Tombstones
    <3>1. PICK q \in Related : relation[q].generated = p /\ relation[q].deleted
      BY <1>1 DEF Tombstones
    <3> QED
      BY <3>1, <2>2, <2>3, <2>6, <2>7
  <2>10. OneRow'
    <3> SUFFICES ASSUME NEW p \in Related', NEW q \in Related', p # q,
                        relation'[p].generated = relation'[q].generated,
                        relation'[p].generated # None
                 PROVE  FALSE
      BY DEF OneRow
    <3>1. CASE p # r /\ q # r
      BY <3>1, <2>6, <1>1 DEF OneRow
    <3>2. CASE p = r
      <4>1. q \in Related /\ relation[q].generated = row.generated /\ row.generated # None
        BY <3>2, <2>3, <2>6
      <4>2. r \in Related /\ row.generated = relation[r].generated
        BY <4>1, <2>2
      <4> QED
        BY <3>2, <4>1, <4>2, <1>1 DEF OneRow
    <3>3. CASE q = r
      <4>1. p \in Related /\ relation[p].generated = row.generated /\ row.generated # None
        BY <3>3, <2>3, <2>6
      <4>2. r \in Related /\ row.generated = relation[r].generated
        BY <4>1, <2>2
      <4> QED
        BY <3>3, <4>1, <4>2, <1>1 DEF OneRow
    <3> QED
      BY <3>1, <3>2, <3>3
  <2> QED
    BY <2>5, <2>8, <2>9, <2>10 DEF RelationsInv
<1> QED
  BY <1>6, <1>7

(* Generations keep everything.                                              *)
LEMMA GenerationInv ==
    ASSUME PublishInv, GenerateAll \/ GenerateObjects \/ GenerateRelations
    PROVE  PublishInv'
<1>1. TypeOK /\ \A t \in Objects : t \in Tables
  BY RowsOfObjects DEF PublishInv, ObjectsInv
<1>2. \A r \in Related : relation[r].ends \subseteq Objects
  BY DEF PublishInv, NoDangling
<1>3. CASE GenerateAll
  <2>0. PICK found \in SUBSET Tables, kept \in BOOLEAN :
            \E verdict \in Verdicts(found), join \in Joins(found) :
                /\ ObjectsMerged(found, verdict, TRUE, kept)
                /\ RelationsMerged(join, TRUE, kept)
                /\ UNCHANGED <<snapshot, refused>>
    BY <1>3 DEF GenerateAll
  <2>1. PICK verdict \in Verdicts(found), join \in Joins(found) :
            /\ ObjectsMerged(found, verdict, TRUE, kept)
            /\ RelationsMerged(join, TRUE, kept)
            /\ UNCHANGED <<snapshot, refused>>
    BY <2>0
  <2>2. /\ object' \in [Tables -> ObjectType \union {None}]
        /\ adopted' \subseteq Tables
        /\ PinnedOrAdopted' /\ VersionOrPending'
        /\ found \subseteq Objects'
        /\ \A t \in Objects : (\E r \in Related : t \in relation[r].ends) => t \in Objects'
    BY <2>1, MergedObjects
  <2>3. Objects' \subseteq Tables
    BY DEF Objects
  <2>4. \A r \in Related : relation[r].ends \subseteq Objects'
    BY <1>2, <2>2
  <2>5. relation' \in [Relations -> RelationType \union {None}] /\ NoDangling' /\ RelationsInv'
    BY <2>1, <2>2, <2>3, <2>4, MergedRelations
  <2> QED
    BY <1>1, <2>1, <2>2, <2>5 DEF PublishInv, ObjectsInv, TypeOK
<1>4. CASE GenerateObjects
  <2>0. PICK found \in SUBSET Tables :
            /\ \E verdict \in Verdicts(found) : ObjectsMerged(found, verdict, FALSE, FALSE)
            /\ UNCHANGED <<relation, snapshot, refused>>
    BY <1>4 DEF GenerateObjects
  <2>1. PICK verdict \in Verdicts(found) :
            ObjectsMerged(found, verdict, FALSE, FALSE) /\ UNCHANGED <<relation, snapshot, refused>>
    BY <2>0
  <2>2. /\ object' \in [Tables -> ObjectType \union {None}]
        /\ adopted' \subseteq Tables
        /\ PinnedOrAdopted' /\ VersionOrPending'
        /\ \A t \in Objects : t \in Objects'
    BY <2>1, MergedObjects
  <2>3. NoDangling'
    BY <1>2, <2>1, <2>2 DEF NoDangling, Related
  <2>4. RelationsInv'
    BY <2>1 DEF PublishInv, RelationsInv, Tombstones, OneRow, Related
  <2> QED
    BY <1>1, <2>1, <2>2, <2>3, <2>4 DEF PublishInv, ObjectsInv, TypeOK
<1>5. CASE GenerateRelations
  <2>1. PICK join \in Joins(Objects) :
            RelationsMerged(join, FALSE, FALSE) /\ UNCHANGED <<object, snapshot, adopted, refused>>
    BY <1>5 DEF GenerateRelations
  <2>2. Objects' = Objects /\ Objects \subseteq Tables
    BY <2>1 DEF Objects
  <2>3. relation' \in [Relations -> RelationType \union {None}] /\ NoDangling' /\ RelationsInv'
    BY <1>2, <2>1, <2>2, MergedRelations
  <2>4. PinnedOrAdopted' /\ VersionOrPending'
    BY <2>1, <2>2 DEF PublishInv, ObjectsInv, PinnedOrAdopted, VersionOrPending
  <2> QED
    BY <1>1, <2>1, <2>3, <2>4 DEF PublishInv, ObjectsInv, TypeOK
<1> QED
  BY <1>3, <1>4, <1>5

------------------------------------------------------------------------------
(* A row that people change is marked when it is published, or its role is   *)
(* one of the machine that they accept.                                      *)
LEMMA TouchedRows ==
    ASSUME PublishInv, UNCHANGED snapshot,
           object' \in [Tables -> ObjectType \union {None}],
           adopted \subseteq adopted', adopted' \subseteq Tables,
           \A t \in Tables :
                \/ object'[t] = object[t]
                \/ /\ t \in Objects /\ object'[t] # None
                   /\ \/ object'[t].status # "published"
                      \/ t \in adopted'
                      \/ /\ object[t].status = "published" /\ object'[t].pending
                         /\ object[t].fixed => object'[t].fixed
    PROVE  Objects' = Objects /\ PinnedOrAdopted' /\ VersionOrPending'
<1>1. Objects' = Objects
  BY DEF Objects
<1>2. PinnedOrAdopted'
  <2> SUFFICES ASSUME NEW t \in Objects', object'[t].status = "published", ~object'[t].fixed
               PROVE  t \in adopted'
    BY DEF PinnedOrAdopted
  <2>1. t \in Objects /\ t \in Tables
    BY <1>1 DEF Objects
  <2> QED
    BY <2>1 DEF PublishInv, ObjectsInv, PinnedOrAdopted
<1>3. VersionOrPending'
  <2> SUFFICES ASSUME NEW t \in Objects', object'[t].status = "published",
                      object'[t].business, t \notin adopted'
               PROVE  t \in snapshot' \/ object'[t].pending
    BY DEF VersionOrPending
  <2>1. t \in Objects /\ t \in Tables /\ t \notin adopted
    BY <1>1 DEF Objects
  <2> QED
    BY <2>1 DEF PublishInv, ObjectsInv, VersionOrPending
<1> QED
  BY <1>1, <1>2, <1>3

(* One row of relation_types changes.                                        *)
LEMMA RelationRow ==
    ASSUME PublishInv, NEW r \in Relations, NEW row \in RelationType,
           relation' = [relation EXCEPT ![r] = row],
           Objects' = Objects, row.ends \subseteq Objects,
           \/ r \notin Related /\ row.generated = None /\ refused' = refused
           \/ /\ r \in Related /\ row.generated = relation[r].generated
              /\ relation[r].deleted => row.deleted
              /\ \/ refused' = refused
                 \/ row.deleted /\ refused' = refused \union ({row.generated} \ {None})
    PROVE  /\ relation' \in [Relations -> RelationType \union {None}]
           /\ NoDangling' /\ RelationsInv'
<1> USE RowsAssumption
<1>1. TypeOK /\ Tombstones /\ OneRow
  BY DEF PublishInv, ObjectsInv, RelationsInv
<1>2. relation'[r] = row /\ row # None /\ r \in Related'
  BY <1>1 DEF TypeOK, Related
<1>3. \A q \in Relations : q # r => relation'[q] = relation[q]
  BY <1>1 DEF TypeOK
<1>4. \A q \in Related' : q = r \/ (q \in Related /\ relation'[q] = relation[q])
  BY <1>3 DEF Related
<1>5. \A q \in Related : q \in Related' /\ (q # r => relation'[q] = relation[q])
  BY <1>2, <1>3 DEF Related
<1>6. relation' \in [Relations -> RelationType \union {None}]
  BY <1>1 DEF TypeOK
<1>7. NoDangling'
  <2> SUFFICES ASSUME NEW q \in Related' PROVE relation'[q].ends \subseteq Objects'
    BY DEF NoDangling
  <2>1. CASE q = r
    BY <2>1, <1>2
  <2>2. CASE q # r
    BY <2>2, <1>4 DEF PublishInv, NoDangling
  <2> QED
    BY <2>1, <2>2
<1>8. Tombstones'
  <2> SUFFICES ASSUME NEW p \in refused'
               PROVE  \E q \in Related' : relation'[q].generated = p /\ relation'[q].deleted
    BY DEF Tombstones
  <2>1. CASE p \in refused
    <3>1. PICK q \in Related : relation[q].generated = p /\ relation[q].deleted
      BY <2>1, <1>1 DEF Tombstones
    <3> QED
      BY <3>1, <1>2, <1>5
  <2>2. CASE p \notin refused
    BY <2>2, <1>2
  <2> QED
    BY <2>1, <2>2
<1>9. OneRow'
  <2> SUFFICES ASSUME NEW p \in Related', NEW q \in Related', p # q,
                      relation'[p].generated = relation'[q].generated,
                      relation'[p].generated # None
               PROVE  FALSE
    BY DEF OneRow
  <2>1. CASE p # r /\ q # r
    BY <2>1, <1>1, <1>4 DEF OneRow
  <2>2. CASE p = r
    BY <2>2, <1>1, <1>2, <1>4 DEF OneRow
  <2>3. CASE q = r
    BY <2>3, <1>1, <1>2, <1>4 DEF OneRow
  <2> QED
    BY <2>1, <2>2, <2>3
<1> QED
  BY <1>6, <1>7, <1>8, <1>9 DEF RelationsInv

(* Marking an object as edited. *)
LEMMA MarkedRows ==
    ASSUME NEW row \in ObjectType
    PROVE  /\ \A b \in BOOLEAN : [row EXCEPT !.needs_review = b] \in ObjectType
           /\ MarkEdited(row) \in ObjectType
           /\ MarkEdited(row).fixed = row.fixed
           /\ MarkEdited(row).status = "published" =>
                    row.status = "published" /\ MarkEdited(row).pending
           /\ \A b \in BOOLEAN :
                    /\ WithRole(row, b) \in ObjectType
                    /\ WithRole(row, b).fixed
                    /\ WithRole(row, b).status = "published" =>
                            row.status = "published" /\ WithRole(row, b).pending
<1>1. ASSUME NEW o \in ObjectType
      PROVE  /\ MarkEdited(o) \in ObjectType /\ MarkEdited(o).fixed = o.fixed
             /\ MarkEdited(o).status = "published" =>
                    o.status = "published" /\ MarkEdited(o).pending
  <2>1. CASE o.status = "published"
    BY <2>1 DEF MarkEdited, ObjectType
  <2>2. CASE o.status # "published"
    BY <2>2 DEF MarkEdited, ObjectType, Statuses
  <2> QED
    BY <2>1, <2>2
<1>2. ASSUME NEW b \in BOOLEAN
      PROVE  LET o == [row EXCEPT !.business = b, !.fixed = TRUE]
             IN  o \in ObjectType /\ o.fixed /\ o.status = row.status
  BY DEF ObjectType
<1>3. \A b \in BOOLEAN : [row EXCEPT !.needs_review = b] \in ObjectType
  BY DEF ObjectType
<1> QED
  BY <1>1, <1>2, <1>3 DEF WithRole

(* People change an object.                                                  *)
LEMMA ObjectEditsInv ==
    ASSUME PublishInv, NEW t \in Tables,
           EditRole(t) \/ EditFields(t) \/ PrePublish(t) \/ AcceptTheirs(t)
    PROVE  PublishInv'
<1> USE RowsAssumption
<1>1. TypeOK /\ t \in Objects /\ object[t] \in ObjectType
  <2>1. t \in Objects
    BY DEF EditRole, EditFields, PrePublish, AcceptTheirs
  <2> QED
    BY <2>1, RowsOfObjects DEF PublishInv, ObjectsInv
<1>2. UNCHANGED <<relation, snapshot, refused>>
  BY DEF EditRole, EditFields, PrePublish, AcceptTheirs
<1>3. adopted \subseteq adopted' /\ adopted' \subseteq Tables
  BY <1>1 DEF EditRole, EditFields, PrePublish, AcceptTheirs, TypeOK
<1>4. PICK row \in ObjectType :
            /\ object' = [object EXCEPT ![t] = row]
            /\ \/ row.status # "published"
               \/ t \in adopted'
               \/ /\ object[t].status = "published" /\ row.pending
                  /\ object[t].fixed => row.fixed
  <2>1. CASE EditRole(t)
    <3> DEFINE new == WithRole(object[t], ~object[t].business)
    <3>1. PICK mark \in BOOLEAN : object' = [object EXCEPT ![t] = [new EXCEPT !.needs_review = mark]]
      BY <2>1, <1>1 DEF EditRole, TypeOK
    <3>2. (~object[t].business) \in BOOLEAN
      BY <1>1, SMT DEF ObjectType
    <3>3. /\ new \in ObjectType /\ new.fixed
          /\ new.status = "published" => object[t].status = "published" /\ new.pending
      BY <1>1, <3>2, MarkedRows
    <3> HIDE DEF new
    <3>4. LET row == [new EXCEPT !.needs_review = mark]
          IN  row \in ObjectType /\ row.status = new.status /\ row.fixed = new.fixed
              /\ row.pending = new.pending
      BY <3>3 DEF ObjectType
    <3> QED
      BY <3>1, <3>3, <3>4
  <2>2. CASE EditFields(t)
    <3>1. PICK mark \in BOOLEAN :
                object' = [object EXCEPT ![t] = MarkEdited([object[t] EXCEPT !.needs_review = mark])]
      BY <2>2, <1>1 DEF EditFields, TypeOK
    <3> DEFINE old == [object[t] EXCEPT !.needs_review = mark]
    <3>2. old \in ObjectType /\ old.status = object[t].status /\ old.fixed = object[t].fixed
      BY <1>1 DEF ObjectType
    <3> HIDE DEF old
    <3>3. /\ MarkEdited(old) \in ObjectType /\ MarkEdited(old).fixed = old.fixed
          /\ MarkEdited(old).status = "published" => old.status = "published" /\ MarkEdited(old).pending
      BY <3>2, MarkedRows
    <3> QED
      BY <3>1, <3>2, <3>3 DEF old
  <2>3. CASE PrePublish(t)
    <3>1. object' = [object EXCEPT ![t] = [object[t] EXCEPT !.status = "edited"]]
      BY <2>3, <1>1 DEF PrePublish, TypeOK
    <3>2. LET row == [object[t] EXCEPT !.status = "edited"]
          IN  row \in ObjectType /\ row.status # "published"
      BY <1>1 DEF ObjectType, Statuses
    <3> QED
      BY <3>1, <3>2
  <2>4. CASE AcceptTheirs(t)
    <3> DEFINE row == [[object[t] EXCEPT !.business = ~object[t].business] EXCEPT !.fixed = FALSE]
    <3>1. object' = [object EXCEPT ![t] = row] /\ t \in adopted'
      BY <2>4, <1>1 DEF AcceptTheirs, TypeOK, ObjectType
    <3>2. row \in ObjectType
      BY <1>1 DEF ObjectType
    <3> QED
      BY <3>1, <3>2
  <2> QED
    BY <2>1, <2>2, <2>3, <2>4
<1>5. object' \in [Tables -> ObjectType \union {None}]
  BY <1>1, <1>4 DEF TypeOK
<1>6. \A o \in Tables : IF o = t THEN object'[o] = row ELSE object'[o] = object[o]
  BY <1>1, <1>4 DEF TypeOK
<1>7. Objects' = Objects /\ PinnedOrAdopted' /\ VersionOrPending'
  <2>1. \A o \in Tables :
            \/ object'[o] = object[o]
            \/ /\ o \in Objects /\ object'[o] # None
               /\ \/ object'[o].status # "published"
                  \/ o \in adopted'
                  \/ /\ object[o].status = "published" /\ object'[o].pending
                     /\ object[o].fixed => object'[o].fixed
    BY <1>1, <1>4, <1>6
  <2> QED
    BY <2>1, <1>2, <1>3, <1>5, TouchedRows
<1>8. NoDangling' /\ RelationsInv'
  BY <1>2, <1>7
     DEF PublishInv, NoDangling, RelationsInv, Tombstones, OneRow, Related
<1> QED
  BY <1>1, <1>2, <1>3, <1>5, <1>7, <1>8 DEF PublishInv, ObjectsInv, TypeOK

(* What a change of one relation alone leaves as it is.                      *)
LEMMA RelationOnly ==
    ASSUME PublishInv, UNCHANGED <<object, snapshot, adopted>>, refused' \subseteq Pairs,
           relation' \in [Relations -> RelationType \union {None}], NoDangling', RelationsInv'
    PROVE  PublishInv'
<1>1. Objects' = Objects
  BY DEF Objects
<1>2. PinnedOrAdopted' /\ VersionOrPending'
  BY <1>1 DEF PublishInv, ObjectsInv, PinnedOrAdopted, VersionOrPending
<1> QED
  BY <1>2 DEF PublishInv, ObjectsInv, TypeOK

(* People create, change and delete relations.                               *)
LEMMA RelationEditsInv ==
    ASSUME PublishInv, NEW r \in Relations, NEW ends \in Pairs, NEW m \in Tables \union {None},
           \/ CreateRelation(r, ends, m) \/ UpdateRelation(r, ends, m)
           \/ PrePublishRelation(r) \/ DeleteRelation(r)
    PROVE  PublishInv'
<1> USE RowsAssumption
<1>1. TypeOK /\ refused \subseteq Pairs
  BY DEF PublishInv, ObjectsInv, TypeOK
<1>2. UNCHANGED <<object, snapshot, adopted>> /\ Objects' = Objects
  BY DEF CreateRelation, UpdateRelation, PrePublishRelation, DeleteRelation, Objects
<1>3. CASE CreateRelation(r, ends, m)
  <2> DEFINE row == Created(ends, m, "suggested")
  <2>1. row \in RelationType /\ row.generated = None /\ row.ends = ends
    BY DEF Created, RelationType, Statuses
  <2>2. /\ r \notin Related /\ ends \subseteq Objects /\ refused' = refused
        /\ relation' = [relation EXCEPT ![r] = row]
    BY <1>3 DEF CreateRelation, Wellformed
  <2> HIDE DEF row
  <2> QED
    BY <2>1, <2>2, <1>1, <1>2, RelationRow, RelationOnly
<1>4. CASE r \in Related /\ ~CreateRelation(r, ends, m)
  <2> DEFINE old == relation[r]
  <2>1. old \in RelationType /\ old.ends \subseteq Objects
    BY <1>1, <1>4, RowsOfRelations DEF PublishInv, NoDangling
  <2>2. relation \in [Relations -> RelationType \union {None}]
    BY <1>1 DEF TypeOK
  <2>3. CASE UpdateRelation(r, ends, m)
    <3> DEFINE mid == [old EXCEPT !.ends = ends, !.mapping = m]
               row == MarkEditedRelation(mid)
    <3>1. mid \in RelationType /\ mid.ends = ends /\ mid.generated = old.generated
          /\ mid.deleted = old.deleted
      BY <2>1 DEF RelationType
    <3>2. /\ row \in RelationType /\ row.ends = ends /\ row.generated = old.generated
          /\ row.deleted = old.deleted
      <4> HIDE DEF mid
      <4>1. CASE mid.status = "published"
        BY <3>1, <4>1 DEF MarkEditedRelation
      <4>2. CASE mid.status # "published"
        BY <3>1, <4>2 DEF MarkEditedRelation, RelationType, Statuses
      <4> QED
        BY <4>1, <4>2
    <3>3. ends \subseteq Objects /\ refused' = refused /\ relation' = [relation EXCEPT ![r] = row]
      BY <2>2, <2>3 DEF UpdateRelation, Wellformed
    <3> HIDE DEF row
    <3> QED
      BY <3>2, <3>3, <1>1, <1>2, <1>4, RelationRow, RelationOnly
  <2>4. CASE PrePublishRelation(r)
    <3> DEFINE row == [old EXCEPT !.status = "edited"]
    <3>1. /\ row \in RelationType /\ row.ends = old.ends /\ row.generated = old.generated
          /\ row.deleted = old.deleted
      BY <2>1 DEF RelationType, Statuses
    <3>2. refused' = refused /\ relation' = [relation EXCEPT ![r] = row]
      BY <2>2, <2>4 DEF PrePublishRelation
    <3> HIDE DEF row
    <3> QED
      BY <3>1, <3>2, <2>1, <1>1, <1>2, <1>4, RelationRow, RelationOnly
  <2>5. CASE DeleteRelation(r)
    <3> DEFINE row == [old EXCEPT !.deleted = TRUE, !.status = "edited"]
    <3>1. /\ row \in RelationType /\ row.ends = old.ends /\ row.generated = old.generated
          /\ row.deleted
      BY <2>1 DEF RelationType, Statuses
    <3>2. /\ refused' = refused \union ({row.generated} \ {None})
          /\ relation' = [relation EXCEPT ![r] = row]
      BY <2>2, <2>5, <3>1 DEF DeleteRelation
    <3>3. refused' \subseteq Pairs
      BY <3>1, <3>2, <1>1 DEF RelationType
    <3> HIDE DEF row
    <3> QED
      BY <3>1, <3>2, <3>3, <2>1, <1>1, <1>2, <1>4, RelationRow, RelationOnly
  <2> QED
    BY <1>4, <2>3, <2>4, <2>5
<1> QED
  BY <1>3, <1>4 DEF UpdateRelation, PrePublishRelation, DeleteRelation

(* Converting an object changes rows of both kinds.                          *)
LEMMA ConvertInv ==
    ASSUME PublishInv, NEW t \in Tables, NEW r \in Relations, NEW ends \in Pairs,
           Convert(t, r, ends)
    PROVE  PublishInv'
<1> USE RowsAssumption
<1>1. TypeOK /\ \A o \in Objects : object[o] \in ObjectType
  BY RowsOfObjects DEF PublishInv, ObjectsInv
<1>2. /\ r \notin Related /\ t \in Objects /\ ends \subseteq Objects
      /\ relation' = [relation EXCEPT ![r] = Created(ends, t, "edited")]
      /\ UNCHANGED <<snapshot, adopted, refused>>
  BY DEF Convert, Wellformed
<1>3. object' = [o \in Tables |->
            IF o = t THEN WithRole(object[o], FALSE)
            ELSE IF o \in {e \in ends : ~object[e].business}
            THEN [WithRole(object[o], TRUE) EXCEPT !.needs_review = FALSE]
            ELSE object[o]]
  BY DEF Convert
<1>4. ASSUME NEW o \in Tables
      PROVE  \/ object'[o] = object[o]
             \/ /\ o \in Objects /\ object'[o] \in ObjectType
                /\ \/ object'[o].status # "published"
                   \/ /\ object[o].status = "published" /\ object'[o].pending
                      /\ object[o].fixed => object'[o].fixed
  <2>1. CASE o = t
    <3> DEFINE new == WithRole(object[o], FALSE)
    <3>1. object'[o] = new
      BY <2>1, <1>3
    <3>2. /\ new \in ObjectType /\ new.fixed
          /\ new.status = "published" => object[o].status = "published" /\ new.pending
      BY <2>1, <1>1, <1>2, MarkedRows
    <3> HIDE DEF new
    <3> QED
      BY <3>1, <3>2, <2>1, <1>2
  <2>2. CASE o # t /\ o \in ends /\ ~object[o].business
    <3> DEFINE new == WithRole(object[o], TRUE)
    <3>1. object'[o] = [new EXCEPT !.needs_review = FALSE]
      BY <2>2, <1>3
    <3>2. /\ new \in ObjectType /\ new.fixed
          /\ new.status = "published" => object[o].status = "published" /\ new.pending
      BY <2>2, <1>1, <1>2, MarkedRows
    <3> HIDE DEF new
    <3>3. /\ object'[o] \in ObjectType /\ object'[o].status = new.status
          /\ object'[o].fixed = new.fixed /\ object'[o].pending = new.pending
      BY <3>1, <3>2 DEF ObjectType
    <3> QED
      BY <3>2, <3>3, <2>2, <1>2
  <2>3. CASE o # t /\ ~(o \in ends /\ ~object[o].business)
    BY <2>3, <1>3
  <2> QED
    BY <2>1, <2>2, <2>3
<1>5. object' \in [Tables -> ObjectType \union {None}]
  <2>1. \A o \in Tables : object'[o] \in ObjectType \union {None}
    BY <1>1, <1>4 DEF TypeOK
  <2> QED
    BY <2>1, <1>3
<1>6. Objects' = Objects /\ PinnedOrAdopted' /\ VersionOrPending'
  <2>1. adopted \subseteq adopted' /\ adopted' \subseteq Tables
    BY <1>1, <1>2 DEF TypeOK
  <2>2. \A o \in Tables : object'[o] \in ObjectType => object'[o] # None
    OBVIOUS
  <2> QED
    BY <2>1, <2>2, <1>2, <1>4, <1>5, TouchedRows
<1>7. relation' \in [Relations -> RelationType \union {None}] /\ NoDangling' /\ RelationsInv'
  <2> DEFINE row == Created(ends, t, "edited")
  <2>1. row \in RelationType /\ row.generated = None /\ row.ends = ends
    BY DEF Created, RelationType, Statuses
  <2> HIDE DEF row
  <2> QED
    BY <2>1, <1>2, <1>6, RelationRow DEF row
<1> QED
  BY <1>1, <1>2, <1>5, <1>6, <1>7 DEF PublishInv, ObjectsInv, TypeOK

------------------------------------------------------------------------------
LEMMA PublishKeeps ==
    ASSUME PublishInv, Publish PROVE PublishInv'
<1> USE RowsAssumption
<1>1. TypeOK /\ (\A o \in Objects : object[o] \in ObjectType)
      /\ \A r \in Related : relation[r] \in RelationType
  BY RowsOfObjects, RowsOfRelations DEF PublishInv, ObjectsInv
<1>2. ASSUME NEW t \in Tables
      PROVE  /\ t \in Promoted => /\ t \in Objects /\ object'[t] \in ObjectType
                                  /\ object'[t].fixed
                                  /\ object'[t].business /\ object[t].business
                                  /\ object[t].status # "deprecated"
             /\ t \notin Promoted => object'[t] = object[t]
  <2>1. CASE t \in Promoted
    <3>1. t \in Objects /\ object[t].business /\ object[t].status # "deprecated"
      BY <2>1 DEF Promoted, Confirmed
    <3>2. object'[t] = [object[t] EXCEPT !.status = "published", !.pending = FALSE, !.fixed = TRUE]
      BY <2>1 DEF Publish
    <3>3. object[t] \in ObjectType
      BY <3>1, <1>1
    <3> QED
      BY <2>1, <3>1, <3>2, <3>3 DEF ObjectType, Statuses
  <2>2. CASE t \notin Promoted
    BY <2>2 DEF Publish
  <2> QED
    BY <2>1, <2>2
<1>3. object' \in [Tables -> ObjectType \union {None}] /\ Objects' = Objects
  <2>1. \A t \in Tables : object'[t] \in ObjectType \union {None} /\ (object'[t] = None <=> object[t] = None)
    BY <1>1, <1>2 DEF TypeOK, Objects
  <2> QED
    BY <2>1 DEF Publish, Objects
<1>4. snapshot' = Captured /\ adopted' = adopted \ Promoted /\ refused' = refused
  BY DEF Publish
<1>5. PinnedOrAdopted'
  <2> SUFFICES ASSUME NEW t \in Objects', object'[t].status = "published", ~object'[t].fixed
               PROVE  t \in adopted'
    BY DEF PinnedOrAdopted
  <2>1. t \in Objects /\ t \in Tables
    BY <1>3 DEF Objects
  <2> QED
    BY <2>1, <1>2, <1>4 DEF PublishInv, ObjectsInv, PinnedOrAdopted
<1>6. VersionOrPending'
  <2> SUFFICES ASSUME NEW t \in Objects', object'[t].status = "published", object'[t].business
               PROVE  t \in snapshot'
    BY DEF VersionOrPending
  <2>1. t \in Objects /\ t \in Tables
    BY <1>3 DEF Objects
  <2>2. object[t].business /\ object[t].status # "deprecated"
    BY <2>1, <1>2
  <2> QED
    BY <2>1, <2>2, <1>4 DEF Captured
<1>7. ASSUME NEW r \in Relations
      PROVE  /\ relation'[r] \in RelationType \union {None}
             /\ relation'[r] = None <=> relation[r] = None
             /\ r \in Related => /\ relation'[r].ends = relation[r].ends
                                 /\ relation'[r].generated = relation[r].generated
                                 /\ relation'[r].deleted = relation[r].deleted
  <2>1. CASE r \in Selected
    <3>1. r \in Related /\ relation[r] \in RelationType /\ relation[r] # None
      BY <2>1, <1>1 DEF Selected, Related
    <3>2. relation'[r] = [relation[r] EXCEPT !.status = "published"]
      BY <2>1 DEF Publish
    <3>3. relation'[r] \in RelationType
      BY <3>1, <3>2 DEF RelationType, Statuses
    <3>4. /\ relation'[r].ends = relation[r].ends
          /\ relation'[r].generated = relation[r].generated
          /\ relation'[r].deleted = relation[r].deleted
      BY <3>1, <3>2 DEF RelationType
    <3> QED
      BY <3>1, <3>3, <3>4
  <2>2. CASE r \notin Selected
    BY <2>2, <1>1 DEF Publish, TypeOK
  <2> QED
    BY <2>1, <2>2
<1>8. relation' \in [Relations -> RelationType \union {None}] /\ Related' = Related
  <2>1. \A r \in Relations : relation'[r] \in RelationType \union {None}
                             /\ (relation'[r] = None <=> relation[r] = None)
    BY <1>7
  <2>2. Related' = Related
    BY <2>1 DEF Related
  <2> QED
    BY <2>1, <2>2 DEF Publish
<1>9. \A r \in Related : /\ relation'[r].ends = relation[r].ends
                         /\ relation'[r].generated = relation[r].generated
                         /\ relation'[r].deleted = relation[r].deleted
  BY <1>7 DEF Related
<1>10. NoDangling' /\ RelationsInv'
  BY <1>3, <1>4, <1>8, <1>9 DEF PublishInv, NoDangling, RelationsInv, Tombstones, OneRow
<1>11. TypeOK'
  BY <1>1, <1>3, <1>4, <1>8 DEF TypeOK, Captured, Objects
<1> QED
  BY <1>5, <1>6, <1>10, <1>11 DEF PublishInv, ObjectsInv

LEMMA DiscardKeeps ==
    ASSUME PublishInv, Discard PROVE PublishInv'
<1>1. TypeOK
  BY DEF PublishInv, ObjectsInv
<1>2. Objects' = Objects \ Unpublished /\ \A t \in Objects' : object'[t] = object[t]
  BY DEF Discard, Objects, Unpublished
<1>3. Related' = Related \ Doomed /\ \A r \in Related' : relation'[r] = relation[r]
  BY DEF Discard, Related, Doomed
<1>4. /\ adopted' = adopted \ Unpublished /\ snapshot' = snapshot
      /\ refused' = refused \ {relation[r].generated : r \in Doomed}
  BY DEF Discard
<1>5. object' \in [Tables -> ObjectType \union {None}]
  BY <1>1 DEF Discard, TypeOK
<1>6. relation' \in [Relations -> RelationType \union {None}]
  BY <1>1 DEF Discard, TypeOK
<1>7. PinnedOrAdopted' /\ VersionOrPending'
  BY <1>2, <1>4 DEF PublishInv, ObjectsInv, PinnedOrAdopted, VersionOrPending
<1>8. NoDangling'
  <2> SUFFICES ASSUME NEW r \in Related' PROVE relation[r].ends \subseteq Objects'
    BY <1>3 DEF NoDangling
  <2>1. r \in Related /\ r \notin Doomed
    BY <1>3
  <2>2. relation[r].ends \subseteq Objects /\ relation[r].ends \cap Unpublished = {}
    BY <2>1 DEF PublishInv, NoDangling, Doomed
  <2> QED
    BY <2>2, <1>2
<1>9. Tombstones'
  <2> SUFFICES ASSUME NEW p \in refused'
               PROVE  \E q \in Related' : relation'[q].generated = p /\ relation'[q].deleted
    BY DEF Tombstones
  <2>1. PICK q \in Related : relation[q].generated = p /\ relation[q].deleted
    BY <1>4 DEF PublishInv, RelationsInv, Tombstones
  <2>2. q \notin Doomed
    BY <2>1, <1>4
  <2> QED
    BY <2>1, <2>2, <1>3
<1>10. OneRow'
  BY <1>3 DEF PublishInv, RelationsInv, OneRow
<1>11. TypeOK'
  BY <1>1, <1>4, <1>5, <1>6 DEF TypeOK
<1> QED
  BY <1>7, <1>8, <1>9, <1>10, <1>11 DEF PublishInv, ObjectsInv, RelationsInv

LEMMA NextPublish == PublishInv /\ [Next]_vars => PublishInv'
<1> SUFFICES ASSUME PublishInv, [Next]_vars PROVE PublishInv'
  OBVIOUS
<1>1. CASE GenerateAll \/ GenerateObjects \/ GenerateRelations
  BY <1>1, GenerationInv
<1>2. CASE \E t \in Tables : EditRole(t) \/ EditFields(t) \/ PrePublish(t) \/ AcceptTheirs(t)
  BY <1>2, ObjectEditsInv
<1>3. CASE \E t \in Tables : \E r \in Relations, ends \in Pairs : Convert(t, r, ends)
  BY <1>3, ConvertInv
<1>4. CASE \E r \in Relations : \E ends \in Pairs, m \in Tables \union {None} :
                CreateRelation(r, ends, m) \/ UpdateRelation(r, ends, m)
  BY <1>4, RelationEditsInv
<1>5. CASE \E r \in Relations : PrePublishRelation(r) \/ DeleteRelation(r)
  <2>1. PICK r \in Relations : PrePublishRelation(r) \/ DeleteRelation(r)
    BY <1>5
  <2>2. relation[r].ends \in Pairs
    BY <2>1, RowsOfRelations DEF PublishInv, ObjectsInv, RelationType, PrePublishRelation, DeleteRelation
  <2> QED
    BY <2>1, <2>2, RelationEditsInv
<1>6. CASE Publish
  BY <1>6, PublishKeeps
<1>7. CASE Discard
  BY <1>7, DiscardKeeps
<1>8. CASE UNCHANGED vars
  BY <1>8 DEF vars, PublishInv, ObjectsInv, RelationsInv, TypeOK, PinnedOrAdopted,
     VersionOrPending, NoDangling, Tombstones, OneRow, Objects, Related
<1> QED
  BY <1>1, <1>2, <1>3, <1>4, <1>5, <1>6, <1>7, <1>8 DEF Next

LEMMA PublishAlways == Spec => []PublishInv
  BY InitPublish, NextPublish, PTL DEF Spec

------------------------------------------------------------------------------
(* The rows of objects and relations have their types, whatever generations, *)
(* people, publishing and discarding make of them.                           *)
THEOREM RowsTyped == Spec => []TypeOK
<1>1. PublishInv => TypeOK
  BY DEF PublishInv, ObjectsInv
<1> QED
  BY <1>1, PublishAlways, PTL

(* No relation refers to an object that _handle_object_removal or            *)
(* discard_unpublished has deleted.                                          *)
THEOREM EndsStay == Spec => []NoDangling
<1>1. PublishInv => NoDangling
  BY DEF PublishInv
<1> QED
  BY <1>1, PublishAlways, PTL

(* A published business object is in the last version or marked as changed,  *)
(* unless people accepted a role of the machine for it.                      *)
THEOREM VersionsAccountFor == Spec => []VersionOrPending
<1>1. PublishInv => VersionOrPending
  BY DEF PublishInv, ObjectsInv
<1> QED
  BY <1>1, PublishAlways, PTL

(* Merging does not bring back a generated relation that people deleted,     *)
(* until its row is discarded.                                               *)
THEOREM DeletedForGood == Spec => []DeletedStays
<1>1. PublishInv => DeletedStays
  <2> SUFFICES ASSUME PublishInv, NEW r \in Related, relation[r].generated \in refused
               PROVE  relation[r].deleted
    BY DEF DeletedStays
  <2>1. relation[r].generated # None
    BY RowsAssumption DEF PublishInv, ObjectsInv, TypeOK
  <2>2. PICK q \in Related : relation[q].generated = relation[r].generated /\ relation[q].deleted
    BY DEF PublishInv, RelationsInv, Tombstones
  <2> QED
    BY <2>1, <2>2 DEF PublishInv, RelationsInv, OneRow
<1> QED
  BY <1>1, PublishAlways, PTL
=============================================================================
