------------------------ MODULE ModelContractsProofs ------------------------
(***************************************************************************)
(* The contracts and the dimensional model keep their invariants, for any  *)
(* ontology, any edits of people and any design.                           *)
(***************************************************************************)
EXTENDS ModelContracts, TLAPS

\* A pin is somebody's choice of a field of a contract that is there.
ChosenHasContract ==
  \A t \in Targets : contract[t] = NoContract =>
    \A f \in Fields : ~IsChosen(t, f)

ContractsInv ==
  TypeOK /\ PinnedKept /\ ChosenHasContract /\ FreshAgrees /\ ForeignKeyNotBuilt

-----------------------------------------------------------------------------
(* What a derivation and a design write.                                   *)

LEMMA RowType ==
  ASSUME NEW a \in Values, NEW b \in Values, NEW c \in Values
  PROVE  Row(a, b, c) \in [Fields -> Values]
BY DEF Row, Fields

LEMMA DerivedType ==
  ASSUME NEW t PROVE Derived(t) \in [Fields -> Values]
BY RowType DEF Derived, Values, Layers, Loads

LEMMA CompiledType ==
  ASSUME NEW d PROVE Compiled(d) \in [Fields -> Values]
BY RowType DEF Compiled, Values, Layers, Loads

\* A contract holds what the machine wrote, but for its pins.
LEMMA WrittenIs ==
  ASSUME NEW c \in ContractType \cup {NoContract},
         NEW row \in [Fields -> Values]
  PROVE  /\ Written(c, row) \in ContractType
         /\ ~Written(c, row).removed
         /\ c = NoContract => Written(c, row).pinned = {}
         /\ c # NoContract => Written(c, row).pinned = c.pinned
         /\ \A f \in Fields : f \in Written(c, row).pinned =>
              Written(c, row).value[f] = c.value[f]
         /\ \A f \in Fields : f \notin Written(c, row).pinned =>
              Written(c, row).value[f] = row[f]
<1>1. CASE c = NoContract
  BY <1>1 DEF Written, Created, ContractType
<1>2. CASE c # NoContract
  BY <1>2 DEF Written, Merged, ContractType
<1>. QED BY <1>1, <1>2

\* What the correction of a foreign key leaves of a contract.
LEMMA CorrectedIs ==
  ASSUME NEW t \in Targets, NEW c \in ContractType
  PROVE  /\ Corrected(t, c) \in ContractType
         /\ Corrected(t, c).removed = c.removed
         /\ kind[t] = "foreign_key" =>
              Corrected(t, c).value["materialized"] # "built"
         /\ MustCorrect(t, c) =>
              /\ Corrected(t, c).pinned = c.pinned \cup {"materialized"}
              /\ Corrected(t, c).value["materialized"] = "not_built"
              /\ \A f \in Fields \ {"materialized"} :
                   Corrected(t, c).value[f] = c.value[f]
         /\ ~MustCorrect(t, c) => Corrected(t, c) = c
BY DEF Corrected, Pinning, MustCorrect, ContractType, Fields, Values, Layers, Loads

-----------------------------------------------------------------------------
(* One target through a derivation.                                        *)

\* A contract c whose choices are ch holds them.
Holds(c, ch, exempt) ==
  /\ c.pinned = {f \in Fields : ch[f] # "none"}
  /\ ~exempt => \A f \in c.pinned : c.value[f] = ch[f]

LEMMA SyncedExisting ==
  ASSUME TypeOK, PinnedKept, ChosenHasContract, NEW t \in Existing
  PROVE  /\ Synced(t) \in ContractType
         /\ ~Synced(t).removed
         /\ ChosenAfterSync(t) \in [Fields -> Values]
         /\ Holds(Synced(t), ChosenAfterSync(t), t \in forced)
         /\ t \notin forced => \A f \in Fields : Synced(t).value[f] =
              IF ChosenAfterSync(t)[f] # "none"
              THEN ChosenAfterSync(t)[f] ELSE Derived(t)[f]
         /\ kind[t] = "foreign_key" =>
              Synced(t).value["materialized"] # "built"
<1> DEFINE w == Written(contract[t], Derived(t))
<1>1. t \in Targets
  BY DEF Existing
<1>2. /\ contract[t] \in ContractType \cup {NoContract}
      /\ chosen[t] \in [Fields -> Values]
  BY <1>1 DEF TypeOK
<1>3. /\ w \in ContractType
      /\ ~w.removed
      /\ contract[t] = NoContract => w.pinned = {}
      /\ contract[t] # NoContract => w.pinned = contract[t].pinned
      /\ \A f \in Fields : f \in w.pinned => w.value[f] = contract[t].value[f]
      /\ \A f \in Fields : f \notin w.pinned => w.value[f] = Derived(t)[f]
  BY <1>2, WrittenIs, DerivedType
<1>4. w.pinned \subseteq Fields
  BY <1>3 DEF ContractType
<1>5. Holds(w, chosen[t], t \in forced)
  <2>1. CASE contract[t] = NoContract
    BY <1>1, <1>3, <2>1 DEF Holds, ChosenHasContract, IsChosen
  <2>2. CASE contract[t] # NoContract
    BY <1>1, <1>3, <1>4, <2>2 DEF Holds, PinnedKept, IsChosen
  <2>. QED BY <2>1, <2>2
<1>6. /\ Synced(t) = Corrected(t, w)
      /\ ChosenAfterSync(t) = IF MustCorrect(t, w)
                              THEN [chosen[t] EXCEPT !["materialized"] = "not_built"]
                              ELSE chosen[t]
  BY DEF Synced, ChosenAfterSync
<1>7. /\ Synced(t) \in ContractType
      /\ ~Synced(t).removed
  BY <1>1, <1>3, <1>6, CorrectedIs
<1>8. CASE MustCorrect(t, w)
  <2>1. /\ Synced(t).pinned = w.pinned \cup {"materialized"}
        /\ Synced(t).value["materialized"] = "not_built"
        /\ \A f \in Fields \ {"materialized"} : Synced(t).value[f] = w.value[f]
    BY <1>1, <1>3, <1>6, <1>8, CorrectedIs
  <2>2. /\ ChosenAfterSync(t) = [chosen[t] EXCEPT !["materialized"] = "not_built"]
        /\ ChosenAfterSync(t) \in [Fields -> Values]
        /\ ChosenAfterSync(t)["materialized"] = "not_built"
        /\ \A f \in Fields \ {"materialized"} : ChosenAfterSync(t)[f] = chosen[t][f]
    BY <1>2, <1>6, <1>8 DEF Fields, Values
  <2>3. Holds(Synced(t), ChosenAfterSync(t), t \in forced)
    BY <1>4, <1>5, <2>1, <2>2 DEF Holds, Fields
  <2>4. t \notin forced => \A f \in Fields : Synced(t).value[f] =
           IF ChosenAfterSync(t)[f] # "none"
           THEN ChosenAfterSync(t)[f] ELSE Derived(t)[f]
    BY <1>3, <1>5, <2>1, <2>2 DEF Holds
  <2>. QED BY <1>1, <1>3, <1>6, <1>7, <2>2, <2>3, <2>4, CorrectedIs
<1>9. CASE ~MustCorrect(t, w)
  <2>1. Synced(t) = w /\ ChosenAfterSync(t) = chosen[t]
    BY <1>1, <1>3, <1>6, <1>9, CorrectedIs
  <2>2. t \notin forced => \A f \in Fields : Synced(t).value[f] =
           IF ChosenAfterSync(t)[f] # "none"
           THEN ChosenAfterSync(t)[f] ELSE Derived(t)[f]
    BY <1>3, <1>5, <2>1 DEF Holds
  <2>. QED BY <1>1, <1>2, <1>3, <1>5, <1>6, <1>7, <2>1, <2>2, CorrectedIs
<1>. QED BY <1>8, <1>9

LEMMA SyncedAbsent ==
  ASSUME TypeOK, PinnedKept, ChosenHasContract, NEW t \in Targets \ Existing
  PROVE  /\ Synced(t) \in ContractType \cup {NoContract}
         /\ ChosenAfterSync(t) = chosen[t]
         /\ Synced(t) = NoContract <=> contract[t] = NoContract
         /\ Synced(t) # NoContract =>
              Synced(t).removed /\ Holds(Synced(t), chosen[t], t \in forced)
<1>1. contract[t] \in ContractType \cup {NoContract}
  BY DEF TypeOK
<1>2. CASE contract[t] = NoContract
  BY <1>2 DEF Synced, ChosenAfterSync
<1>3. CASE contract[t] # NoContract
  <2>1. Synced(t) = [contract[t] EXCEPT !.removed = TRUE]
    BY <1>3 DEF Synced
  <2>2. Synced(t) \in ContractType /\ Synced(t).removed
    BY <1>1, <1>3, <2>1 DEF ContractType
  <2>3. Holds(contract[t], chosen[t], t \in forced)
    BY <1>3 DEF PinnedKept, Holds, IsChosen
  <2>4. Holds(Synced(t), chosen[t], t \in forced)
    BY <1>1, <1>3, <2>1, <2>3 DEF Holds, ContractType
  <2>. QED BY <1>3, <2>2, <2>4, ContractsAssumption DEF ChosenAfterSync
<1>. QED BY <1>2, <1>3

-----------------------------------------------------------------------------
(* The steps.                                                              *)

THEOREM ContractsInit == Init => ContractsInv
<1>. SUFFICES ASSUME Init PROVE ContractsInv
  OBVIOUS
<1>1. TypeOK
  BY DEF Init, TypeOK, Values
<1>. QED
  BY <1>1 DEF Init, ContractsInv, PinnedKept, ChosenHasContract, FreshAgrees,
    ForeignKeyNotBuilt, IsChosen

\* A change of the ontology leaves the contracts alone, and what it changes
\* is fresh no longer.
LEMMA OntologyStep ==
  ASSUME ContractsInv, Ontology PROVE ContractsInv'
<1>. USE DEF ContractsInv
<1>1. /\ UNCHANGED <<contract, model, chosen, forced>>
      /\ fresh' \subseteq fresh
      /\ TypeOK'
  <2>1. ASSUME NEW t \in Targets, NEW k \in KindsOf(t), SetKind(t, k)
        PROVE  <1>1!1 /\ <1>1!2 /\ <1>1!3
    BY <2>1, ContractsAssumption DEF SetKind, KindsOf, TypeOK
  <2>2. ASSUME NEW t \in Targets, Remove(t)
        PROVE  <1>1!1 /\ <1>1!2 /\ <1>1!3
    BY <2>2 DEF Remove, TypeOK
  <2>3. ASSUME NEW o \in Objects, Retime(o)
        PROVE  <1>1!1 /\ <1>1!2 /\ <1>1!3
    BY <2>3 DEF Retime, TypeOK
  <2>. QED BY <2>1, <2>2, <2>3 DEF Ontology
<1>2. ASSUME NEW t \in fresh'
      PROVE  kind'[t] = kind[t] /\ (t \in Objects => (t \in timed') = (t \in timed))
             /\ (t \in Relations => (Mapping[t] \in timed') = (Mapping[t] \in timed))
  <2>1. ASSUME NEW u \in Targets, NEW k \in KindsOf(u), SetKind(u, k)
        PROVE  kind'[t] = kind[t] /\ timed' = timed
    BY <2>1 DEF SetKind, TypeOK
  <2>2. ASSUME NEW u \in Targets, Remove(u)
        PROVE  kind'[t] = kind[t] /\ timed' = timed
    BY <2>2 DEF Remove, TypeOK
  <2>3. ASSUME NEW o \in Objects, Retime(o)
        PROVE  /\ kind' = kind
               /\ t # o
               /\ t \in Relations => Mapping[t] # o
               /\ \A x : x # o => (x \in timed') = (x \in timed)
    BY <2>3 DEF Retime
  <2>. QED BY <2>1, <2>2, <2>3 DEF Ontology
<1>3. ASSUME NEW t \in fresh'
      PROVE  (t \in Existing)' = (t \in Existing) /\ Derived(t)' = Derived(t)
  <2>1. t \in Targets
    BY <1>1 DEF TypeOK
  <2>. QED BY <1>2, <2>1 DEF Existing, Derived, Built, HasTime, Targets
<1>4. PinnedKept' /\ ChosenHasContract'
  BY <1>1 DEF PinnedKept, ChosenHasContract, IsChosen
<1>5. FreshAgrees'
  BY <1>1, <1>3 DEF FreshAgrees, IsChosen
<1>6. ForeignKeyNotBuilt'
  BY <1>1, <1>2 DEF ForeignKeyNotBuilt
<1>. QED BY <1>1, <1>4, <1>5, <1>6

\* A derivation writes every contract anew.
LEMMA SyncStep ==
  ASSUME ContractsInv, Sync PROVE ContractsInv'
<1>. USE DEF ContractsInv
<1>1. \A t \in Targets : contract'[t] = Synced(t) /\ chosen'[t] = ChosenAfterSync(t)
  BY DEF Sync
<1>2. UNCHANGED <<kind, timed, model, forced>> /\ fresh' = Targets
  BY DEF Sync
<1>3. \A t \in Targets : /\ Synced(t) \in ContractType \cup {NoContract}
                         /\ ChosenAfterSync(t) \in [Fields -> Values]
  BY SyncedExisting, SyncedAbsent DEF TypeOK
<1>4. TypeOK'
  BY <1>2, <1>3 DEF Sync, TypeOK
<1>5. \A t \in Targets : (t \in Existing)' = (t \in Existing) /\ Derived(t)' = Derived(t)
  BY <1>2 DEF Existing, Derived, Built, HasTime
<1>6. ASSUME NEW t \in Targets
      PROVE  /\ contract'[t] # NoContract => Holds(contract'[t], chosen'[t], t \in forced')
             /\ contract'[t] = NoContract => \A f \in Fields : chosen'[t][f] = "none"
  <2>1. CASE t \in Existing
    BY <1>1, <1>2, <2>1, SyncedExisting, ContractsAssumption
  <2>2. CASE t \notin Existing
    BY <1>1, <1>2, <2>2, SyncedAbsent DEF ChosenHasContract, IsChosen
  <2>. QED BY <2>1, <2>2
<1>7. PinnedKept' /\ ChosenHasContract'
  BY <1>6 DEF PinnedKept, ChosenHasContract, Holds, IsChosen
<1>8. FreshAgrees'
  <2>. SUFFICES ASSUME NEW t \in Targets
       PROVE  IF t \in Existing
              THEN /\ contract'[t] # NoContract
                   /\ ~contract'[t].removed
                   /\ t \notin forced' => \A f \in Fields : contract'[t].value[f] =
                        IF chosen'[t][f] # "none" THEN chosen'[t][f] ELSE Derived(t)[f]
              ELSE contract'[t] # NoContract => contract'[t].removed
    BY <1>2, <1>5 DEF FreshAgrees, IsChosen
  <2>1. CASE t \in Existing
    BY <1>1, <1>2, <2>1, SyncedExisting, ContractsAssumption
  <2>2. CASE t \notin Existing
    BY <1>1, <2>2, SyncedAbsent
  <2>. QED BY <2>1, <2>2
<1>9. ForeignKeyNotBuilt'
  BY <1>1, <1>2, SyncedExisting DEF ForeignKeyNotBuilt, Existing, Targets
<1>. QED BY <1>4, <1>7, <1>8, <1>9

\* A sync execution derives too, and then overwrites one object.
LEMMA SyncExecutionStep ==
  ASSUME ContractsInv, NEW o \in Objects, SyncExecution(o)
  PROVE  ContractsInv'
<1>. USE DEF ContractsInv
<1> DEFINE c == Synced(o)
           hit == Forces(c)
           overPin == \E f \in c.pinned : InOds(c).value[f] # c.value[f]
<1>1. /\ o \in Existing
      /\ contract' = [t \in Targets |-> IF t = o /\ hit THEN InOds(c) ELSE Synced(t)]
      /\ chosen' = [t \in Targets |-> ChosenAfterSync(t)]
      /\ fresh' = IF hit THEN Targets \ {o} ELSE Targets
      /\ forced' = IF overPin THEN forced \cup {o} ELSE forced
      /\ UNCHANGED <<kind, timed, model>>
  BY DEF SyncExecution
<1>2. c \in ContractType
  BY <1>1, SyncedExisting
<1>3. /\ InOds(c) \in ContractType
      /\ InOds(c).pinned = c.pinned
  BY <1>2 DEF InOds, ContractType, Fields, Values, Layers
<1>4. TypeOK'
  <2>1. \A t \in Targets : /\ Synced(t) \in ContractType \cup {NoContract}
                           /\ ChosenAfterSync(t) \in [Fields -> Values]
    BY SyncedExisting, SyncedAbsent DEF TypeOK
  <2>. QED BY <1>1, <1>3, <2>1 DEF TypeOK, Targets
<1>5. forced \subseteq forced'
  BY <1>1
<1>6. ASSUME NEW t \in Targets
      PROVE  /\ contract'[t] # NoContract => Holds(contract'[t], chosen'[t], t \in forced')
             /\ contract'[t] = NoContract => \A f \in Fields : chosen'[t][f] = "none"
  <2>1. CASE t = o /\ hit
    <3>1. contract'[t] = InOds(c) /\ chosen'[t] = ChosenAfterSync(o)
      BY <1>1, <2>1
    <3>2. Holds(c, chosen'[t], o \in forced)
      BY <1>1, <3>1, SyncedExisting
    <3>3. CASE overPin
      BY <1>1, <1>3, <2>1, <3>1, <3>2, <3>3, ContractsAssumption DEF Holds
    <3>4. CASE ~overPin
      BY <1>1, <1>3, <2>1, <3>1, <3>2, <3>4, ContractsAssumption DEF Holds
    <3>. QED BY <3>3, <3>4
  <2>2. CASE ~(t = o /\ hit) /\ t \in Existing
    <3>1. contract'[t] = Synced(t) /\ chosen'[t] = ChosenAfterSync(t)
      BY <1>1, <2>2
    <3>2. Synced(t) \in ContractType /\ Holds(Synced(t), ChosenAfterSync(t), t \in forced)
      BY <2>2, SyncedExisting
    <3>. QED BY <1>5, <3>1, <3>2, ContractsAssumption DEF Holds
  <2>3. CASE ~(t = o /\ hit) /\ t \notin Existing
    <3>1. contract'[t] = Synced(t) /\ chosen'[t] = ChosenAfterSync(t)
      BY <1>1, <2>3
    <3>. QED BY <1>5, <2>3, <3>1, SyncedAbsent DEF ChosenHasContract, IsChosen, Holds
  <2>. QED BY <2>1, <2>2, <2>3
<1>7. PinnedKept' /\ ChosenHasContract'
  BY <1>6 DEF PinnedKept, ChosenHasContract, Holds, IsChosen
<1>8. \A t \in Targets : (t \in Existing)' = (t \in Existing) /\ Derived(t)' = Derived(t)
  BY <1>1 DEF Existing, Derived, Built, HasTime
<1>9. \A t \in fresh' : contract'[t] = Synced(t) /\ chosen'[t] = ChosenAfterSync(t)
  BY <1>1
<1>10. FreshAgrees'
  <2>. SUFFICES ASSUME NEW t \in fresh'
       PROVE  IF t \in Existing
              THEN /\ contract'[t] # NoContract
                   /\ ~contract'[t].removed
                   /\ t \notin forced' => \A f \in Fields : contract'[t].value[f] =
                        IF chosen'[t][f] # "none" THEN chosen'[t][f] ELSE Derived(t)[f]
              ELSE contract'[t] # NoContract => contract'[t].removed
    BY <1>4, <1>8 DEF FreshAgrees, IsChosen, TypeOK
  <2>0. t \in Targets
    BY <1>4 DEF TypeOK
  <2>1. CASE t \in Existing
    BY <1>5, <1>9, <2>1, SyncedExisting, ContractsAssumption
  <2>2. CASE t \notin Existing
    BY <1>9, <2>0, <2>2, SyncedAbsent
  <2>. QED BY <2>1, <2>2
<1>11. ForeignKeyNotBuilt'
  BY <1>1, <1>9, SyncedExisting DEF ForeignKeyNotBuilt, Existing, Targets
<1>. QED BY <1>4, <1>7, <1>10, <1>11

\* An edit is refused, or writes a value and pins it.
LEMMA PatchStep ==
  ASSUME ContractsInv, NEW p \in Patches, Patch(p[1], p[2], p[3])
  PROVE  ContractsInv'
<1>. USE DEF ContractsInv
<1> DEFINE t == p[1]
           f == p[2]
           v == p[3]
           d == Pinning(contract[t], f, v)
<1>1. t \in Targets /\ f \in Fields /\ v \in Values \ {"none"}
  BY ContractsAssumption
<1>2. /\ contract[t] # NoContract
      /\ ~Refused(t, f, v)
      /\ contract' = [contract EXCEPT ![t] = d]
      /\ chosen' = [chosen EXCEPT ![t] = [chosen[t] EXCEPT ![f] = v]]
      /\ UNCHANGED <<kind, timed, model, fresh, forced>>
  BY DEF Patch
<1>. HIDE DEF t, f, v
<1>3. contract[t] \in ContractType
  BY <1>1, <1>2 DEF TypeOK
<1>4. /\ d \in ContractType
      /\ d.pinned = contract[t].pinned \cup {f}
      /\ d.value[f] = v
      /\ \A g \in Fields \ {f} : d.value[g] = contract[t].value[g]
      /\ d.removed = contract[t].removed
  BY <1>1, <1>3 DEF ContractType, Pinning
<1>. HIDE DEF d
<1>5. /\ contract'[t] = d
      /\ chosen'[t] \in [Fields -> Values]
      /\ chosen'[t][f] = v
      /\ \A g \in Fields \ {f} : chosen'[t][g] = chosen[t][g]
      /\ \A u \in Targets \ {t} : contract'[u] = contract[u] /\ chosen'[u] = chosen[u]
  BY <1>1, <1>2 DEF TypeOK
<1>6. TypeOK'
  BY <1>1, <1>2, <1>4, <1>5 DEF TypeOK
<1>7. ASSUME NEW u \in Targets
      PROVE  /\ contract'[u] # NoContract => Holds(contract'[u], chosen'[u], u \in forced)
             /\ contract'[u] = NoContract => \A g \in Fields : chosen'[u][g] = "none"
  <2>1. CASE u = t
    <3>1. Holds(contract[t], chosen[t], t \in forced)
      BY <1>1, <1>2 DEF PinnedKept, Holds, IsChosen
    <3>2. Holds(d, chosen'[t], t \in forced)
      BY <1>1, <1>4, <1>5, <3>1 DEF Holds
    <3>. QED BY <1>4, <1>5, <2>1, <3>2, ContractsAssumption
  <2>2. CASE u # t
    BY <1>5, <2>2 DEF PinnedKept, ChosenHasContract, Holds, IsChosen
  <2>. QED BY <2>1, <2>2
<1>8. PinnedKept' /\ ChosenHasContract'
  BY <1>2, <1>7 DEF PinnedKept, ChosenHasContract, Holds, IsChosen
<1>9. \A u \in Targets : (u \in Existing)' = (u \in Existing) /\ Derived(u)' = Derived(u)
  BY <1>2 DEF Existing, Derived, Built, HasTime
<1>10. FreshAgrees'
  <2>. SUFFICES ASSUME NEW u \in fresh
       PROVE  IF u \in Existing
              THEN /\ contract'[u] # NoContract
                   /\ ~contract'[u].removed
                   /\ u \notin forced => \A g \in Fields : contract'[u].value[g] =
                        IF chosen'[u][g] # "none" THEN chosen'[u][g] ELSE Derived(u)[g]
              ELSE contract'[u] # NoContract => contract'[u].removed
    BY <1>2, <1>6, <1>9 DEF FreshAgrees, IsChosen, TypeOK
  <2>1. u \in Targets
    BY DEF TypeOK
  <2>2. CASE u # t
    BY <1>5, <2>1, <2>2 DEF FreshAgrees, IsChosen
  <2>3. CASE u = t
    BY <1>1, <1>2, <1>4, <1>5, <2>3, ContractsAssumption DEF FreshAgrees, IsChosen
  <2>. QED BY <2>2, <2>3
<1>11. ForeignKeyNotBuilt'
  <2>. SUFFICES ASSUME NEW r \in Relations, r \in fresh, kind[r] = "foreign_key"
       PROVE  contract'[r].value["materialized"] # "built"
    BY <1>2 DEF ForeignKeyNotBuilt
  <2>1. contract[r].value["materialized"] # "built"
    BY DEF ForeignKeyNotBuilt
  <2>2. CASE r = t
    BY <1>1, <1>2, <1>4, <1>5, <2>1, <2>2 DEF Refused, Fields
  <2>3. CASE r # t
    BY <1>5, <2>1, <2>3 DEF Targets
  <2>. QED BY <2>2, <2>3
<1>. QED BY <1>6, <1>8, <1>10, <1>11

\* A compiled design is written under the pins, and waits for a derivation.
LEMMA CompileStep ==
  ASSUME ContractsInv, CompileModel PROVE ContractsInv'
<1>. USE DEF ContractsInv
<1>1. /\ contract' = [t \in Targets |->
                       IF t \in Designed
                       THEN Written(contract[t], Compiled(model.design[t]))
                       ELSE contract[t]]
      /\ model' = [model EXCEPT !.status = "compiled"]
      /\ fresh' = fresh \ Designed
      /\ UNCHANGED <<kind, timed, chosen, forced>>
  BY DEF CompileModel
<1>2. ASSUME NEW t \in Targets, t \in Designed
      PROVE  /\ contract'[t] \in ContractType
             /\ Holds(contract'[t], chosen[t], t \in forced)
  <2> DEFINE w == Written(contract[t], Compiled(model.design[t]))
  <2>1. contract'[t] = w
    BY <1>1, <1>2
  <2>2. contract[t] \in ContractType \cup {NoContract}
    BY DEF TypeOK
  <2>3. /\ w \in ContractType
        /\ contract[t] = NoContract => w.pinned = {}
        /\ contract[t] # NoContract => w.pinned = contract[t].pinned
        /\ \A f \in Fields : f \in w.pinned => w.value[f] = contract[t].value[f]
    BY <2>2, WrittenIs, CompiledType
  <2>4. w.pinned \subseteq Fields
    BY <2>3 DEF ContractType
  <2>5. CASE contract[t] = NoContract
    BY <2>1, <2>3, <2>5 DEF Holds, ChosenHasContract, IsChosen
  <2>6. CASE contract[t] # NoContract
    BY <2>1, <2>3, <2>4, <2>6 DEF Holds, PinnedKept, IsChosen
  <2>. QED BY <2>5, <2>6
<1>3. ASSUME NEW t \in Targets, t \notin Designed
      PROVE  contract'[t] = contract[t]
  BY <1>1, <1>3
<1>4. TypeOK'
  <2>1. contract' \in [Targets -> ContractType \cup {NoContract}]
    BY <1>1, <1>2, <1>3 DEF TypeOK
  <2>. QED BY <1>1, <2>1 DEF TypeOK
<1>5. PinnedKept' /\ ChosenHasContract'
  BY <1>1, <1>2, <1>3, ContractsAssumption
    DEF PinnedKept, ChosenHasContract, Holds, IsChosen
<1>6. \A t \in Targets : (t \in Existing)' = (t \in Existing) /\ Derived(t)' = Derived(t)
  BY <1>1 DEF Existing, Derived, Built, HasTime
<1>7. FreshAgrees'
  BY <1>1, <1>3, <1>6 DEF FreshAgrees, IsChosen, TypeOK
<1>8. ForeignKeyNotBuilt'
  BY <1>1, <1>3 DEF ForeignKeyNotBuilt, Targets
<1>. QED BY <1>4, <1>5, <1>7, <1>8

\* What touches the model only, or nothing.
LEMMA ModelStep ==
  ASSUME ContractsInv, TypeOK', UNCHANGED <<kind, timed, contract, chosen, fresh, forced>>
  PROVE  ContractsInv'
BY DEF ContractsInv, PinnedKept, ChosenHasContract, FreshAgrees, ForeignKeyNotBuilt,
  IsChosen, Existing, Derived, Built, HasTime

LEMMA ModelType ==
  ASSUME TypeOK,
         \/ \E o \in Objects, d \in Designs \cup {"none"},
               flaw \in {"none", "rule", "schema"} : UpdateModel(o, d, flaw)
         \/ ValidateModel
         \/ ConfirmModel
  PROVE  /\ TypeOK'
         /\ UNCHANGED <<kind, timed, contract, chosen, fresh, forced>>
<1>1. ASSUME NEW o \in Objects, NEW d \in Designs \cup {"none"},
             NEW flaw \in {"none", "rule", "schema"}, UpdateModel(o, d, flaw)
      PROVE  model'.design \in [Objects -> AllDesigns \cup {"none"}]
  BY <1>1, ContractsAssumption DEF UpdateModel, TypeOK
<1>2. ASSUME NEW o \in Objects, NEW d \in Designs \cup {"none"},
             NEW flaw \in {"none", "rule", "schema"}, UpdateModel(o, d, flaw)
      PROVE  /\ TypeOK'
             /\ UNCHANGED <<kind, timed, contract, chosen, fresh, forced>>
  BY <1>1, <1>2 DEF UpdateModel, TypeOK
<1>3. CASE ValidateModel
  BY <1>3 DEF ValidateModel, TypeOK
<1>4. CASE ConfirmModel
  BY <1>4 DEF ConfirmModel, TypeOK
<1>. QED BY <1>2, <1>3, <1>4

THEOREM ContractsNext == ContractsInv /\ [Next]_vars => ContractsInv'
<1>. SUFFICES ASSUME ContractsInv, [Next]_vars PROVE ContractsInv'
  OBVIOUS
<1>1. CASE Ontology
  BY <1>1, OntologyStep
<1>2. CASE Modelling
  BY <1>2, CompileStep, ModelType, ModelStep DEF Modelling, ContractsInv
<1>3. CASE Sync
  BY <1>3, SyncStep
<1>4. ASSUME NEW o \in Objects, SyncExecution(o) PROVE ContractsInv'
  BY <1>4, SyncExecutionStep
<1>5. ASSUME NEW p \in Patches, Patch(p[1], p[2], p[3]) PROVE ContractsInv'
  BY <1>5, PatchStep
<1>6. CASE UNCHANGED vars
  <2>1. TypeOK'
    BY <1>6 DEF vars, ContractsInv, TypeOK
  <2>. QED BY <1>6, <2>1, ModelStep DEF vars
<1>. QED BY <1>1, <1>2, <1>3, <1>4, <1>5, <1>6 DEF Next

-----------------------------------------------------------------------------
(* The theorems.                                                           *)

\* Contracts and model are of their types.
THEOREM ContractsTypeOK == Spec => []TypeOK
<1>1. ContractsInv => TypeOK
  BY DEF ContractsInv
<1>. QED BY <1>1, ContractsInit, ContractsNext, PTL DEF Spec

\* No derivation and no compiled design loses what people have pinned.
THEOREM ContractsPinnedKept == Spec => []PinnedKept
<1>1. ContractsInv => PinnedKept
  BY DEF ContractsInv
<1>. QED BY <1>1, ContractsInit, ContractsNext, PTL DEF Spec

\* A derived contract is what people chose and what the ontology says.
THEOREM ContractsFreshAgrees == Spec => []FreshAgrees
<1>1. ContractsInv => FreshAgrees
  BY DEF ContractsInv
<1>. QED BY <1>1, ContractsInit, ContractsNext, PTL DEF Spec

\* No foreign key stays marked as a table through a derivation.
THEOREM ContractsForeignKeyNotBuilt == Spec => []ForeignKeyNotBuilt
<1>1. ContractsInv => ForeignKeyNotBuilt
  BY DEF ContractsInv
<1>. QED BY <1>1, ContractsInit, ContractsNext, PTL DEF Spec

\* No model with known errors stands.
THEOREM ModelStandsUnchallenged == Spec => []StandsUnchallenged
<1>1. Init => StandsUnchallenged
  BY DEF Init, StandsUnchallenged
<1>2. TypeOK /\ StandsUnchallenged /\ [Next]_vars => StandsUnchallenged'
  <2>. SUFFICES ASSUME TypeOK, StandsUnchallenged, [Next]_vars
       PROVE  StandsUnchallenged'
    OBVIOUS
  <2>1. CASE Modelling
    BY <2>1 DEF Modelling, UpdateModel, ValidateModel, ConfirmModel, CompileModel,
      StandsUnchallenged, TypeOK
  <2>2. CASE UNCHANGED model
    BY <2>2 DEF StandsUnchallenged
  <2>. QED
    BY <2>1, <2>2 DEF Next, Ontology, SetKind, Remove, Retime, Sync, SyncExecution,
      Patch, vars
<1>. QED BY <1>1, <1>2, ContractsTypeOK, PTL DEF Spec
=============================================================================
