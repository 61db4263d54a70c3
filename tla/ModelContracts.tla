--------------------------- MODULE ModelContracts ---------------------------
(***************************************************************************)
(* The materialization contracts of one ontology and the dimensional model *)
(* that is compiled into them.                                             *)
(*                                                                         *)
(* A contract says of an object or a relation of the ontology how it is    *)
(* built in the warehouse: in which layer, with which load, and whether it *)
(* is built at all.  Four parties write it:                                *)
(*                                                                         *)
(*   - the machine derives every contract from the ontology again whenever *)
(*     a deployment, a materialization or a sync is prepared (Sync);       *)
(*   - people patch a field, which pins it (Patch);                        *)
(*   - a confirmed dimensional model is compiled into contracts (Compile); *)
(*   - a sync execution makes the contracts of its sources built in the    *)
(*     ODS layer, whatever they say (SyncExecution).                       *)
(*                                                                         *)
(* Services: materialization_contract.py, dimensional_model.py and the     *)
(* head of _orchestrate in materialization_runner.py.  Each request is one *)
(* session that commits once, so that a request is one step.               *)
(***************************************************************************)
EXTENDS FiniteSets

CONSTANTS
  Objects,        \* the ids of object types, none of them ever used again
  Relations,      \* the ids of relation types
  Mapping,        \* the object that carries a relation
  ObjectKinds,    \* the roles and sources an object is given (a bound)
  RelationKinds,  \* the structures a relation is given (a bound)
  Designs,        \* what a dimensional model makes of an object (a bound)
  Patches,        \* the edits people make of a contract (a bound)
  NoContract

Targets == Objects \cup Relations

Fields == {"layer", "load", "materialized"}

Layers == {"ods", "dim", "dwd"}
Loads == {"full", "incremental", "scd2"}
Values == Layers \cup Loads \cup {"built", "not_built", "none"}

AllObjectKinds == {"business_object", "bridge", "data_table", "technical"}
AllRelationKinds == {"fact_table", "bridge_table", "foreign_key", "other"}
AllDesigns == {"scd2_dimension", "dimension", "partitioned_fact", "fact"}

\* The columns that _MACHINE_FIELDS names; load stands for load_strategy,
\* partition_key and scd_type.
Row(layer, load, materialized) ==
  [f \in Fields |-> CASE f = "layer" -> layer
                      [] f = "load" -> load
                      [] OTHER -> materialized]

ContractType ==
  [value : [Fields -> Values], pinned : SUBSET Fields,
   baseline : [Fields -> Values], removed : BOOLEAN]

ASSUME ContractsAssumption ==
  /\ Objects \cap Relations = {}
  /\ Mapping \in [Relations -> Objects]
  /\ ObjectKinds \subseteq AllObjectKinds
  /\ RelationKinds \subseteq AllRelationKinds
  /\ Designs \subseteq AllDesigns
  /\ Patches \subseteq Targets \X Fields \X (Values \ {"none"})
  /\ NoContract \notin ContractType

VARIABLES
  kind,      \* what each target is in the ontology: "none" yet, or "gone"
  timed,     \* the objects that have a property of a time
  contract,  \* the contract of a target
  model,     \* the dimensional model: status, issues, design and its flaw
  chosen,    \* history: the value a person (or the correction) pinned
  fresh,     \* history: the targets unchanged since their derivation
  forced     \* history: the targets a sync execution wrote a pin of

vars == <<kind, timed, contract, model, chosen, fresh, forced>>

-----------------------------------------------------------------------------
(* What the machine derives from the ontology, and what a design says.     *)

Existing == {t \in Targets : kind[t] \notin {"none", "gone"}}

Built(t) == kind[t] \in {"business_object", "bridge", "data_table",
                         "fact_table", "bridge_table"}

HasTime(t) == IF t \in Relations THEN Mapping[t] \in timed ELSE t \in timed

Derived(t) ==
  Row(IF kind[t] = "data_table" THEN "ods"
      ELSE IF kind[t] \in {"business_object", "technical"} THEN "dim" ELSE "dwd",
      IF Built(t) /\ HasTime(t) THEN "incremental" ELSE "full",
      IF Built(t) THEN "built" ELSE "not_built")

(* Mutant: the specification's word for the change, not the contract's. *)
CompiledVerbatim(d) ==
  Row("dim", IF d = "scd2_dimension" THEN "type2" ELSE "full", "built")

Compiled(d) ==
  Row(IF d \in {"scd2_dimension", "dimension"} THEN "dim" ELSE "dwd",
      IF d = "scd2_dimension" THEN "scd2"
      ELSE IF d = "partitioned_fact" THEN "incremental" ELSE "full",
      "built")

-----------------------------------------------------------------------------
(* Writing a contract.                                                     *)

Created(row) ==
  [value |-> row, pinned |-> {}, baseline |-> row, removed |-> FALSE]

(* Mutant: the machine writes every field. *)
MergedOverPins(c, row) == [Created(row) EXCEPT !.pinned = c.pinned]

(* Mutant: nothing is written when the derivation is what it was. *)
MergedWhenMoved(c, row) ==
  IF c.baseline = row THEN [c EXCEPT !.removed = FALSE]
  ELSE [value |-> [f \in Fields |-> IF f \in c.pinned THEN c.value[f] ELSE row[f]],
        pinned |-> c.pinned, baseline |-> row, removed |-> FALSE]

\* Three-way merge: a pinned field is left to the person who pinned it.
Merged(c, row) ==
  [value |-> [f \in Fields |-> IF f \in c.pinned THEN c.value[f] ELSE row[f]],
   pinned |-> c.pinned, baseline |-> row, removed |-> FALSE]

Written(c, row) == IF c = NoContract THEN Created(row) ELSE Merged(c, row)

(* Mutant: the correction respects the pins too. *)
MustCorrectUnpinned(t, c) ==
  /\ kind[t] = "foreign_key" /\ c.value["materialized"] = "built"
  /\ "materialized" \notin c.pinned

\* A value is written and pinned (_mark_overridden).
Pinning(c, f, v) == [c EXCEPT !.value[f] = v, !.pinned = @ \cup {f}]

\* A foreign key is a column of a table and never a table of its own: the
\* correction overrules a pin, and pins what it has written.
MustCorrect(t, c) ==
  kind[t] = "foreign_key" /\ c.value["materialized"] = "built"

Corrected(t, c) ==
  IF MustCorrect(t, c)
  THEN Pinning(c, "materialized", "not_built")
  ELSE c

Synced(t) ==
  IF t \in Existing
  THEN Corrected(t, Written(contract[t], Derived(t)))
  ELSE IF contract[t] = NoContract
       THEN NoContract
       ELSE [contract[t] EXCEPT !.removed = TRUE]

\* What the correction pins counts as chosen from then on.
ChosenAfterSync(t) ==
  IF t \in Existing /\ MustCorrect(t, Written(contract[t], Derived(t)))
  THEN [chosen[t] EXCEPT !["materialized"] = "not_built"]
  ELSE chosen[t]

\* _ensure_ods_materialized: the pins are not looked at.
InOds(c) ==
  [c EXCEPT !.value["layer"] = "ods", !.value["materialized"] = "built"]

Forces(c) == c.value["layer"] # "ods" \/ c.value["materialized"] # "built"

-----------------------------------------------------------------------------
(* The ontology changes under the contracts.                               *)

Init ==
  /\ kind = [t \in Targets |-> "none"]
  /\ timed = {}
  /\ contract = [t \in Targets |-> NoContract]
  /\ model = [status |-> "draft", issues |-> "unknown", flaw |-> "none",
              design |-> [o \in Objects |-> "none"]]
  /\ chosen = [t \in Targets |-> [f \in Fields |-> "none"]]
  /\ fresh = {}
  /\ forced = {}

KindsOf(t) == IF t \in Objects THEN ObjectKinds ELSE RelationKinds

\* An entity is created or gets another role, source or structure.
SetKind(t, k) ==
  /\ kind[t] # "gone"
  /\ kind' = [kind EXCEPT ![t] = k]
  /\ fresh' = fresh \ {t}
  /\ UNCHANGED <<timed, contract, model, chosen, forced>>

\* An entity is deleted for good: a later one has another id.
Remove(t) ==
  /\ t \in Existing
  /\ kind' = [kind EXCEPT ![t] = "gone"]
  /\ fresh' = fresh \ {t}
  /\ UNCHANGED <<timed, contract, model, chosen, forced>>

\* A property of a time appears in an object, or disappears.
Retime(o) ==
  /\ o \in Existing
  /\ timed' = IF o \in timed THEN timed \ {o} ELSE timed \cup {o}
  /\ fresh' = fresh \ ({o} \cup {r \in Relations : Mapping[r] = o})
  /\ UNCHANGED <<kind, contract, model, chosen, forced>>

-----------------------------------------------------------------------------
(* The contracts.                                                          *)

\* sync: by its own request, and before every deployment, materialization
\* and sync is prepared.
Sync ==
  /\ contract' = [t \in Targets |-> Synced(t)]
  /\ chosen' = [t \in Targets |-> ChosenAfterSync(t)]
  /\ fresh' = Targets
  /\ UNCHANGED <<kind, timed, model, forced>>

\* A sync execution with the table of object o as its explicit source.
SyncExecution(o) ==
  LET c == Synced(o)
      hit == Forces(c)
      overPin == \E f \in c.pinned : InOds(c).value[f] # c.value[f]
  IN /\ o \in Existing
     /\ contract' = [t \in Targets |->
                       IF t = o /\ hit THEN InOds(c) ELSE Synced(t)]
     /\ chosen' = [t \in Targets |-> ChosenAfterSync(t)]
     /\ fresh' = IF hit THEN Targets \ {o} ELSE Targets
     /\ forced' = IF overPin THEN forced \cup {o} ELSE forced
     /\ UNCHANGED <<kind, timed, model>>

Refused(t, f, v) ==
  f = "materialized" /\ v = "built" /\ kind[t] = "foreign_key"

\* update: what a person submits is pinned.
Patch(t, f, v) ==
  /\ contract[t] # NoContract
  /\ ~Refused(t, f, v)
  /\ contract' = [contract EXCEPT ![t] = Pinning(contract[t], f, v)]
  /\ chosen' = [chosen EXCEPT ![t] = [chosen[t] EXCEPT ![f] = v]]
  /\ UNCHANGED <<kind, timed, model, fresh, forced>>

-----------------------------------------------------------------------------
(* The dimensional model.                                                  *)

\* update_model in whatever status: neither the status nor the issues change.
UpdateModel(o, d, flaw) ==
  /\ kind[o] # "none"
  /\ model' = [model EXCEPT !.flaw = flaw,
                            !.design = [@ EXCEPT ![o] = d]]
  /\ UNCHANGED <<kind, timed, contract, chosen, fresh, forced>>

ValidateModel ==
  /\ model' = IF model.flaw = "none"
              THEN [model EXCEPT !.issues = "clean", !.status = "validated"]
              ELSE [model EXCEPT !.issues = "error", !.status = "draft"]
  /\ UNCHANGED <<kind, timed, contract, chosen, fresh, forced>>

ConfirmModel ==
  /\ model.status \in {"validated", "draft"}
  /\ model.issues # "error"
  /\ model' = [model EXCEPT !.status = "confirmed"]
  /\ UNCHANGED <<kind, timed, contract, chosen, fresh, forced>>

Designed == {o \in Objects : model.design[o] # "none"}

\* compile_model; a definition that makes no specification is refused.
CompileModel ==
  /\ model.status = "confirmed"
  /\ model.flaw # "schema"
  /\ contract' = [t \in Targets |->
                    IF t \in Designed
                    THEN Written(contract[t], Compiled(model.design[t]))
                    ELSE contract[t]]
  /\ model' = [model EXCEPT !.status = "compiled"]
  /\ fresh' = fresh \ Designed
  /\ UNCHANGED <<kind, timed, chosen, forced>>

-----------------------------------------------------------------------------

Ontology ==
  \/ \E t \in Targets : \E k \in KindsOf(t) : SetKind(t, k)
  \/ \E t \in Targets : Remove(t)
  \/ \E o \in Objects : Retime(o)

Modelling ==
  \/ \E o \in Objects, d \in Designs \cup {"none"},
        flaw \in {"none", "rule", "schema"} : UpdateModel(o, d, flaw)
  \/ ValidateModel
  \/ ConfirmModel
  \/ CompileModel

Next ==
  \/ Ontology
  \/ Modelling
  \/ Sync
  \/ \E o \in Objects : SyncExecution(o)
  \/ \E p \in Patches : Patch(p[1], p[2], p[3])

Spec == Init /\ [][Next]_vars

-----------------------------------------------------------------------------
(* Properties.                                                             *)

\* Type correctness of the ontology, the contracts and the model.
TypeOK ==
  /\ kind \in [Targets -> AllObjectKinds \cup AllRelationKinds \cup {"none", "gone"}]
  /\ timed \subseteq Objects
  /\ contract \in [Targets -> ContractType \cup {NoContract}]
  /\ model \in [status : {"draft", "validated", "confirmed", "compiled"},
                issues : {"unknown", "clean", "error"},
                flaw : {"none", "rule", "schema"},
                design : [Objects -> AllDesigns \cup {"none"}]]
  /\ chosen \in [Targets -> [Fields -> Values]]
  /\ fresh \subseteq Targets
  /\ forced \subseteq Objects

IsChosen(t, f) == chosen[t][f] # "none"

\* Whatever the machine derives, compiles or syncs, and however often the
\* entity changes its kind, goes or is designed anew, the pinned fields are
\* those somebody chose and hold what was chosen last.  (sync and
\* compile_model skip pinned_fields; a target whose pin a sync execution has
\* overwritten is left out: ChosenKept is the statement without that.)
PinnedKept ==
  \A t \in Targets : contract[t] # NoContract =>
    /\ contract[t].pinned = {f \in Fields : IsChosen(t, f)}
    /\ t \notin forced =>
         \A f \in contract[t].pinned : contract[t].value[f] = chosen[t][f]

\* A target that was derived and not changed since has a contract, and it
\* says exactly what people chose and, for the rest, what the ontology says
\* today; the contract of a target that is gone is marked as such.  A
\* materialization that is prepared by sync reads this.
FreshAgrees ==
  \A t \in fresh :
    IF t \in Existing
    THEN /\ contract[t] # NoContract
         /\ ~contract[t].removed
         /\ t \notin forced =>
              \A f \in Fields : contract[t].value[f] =
                IF IsChosen(t, f) THEN chosen[t][f] ELSE Derived(t)[f]
    ELSE contract[t] # NoContract => contract[t].removed

\* Once its contract was derived, a foreign key is not built as a table,
\* although people may have pinned it as built while it was a fact table, and
\* whatever they patch afterwards.
ForeignKeyNotBuilt ==
  \A r \in Relations :
    (r \in fresh /\ kind[r] = "foreign_key") =>
      contract[r].value["materialized"] # "built"

\* A model with known errors never stands as validated, confirmed or
\* compiled, however it is edited and validated again.
StandsUnchallenged == model.status # "draft" => model.issues # "error"

(* What the code does not keep; each is the property of a run of its own.  *)

IsScd2(o) == contract[o] # NoContract /\ contract[o].value["load"] = "scd2"

\* compile_model promises contracts that the materialization really consumes,
\* an SCD2 dimension with a load that keeps its history: while the model and
\* what people chose stay as they are, the load stays.
DesignKept ==
  [][\A o \in Objects :
       (/\ model.status = "compiled" /\ model.design[o] = "scd2_dimension"
        /\ IsScd2(o) /\ model' = model /\ chosen' = chosen)
         => IsScd2(o)']_vars

\* "The machine may not overwrite a field a person has pinned", sync
\* executions included.
ChosenKept ==
  \A t \in Targets : contract[t] # NoContract =>
    \A f \in contract[t].pinned : contract[t].value[f] = chosen[t][f]

\* "Validated always means ready to be confirmed."
ValidatedIsReady == model.status = "validated" => model.flaw = "none"

=============================================================================
