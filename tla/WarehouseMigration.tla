-------------------------- MODULE WarehouseMigration --------------------------
(***************************************************************************)
(* The migration of an ontology to Doris: batches of fifteen steps, each    *)
(* with evidence, an approved cut-over at the tenth, the stop of the old    *)
(* DAGs at the twelfth, and a rollback in between.  A batch is about one    *)
(* version of the ontology.                                                 *)
(*                                                                          *)
(* The module composes the batches with DorisServing: a step is recorded    *)
(* when the deployment, the contract and the artifacts of that module are   *)
(* in order, a rollback withdraws its projection, and a user reads the      *)
(* object if both the batches and the projection allow it.                  *)
(***************************************************************************)
EXTENDS Naturals, FiniteSets, Sequences

CONSTANTS
    Syncs, Transforms, Materializes, MaxVersion, Cdc, Forgets, None,
    Batches,     \* batches (bounds how many are ever created)
    Creating     \* bound: how many requests to create one may overlap

VARIABLES version, deployment, projection, contract, sync, transform, mat, ods,
          target, known, verdict

Serving == INSTANCE DorisServing

(* The constants of DorisServing, as it assumes them, and ours.             *)
ASSUME MigrationAssumption ==
    /\ MaxVersion \in Nat \ {0}
    /\ {Cdc, Forgets} \subseteq BOOLEAN
    /\ None \notin Serving!ProjectionType
    /\ Creating \in Nat

serving == <<version, deployment, projection, contract, sync, transform, mat,
             ods, target, known, verdict>>

VARIABLES
    batch,     \* the rows of warehouse_migration_batches
    newest,    \* the batches in the order of created_at, oldest first
    creating,  \* requests that found no active batch, not yet inserted
    evidence,  \* status of the latest evidence of each step of each batch
    paused     \* are the old DAGs paused in Airflow

gates == <<batch, newest, creating, evidence, paused>>
vars == <<serving, gates>>

Steps == 1 .. 15
ActiveStatus == {"preparing", "blocked", "cutover", "observing", "legacy_stopped", "cleaning"}
TerminalStatus == {"completed", "rolled_back", "aborted"}

Created == {newest[i] : i \in DOMAIN newest}
Active(b) == b \in Created /\ batch[b].status \in ActiveStatus

NoBatch == [version |-> 0, step |-> 0, status |-> "absent", drilled |-> FALSE,
            approved |-> FALSE, observed |-> FALSE]

Init ==
    /\ Serving!Init
    /\ batch = [b \in Batches |-> NoBatch]
    /\ newest = <<>>
    /\ creating = {}
    /\ evidence = [b \in Batches |-> [n \in Steps |-> "none"]]
    /\ paused = FALSE

------------------------------------------------------------------------------
(* create_batch: the check for an active batch and the insertion are two    *)
(* statements.                                                              *)
CreateChecked(b) ==
    /\ b \notin Created \union creating
    /\ Cardinality(creating) < Creating
    /\ ~\E other \in Batches : Active(other)
    /\ creating' = creating \union {b}
    /\ batch' = [batch EXCEPT ![b].version = version]
    /\ UNCHANGED <<serving, newest, evidence, paused>>

CreateInserted(b) ==
    /\ b \in creating
    /\ creating' = creating \ {b}
    /\ newest' = Append(newest, b)
    /\ batch' = [batch EXCEPT ![b].status = "preparing"]
    /\ UNCHANGED <<serving, evidence, paused>>

(* Every later operation is refused once another version is published.      *)
Current(b) == b \in Created /\ batch[b].version = version

(* _record: the status that a passed step leaves.                           *)
PassedStatus(n) ==
    CASE n < 10 -> "preparing"
      [] n = 10 -> "cutover"
      [] n = 11 -> "observing"
      [] n = 12 -> "legacy_stopped"
      [] n \in {13, 14} -> "cleaning"
      [] OTHER -> "completed"

RecordPassed(b, n) ==
    /\ evidence' = [evidence EXCEPT ![b][n] = "pass"]
    /\ batch' = [batch EXCEPT ![b].step = n, ![b].status = PassedStatus(n)]

(* Mutant: the batch takes the status of the evidence. *)
RecordFailedAsFail(b, n) ==
    /\ evidence' = [evidence EXCEPT ![b][n] = "fail"]
    /\ batch' = [batch EXCEPT ![b].status = "fail"]

RecordFailed(b, n) ==
    /\ evidence' = [evidence EXCEPT ![b][n] = "fail"]
    /\ batch' = [batch EXCEPT ![b].status = "blocked"]

(* Mutant: any step may be recorded. *)
RecordableAnyStep(b, n) ==
    /\ Current(b)
    /\ batch[b].status \notin TerminalStatus
    /\ n \notin {10, 12}
    /\ n = 11 => batch[b].observed

(* The checks of record_step before it looks at the report.                 *)
Recordable(b, n) ==
    /\ Current(b)
    /\ batch[b].status \notin TerminalStatus
    /\ n \notin {10, 12}
    /\ n = batch[b].step + 1
    /\ n = 11 => batch[b].observed

StepFailed(b, n) ==
    /\ Recordable(b, n)
    /\ RecordFailed(b, n)
    /\ UNCHANGED <<serving, newest, creating, paused>>

(* _current_deployment                                                      *)
DeploymentReady == deployment[version] \in {"schema_ready", "ready"}

(* _validate_step for the steps that look at the warehouse through the       *)
(* deployment or the artifacts; the rest checks the report it is given.      *)
StepPassed(b, n) ==
    /\ Recordable(b, n) /\ n \notin {3, 5}
    /\ n = 2 => deployment[version] = "pending" /\ projection[version] # None
    /\ n = 4 => /\ \E s \in Syncs : sync[s].state = "open" /\ sync[s].run = "success"
                /\ contract[version] # "absent"
                /\ Cdc \/ contract[version] = "ready"
    /\ n = 6 => DeploymentReady
    /\ RecordPassed(b, n)
    /\ UNCHANGED <<serving, newest, creating, paused>>

(* Steps 3 and 5 reconcile the artifacts they are given, as a read would.    *)
MaterializeStepPassed(b) ==
    /\ Recordable(b, 3)
    /\ \E m \in Materializes : Serving!MaterializeReconciled(m)
    /\ RecordPassed(b, 3)
    /\ UNCHANGED <<newest, creating, paused>>

TransformStepPassed(b) ==
    /\ Recordable(b, 5)
    /\ \E t \in Transforms : Serving!TransformReconciled(t, "ready")
    /\ RecordPassed(b, 5)
    /\ UNCHANGED <<newest, creating, paused>>

DrillRecorded(b) ==
    /\ Current(b)
    /\ batch' = [batch EXCEPT ![b].drilled = TRUE]
    /\ UNCHANGED <<serving, newest, creating, evidence, paused>>

(* Mutant: the drill is not asked for. *)
MayCutOverUndrilled(b) ==
    /\ Current(b) /\ batch[b].step = 9
    /\ DeploymentReady
    /\ \A n \in 1 .. 9 : evidence[b][n] = "pass"

(* What approve_cutover demands.                                             *)
MayCutOver(b) ==
    /\ Current(b) /\ batch[b].step = 9
    /\ batch[b].drilled
    /\ DeploymentReady
    /\ \A n \in 1 .. 9 : evidence[b][n] = "pass"

CutoverApproved(b) ==
    /\ MayCutOver(b)
    /\ evidence' = [evidence EXCEPT ![b][10] = "pass"]
    /\ batch' = [batch EXCEPT ![b].step = 10, ![b].status = "cutover", ![b].approved = TRUE]
    /\ UNCHANGED <<serving, newest, creating, paused>>

(* The observation window passes.                                            *)
WindowEnds(b) ==
    /\ batch[b].approved /\ ~batch[b].observed
    /\ batch' = [batch EXCEPT ![b].observed = TRUE]
    /\ UNCHANGED <<serving, newest, creating, evidence, paused>>

(* stop_legacy_dags looks at the step, not at the status of the batch.  Not  *)
(* every old DAG may get paused.                                             *)
LegacyStopped(b) ==
    /\ Current(b) /\ batch[b].step = 11
    /\ paused' = TRUE
    /\ RecordPassed(b, 12) \/ RecordFailed(b, 12)
    /\ UNCHANGED <<serving, newest, creating>>

(* rollback: pauses the new DAGs as far as possible and withdraws the        *)
(* projections of the deployment.                                            *)
RolledBack(b) ==
    /\ Current(b) /\ batch[b].step \in 10 .. 12
    /\ DeploymentReady
    /\ projection' = [projection EXCEPT ![version] =
            IF @ = None THEN @ ELSE [@ EXCEPT !.queryable = FALSE]]
    /\ batch' = [batch EXCEPT ![b].status = "rolled_back"]
    /\ UNCHANGED <<version, deployment, contract, sync, transform, mat, ods, target,
                   known, verdict, newest, creating, evidence, paused>>

Next ==
    \/ Serving!Next /\ UNCHANGED gates
    \/ \E b \in Batches :
            \/ CreateChecked(b) \/ CreateInserted(b)
            \/ \E n \in Steps : StepPassed(b, n) \/ StepFailed(b, n)
            \/ MaterializeStepPassed(b) \/ TransformStepPassed(b)
            \/ DrillRecorded(b) \/ CutoverApproved(b) \/ WindowEnds(b)
            \/ LegacyStopped(b) \/ RolledBack(b)

Spec == Init /\ [][Next]_vars

------------------------------------------------------------------------------
(* cutover_error: the newest batch of the current version decides.           *)
BatchesOfVersion == {i \in DOMAIN newest : batch[newest[i]].version = version}

Visible(b) ==
    /\ batch[b].step >= 10 /\ batch[b].approved
    /\ batch[b].status \in {"cutover", "observing", "legacy_stopped", "cleaning", "completed"}

CutoverAllows ==
    \/ BatchesOfVersion = {}
    \/ \E i \in BatchesOfVersion :
            (\A j \in BatchesOfVersion : j <= i) /\ Visible(newest[i])

(* prepare_object_read lets a user read the object.                          *)
UserReads == CutoverAllows /\ Serving!Readable

TypeOK ==
    /\ batch \in [Batches ->
            [version : 0 .. MaxVersion, step : 0 .. 15,
             status : ActiveStatus \union TerminalStatus \union {"absent"},
             drilled : BOOLEAN, approved : BOOLEAN, observed : BOOLEAN]]
    /\ newest \in Seq(Batches)
    /\ creating \subseteq Batches
    /\ evidence \in [Batches -> [Steps -> {"none", "pass", "fail"}]]
    /\ paused \in BOOLEAN

(* A batch never stands at a step while the latest word on an earlier one is *)
(* missing or a failure: failures block, and nothing is skipped.             *)
EvidenceComplete ==
    \A b \in Batches : \A n \in Steps : n <= batch[b].step => evidence[b][n] = "pass"

(* What a user reads of a version under migration was cut over: nine steps   *)
(* of evidence, a rollback drill, an approval, a deployment whose schema is  *)
(* there, and a verified sync, although the batch, the deployment and the    *)
(* contract are rows that different parties write.                           *)
ReadsAreCutOver ==
    (UserReads /\ BatchesOfVersion # {}) =>
        \E b \in Created :
            /\ batch[b].version = version
            /\ batch[b].approved /\ batch[b].drilled
            /\ \A n \in 1 .. 10 : evidence[b][n] = "pass"
            /\ DeploymentReady /\ verdict[version] = "good"

(* Old DAGs are only stopped after an observed cut-over.                     *)
LegacyKept == paused => \E b \in Created : batch[b].observed /\ evidence[b][11] = "pass"

(* A batch that was rolled back is over: it is one of the terminal states,   *)
(* and recording a step refuses it as terminated.                            *)
RollbackFinal ==
    [][\A b \in Batches : batch[b].status = "rolled_back" =>
            batch'[b].status = "rolled_back"]_vars
===============================================================================
