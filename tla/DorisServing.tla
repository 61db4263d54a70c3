----------------------------- MODULE DorisServing -----------------------------
(***************************************************************************)
(* When an object of the ontology may be read in Doris.                    *)
(*                                                                         *)
(* A sync copies the source table into the ODS table of the object, a      *)
(* transform derives its target table from the ODS table, a materialize    *)
(* creates empty tables.  All three are governance artifacts that run on   *)
(* Airflow, and their outcome reaches the database only when somebody      *)
(* reads the artifact: each read asks Airflow again and replays the answer *)
(* into the ingestion contract and the projection of the object, also when *)
(* the artifact was settled long ago.  A query reads the table that the    *)
(* projection of the current ontology version names.                       *)
(***************************************************************************)
EXTENDS Naturals

CONSTANTS
    Syncs,         \* artifacts of kind sync of the object
    Transforms,    \* artifacts of kind transform of the object
    Materializes,  \* artifacts of kind materialize of the ontology
    MaxVersion,    \* bound: how many versions of the ontology are published
    Cdc,           \* is the mode of the contract cdc
    Forgets,       \* may Airflow delete the runs of transforms and materializes
    None           \* no projection, no contract

(* A row of warehouse_object_projections.                                   *)
ProjectionType ==
    [schema : {"pending", "ready"},
     sync : {"empty", "syncing", "ready", "failed"},
     transform : {"not_required", "running", "ready", "stale", "failed"},
     queryable : BOOLEAN,
     serving : {"none", "ods", "target"},
     ods : BOOLEAN,      \* are ods_database and ods_table set
     synced : BOOLEAN]   \* is last_sync_at set

ASSUME ServingAssumption ==
    /\ MaxVersion \in Nat \ {0}
    /\ {Cdc, Forgets} \subseteq BOOLEAN
    /\ None \notin ProjectionType

Versions == 1 .. MaxVersion

VARIABLES
    version,     \* ontologies.version, which is published
    deployment,  \* status of the deployment of each version
    projection,  \* the projection of the object in each of them
    contract,    \* status of the ingestion contract of each version
    sync,        \* the sync artifacts, with their run and contract
    transform,   \* the transform artifacts, with their run and version
    mat,         \* the materialize artifacts, with their run
    ods,         \* the last load of the ODS table that was completed
    target,      \* the load that the target table was derived from, 0: empty
    known,       \* history: the load a sync was last verified with
    verdict      \* history: the last verdict on a sync of each version

vars == <<version, deployment, projection, contract, sync, transform, mat,
          ods, target, known, verdict>>

(* Runs in Airflow.  It forgets runs that ended, and what it does not know   *)
(* (404) is taken for a failure, at whatever read.                          *)
RunStates == {"none", "queued", "running", "success", "failed"}

(* An artifact is open while reads of it ask Airflow: executing or          *)
(* succeeded, with a run in its receipt.  It is closed when it failed, or   *)
(* was handed over and has no run.                                          *)
ArtifactStates == {"confirmed", "executing", "open", "closed"}

Init ==
    /\ version = 1
    /\ deployment = [v \in Versions |-> "absent"]
    /\ projection = [v \in Versions |-> None]
    /\ contract = [v \in Versions |-> "absent"]
    /\ sync = [s \in Syncs |-> [state |-> "confirmed", run |-> "none", version |-> 0]]
    /\ transform = [t \in Transforms |->
            [state |-> "confirmed", run |-> "none", version |-> 0, input |-> 0]]
    /\ mat = [m \in Materializes |-> [state |-> "confirmed", run |-> "none"]]
    /\ ods = 0
    /\ target = 0
    /\ known = 0
    /\ verdict = [v \in Versions |-> "none"]

------------------------------------------------------------------------------
(* What the services make of a projection.                                  *)

NewProjection ==
    [schema |-> "pending", sync |-> "empty", transform |-> "not_required",
     queryable |-> FALSE, serving |-> "none", ods |-> FALSE, synced |-> FALSE]

Found(v) == IF projection[v] = None THEN NewProjection ELSE projection[v]

(* Has a transform taken over what is served?                               *)
HasSeparateTransform(p) ==
    /\ p.transform \in {"ready", "running", "stale", "failed"}
    /\ p.serving = "target"

DirectSync(p) ==
    p.sync = "ready" /\ p.transform = "not_required" /\ p.ods

(* Mutant: a created table counts as a filled one. *)
UpsertServesSchema(p, schemaReady) ==
    LET placed == [p EXCEPT !.ods = TRUE,
                            !.serving = IF DirectSync(p) THEN "ods" ELSE "target"]
    IN  IF schemaReady
        THEN [placed EXCEPT !.schema = "ready", !.sync = "ready", !.queryable = TRUE]
        ELSE placed

(* Mutant: a new table is taken to be empty, whatever was synced into it. *)
UpsertForgetsSync(p, schemaReady) ==
    LET placed == [p EXCEPT !.ods = TRUE,
                            !.serving = IF DirectSync(p) THEN "ods" ELSE "target"]
    IN  IF schemaReady
        THEN [placed EXCEPT !.schema = "ready", !.sync = "empty",
                            !.transform = "not_required", !.queryable = FALSE]
        ELSE placed

(* _upsert_deployment on one object; schemaReady after a materialize ran.   *)
UpsertProjection(p, schemaReady) ==
    LET placed == [p EXCEPT !.ods = TRUE,
                            !.serving = IF DirectSync(p) THEN "ods" ELSE "target"]
    IN  CASE ~schemaReady -> placed
          [] schemaReady /\ DirectSync(p) ->
                [placed EXCEPT !.schema = "ready", !.queryable = TRUE]
          [] OTHER ->
                [placed EXCEPT !.schema = "ready", !.queryable = FALSE,
                    !.sync = IF @ = "ready" THEN @ ELSE "empty",
                    !.transform = IF @ \in {"ready", "stale"} THEN @ ELSE "not_required"]

(* publish_direct_sync_ready; advanced: the contract succeeded after the    *)
(* projection was last synced.                                              *)
DirectSyncReady(p, advanced) ==
    LET filled == [p EXCEPT !.ods = TRUE, !.sync = "ready", !.synced = TRUE]
    IN  IF ~HasSeparateTransform(p)
        THEN [filled EXCEPT !.serving = "ods", !.schema = "ready",
                            !.transform = "not_required", !.queryable = TRUE]
        ELSE IF advanced
        THEN [filled EXCEPT !.queryable = FALSE,
                            !.transform = IF @ = "ready" THEN "stale" ELSE @]
        ELSE filled

(* The deployment that publish_direct_sync_ready finds or creates.          *)
RaisedToSchemaReady(d) == IF d \in {"schema_ready", "ready"} THEN d ELSE "schema_ready"

(* Mutant: a failure is noted on the contract only. *)
MirrorKeepsFailed(p, status) ==
    IF p = None \/ status = "failed" THEN p
    ELSE [p EXCEPT !.sync = "syncing", !.queryable = FALSE]

(* Mutant: the two vocabularies of statuses are taken for one. *)
MirrorCopiesStatus(p, status) ==
    IF p = None THEN None ELSE [p EXCEPT !.sync = status, !.queryable = FALSE]

(* mirror_contract_to_projection for a contract that is not ready.          *)
MirrorUnready(p, status) ==
    IF p = None THEN None
    ELSE [p EXCEPT !.sync = IF status = "failed" THEN "failed" ELSE "syncing",
                   !.queryable = FALSE]

(* What the query gateway demands of the current version.                   *)
Readable ==
    LET p == projection[version]
    IN  /\ deployment[version] \in {"schema_ready", "ready"}
        /\ p # None
        /\ p.schema = "ready" /\ p.queryable
        /\ p.sync = "ready" /\ p.transform \in {"not_required", "ready"}
        /\ p.serving # "none"

------------------------------------------------------------------------------
(* Deployments, versions.                                                   *)

(* A new version of the ontology is published: no deployment, no contract. *)
PublishVersion ==
    /\ version < MaxVersion
    /\ version' = version + 1
    /\ UNCHANGED <<deployment, projection, contract, sync, transform, mat, ods,
                   target, known, verdict>>

PrepareDeployment ==
    /\ deployment' = [deployment EXCEPT ![version] = IF @ = "absent" THEN "pending" ELSE @]
    /\ projection' = [projection EXCEPT ![version] = UpsertProjection(Found(version), FALSE)]
    /\ UNCHANGED <<version, contract, sync, transform, mat, ods, target, known, verdict>>

MaterializeExecutes(m) ==
    /\ mat[m].state = "confirmed"
    /\ mat' = [mat EXCEPT ![m] = [state |-> "open", run |-> "running"]]
    /\ UNCHANGED <<version, deployment, projection, contract, sync, transform, ods,
                   target, known, verdict>>

(* A read of the artifact after its run succeeded: the tables are there,    *)
(* publish_schema_ready is called for the version published now.            *)
MaterializeReconciled(m) ==
    /\ mat[m].state = "open" /\ mat[m].run = "success"
    /\ deployment' = [deployment EXCEPT ![version] = "schema_ready"]
    /\ projection' = [projection EXCEPT ![version] = UpsertProjection(Found(version), TRUE)]
    /\ UNCHANGED <<version, contract, sync, transform, mat, ods, target, known, verdict>>

MaterializeFailed(m) ==
    /\ mat[m].state = "open"
    /\ mat[m].run = "failed" \/ (Forgets /\ mat[m].run = "success")
    /\ mat' = [mat EXCEPT ![m].state = "closed"]
    /\ UNCHANGED <<version, deployment, projection, contract, sync, transform, ods,
                   target, known, verdict>>

------------------------------------------------------------------------------
(* Syncs.                                                                    *)

(* The executor writes the contract of the version published now ...        *)
SyncExecutes(s) ==
    /\ sync[s].state = "confirmed"
    /\ contract' = [contract EXCEPT ![version] = "active"]
    /\ sync' = [sync EXCEPT ![s] = [state |-> "executing", run |-> "none", version |-> version]]
    /\ UNCHANGED <<version, deployment, projection, transform, mat, ods, target,
                   known, verdict>>

(* ... triggers the DAG run and notes that on the contract ...              *)
SyncSubmitted(s) ==
    /\ sync[s].state = "executing"
    /\ contract' = [contract EXCEPT ![sync[s].version] = "submitted"]
    /\ sync' = [sync EXCEPT ![s].state = "open", ![s].run = "running"]
    /\ UNCHANGED <<version, deployment, projection, transform, mat, ods, target,
                   known, verdict>>

(* ... unless Airflow refuses the run ...                                   *)
SyncRejected(s) ==
    /\ sync[s].state = "executing"
    /\ contract' = [contract EXCEPT ![sync[s].version] = "failed"]
    /\ sync' = [sync EXCEPT ![s].state = "closed"]
    /\ UNCHANGED <<version, deployment, projection, transform, mat, ods, target,
                   known, verdict>>

(* ... or there is nothing to submit to: the contract stays active.         *)
SyncHandedOver(s) ==
    /\ sync[s].state = "executing"
    /\ sync' = [sync EXCEPT ![s].state = "closed"]
    /\ UNCHANGED <<version, deployment, projection, contract, transform, mat, ods,
                   target, known, verdict>>

(* The contract of s turns ready and is mirrored.  publish_direct_sync_ready *)
(* refuses a contract of an older version; the session is then either given  *)
(* up, or a later read in it commits the contract that it had changed.       *)
SyncReady(s) ==
    LET v == sync[s].version
    IN  IF v = version
        THEN /\ contract' = [contract EXCEPT ![v] = "ready"]
             /\ deployment' = [deployment EXCEPT ![v] = RaisedToSchemaReady(@)]
             /\ projection' = [projection EXCEPT ![v] = DirectSyncReady(Found(v), TRUE)]
             /\ known' = ods
             /\ verdict' = [verdict EXCEPT ![v] = "good"]
        ELSE /\ contract' \in {contract, [contract EXCEPT ![v] = "ready"]}
             /\ UNCHANGED <<deployment, projection, known, verdict>>

(* The contract of s takes another status and is mirrored.                  *)
SyncUnready(s, status) ==
    LET v == sync[s].version
    IN  /\ contract' = [contract EXCEPT ![v] = status]
        /\ projection' = [projection EXCEPT ![v] =
                IF deployment[v] = "absent" THEN @ ELSE MirrorUnready(@, status)]
        /\ verdict' = [verdict EXCEPT ![v] = IF status = "failed" THEN "bad" ELSE @]
        /\ UNCHANGED <<deployment, known>>

(* A read of the artifact while Airflow reports the run under way.          *)
SyncReconciledRunning(s) ==
    /\ sync[s].state = "open" /\ sync[s].run = "running"
    /\ SyncUnready(s, "running")
    /\ UNCHANGED <<version, sync, transform, mat, ods, target>>

(* Mutant: the artifact has failed, the contract is not told. *)
SyncFailureUntold(s) ==
    /\ sync[s].state = "open" /\ sync[s].run = "failed"
    /\ sync' = [sync EXCEPT ![s].state = "closed"]
    /\ UNCHANGED <<version, deployment, projection, contract, transform, mat, ods,
                   target, known, verdict>>

(* Airflow reports a failure.                                               *)
SyncReconciledFailed(s) ==
    /\ sync[s].state = "open" /\ sync[s].run = "failed"
    /\ SyncUnready(s, "failed")
    /\ sync' = [sync EXCEPT ![s].state = "closed"]
    /\ UNCHANGED <<version, transform, mat, ods, target>>

(* Airflow reports success; the rows in Doris are counted, and in full mode *)
(* compared with the source, if that can be counted.                        *)
SyncVerified(s) ==
    /\ sync[s].state = "open" /\ sync[s].run = "success"
    /\ SyncReady(s)
    /\ UNCHANGED <<version, sync, transform, mat, ods, target>>

(* The counts differ, because a load is under way or because the source has *)
(* changed since, or the target cannot be counted, or Airflow forgot the run *)
(* that it reported before.                                                 *)
SyncRefuted(s) ==
    /\ sync[s].state = "open" /\ sync[s].run = "success"
    /\ SyncUnready(s, "failed")
    /\ sync' = [sync EXCEPT ![s].state = "closed"]
    /\ UNCHANGED <<version, transform, mat, ods, target>>

(* The state of the Airflow task is reported through the warehouse API: no  *)
(* rows are counted, and the artifact is left alone.                        *)
TaskReported(s) ==
    /\ sync[s].run \in {"success", "failed"}
    /\ CASE sync[s].run = "failed" -> SyncUnready(s, "failed")
          [] sync[s].run = "success" /\ Cdc -> SyncUnready(s, "running")
          [] OTHER -> SyncReady(s)
    /\ UNCHANGED <<version, sync, transform, mat, ods, target>>

(* The backfill when the API starts replays every ready contract.           *)
Backfill ==
    /\ contract[version] = "ready"
    /\ deployment' = [deployment EXCEPT ![version] = RaisedToSchemaReady(@)]
    /\ projection' = [projection EXCEPT ![version] =
            DirectSyncReady(Found(version), ~Found(version).synced)]
    /\ UNCHANGED <<version, contract, sync, transform, mat, ods, target, known, verdict>>

------------------------------------------------------------------------------
(* Transforms.                                                               *)

(* The executor reads where the ODS table is, which must be synced, and      *)
(* triggers the run; Airflow may refuse.                                     *)
TransformExecutes(t) ==
    /\ transform[t].state = "confirmed"
    /\ projection[version] # None
    /\ projection[version].ods /\ projection[version].sync = "ready"
    /\ \E run \in {"queued", "none"} :
            transform' = [transform EXCEPT ![t].state = "executing", ![t].run = run]
    /\ UNCHANGED <<version, deployment, projection, contract, sync, mat, ods, target,
                   known, verdict>>

(* Then it registers the run with the projection of the version published    *)
(* by now: the target table becomes the serving table.                       *)
TransformRegistered(t) ==
    LET ok == transform[t].run # "none"
    IN  /\ transform[t].state = "executing"
        /\ transform' = [transform EXCEPT ![t].state = IF ok THEN "open" ELSE "closed",
                                         ![t].version = version]
        /\ projection' = [projection EXCEPT ![version] =
                IF @ = None THEN @
                ELSE [@ EXCEPT !.serving = "target", !.queryable = FALSE,
                               !.transform = IF ok THEN "running" ELSE "failed"]]
        /\ UNCHANGED <<version, deployment, contract, sync, mat, ods, target, known,
                       verdict>>

(* reconcile_transform_receipt: a read of the artifact.                      *)
TransformReconciled(t, answer) ==
    LET v == transform[t].version
        run == transform[t].run
    IN  /\ transform[t].state = "open"
        /\ \/ answer = "running" /\ run \in {"queued", "running"}
           \/ answer = "ready" /\ run = "success"
           \/ answer = "failed" /\ (run = "failed" \/ (Forgets /\ run = "success"))
        /\ projection' = [projection EXCEPT ![v] =
                IF @ = None THEN @
                ELSE [@ EXCEPT !.transform = answer, !.queryable = (answer = "ready")]]
        /\ deployment' = [deployment EXCEPT ![v] =
                IF projection[v] # None /\ answer = "ready" THEN "ready" ELSE @]
        /\ transform' = [transform EXCEPT ![t].state =
                IF answer = "failed" THEN "closed" ELSE @]
        /\ UNCHANGED <<version, contract, sync, mat, ods, target, known, verdict>>

------------------------------------------------------------------------------
(* Airflow and Doris.                                                        *)

Outcomes == {"success", "failed"}

SyncRuns(s) ==
    /\ sync[s].run = "running"
    /\ \E outcome \in Outcomes :
            /\ sync' = [sync EXCEPT ![s].run = outcome]
            /\ ods' = IF outcome = "success" THEN ods + 1 ELSE ods
    /\ UNCHANGED <<transform, target>>

(* The run derives a staging table from the load it finds, and swaps it in. *)
TransformRuns(t) ==
    \/ /\ transform[t].run = "queued"
       /\ transform' = [transform EXCEPT ![t].run = "running", ![t].input = ods]
       /\ UNCHANGED <<ods, sync, target>>
    \/ /\ transform[t].run = "running"
       /\ \E outcome \in Outcomes :
            /\ transform' = [transform EXCEPT ![t].run = outcome]
            /\ target' = IF outcome = "success" THEN transform[t].input ELSE target
       /\ UNCHANGED <<ods, sync>>

TableRuns ==
    /\ \/ \E s \in Syncs : SyncRuns(s)
       \/ \E t \in Transforms : TransformRuns(t)
    /\ UNCHANGED <<version, deployment, projection, contract, mat, known, verdict>>

MaterializeRuns(m) ==
    /\ mat[m].run = "running"
    /\ \E outcome \in Outcomes : mat' = [mat EXCEPT ![m].run = outcome]
    /\ UNCHANGED <<version, deployment, projection, contract, sync, transform, ods,
                   target, known, verdict>>

------------------------------------------------------------------------------
Next ==
    \/ PublishVersion
    \/ PrepareDeployment
    \/ Backfill
    \/ \E m \in Materializes :
            \/ MaterializeExecutes(m) \/ MaterializeReconciled(m)
            \/ MaterializeFailed(m) \/ MaterializeRuns(m)
    \/ \E s \in Syncs :
            \/ SyncExecutes(s) \/ SyncSubmitted(s) \/ SyncRejected(s) \/ SyncHandedOver(s)
            \/ SyncReconciledRunning(s) \/ SyncReconciledFailed(s)
            \/ SyncVerified(s) \/ SyncRefuted(s) \/ TaskReported(s)
    \/ \E t \in Transforms :
            \/ TransformExecutes(t) \/ TransformRegistered(t)
            \/ \E answer \in {"running", "ready", "failed"} : TransformReconciled(t, answer)
    \/ TableRuns

Spec == Init /\ [][Next]_vars

Unsettled == contract[version] \in {"submitted", "running"}

(* A query that may not read the object reconciles the open sync artifacts   *)
(* of its contract first.                                                    *)
QuerySettles ==
    /\ ~Readable /\ Unsettled
    /\ \E s \in Syncs :
            /\ sync[s].version = version
            /\ SyncReconciledFailed(s) \/ SyncVerified(s) \/ SyncRefuted(s)

(* Runs end, and the object is asked for again and again.                    *)
FairSpec == Spec /\ WF_vars(TableRuns) /\ SF_vars(QuerySettles)

------------------------------------------------------------------------------
TypeOK ==
    /\ version \in Versions
    /\ deployment \in [Versions -> {"absent", "pending", "schema_ready", "ready"}]
    /\ projection \in [Versions -> ProjectionType \union {None}]
    /\ contract \in [Versions ->
            {"absent", "active", "submitted", "running", "ready", "failed"}]
    /\ sync \in [Syncs ->
            [state : ArtifactStates, run : RunStates, version : Versions \union {0}]]
    /\ transform \in [Transforms ->
            [state : ArtifactStates, run : RunStates, version : Versions \union {0}, input : Nat]]
    /\ mat \in [Materializes -> [state : ArtifactStates, run : RunStates]]
    /\ ods \in Nat /\ target \in Nat /\ known \in Nat
    /\ verdict \in [Versions -> {"none", "good", "bad"}]

(* What a query reads was filled by a run that succeeded, whichever order   *)
(* artifacts are read in: creating tables, switching the serving table to a  *)
(* transform and back, and replaying old receipts never expose an empty one. *)
ReadsLoadedTable ==
    Readable => IF projection[version].serving = "ods" THEN ods > 0 ELSE target > 0

(* The object is read only if the last verdict on its syncs in the version   *)
(* published now was good: a failed or refuted sync hides it, and a new      *)
(* version starts hidden, whatever receipts of older versions say.           *)
ReadableVerified == Readable => verdict[version] = "good"

(* The contract and the projection keep two records of one fact: a contract  *)
(* of the current version that is ready has a projection that is synced.     *)
ReadyMirrored ==
    contract[version] = "ready" =>
        projection[version] # None /\ projection[version].sync = "ready"

(* An object that is hidden because its sync is on the way does not stay so  *)
(* when the sync is over, although only reads of the artifact move it.       *)
BlockedSettles == (~Readable /\ Unsettled) ~> (Readable \/ ~Unsettled)

(* What the query gateway says of itself, that stale data is never read: a   *)
(* target table that is read derives from the load the sync was last         *)
(* verified with.                                                            *)
StaleNeverServed ==
    (Readable /\ projection[version].serving = "target") => target >= known
===============================================================================
