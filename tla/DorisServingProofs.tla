-------------------------- MODULE DorisServingProofs --------------------------
(***************************************************************************)
(* Theorems about DorisServing for any number of artifacts and versions.   *)
(***************************************************************************)
EXTENDS DorisServing, TLAPS

(* Nothing is known of a version before it is published. *)
FutureBlank ==
    \A v \in Versions : v > version =>
        deployment[v] = "absent" /\ projection[v] = None /\ contract[v] = "absent"

(* A run that succeeded has filled its table; a transform has found a load, *)
(* because it is only executed on a synced table.                           *)
RunsFill ==
    /\ \A s \in Syncs :
            sync[s].version <= version /\ (sync[s].run = "success" => ods > 0)
    /\ \A t \in Transforms :
            /\ transform[t].run \in {"queued", "running", "success"} => ods > 0
            /\ transform[t].run \in {"running", "success"} => transform[t].input > 0
            /\ transform[t].run = "success" => target > 0

(* A projection belongs to a deployment. *)
Deployed == deployment[version] = "absent" => projection[version] = None

(* A projection that claims to be synced has been verified, and one that can *)
(* be queried serves its ODS table, synced, or has a transform that is done. *)
Sound(p, load, derived, word) ==
    p # None =>
        /\ p.sync = "ready" => load > 0 /\ word = "good"
        /\ p.queryable =>
              \/ p.transform = "not_required" /\ p.serving = "ods" /\ p.sync = "ready" /\ p.ods
              \/ p.transform = "ready" /\ derived > 0

CurrentSound == Sound(projection[version], ods, target, verdict[version])

Inv ==
    /\ FutureBlank
    /\ RunsFill
    /\ Deployed
    /\ ReadyMirrored
    /\ CurrentSound

(* What the services make of a projection is one. *)
LEMMA ProjectionsTyped ==
    /\ NewProjection \in ProjectionType
    /\ \A p \in ProjectionType : \A b \in BOOLEAN :
            UpsertProjection(p, b) \in ProjectionType /\ DirectSyncReady(p, b) \in ProjectionType
    /\ \A p \in ProjectionType \union {None} : \A status :
            MirrorUnready(p, status) \in ProjectionType \union {None}
<1>1. NewProjection \in ProjectionType
  BY DEF NewProjection, ProjectionType
<1>2. ASSUME NEW p \in ProjectionType, NEW b \in BOOLEAN
      PROVE  UpsertProjection(p, b) \in ProjectionType
  BY DEF UpsertProjection, DirectSync, ProjectionType
<1>3. ASSUME NEW p \in ProjectionType, NEW b \in BOOLEAN
      PROVE  DirectSyncReady(p, b) \in ProjectionType
  BY DEF DirectSyncReady, HasSeparateTransform, ProjectionType
<1>4. ASSUME NEW p \in ProjectionType \union {None}, NEW status
      PROVE  MirrorUnready(p, status) \in ProjectionType \union {None}
  BY DEF MirrorUnready, ProjectionType
<1> QED
  BY <1>1, <1>2, <1>3, <1>4

LEMMA FoundTyped ==
    ASSUME TypeOK, NEW v \in Versions
    PROVE  Found(v) \in ProjectionType
  BY ProjectionsTyped DEF TypeOK, Found

SyncRows == [state : ArtifactStates, run : RunStates, version : Versions \union {0}]
TransformRows ==
    [state : ArtifactStates, run : RunStates, version : Versions \union {0}, input : Nat]
MatRows == [state : ArtifactStates, run : RunStates]

(* What happens to an artifact or its run leaves it one. *)
LEMMA ArtifactsTyped ==
    /\ \A r \in MatRows : \A a \in ArtifactStates, b \in RunStates :
            [r EXCEPT !.state = a] \in MatRows /\ [r EXCEPT !.run = b] \in MatRows
    /\ \A r \in SyncRows : \A a \in ArtifactStates, b \in RunStates :
            /\ [r EXCEPT !.state = a] \in SyncRows /\ [r EXCEPT !.run = b] \in SyncRows
            /\ [r EXCEPT !.state = a, !.run = b] \in SyncRows
    /\ \A r \in TransformRows : \A a \in ArtifactStates, b \in RunStates :
            /\ [r EXCEPT !.state = a] \in TransformRows
            /\ [r EXCEPT !.run = b] \in TransformRows
            /\ [r EXCEPT !.state = a, !.run = b] \in TransformRows
            /\ \A v \in Versions : [r EXCEPT !.state = a, !.version = v] \in TransformRows
            /\ \A n \in Nat : [r EXCEPT !.run = b, !.input = n] \in TransformRows
  BY DEF MatRows, SyncRows, TransformRows

LEMMA InitTyped == Init => TypeOK
  BY ServingAssumption DEF Init, TypeOK, Versions, ArtifactStates, RunStates

(* Every step leaves the rows complete. *)
LEMMA StepTyped == TypeOK /\ [Next]_vars => TypeOK'
<1> SUFFICES ASSUME TypeOK, [Next]_vars PROVE TypeOK'
  OBVIOUS
<1>v. version \in Versions /\ version \in Nat
  BY ServingAssumption DEF TypeOK, Versions
<1>f. \A v \in Versions : Found(v) \in ProjectionType
  BY FoundTyped
<1>1. CASE PublishVersion
  BY <1>1, <1>v, ServingAssumption DEF PublishVersion, TypeOK, Versions
<1>2. CASE PrepareDeployment
  BY <1>2, <1>v, <1>f, ProjectionsTyped DEF PrepareDeployment, TypeOK
<1>3. CASE Backfill
  <2>1. Found(version).synced \in BOOLEAN
    BY <1>v, <1>f DEF ProjectionType
  <2> QED
    BY <1>3, <1>v, <1>f, <2>1, ProjectionsTyped DEF Backfill, TypeOK, RaisedToSchemaReady
<1>4. ASSUME NEW m \in Materializes, MaterializeExecutes(m) \/ MaterializeRuns(m) \/ MaterializeFailed(m)
      PROVE  TypeOK'
  <2>1. mat[m] \in MatRows
    BY DEF TypeOK, MatRows
  <2>2. [state |-> "open", run |-> "running"] \in MatRows
    BY DEF MatRows, ArtifactStates, RunStates
  <2>3. \E r \in MatRows : mat' = [mat EXCEPT ![m] = r]
    BY <1>4, <2>1, <2>2, ArtifactsTyped
       DEF MaterializeExecutes, MaterializeRuns, MaterializeFailed, Outcomes, ArtifactStates, RunStates
  <2>4. mat' \in [Materializes -> MatRows]
    BY <2>3 DEF TypeOK, MatRows
  <2> QED
    BY <1>4, <2>4 DEF MaterializeExecutes, MaterializeRuns, MaterializeFailed, TypeOK, MatRows
<1>5. ASSUME NEW m \in Materializes, MaterializeReconciled(m) PROVE TypeOK'
  BY <1>5, <1>v, <1>f, ProjectionsTyped DEF MaterializeReconciled, TypeOK
<1>6. ASSUME NEW s \in Syncs,
             SyncExecutes(s) \/ SyncSubmitted(s) \/ SyncRejected(s) \/ SyncHandedOver(s)
      PROVE  TypeOK'
  <2>1. sync[s] \in SyncRows
    BY DEF TypeOK, SyncRows
  <2>2. [state |-> "executing", run |-> "none", version |-> version] \in SyncRows
    BY <1>v DEF SyncRows, ArtifactStates, RunStates
  <2>3. \E r \in SyncRows : sync' = [sync EXCEPT ![s] = r]
    <3>1. CASE SyncExecutes(s)
      BY <3>1, <2>2 DEF SyncExecutes
    <3>2. CASE SyncSubmitted(s)
      <4>1. [sync[s] EXCEPT !.state = "open", !.run = "running"] \in SyncRows
        BY <2>1, ArtifactsTyped DEF ArtifactStates, RunStates
      <4>2. sync' = [sync EXCEPT ![s] = [sync[s] EXCEPT !.state = "open", !.run = "running"]]
        BY <3>2 DEF SyncSubmitted, TypeOK
      <4> QED
        BY <4>1, <4>2
    <3>3. CASE SyncRejected(s) \/ SyncHandedOver(s)
      <4>1. [sync[s] EXCEPT !.state = "closed"] \in SyncRows
        BY <2>1 DEF SyncRows, ArtifactStates
      <4>2. sync' = [sync EXCEPT ![s] = [sync[s] EXCEPT !.state = "closed"]]
        BY <3>3 DEF SyncRejected, SyncHandedOver
      <4> QED
        BY <4>1, <4>2
    <3> QED
      BY <1>6, <3>1, <3>2, <3>3
  <2>4. sync' \in [Syncs -> SyncRows]
    BY <2>3 DEF TypeOK, SyncRows
  <2> QED
    BY <1>6, <2>4 DEF SyncExecutes, SyncSubmitted, SyncRejected, SyncHandedOver, TypeOK, SyncRows
<1>7. ASSUME NEW s \in Syncs, NEW status \in {"running", "failed"}, SyncUnready(s, status)
      PROVE  /\ deployment' = deployment /\ known' = known
             /\ contract' \in [Versions ->
                    {"absent", "active", "submitted", "running", "ready", "failed"}]
             /\ projection' \in [Versions -> ProjectionType \union {None}]
             /\ verdict' \in [Versions -> {"none", "good", "bad"}]
  <2> DEFINE w == sync[s].version
  <2>1. \A v \in Versions : (IF deployment[v] = "absent" THEN projection[v]
                             ELSE MirrorUnready(projection[v], status))
                            \in ProjectionType \union {None}
    BY ProjectionsTyped DEF TypeOK
  <2>2. projection' = [projection EXCEPT ![w] =
            IF deployment[w] = "absent" THEN projection[w]
            ELSE MirrorUnready(projection[w], status)]
    BY <1>7 DEF SyncUnready
  <2>3. projection' \in [Versions -> ProjectionType \union {None}]
    <3>1. CASE w \in Versions
      BY <3>1, <2>1, <2>2 DEF TypeOK
    <3>2. CASE w \notin Versions
      BY <3>2, <2>2 DEF TypeOK
    <3> QED
      BY <3>1, <3>2
  <2> QED
    BY <1>7, <2>3 DEF SyncUnready, TypeOK
<1>8. ASSUME NEW s \in Syncs, SyncReady(s)
      PROVE  /\ contract' \in [Versions ->
                    {"absent", "active", "submitted", "running", "ready", "failed"}]
             /\ deployment' \in [Versions -> {"absent", "pending", "schema_ready", "ready"}]
             /\ projection' \in [Versions -> ProjectionType \union {None}]
             /\ verdict' \in [Versions -> {"none", "good", "bad"}]
             /\ known' \in Nat
  <2> DEFINE v == sync[s].version
  <2>1. DirectSyncReady(Found(version), TRUE) \in ProjectionType
    BY <1>v, <1>f, ProjectionsTyped
  <2>2. CASE v = version
    <3>1. /\ contract' = [contract EXCEPT ![version] = "ready"]
          /\ deployment' = [deployment EXCEPT ![version] = RaisedToSchemaReady(deployment[version])]
          /\ projection' = [projection EXCEPT ![version] = DirectSyncReady(Found(version), TRUE)]
          /\ verdict' = [verdict EXCEPT ![version] = "good"]
          /\ known' = ods
      BY <1>8, <2>2 DEF SyncReady
    <3>2. projection' \in [Versions -> ProjectionType \union {None}]
      BY <3>1, <2>1 DEF TypeOK
    <3> QED
      BY <1>v, <3>1, <3>2 DEF RaisedToSchemaReady, TypeOK
  <2>3. CASE v # version
    BY <1>8, <2>3 DEF SyncReady, TypeOK
  <2> QED
    BY <2>2, <2>3
<1>9. ASSUME NEW s \in Syncs,
             SyncReconciledRunning(s) \/ SyncReconciledFailed(s) \/ SyncVerified(s)
                \/ SyncRefuted(s) \/ TaskReported(s)
      PROVE  TypeOK'
  <2>1. CASE SyncReconciledRunning(s)
    BY <2>1, <1>7 DEF SyncReconciledRunning, TypeOK
  <2>2. CASE SyncReconciledFailed(s)
    BY <2>2, <1>7 DEF SyncReconciledFailed, TypeOK, ArtifactStates
  <2>3. CASE SyncVerified(s)
    BY <2>3, <1>8 DEF SyncVerified, TypeOK
  <2>4. CASE SyncRefuted(s)
    BY <2>4, <1>7 DEF SyncRefuted, TypeOK, ArtifactStates
  <2>5. CASE TaskReported(s)
    <3>1. SyncUnready(s, "failed") \/ SyncUnready(s, "running") \/ SyncReady(s)
      BY <2>5 DEF TaskReported
    <3> QED
      BY <2>5, <3>1, <1>7, <1>8 DEF TaskReported, TypeOK
  <2> QED
    BY <1>9, <2>1, <2>2, <2>3, <2>4, <2>5
<1>10. ASSUME NEW t \in Transforms, TransformExecutes(t) PROVE TypeOK'
  <2>1. PICK run \in {"queued", "none"} :
            transform' = [transform EXCEPT ![t].state = "executing", ![t].run = run]
    BY <1>10 DEF TransformExecutes
  <2>2. transform[t] \in TransformRows /\ transform \in [Transforms -> TransformRows]
    BY DEF TypeOK, TransformRows
  <2>3. [transform[t] EXCEPT !.state = "executing", !.run = run] \in TransformRows
    BY <2>2, ArtifactsTyped DEF ArtifactStates, RunStates
  <2>4. transform' = [transform EXCEPT ![t] = [transform[t] EXCEPT !.state = "executing", !.run = run]]
    BY <2>1, <2>2
  <2>5. transform' \in [Transforms -> TransformRows]
    BY <2>2, <2>3, <2>4
  <2> QED
    BY <1>10, <2>5 DEF TransformExecutes, TypeOK, TransformRows
<1>11. ASSUME NEW t \in Transforms, TransformRegistered(t) PROVE TypeOK'
  <2> DEFINE st == IF transform[t].run # "none" THEN "open" ELSE "closed"
  <2>2. transform[t] \in TransformRows /\ transform \in [Transforms -> TransformRows]
    BY DEF TypeOK, TransformRows
  <2>3. [transform[t] EXCEPT !.state = st, !.version = version] \in TransformRows
    <3>1. st \in ArtifactStates
      BY DEF ArtifactStates
    <3> QED
      BY <3>1, <2>2, <1>v DEF TransformRows
  <2>4. transform' = [transform EXCEPT ![t] = [transform[t] EXCEPT !.state = st, !.version = version]]
    BY <1>11, <2>2 DEF TransformRegistered
  <2>5. transform' \in [Transforms -> TransformRows]
    BY <2>2, <2>3, <2>4
  <2>6. \A p \in ProjectionType : \A x \in {"running", "failed"} :
            [p EXCEPT !.serving = "target", !.queryable = FALSE, !.transform = x] \in ProjectionType
    BY DEF ProjectionType
  <2>7. projection' \in [Versions -> ProjectionType \union {None}]
    BY <1>11, <1>v, <2>6 DEF TransformRegistered, TypeOK
  <2> QED
    BY <1>11, <2>5, <2>7 DEF TransformRegistered, TypeOK, TransformRows
<1>12. ASSUME NEW t \in Transforms, NEW answer \in {"running", "ready", "failed"},
              TransformReconciled(t, answer)
       PROVE  TypeOK'
  <2> DEFINE v == transform[t].version
             p == [projection[v] EXCEPT !.transform = answer, !.queryable = (answer = "ready")]
  <2>2. transform[t] \in TransformRows /\ transform \in [Transforms -> TransformRows]
    BY DEF TypeOK, TransformRows
  <2>3. \E a \in ArtifactStates : transform' = [transform EXCEPT ![t] = [transform[t] EXCEPT !.state = a]]
    <3>1. transform[t].state \in ArtifactStates
      BY <2>2 DEF TransformRows
    <3> QED
      BY <1>12, <2>2, <3>1 DEF TransformReconciled, ArtifactStates
  <2>4. transform' \in [Transforms -> TransformRows]
    <3>1. \A a \in ArtifactStates : [transform[t] EXCEPT !.state = a] \in TransformRows
      BY <2>2 DEF TransformRows
    <3> QED
      BY <2>2, <2>3, <3>1
  <2>5. \A r \in ProjectionType :
            [r EXCEPT !.transform = answer, !.queryable = (answer = "ready")] \in ProjectionType
    BY DEF ProjectionType
  <2>6. projection' = [projection EXCEPT ![v] = IF projection[v] = None THEN projection[v] ELSE p]
    BY <1>12 DEF TransformReconciled
  <2>7. projection' \in [Versions -> ProjectionType \union {None}]
    <3>1. CASE v \in Versions
      BY <3>1, <2>5, <2>6 DEF TypeOK
    <3>2. CASE v \notin Versions
      BY <3>2, <2>6 DEF TypeOK
    <3> QED
      BY <3>1, <3>2
  <2>8. deployment' \in [Versions -> {"absent", "pending", "schema_ready", "ready"}]
    BY <1>12 DEF TransformReconciled, TypeOK
  <2> QED
    BY <1>12, <2>4, <2>7, <2>8 DEF TransformReconciled, TypeOK, TransformRows
<1>13. CASE TableRuns
  <2>1. ASSUME NEW s \in Syncs, SyncRuns(s) PROVE TypeOK'
    BY <1>13, <2>1 DEF TableRuns, SyncRuns, TypeOK, RunStates, Outcomes
  <2>2. ASSUME NEW t \in Transforms, TransformRuns(t) PROVE TypeOK'
    <3>2. transform[t] \in TransformRows /\ transform \in [Transforms -> TransformRows]
      BY DEF TypeOK, TransformRows
    <3>3. transform' \in [Transforms -> TransformRows] /\ target' \in Nat
      <4>1. ods \in Nat /\ target \in Nat /\ transform[t].input \in Nat
        BY <3>2 DEF TypeOK, TransformRows
      <4>2. CASE transform[t].run = "queued"
        <5>1. transform' = [transform EXCEPT ![t] = [transform[t] EXCEPT !.run = "running", !.input = ods]]
          BY <2>2, <3>2, <4>2 DEF TransformRuns
        <5>2. [transform[t] EXCEPT !.run = "running", !.input = ods] \in TransformRows
          BY <3>2, <4>1 DEF TransformRows, RunStates
        <5> QED
          BY <2>2, <3>2, <4>1, <4>2, <5>1, <5>2 DEF TransformRuns
      <4>3. CASE transform[t].run = "running"
        <5>1. PICK outcome \in Outcomes :
                 /\ transform' = [transform EXCEPT ![t].run = outcome]
                 /\ target' = IF outcome = "success" THEN transform[t].input ELSE target
          BY <2>2, <4>3 DEF TransformRuns
        <5>2. [transform[t] EXCEPT !.run = outcome] \in TransformRows
          BY <3>2, <5>1 DEF TransformRows, RunStates, Outcomes
        <5>3. transform' = [transform EXCEPT ![t] = [transform[t] EXCEPT !.run = outcome]]
          BY <5>1
        <5> QED
          BY <3>2, <4>1, <5>1, <5>2, <5>3
      <4> QED
        BY <2>2, <4>2, <4>3 DEF TransformRuns
    <3> QED
      BY <1>13, <2>2, <3>3 DEF TableRuns, TransformRuns, TypeOK, TransformRows
  <2> QED
    BY <1>13, <2>1, <2>2 DEF TableRuns
<1>14. CASE UNCHANGED vars
  BY <1>14 DEF vars, TypeOK
<1> QED
  BY <1>1, <1>2, <1>3, <1>4, <1>5, <1>6, <1>9, <1>10, <1>11, <1>12, <1>13, <1>14 DEF Next

(* Deployments, projections, contracts, artifacts and tables stay rows of   *)
(* their types, whatever is read in whichever order.                        *)
THEOREM TypeCorrect == Spec => []TypeOK
  BY InitTyped, StepTyped, PTL DEF Spec
------------------------------------------------------------------------------
LEMMA FoundSound ==
    ASSUME TypeOK, CurrentSound
    PROVE  Sound(Found(version), ods, target, verdict[version])
  BY DEF CurrentSound, Sound, Found, NewProjection

(* Creating tables claims no sync, and gives up none. *)
LEMMA UpsertSound ==
    ASSUME NEW p \in ProjectionType, NEW b \in BOOLEAN, NEW load, NEW derived, NEW word,
           Sound(p, load, derived, word)
    PROVE  /\ Sound(UpsertProjection(p, b), load, derived, word)
           /\ UpsertProjection(p, b) # None
           /\ p.sync = "ready" => UpsertProjection(p, b).sync = "ready"
<1>1. p # None /\ UpsertProjection(p, b) # None
  BY ProjectionsTyped, ServingAssumption
<1>2. UpsertProjection(p, b).sync = "ready" <=> p.sync = "ready"
  BY DEF UpsertProjection, DirectSync, ProjectionType
<1>3. UpsertProjection(p, b).queryable =>
        \/ /\ p.transform = "not_required" /\ p.sync = "ready"
           /\ UpsertProjection(p, b).transform = "not_required"
           /\ UpsertProjection(p, b).serving = "ods" /\ UpsertProjection(p, b).ods
        \/ p.transform = "ready" /\ p.queryable /\ UpsertProjection(p, b).transform = "ready"
  BY <1>1 DEF UpsertProjection, DirectSync, ProjectionType, Sound
<1> QED
  BY <1>1, <1>2, <1>3 DEF Sound

(* A verified sync makes the projection sound, from whatever it was. *)
LEMMA DirectSyncSound ==
    ASSUME NEW p \in ProjectionType, NEW b \in BOOLEAN, NEW load, NEW derived, NEW word,
           Sound(p, load, derived, word), load > 0
    PROVE  /\ Sound(DirectSyncReady(p, b), load, derived, "good")
           /\ DirectSyncReady(p, b) # None
           /\ DirectSyncReady(p, b).sync = "ready"
<1>1. p # None /\ DirectSyncReady(p, b) # None
  BY ProjectionsTyped, ServingAssumption
<1>2. DirectSyncReady(p, b).sync = "ready"
  BY DEF DirectSyncReady, ProjectionType
<1>3. DirectSyncReady(p, b).queryable =>
        \/ /\ DirectSyncReady(p, b).transform = "not_required"
           /\ DirectSyncReady(p, b).serving = "ods" /\ DirectSyncReady(p, b).ods
        \/ p.transform = "ready" /\ p.queryable /\ DirectSyncReady(p, b).transform = "ready"
  BY <1>1 DEF DirectSyncReady, HasSeparateTransform, ProjectionType, Sound
<1>4. p.transform = "ready" /\ p.queryable => derived > 0
  BY <1>1 DEF Sound
<1> QED
  BY <1>1, <1>2, <1>3, <1>4 DEF Sound

LEMMA InitInv == Init => Inv
  BY ServingAssumption
     DEF Init, Inv, FutureBlank, RunsFill, Deployed, ReadyMirrored, CurrentSound, Sound, Versions

(* A sync whose run succeeded makes its contract ready. *)
LEMMA SyncReadyInv ==
    ASSUME TypeOK, Inv, NEW s \in Syncs, sync[s].run = "success", SyncReady(s),
           UNCHANGED <<version, sync, transform, mat, ods, target>>
    PROVE  Inv'
<1> DEFINE w == sync[s].version
<1>1. version \in Versions /\ ods > 0 /\ w <= version /\ w \in Nat /\ version \in Nat
  BY ServingAssumption DEF Inv, RunsFill, TypeOK, Versions
<1>2. CASE w = version
  <2>1. /\ contract' = [contract EXCEPT ![version] = "ready"]
        /\ deployment' = [deployment EXCEPT ![version] = RaisedToSchemaReady(deployment[version])]
        /\ projection' = [projection EXCEPT ![version] = DirectSyncReady(Found(version), TRUE)]
        /\ verdict' = [verdict EXCEPT ![version] = "good"]
    BY <1>2 DEF SyncReady
  <2>2. Found(version) \in ProjectionType /\ Sound(Found(version), ods, target, verdict[version])
    BY <1>1, FoundTyped, FoundSound DEF Inv
  <2>3. projection'[version] = DirectSyncReady(Found(version), TRUE) /\ verdict'[version] = "good"
    BY <1>1, <2>1 DEF TypeOK
  <2>4. /\ Sound(projection'[version], ods, target, verdict'[version])
        /\ projection'[version] # None /\ projection'[version].sync = "ready"
    BY <1>1, <2>2, <2>3, DirectSyncSound
  <2>5. FutureBlank'
    BY <1>1, <2>1 DEF Inv, FutureBlank, TypeOK, Versions
  <2>6. Deployed'
    BY <1>1, <2>1 DEF Deployed, TypeOK, RaisedToSchemaReady
  <2> QED
    BY <2>4, <2>5, <2>6 DEF Inv, RunsFill, ReadyMirrored, CurrentSound
<1>3. CASE w # version
  <2>1. /\ contract' \in {contract, [contract EXCEPT ![w] = "ready"]}
        /\ UNCHANGED <<deployment, projection, verdict>>
    BY <1>3 DEF SyncReady
  <2>2. \A v \in Versions : v >= version => contract'[v] = contract[v]
    <3>1. \A v \in Versions : v >= version => v # w
      BY <1>1, <1>3 DEF Versions
    <3> QED
      BY <2>1, <3>1 DEF TypeOK
  <2>3. FutureBlank'
    BY <1>1, <2>1, <2>2 DEF Inv, FutureBlank, Versions
  <2> QED
    BY <1>1, <2>1, <2>2, <2>3 DEF Inv, RunsFill, Deployed, ReadyMirrored, CurrentSound
<1> QED
  BY <1>2, <1>3

(* A contract that is not ready any more hides its projection. *)
LEMMA SyncUnreadyInv ==
    ASSUME TypeOK, Inv, NEW s \in Syncs, NEW status \in {"running", "failed"},
           SyncUnready(s, status), UNCHANGED <<version, transform, ods, target>>,
           \A x \in Syncs : sync'[x].version = sync[x].version /\ sync'[x].run = sync[x].run
    PROVE  Inv'
<1> DEFINE w == sync[s].version
<1>1. version \in Versions /\ w <= version /\ w \in Nat /\ version \in Nat
  BY ServingAssumption DEF Inv, RunsFill, TypeOK, Versions
<1>2. /\ contract' = [contract EXCEPT ![w] = status]
      /\ projection' = [projection EXCEPT ![w] =
            IF deployment[w] = "absent" THEN projection[w]
            ELSE MirrorUnready(projection[w], status)]
      /\ verdict' = [verdict EXCEPT ![w] = IF status = "failed" THEN "bad" ELSE verdict[w]]
      /\ deployment' = deployment
  BY DEF SyncUnready
<1>3. \A v \in Versions : v > version => contract'[v] = contract[v] /\ projection'[v] = projection[v]
  BY <1>1, <1>2 DEF TypeOK, Versions
<1>4. FutureBlank'
  BY <1>1, <1>2, <1>3 DEF Inv, FutureBlank, Versions
<1>5. RunsFill'
  BY DEF Inv, RunsFill
<1>6. CASE w = version
  <2>1. contract'[version] # "ready"
    BY <1>1, <1>2, <1>6 DEF TypeOK
  <2>2. projection'[version] = None \/
          (~projection'[version].queryable /\ projection'[version].sync # "ready")
    BY <1>1, <1>2, <1>6 DEF Inv, Deployed, MirrorUnready, TypeOK, ProjectionType
  <2>3. Deployed'
    BY <1>1, <1>2, <1>6 DEF Inv, Deployed, TypeOK
  <2> QED
    BY <1>4, <1>5, <2>1, <2>2, <2>3 DEF Inv, ReadyMirrored, CurrentSound, Sound
<1>7. CASE w # version
  <2>1. /\ contract'[version] = contract[version] /\ projection'[version] = projection[version]
        /\ verdict'[version] = verdict[version]
    BY <1>1, <1>2, <1>7 DEF TypeOK
  <2> QED
    BY <1>2, <1>4, <1>5, <2>1 DEF Inv, Deployed, ReadyMirrored, CurrentSound
<1> QED
  BY <1>6, <1>7
(* Every step keeps the invariant. *)
LEMMA StepInv == TypeOK /\ Inv /\ [Next]_vars => Inv'
<1> SUFFICES ASSUME TypeOK, Inv, [Next]_vars PROVE Inv'
  OBVIOUS
<1>v. version \in Versions /\ version \in Nat /\ MaxVersion \in Nat
  BY ServingAssumption DEF TypeOK, Versions
<1>f. Found(version) \in ProjectionType /\ Sound(Found(version), ods, target, verdict[version])
  BY <1>v, FoundTyped, FoundSound DEF Inv
<1>u. ASSUME NEW b \in BOOLEAN
      PROVE  LET p == UpsertProjection(Found(version), b)
             IN  /\ Sound(p, ods, target, verdict[version]) /\ p # None
                 /\ projection[version] # None /\ projection[version].sync = "ready"
                        => p.sync = "ready"
  BY <1>f, UpsertSound DEF Found
<1>1. CASE PublishVersion
  <2>1. version' = version + 1 /\ version' \in Versions /\ version' > version
    BY <1>1, <1>v DEF PublishVersion, Versions
  <2>2. projection[version'] = None /\ contract[version'] = "absent"
    BY <2>1 DEF Inv, FutureBlank
  <2>3. FutureBlank'
    BY <1>1, <1>v, <2>1 DEF Inv, FutureBlank, PublishVersion, Versions
  <2>4. RunsFill'
    BY <1>1, <1>v, <2>1 DEF Inv, RunsFill, PublishVersion, TypeOK, Versions
  <2> QED
    BY <1>1, <2>2, <2>3, <2>4
       DEF PublishVersion, Inv, Deployed, ReadyMirrored, CurrentSound, Sound
<1>2. CASE PrepareDeployment
  <2>1. projection'[version] = UpsertProjection(Found(version), FALSE)
    BY <1>2, <1>v DEF PrepareDeployment, TypeOK
  <2>2. FutureBlank'
    <3>1. \A v \in Versions : v > version =>
            deployment'[v] = deployment[v] /\ projection'[v] = projection[v]
      <4>1. \A v \in Versions : v > version => v # version
        BY <1>v DEF Versions
      <4> QED
        BY <1>2, <4>1 DEF PrepareDeployment, TypeOK
    <3> QED
      BY <1>2, <3>1 DEF PrepareDeployment, Inv, FutureBlank
  <2>3. deployment'[version] # "absent"
    BY <1>2, <1>v DEF PrepareDeployment, TypeOK
  <2> QED
    BY <1>2, <1>u, <2>1, <2>2, <2>3
       DEF PrepareDeployment, Inv, RunsFill, Deployed, ReadyMirrored, CurrentSound
<1>3. CASE Backfill
  <2>1. PICK b \in BOOLEAN : projection'[version] = DirectSyncReady(Found(version), b)
    <3>1. (~Found(version).synced) \in BOOLEAN
      BY <1>f DEF ProjectionType
    <3> QED
      BY <1>3, <1>v, <3>1 DEF Backfill, TypeOK
  <2>2. ods > 0 /\ verdict[version] = "good"
    BY <1>3 DEF Backfill, Inv, ReadyMirrored, CurrentSound, Sound
  <2>3. /\ Sound(projection'[version], ods, target, verdict[version])
        /\ projection'[version] # None /\ projection'[version].sync = "ready"
    BY <1>f, <2>1, <2>2, DirectSyncSound
  <2>4. FutureBlank'
    BY <1>3, <1>v DEF Backfill, Inv, FutureBlank, TypeOK, Versions
  <2>5. deployment'[version] # "absent"
    BY <1>3, <1>v DEF Backfill, TypeOK, RaisedToSchemaReady
  <2> QED
    BY <1>3, <2>3, <2>4, <2>5 DEF Backfill, Inv, RunsFill, Deployed, ReadyMirrored, CurrentSound
<1>4. ASSUME NEW m \in Materializes, MaterializeExecutes(m) \/ MaterializeRuns(m) \/ MaterializeFailed(m)
      PROVE  Inv'
  BY <1>4 DEF MaterializeExecutes, MaterializeRuns, MaterializeFailed, Inv, FutureBlank,
        RunsFill, Deployed, ReadyMirrored, CurrentSound
<1>5. ASSUME NEW m \in Materializes, MaterializeReconciled(m) PROVE Inv'
  <2>1. projection'[version] = UpsertProjection(Found(version), TRUE)
    BY <1>5, <1>v DEF MaterializeReconciled, TypeOK
  <2>2. FutureBlank'
    BY <1>5, <1>v DEF MaterializeReconciled, Inv, FutureBlank, TypeOK, Versions
  <2>3. deployment'[version] # "absent"
    BY <1>5, <1>v DEF MaterializeReconciled, TypeOK
  <2> QED
    BY <1>5, <1>u, <2>1, <2>2, <2>3
       DEF MaterializeReconciled, Inv, RunsFill, Deployed, ReadyMirrored, CurrentSound
<1>6. ASSUME NEW s \in Syncs,
             SyncExecutes(s) \/ SyncSubmitted(s) \/ SyncRejected(s) \/ SyncHandedOver(s)
      PROVE  Inv'
  <2>1. sync[s].version <= version
    BY DEF Inv, RunsFill
  <2>2. \A x \in Syncs : /\ sync'[x].version <= version
                         /\ sync'[x].run = "success" => sync[x].run = "success"
    <3>1. \A x \in Syncs : x # s => sync'[x] = sync[x]
      BY <1>6 DEF SyncExecutes, SyncSubmitted, SyncRejected, SyncHandedOver, TypeOK
    <3>2. CASE SyncExecutes(s)
      <4>1. sync'[s].run = "none" /\ sync'[s].version = version
        BY <3>2 DEF SyncExecutes, TypeOK
      <4> QED
        BY <1>v, <3>1, <4>1 DEF Inv, RunsFill
    <3>3. CASE SyncSubmitted(s)
      <4>1. sync'[s].run = "running" /\ sync'[s].version = sync[s].version
        BY <3>3 DEF SyncSubmitted, TypeOK
      <4> QED
        BY <1>v, <3>1, <4>1 DEF Inv, RunsFill
    <3>4. CASE SyncRejected(s) \/ SyncHandedOver(s)
      <4>1. sync'[s].run = sync[s].run /\ sync'[s].version = sync[s].version
        BY <3>4 DEF SyncRejected, SyncHandedOver, TypeOK
      <4> QED
        BY <1>v, <3>1, <4>1 DEF Inv, RunsFill
    <3> QED
      BY <1>6, <3>2, <3>3, <3>4
  <2>3. RunsFill'
    BY <1>6, <2>2 DEF SyncExecutes, SyncSubmitted, SyncRejected, SyncHandedOver, Inv, RunsFill
  <2>4. \A v \in Versions : v > version => contract'[v] = contract[v]
    BY <1>6, <1>v, <2>1 DEF SyncExecutes, SyncSubmitted, SyncRejected, SyncHandedOver, TypeOK, Versions
  <2>5. contract'[version] = "ready" => contract[version] = "ready"
    BY <1>6, <1>v DEF SyncExecutes, SyncSubmitted, SyncRejected, SyncHandedOver, TypeOK
  <2> QED
    BY <1>6, <2>3, <2>4, <2>5
       DEF SyncExecutes, SyncSubmitted, SyncRejected, SyncHandedOver, Inv, FutureBlank,
           Deployed, ReadyMirrored, CurrentSound
<1>7. ASSUME NEW s \in Syncs, SyncReconciledRunning(s) PROVE Inv'
  BY <1>7, SyncUnreadyInv DEF SyncReconciledRunning
<1>8. ASSUME NEW s \in Syncs, SyncReconciledFailed(s) \/ SyncRefuted(s) PROVE Inv'
  <2>1. \A x \in Syncs : sync'[x].version = sync[x].version /\ sync'[x].run = sync[x].run
    <3>1. sync' = [sync EXCEPT ![s].state = "closed"]
      BY <1>8 DEF SyncReconciledFailed, SyncRefuted
    <3> QED
      BY <3>1 DEF TypeOK
  <2> QED
    BY <1>8, <2>1, SyncUnreadyInv DEF SyncReconciledFailed, SyncRefuted
<1>9. ASSUME NEW s \in Syncs, SyncVerified(s) PROVE Inv'
  BY <1>9, SyncReadyInv DEF SyncVerified
<1>10. ASSUME NEW s \in Syncs, TaskReported(s) PROVE Inv'
  <2>1. SyncUnready(s, "failed") \/ SyncUnready(s, "running")
            \/ (sync[s].run = "success" /\ SyncReady(s))
    BY <1>10 DEF TaskReported
  <2> QED
    BY <1>10, <2>1, SyncReadyInv, SyncUnreadyInv DEF TaskReported
<1>11. ASSUME NEW t \in Transforms, TransformExecutes(t) PROVE Inv'
  <2>1. ods > 0
    BY <1>11 DEF TransformExecutes, Inv, CurrentSound, Sound
  <2>2. \A x \in Transforms : /\ transform'[x].input = transform[x].input
                              /\ transform'[x].run \in {"queued", "none"}
                                    \/ transform'[x].run = transform[x].run
    BY <1>11 DEF TransformExecutes, TypeOK
  <2>3. RunsFill'
    BY <1>11, <2>1, <2>2 DEF TransformExecutes, Inv, RunsFill
  <2> QED
    BY <1>11, <2>3 DEF TransformExecutes, Inv, FutureBlank, Deployed, ReadyMirrored, CurrentSound
<1>12. ASSUME NEW t \in Transforms, TransformRegistered(t) PROVE Inv'
  <2>1. \A x \in Transforms : transform'[x].input = transform[x].input
                              /\ transform'[x].run = transform[x].run
    BY <1>12 DEF TransformRegistered, TypeOK
  <2>2. RunsFill'
    BY <1>12, <2>1 DEF TransformRegistered, Inv, RunsFill
  <2>3. CASE projection[version] = None
    <3>1. projection' = projection
      BY <1>12, <2>3 DEF TransformRegistered, TypeOK
    <3> QED
      BY <1>12, <2>2, <3>1 DEF TransformRegistered, Inv, FutureBlank, Deployed, ReadyMirrored, CurrentSound
  <2>4. CASE projection[version] # None
    <3>1. projection[version] \in ProjectionType
      BY <1>v, <2>4 DEF TypeOK
    <3>2. /\ ~projection'[version].queryable /\ projection'[version].sync = projection[version].sync
          /\ projection'[version] \in ProjectionType
          /\ \A v \in Versions : v > version => projection'[v] = projection[v]
      <4>1. PICK x \in {"running", "failed"} : projection' = [projection EXCEPT ![version] =
                [projection[version] EXCEPT !.serving = "target", !.queryable = FALSE, !.transform = x]]
        BY <1>12, <2>4 DEF TransformRegistered
      <4>2. projection'[version] =
                [projection[version] EXCEPT !.serving = "target", !.queryable = FALSE, !.transform = x]
        BY <1>v, <4>1 DEF TypeOK
      <4>3. \A v \in Versions : v > version => projection'[v] = projection[v]
        BY <1>v, <4>1 DEF TypeOK, Versions
      <4> QED
        BY <3>1, <4>2, <4>3 DEF ProjectionType
    <3>3. projection'[version] # None
      BY <3>2, ServingAssumption
    <3> QED
      BY <1>12, <2>2, <2>4, <3>2, <3>3
         DEF TransformRegistered, Inv, FutureBlank, Deployed, ReadyMirrored, CurrentSound, Sound
  <2> QED
    BY <2>3, <2>4
<1>13. ASSUME NEW t \in Transforms, NEW answer \in {"running", "ready", "failed"},
              TransformReconciled(t, answer)
       PROVE  Inv'
  <2> DEFINE w == transform[t].version
             p == [projection[w] EXCEPT !.transform = answer, !.queryable = (answer = "ready")]
  <2>1. \A x \in Transforms : transform'[x].input = transform[x].input
                              /\ transform'[x].run = transform[x].run
    BY <1>13 DEF TransformReconciled, TypeOK
  <2>2. RunsFill'
    BY <1>13, <2>1 DEF TransformReconciled, Inv, RunsFill
  <2>3. answer = "ready" => target > 0
    BY <1>13 DEF TransformReconciled, Inv, RunsFill
  <2>4. projection' = [projection EXCEPT ![w] = IF projection[w] = None THEN projection[w] ELSE p]
    BY <1>13 DEF TransformReconciled
  <2>5. deployment' = [deployment EXCEPT ![w] =
            IF projection[w] # None /\ answer = "ready" THEN "ready" ELSE deployment[w]]
    BY <1>13 DEF TransformReconciled
  <2>6. FutureBlank'
    BY <1>13, <2>4, <2>5 DEF TransformReconciled, Inv, FutureBlank, TypeOK
  <2>7. CASE w = version /\ projection[version] # None
    <3>1. projection[version] \in ProjectionType
      BY <1>v, <2>7 DEF TypeOK
    <3>2. projection'[version] = p
      BY <1>v, <2>4, <2>7 DEF TypeOK
    <3>3. p \in ProjectionType /\ p # None
      <4>1. p \in ProjectionType
        BY <2>7, <3>1 DEF ProjectionType
      <4> QED
        BY <4>1, ServingAssumption
    <3>4. p.sync = projection[version].sync /\ p.transform = answer /\ p.queryable = (answer = "ready")
      BY <2>7, <3>1 DEF ProjectionType
    <3>5. Sound(p, ods, target, verdict[version])
      BY <2>3, <2>7, <3>4 DEF Inv, CurrentSound, Sound
    <3>6. deployment'[version] = "absent" => deployment[version] = "absent"
      BY <1>v, <2>5 DEF TypeOK
    <3> QED
      BY <1>13, <2>2, <2>6, <2>7, <3>2, <3>3, <3>4, <3>5, <3>6
         DEF TransformReconciled, Inv, Deployed, ReadyMirrored, CurrentSound
  <2>8. CASE ~(w = version /\ projection[version] # None)
    <3>1. projection'[version] = projection[version] /\ deployment'[version] = deployment[version]
      BY <1>v, <2>4, <2>5, <2>8 DEF TypeOK
    <3> QED
      BY <1>13, <2>2, <2>6, <3>1 DEF TransformReconciled, Inv, Deployed, ReadyMirrored, CurrentSound
  <2> QED
    BY <2>7, <2>8
<1>14. CASE TableRuns
  <2>1. UNCHANGED <<version, deployment, projection, contract, verdict>>
    BY <1>14 DEF TableRuns
  <2>2. ods' \in Nat /\ target' \in Nat /\ ods \in Nat /\ target \in Nat
    BY <1>14, StepTyped DEF TypeOK
  <2>3. /\ RunsFill' /\ (ods > 0 => ods' > 0) /\ (target > 0 => target' > 0)
    <3>1. ASSUME NEW s \in Syncs, SyncRuns(s)
          PROVE  RunsFill' /\ (ods > 0 => ods' > 0) /\ (target > 0 => target' > 0)
      <4>1. PICK outcome \in Outcomes :
                /\ sync' = [sync EXCEPT ![s].run = outcome]
                /\ ods' = IF outcome = "success" THEN ods + 1 ELSE ods
        BY <3>1 DEF SyncRuns
      <4>2. \A x \in Syncs : /\ sync'[x].version = sync[x].version
                             /\ sync'[x].run = "success" =>
                                    outcome = "success" \/ sync[x].run = "success"
        BY <4>1 DEF TypeOK
      <4>3. (ods > 0 => ods' > 0) /\ (outcome = "success" => ods' > 0)
        BY <2>2, <4>1
      <4>4. UNCHANGED <<transform, target>>
        BY <3>1 DEF SyncRuns
      <4> QED
        BY <2>1, <4>2, <4>3, <4>4 DEF Inv, RunsFill
    <3>2. ASSUME NEW t \in Transforms, TransformRuns(t)
          PROVE  RunsFill' /\ (ods > 0 => ods' > 0) /\ (target > 0 => target' > 0)
      <4>1. UNCHANGED <<ods, sync>>
        BY <3>2 DEF TransformRuns
      <4>2. CASE transform[t].run = "queued"
        <5>1. ods > 0 /\ target' = target
          BY <3>2, <4>2 DEF TransformRuns, Inv, RunsFill
        <5>2. \A x \in Transforms :
                \/ transform'[x] = transform[x]
                \/ transform'[x].run = "running" /\ transform'[x].input = ods
          BY <3>2, <4>2 DEF TransformRuns, TypeOK
        <5> QED
          BY <2>1, <4>1, <5>1, <5>2 DEF Inv, RunsFill
      <4>3. CASE transform[t].run = "running"
        <5>1. PICK outcome \in Outcomes :
                 /\ transform' = [transform EXCEPT ![t].run = outcome]
                 /\ target' = IF outcome = "success" THEN transform[t].input ELSE target
          BY <3>2, <4>3 DEF TransformRuns
        <5>2. ods > 0 /\ transform[t].input > 0
          BY <4>3 DEF Inv, RunsFill
        <5>3. \A x \in Transforms :
                /\ transform'[x].input = transform[x].input
                /\ \/ transform'[x].run = transform[x].run
                   \/ x = t /\ transform'[x].run = outcome
          BY <5>1 DEF TypeOK
        <5> QED
          BY <2>1, <4>1, <5>1, <5>2, <5>3 DEF Inv, RunsFill, Outcomes
      <4> QED
        BY <3>2, <4>2, <4>3 DEF TransformRuns
    <3> QED
      BY <1>14, <3>1, <3>2 DEF TableRuns
  <2> QED
    BY <2>1, <2>3 DEF Inv, FutureBlank, Deployed, ReadyMirrored, CurrentSound, Sound
<1>15. CASE UNCHANGED vars
  BY <1>15 DEF vars, Inv, FutureBlank, RunsFill, Deployed, ReadyMirrored, CurrentSound
<1> QED
  BY <1>1, <1>2, <1>3, <1>4, <1>5, <1>6, <1>7, <1>8, <1>9, <1>10, <1>11, <1>12, <1>13,
     <1>14, <1>15 DEF Next

LEMMA InvHolds == Spec => [](TypeOK /\ Inv)
<1>1. Init => TypeOK /\ Inv
  BY InitTyped, InitInv
<1>2. TypeOK /\ Inv /\ [Next]_vars => (TypeOK /\ Inv)'
  BY StepTyped, StepInv
<1> QED
  BY <1>1, <1>2, PTL DEF Spec

(* A contract of the published version that is ready has a synced            *)
(* projection: mirroring goes through one function.                          *)
THEOREM ContractsAreMirrored == Spec => []ReadyMirrored
<1>1. Inv => ReadyMirrored
  BY DEF Inv
<1> QED
  BY <1>1, InvHolds, PTL

(* The query gateway reads nothing whose last verdict was not good. *)
THEOREM VerdictsDecide == Spec => []ReadableVerified
<1>1. Inv => ReadableVerified
  BY DEF Inv, CurrentSound, Sound, ReadableVerified, Readable
<1> QED
  BY <1>1, InvHolds, PTL

(* The table that the query gateway reads has been filled by a run that      *)
(* succeeded, however serving switches between raw and derived tables.       *)
THEOREM FilledTablesOnly == Spec => []ReadsLoadedTable
<1>1. Inv => ReadsLoadedTable
  BY DEF Inv, CurrentSound, Sound, ReadsLoadedTable, Readable
<1> QED
  BY <1>1, InvHolds, PTL
===============================================================================
