----------------------- MODULE WarehouseMigrationProofs -----------------------
(***************************************************************************)
(* Theorems about WarehouseMigration for any number of batches, versions   *)
(* and artifacts.                                                          *)
(***************************************************************************)
EXTENDS WarehouseMigration, TLAPS

Rows == [version : 0 .. MaxVersion, step : 0 .. 15,
         status : ActiveStatus \union TerminalStatus \union {"absent"},
         drilled : BOOLEAN, approved : BOOLEAN, observed : BOOLEAN]

(* The version that is published, of all that DorisServing keeps. *)
VersionTyped == version \in 1 .. MaxVersion

(* A batch is observed before it passes its eleventh step. *)
ObservedFirst == \A b \in Batches : batch[b].step >= 11 => batch[b].observed

(* Old DAGs are paused by a batch that has passed the eleventh. *)
PausedBy == paused => \E b \in Created : batch[b].step >= 11

GatesInv ==
    /\ VersionTyped
    /\ TypeOK
    /\ EvidenceComplete
    /\ ObservedFirst
    /\ PausedBy

LEMMA CreatedAreBatches == TypeOK => Created \subseteq Batches
  BY DEF TypeOK, Created

(* DorisServing leaves the batches alone, and counts versions. *)
LEMMA ServingStep ==
    ASSUME GatesInv, Serving!Next, UNCHANGED gates
    PROVE  GatesInv'
<1>1. version' \in 1 .. MaxVersion
  <2>1. version' = version \/ (version < MaxVersion /\ version' = version + 1)
    BY DEF Serving!Next, Serving!PublishVersion, Serving!PrepareDeployment, Serving!Backfill,
        Serving!MaterializeExecutes, Serving!MaterializeReconciled, Serving!MaterializeFailed,
        Serving!MaterializeRuns, Serving!SyncExecutes, Serving!SyncSubmitted,
        Serving!SyncRejected, Serving!SyncHandedOver, Serving!SyncReconciledRunning,
        Serving!SyncReconciledFailed, Serving!SyncVerified, Serving!SyncRefuted,
        Serving!TaskReported, Serving!TransformExecutes, Serving!TransformRegistered,
        Serving!TransformReconciled, Serving!TableRuns
  <2> QED
    BY <2>1, MigrationAssumption DEF GatesInv, VersionTyped
<1> QED
  BY <1>1 DEF GatesInv, VersionTyped, gates, TypeOK, EvidenceComplete, ObservedFirst, PausedBy, Created

LEMMA InitGates == Init => GatesInv
<1> SUFFICES ASSUME Init PROVE GatesInv
  OBVIOUS
<1> USE MigrationAssumption
<1>1. NoBatch \in Rows /\ NoBatch.step = 0
  BY DEF NoBatch, Rows
<1>2. batch = [b \in Batches |-> NoBatch] /\ newest = <<>> /\ creating = {} /\ paused = FALSE
      /\ evidence = [b \in Batches |-> [n \in Steps |-> "none"]] /\ version = 1
  BY DEF Init, Serving!Init
<1>3. TypeOK
  <2>1. <<>> \in Seq(Batches)
    OBVIOUS
  <2>2. batch \in [Batches -> Rows]
    BY <1>1, <1>2
  <2>3. evidence \in [Batches -> [Steps -> {"none", "pass", "fail"}]]
    BY <1>2
  <2> QED
    BY <1>2, <2>1, <2>2, <2>3 DEF TypeOK, Rows
<1>4. \A b \in Batches : batch[b].step = 0
  BY <1>1, <1>2
<1> QED
  BY <1>2, <1>3, <1>4
     DEF GatesInv, VersionTyped, EvidenceComplete, ObservedFirst, PausedBy, Steps

(* A row with other marks is a row. *)
LEMMA RowsTyped ==
    ASSUME NEW r \in Rows
    PROVE  /\ [r EXCEPT !.drilled = TRUE] \in Rows
           /\ [r EXCEPT !.observed = TRUE] \in Rows
           /\ \A v \in 1 .. MaxVersion : [r EXCEPT !.version = v] \in Rows
           /\ \A t \in ActiveStatus \union TerminalStatus : [r EXCEPT !.status = t] \in Rows
           /\ \A n \in Steps : \A t \in ActiveStatus \union TerminalStatus :
                /\ [r EXCEPT !.step = n, !.status = t] \in Rows
                /\ [r EXCEPT !.step = n, !.status = t, !.approved = TRUE] \in Rows
<1>1. /\ [r EXCEPT !.drilled = TRUE] \in Rows
      /\ [r EXCEPT !.observed = TRUE] \in Rows
  BY DEF Rows
<1>2. ASSUME NEW v \in 1 .. MaxVersion
      PROVE  [r EXCEPT !.version = v] \in Rows
  <2>1. v \in 0 .. MaxVersion
    BY MigrationAssumption
  <2> QED
    BY <2>1 DEF Rows
<1>3. ASSUME NEW t \in ActiveStatus \union TerminalStatus
      PROVE  [r EXCEPT !.status = t] \in Rows
  BY DEF Rows
<1>4. ASSUME NEW n \in Steps, NEW t \in ActiveStatus \union TerminalStatus
      PROVE  /\ [r EXCEPT !.step = n, !.status = t] \in Rows
             /\ [r EXCEPT !.step = n, !.status = t, !.approved = TRUE] \in Rows
  <2>1. n \in 0 .. 15
    BY DEF Steps
  <2> QED
    BY <2>1 DEF Rows
<1> QED
  BY <1>1, <1>2, <1>3, <1>4

(* The next step of a batch passes: all before it have. *)
LEMMA PassedInv ==
    ASSUME GatesInv, NEW b \in Batches, NEW n \in Steps, RecordPassed(b, n),
           n = batch[b].step + 1, n = 11 => batch[b].observed,
           version' \in 1 .. MaxVersion, UNCHANGED <<newest, creating>>,
           paused' = paused \/ (n = 12 /\ b \in Created /\ paused' = TRUE)
    PROVE  GatesInv'
<1> DEFINE r == [batch[b] EXCEPT !.step = n, !.status = PassedStatus(n)]
<1>1. batch[b] \in Rows /\ batch \in [Batches -> Rows]
  BY DEF GatesInv, TypeOK, Rows
<1>2. PassedStatus(n) \in ActiveStatus \union TerminalStatus
  BY DEF PassedStatus, ActiveStatus, TerminalStatus
<1>3. r \in Rows /\ r.step = n /\ r.observed = batch[b].observed
  <2>1. r \in Rows
    BY <1>1, <1>2, RowsTyped
  <2> QED
    BY <1>1, <2>1 DEF Rows
<1>4. batch' = [batch EXCEPT ![b] = r]
  BY <1>1 DEF RecordPassed
<1>5. evidence' = [evidence EXCEPT ![b][n] = "pass"]
  BY DEF RecordPassed
<1>e. /\ evidence' \in [Batches -> [Steps -> {"none", "pass", "fail"}]]
      /\ \A c \in Batches, m \in Steps :
            evidence'[c][m] = IF c = b /\ m = n THEN "pass" ELSE evidence[c][m]
  <2>1. evidence \in [Batches -> [Steps -> {"none", "pass", "fail"}]]
    BY DEF GatesInv, TypeOK
  <2> QED
    BY <1>5, <2>1
<1>6. TypeOK'
  <2>1. batch' \in [Batches -> Rows]
    BY <1>1, <1>3, <1>4
  <2> QED
    BY <1>e, <2>1 DEF GatesInv, TypeOK, Rows
<1>7. EvidenceComplete'
  <2> SUFFICES ASSUME NEW c \in Batches, NEW m \in Steps, m <= batch'[c].step
               PROVE  evidence'[c][m] = "pass"
    BY DEF EvidenceComplete
  <2>1. CASE c = b /\ m = n
    BY <2>1, <1>e
  <2>2. CASE c = b /\ m # n
    <3>1. m <= batch[b].step
      BY <1>1, <1>3, <1>4, <2>2 DEF Rows, Steps
    <3> QED
      BY <1>e, <2>2, <3>1 DEF GatesInv, EvidenceComplete
  <2>3. CASE c # b
    BY <1>1, <1>4, <1>e, <2>3 DEF GatesInv, EvidenceComplete
  <2> QED
    BY <2>1, <2>2, <2>3
<1>8. ObservedFirst'
  BY <1>1, <1>3, <1>4 DEF GatesInv, ObservedFirst, Rows, Steps
<1>9. PausedBy'
  <2>1. \A c \in Batches : batch[c].step >= 11 => batch'[c].step >= 11
    BY <1>1, <1>3, <1>4 DEF Rows, Steps
  <2>2. n = 12 => batch'[b].step >= 11
    BY <1>1, <1>3, <1>4
  <2>3. Created' = Created /\ Created \subseteq Batches
    BY CreatedAreBatches DEF Created, GatesInv
  <2> QED
    BY <2>1, <2>2, <2>3 DEF GatesInv, PausedBy
<1> QED
  BY <1>6, <1>7, <1>8, <1>9 DEF GatesInv, VersionTyped

(* The next step of a batch fails: those before it have still passed. *)
LEMMA FailedInv ==
    ASSUME GatesInv, NEW b \in Batches, NEW n \in Steps, RecordFailed(b, n),
           n = batch[b].step + 1,
           version' \in 1 .. MaxVersion, UNCHANGED <<newest, creating>>,
           paused' = paused \/ (n = 12 /\ b \in Created /\ paused' = TRUE)
    PROVE  GatesInv'
<1> DEFINE r == [batch[b] EXCEPT !.status = "blocked"]
<1>1. batch[b] \in Rows /\ batch \in [Batches -> Rows]
  BY DEF GatesInv, TypeOK, Rows
<1>2. r \in Rows /\ r.step = batch[b].step /\ r.observed = batch[b].observed
  BY <1>1, RowsTyped DEF ActiveStatus, Rows
<1>3. batch' = [batch EXCEPT ![b] = r] /\ evidence' = [evidence EXCEPT ![b][n] = "fail"]
  BY DEF RecordFailed
<1>e. /\ evidence' \in [Batches -> [Steps -> {"none", "pass", "fail"}]]
      /\ \A c \in Batches, m \in Steps :
            evidence'[c][m] = IF c = b /\ m = n THEN "fail" ELSE evidence[c][m]
  <2>1. evidence \in [Batches -> [Steps -> {"none", "pass", "fail"}]]
    BY DEF GatesInv, TypeOK
  <2> QED
    BY <1>3, <2>1
<1>4. TypeOK'
  <2>1. batch' \in [Batches -> Rows]
    BY <1>1, <1>2, <1>3
  <2> QED
    BY <1>e, <2>1 DEF GatesInv, TypeOK, Rows
<1>5. \A c \in Batches : batch'[c].step = batch[c].step /\ batch'[c].observed = batch[c].observed
  BY <1>1, <1>2, <1>3
<1>6. EvidenceComplete'
  <2> SUFFICES ASSUME NEW c \in Batches, NEW m \in Steps, m <= batch'[c].step
               PROVE  evidence'[c][m] = "pass"
    BY DEF EvidenceComplete
  <2>1. m <= batch[c].step /\ evidence[c][m] = "pass"
    BY <1>5 DEF GatesInv, EvidenceComplete
  <2>2. ~(c = b /\ m = n)
    BY <1>1, <2>1 DEF Rows, Steps
  <2> QED
    BY <1>e, <2>1, <2>2
<1>7. Created' = Created /\ Created \subseteq Batches
  BY CreatedAreBatches DEF Created, GatesInv
<1>8. n = 12 => batch[b].step >= 11
  BY <1>1 DEF Rows
<1> QED
  BY <1>4, <1>5, <1>6, <1>7, <1>8 DEF GatesInv, VersionTyped, ObservedFirst, PausedBy

(* What changes neither steps nor evidence, and unmarks no observation. *)
LEMMA MarksInv ==
    ASSUME GatesInv, TypeOK', version' \in 1 .. MaxVersion, UNCHANGED <<evidence, paused>>,
           \A b \in Batches : /\ batch'[b].step = batch[b].step
                              /\ batch[b].observed => batch'[b].observed,
           Created \subseteq Created'
    PROVE  GatesInv'
<1>1. Created \subseteq Batches
  BY CreatedAreBatches DEF GatesInv
<1> QED
  BY <1>1 DEF GatesInv, VersionTyped, EvidenceComplete, ObservedFirst, PausedBy

LEMMA MigrationStep ==
    ASSUME GatesInv, NEW b \in Batches,
           \/ CreateChecked(b) \/ CreateInserted(b)
           \/ \E n \in Steps : StepPassed(b, n) \/ StepFailed(b, n)
           \/ MaterializeStepPassed(b) \/ TransformStepPassed(b)
           \/ DrillRecorded(b) \/ CutoverApproved(b) \/ WindowEnds(b)
           \/ LegacyStopped(b) \/ RolledBack(b)
    PROVE  GatesInv'
<1>1. batch[b] \in Rows /\ batch \in [Batches -> Rows] /\ version \in 1 .. MaxVersion
  BY DEF GatesInv, TypeOK, Rows, VersionTyped
<1>2. CASE CreateChecked(b)
  <2>1. [batch[b] EXCEPT !.version = version] \in Rows
    BY <1>1, RowsTyped
  <2>2. batch' = [batch EXCEPT ![b] = [batch[b] EXCEPT !.version = version]]
    BY <1>2 DEF CreateChecked
  <2>3. TypeOK'
    BY <1>1, <1>2, <2>1, <2>2 DEF CreateChecked, GatesInv, TypeOK, Rows
  <2>4. \A c \in Batches : batch'[c].step = batch[c].step /\ batch'[c].observed = batch[c].observed
    BY <1>1, <2>2 DEF Rows
  <2> QED
    BY <1>1, <1>2, <2>3, <2>4, MarksInv DEF CreateChecked, serving, Created
<1>3. CASE CreateInserted(b)
  <2>1. [batch[b] EXCEPT !.status = "preparing"] \in Rows
    BY <1>1, RowsTyped DEF ActiveStatus
  <2>2. batch' = [batch EXCEPT ![b] = [batch[b] EXCEPT !.status = "preparing"]]
    BY <1>3 DEF CreateInserted
  <2>3. newest \in Seq(Batches) /\ newest' = Append(newest, b)
    BY <1>3 DEF CreateInserted, GatesInv, TypeOK
  <2>4. TypeOK'
    BY <1>1, <1>3, <2>1, <2>2, <2>3 DEF CreateInserted, GatesInv, TypeOK, Rows
  <2>5. \A c \in Batches : batch'[c].step = batch[c].step /\ batch'[c].observed = batch[c].observed
    BY <1>1, <2>2 DEF Rows
  <2>6. Created \subseteq Created'
    BY <2>3 DEF Created
  <2> QED
    BY <1>1, <1>3, <2>4, <2>5, <2>6, MarksInv DEF CreateInserted, serving
<1>4. ASSUME NEW n \in Steps, StepPassed(b, n) PROVE GatesInv'
  BY <1>1, <1>4, PassedInv DEF StepPassed, Recordable, serving
<1>5. ASSUME NEW n \in Steps, StepFailed(b, n) PROVE GatesInv'
  BY <1>1, <1>5, FailedInv DEF StepFailed, Recordable, serving
<1>6. CASE MaterializeStepPassed(b)
  <2>1. /\ RecordPassed(b, 3) /\ 3 = batch[b].step + 1 /\ 3 \in Steps
        /\ UNCHANGED <<version, newest, creating, paused>>
    BY <1>6 DEF MaterializeStepPassed, Recordable, Serving!MaterializeReconciled, Steps
  <2> QED
    BY <1>1, <2>1, PassedInv
<1>7. CASE TransformStepPassed(b)
  <2>1. /\ RecordPassed(b, 5) /\ 5 = batch[b].step + 1 /\ 5 \in Steps
        /\ UNCHANGED <<version, newest, creating, paused>>
    <3>1. PICK t \in Transforms : Serving!TransformReconciled(t, "ready")
      BY <1>7 DEF TransformStepPassed
    <3>2. version' = version
      BY <3>1 DEF Serving!TransformReconciled
    <3> QED
      BY <1>7, <3>2 DEF TransformStepPassed, Recordable, Steps
  <2> QED
    BY <1>1, <2>1, PassedInv
<1>8. CASE DrillRecorded(b) \/ WindowEnds(b)
  <2>1. PICK r \in Rows : batch' = [batch EXCEPT ![b] = r] /\ r.step = batch[b].step
                          /\ (batch[b].observed => r.observed)
    <3>1. CASE DrillRecorded(b)
      <4> DEFINE r == [batch[b] EXCEPT !.drilled = TRUE]
      <4>1. r \in Rows /\ r.step = batch[b].step /\ r.observed = batch[b].observed
        BY <1>1 DEF Rows
      <4>2. batch' = [batch EXCEPT ![b] = r]
        BY <3>1 DEF DrillRecorded
      <4> QED
        BY <4>1, <4>2
    <3>2. CASE WindowEnds(b)
      <4> DEFINE r == [batch[b] EXCEPT !.observed = TRUE]
      <4>1. r \in Rows /\ r.step = batch[b].step /\ r.observed
        BY <1>1 DEF Rows
      <4>2. batch' = [batch EXCEPT ![b] = r]
        BY <3>2 DEF WindowEnds
      <4> QED
        BY <4>1, <4>2
    <3> QED
      BY <1>8, <3>1, <3>2
  <2>2. UNCHANGED <<version, newest, creating, evidence, paused>>
    BY <1>8 DEF DrillRecorded, WindowEnds, serving
  <2>3. TypeOK'
    BY <1>1, <2>1, <2>2 DEF GatesInv, TypeOK, Rows
  <2>4. \A c \in Batches : batch'[c].step = batch[c].step /\ (batch[c].observed => batch'[c].observed)
    BY <1>1, <2>1
  <2> QED
    BY <1>1, <2>2, <2>3, <2>4, MarksInv DEF Created
<1>9. CASE CutoverApproved(b)
  <2> DEFINE r == [batch[b] EXCEPT !.step = 10, !.status = "cutover", !.approved = TRUE]
  <2>1. r \in Rows /\ r.step = 10 /\ r.observed = batch[b].observed /\ batch[b].step = 9
    <3>1. "cutover" \in ActiveStatus /\ 10 \in Steps
      BY DEF ActiveStatus, Steps
    <3>2. batch[b].step = 9
      BY <1>9 DEF CutoverApproved, MayCutOver
    <3>3. r \in Rows
      BY <1>1, <3>1, RowsTyped
    <3> QED
      BY <1>1, <3>2, <3>3 DEF Rows
  <2>2. batch' = [batch EXCEPT ![b] = r] /\ evidence' = [evidence EXCEPT ![b][10] = "pass"]
        /\ UNCHANGED <<version, newest, creating, paused>>
    BY <1>9 DEF CutoverApproved, serving
  <2>3. TypeOK'
    BY <1>1, <2>1, <2>2 DEF GatesInv, TypeOK, Rows, Steps
  <2>4. EvidenceComplete'
    BY <1>1, <2>1, <2>2 DEF GatesInv, TypeOK, EvidenceComplete, Steps, Rows
  <2>5. \A c \in Batches : batch'[c].step >= 11 <=> batch[c].step >= 11
    BY <1>1, <2>1, <2>2
  <2>6. \A c \in Batches : batch'[c].observed = batch[c].observed
    BY <1>1, <2>1, <2>2
  <2>7. Created' = Created /\ Created \subseteq Batches
    BY <2>2, CreatedAreBatches DEF Created, GatesInv
  <2> QED
    BY <1>1, <2>2, <2>3, <2>4, <2>5, <2>6, <2>7 DEF GatesInv, VersionTyped, ObservedFirst, PausedBy
<1>10. CASE LegacyStopped(b)
  <2>1. UNCHANGED <<version, newest, creating>> /\ b \in Created /\ paused' = TRUE /\ 12 \in Steps
        /\ batch[b].step = 11
    BY <1>10 DEF LegacyStopped, Current, serving, Steps
  <2>2. CASE RecordPassed(b, 12)
    <3>1. 12 = batch[b].step + 1 /\ (12 = 11 => batch[b].observed)
      BY <2>1
    <3> QED
      BY <1>1, <2>1, <2>2, <3>1, PassedInv
  <2>3. CASE RecordFailed(b, 12)
    <3>1. 12 = batch[b].step + 1
      BY <2>1
    <3> QED
      BY <1>1, <2>1, <2>3, <3>1, FailedInv
  <2> QED
    BY <1>10, <2>2, <2>3 DEF LegacyStopped
<1>11. CASE RolledBack(b)
  <2> DEFINE r == [batch[b] EXCEPT !.status = "rolled_back"]
  <2>1. r \in Rows /\ r.step = batch[b].step /\ r.observed = batch[b].observed
    BY <1>1 DEF Rows, TerminalStatus
  <2>2. batch' = [batch EXCEPT ![b] = r]
    BY <1>11 DEF RolledBack
  <2>3. UNCHANGED <<version, newest, creating, evidence, paused>>
    BY <1>11 DEF RolledBack
  <2>4. TypeOK'
    BY <1>1, <2>1, <2>2, <2>3 DEF GatesInv, TypeOK, Rows
  <2>5. \A c \in Batches : batch'[c].step = batch[c].step /\ batch'[c].observed = batch[c].observed
    BY <1>1, <2>1, <2>2
  <2> QED
    BY <1>1, <2>3, <2>4, <2>5, MarksInv DEF Created
<1> QED
  BY <1>2, <1>3, <1>4, <1>5, <1>6, <1>7, <1>8, <1>9, <1>10, <1>11

LEMMA GatesKept == GatesInv /\ [Next]_vars => GatesInv'
<1> SUFFICES ASSUME GatesInv, [Next]_vars PROVE GatesInv'
  OBVIOUS
<1>1. CASE Serving!Next /\ UNCHANGED gates
  BY <1>1, ServingStep
<1>2. CASE UNCHANGED vars
  BY <1>2 DEF vars, serving, gates, GatesInv, VersionTyped, TypeOK, EvidenceComplete,
        ObservedFirst, PausedBy, Created
<1>3. CASE Next /\ ~(Serving!Next /\ UNCHANGED gates)
  BY <1>3, MigrationStep DEF Next
<1> QED
  BY <1>1, <1>2, <1>3

LEMMA GatesHold == Spec => []GatesInv
  BY GatesKept, InitGates, PTL DEF Spec

(* Batches and their evidence stay rows of their types. *)
THEOREM GatesTyped == Spec => []TypeOK
  BY GatesHold, PTL DEF GatesInv

(* A batch never stands at a step while the latest evidence of an earlier   *)
(* one is missing or a failure.                                             *)
THEOREM NothingSkipped == Spec => []EvidenceComplete
  BY GatesHold, PTL DEF GatesInv

(* Old DAGs are paused only after an observed cut-over. *)
THEOREM LegacyOutlivesCutover == Spec => []LegacyKept
<1>1. GatesInv => LegacyKept
  <2> SUFFICES ASSUME GatesInv, paused
               PROVE  \E b \in Created : batch[b].observed /\ evidence[b][11] = "pass"
    BY DEF LegacyKept
  <2>1. PICK b \in Created : batch[b].step >= 11
    BY DEF GatesInv, PausedBy
  <2>2. b \in Batches
    BY CreatedAreBatches DEF GatesInv
  <2>3. 11 \in Steps /\ 11 <= batch[b].step
    BY <2>1, <2>2 DEF GatesInv, TypeOK, Steps
  <2> QED
    BY <2>1, <2>2, <2>3 DEF GatesInv, ObservedFirst, EvidenceComplete
<1> QED
  BY <1>1, GatesHold, PTL
------------------------------------------------------------------------------
(* What DorisServing proves of itself, here where migrations act on it, too. *)
SP == INSTANCE DorisServingProofs

LEMMA SameNext == Serving!Next => SP!Next
  BY DEF Serving!NewProjection, SP!NewProjection, Serving!Found, SP!Found,
         Serving!HasSeparateTransform, SP!HasSeparateTransform, Serving!DirectSync,
         SP!DirectSync, Serving!UpsertProjection, SP!UpsertProjection,
         Serving!DirectSyncReady, SP!DirectSyncReady, Serving!RaisedToSchemaReady,
         SP!RaisedToSchemaReady, Serving!MirrorUnready, SP!MirrorUnready,
         Serving!PublishVersion, SP!PublishVersion, Serving!PrepareDeployment,
         SP!PrepareDeployment, Serving!MaterializeExecutes, SP!MaterializeExecutes,
         Serving!MaterializeReconciled, SP!MaterializeReconciled,
         Serving!MaterializeFailed, SP!MaterializeFailed, Serving!SyncExecutes,
         SP!SyncExecutes, Serving!SyncSubmitted, SP!SyncSubmitted, Serving!SyncRejected,
         SP!SyncRejected, Serving!SyncHandedOver, SP!SyncHandedOver, Serving!SyncReady,
         SP!SyncReady, Serving!SyncUnready, SP!SyncUnready, Serving!SyncReconciledRunning,
         SP!SyncReconciledRunning, Serving!SyncReconciledFailed, SP!SyncReconciledFailed,
         Serving!SyncVerified, SP!SyncVerified, Serving!SyncRefuted, SP!SyncRefuted,
         Serving!TaskReported, SP!TaskReported, Serving!Backfill, SP!Backfill,
         Serving!TransformExecutes, SP!TransformExecutes, Serving!TransformRegistered,
         SP!TransformRegistered, Serving!TransformReconciled, SP!TransformReconciled,
         Serving!Outcomes, SP!Outcomes, Serving!SyncRuns, SP!SyncRuns,
         Serving!TransformRuns, SP!TransformRuns, Serving!TableRuns, SP!TableRuns,
         Serving!MaterializeRuns, SP!MaterializeRuns, Serving!Next, SP!Next

LEMMA SameReadable == Serving!Readable <=> SP!Readable
  BY DEF Serving!Readable, SP!Readable

LEMMA SameAssumption ==
    /\ MaxVersion \in Nat \ {0}
    /\ {Cdc, Forgets} \subseteq BOOLEAN
    /\ None \notin SP!ProjectionType
<1>1. SP!ProjectionType = Serving!ProjectionType
  BY DEF SP!ProjectionType, Serving!ProjectionType
<1> QED
  BY <1>1, MigrationAssumption
(* Batches change what DorisServing keeps by its own steps, but for rollbacks. *)
LEMMA ServingKept ==
    SP!TypeOK /\ SP!Inv /\ VersionTyped /\ [Next]_vars => SP!TypeOK' /\ SP!Inv'
<1> SUFFICES ASSUME SP!TypeOK, SP!Inv, VersionTyped, [Next]_vars
             PROVE  SP!TypeOK' /\ SP!Inv'
  OBVIOUS
<1>1. ASSUME [SP!Next]_(SP!vars) PROVE SP!TypeOK' /\ SP!Inv'
  BY <1>1, SameAssumption, SP!StepTyped, SP!StepInv
<1>2. ASSUME UNCHANGED serving PROVE SP!TypeOK' /\ SP!Inv'
  <2>1. UNCHANGED SP!vars
    BY <1>2 DEF serving, SP!vars
  <2> QED
    BY <1>1, <2>1
<1>3. CASE Serving!Next
  BY <1>1, <1>3, SameNext
<1>4. CASE UNCHANGED vars
  BY <1>2, <1>4 DEF vars, serving
<1>5. ASSUME NEW b \in Batches, MaterializeStepPassed(b) PROVE SP!TypeOK' /\ SP!Inv'
  <2>1. Serving!Next
    BY <1>5 DEF MaterializeStepPassed, Serving!Next
  <2> QED
    BY <1>3, <2>1
<1>6. ASSUME NEW b \in Batches, TransformStepPassed(b) PROVE SP!TypeOK' /\ SP!Inv'
  <2>1. Serving!Next
    BY <1>6 DEF TransformStepPassed, Serving!Next
  <2> QED
    BY <1>3, <2>1
<1>7. ASSUME NEW b \in Batches,
             \/ CreateChecked(b) \/ CreateInserted(b)
             \/ \E n \in Steps : StepPassed(b, n) \/ StepFailed(b, n)
             \/ DrillRecorded(b) \/ CutoverApproved(b) \/ WindowEnds(b) \/ LegacyStopped(b)
      PROVE  SP!TypeOK' /\ SP!Inv'
  <2>1. UNCHANGED serving
    BY <1>7 DEF CreateChecked, CreateInserted, StepPassed, StepFailed, DrillRecorded,
          CutoverApproved, WindowEnds, LegacyStopped
  <2> QED
    BY <1>2, <2>1
<1>8. ASSUME NEW b \in Batches, RolledBack(b) PROVE SP!TypeOK' /\ SP!Inv'
  <2>1. /\ projection' = [projection EXCEPT ![version] =
              IF projection[version] = None THEN projection[version]
              ELSE [projection[version] EXCEPT !.queryable = FALSE]]
        /\ UNCHANGED <<version, deployment, contract, sync, transform, mat, ods, target,
                       known, verdict>>
    BY <1>8 DEF RolledBack
  <2>2. version \in SP!Versions /\ projection \in [SP!Versions -> SP!ProjectionType \union {None}]
    BY DEF SP!TypeOK
  <2>3. CASE projection[version] = None
    <3>1. UNCHANGED serving
      BY <2>1, <2>2, <2>3 DEF serving
    <3> QED
      BY <1>2, <3>1
  <2>4. CASE projection[version] # None
    <3> DEFINE p == [projection[version] EXCEPT !.queryable = FALSE]
    <3>1. projection[version] \in SP!ProjectionType
      BY <2>2, <2>4
    <3>2. p \in SP!ProjectionType /\ ~p.queryable /\ p.sync = projection[version].sync
      BY <3>1 DEF SP!ProjectionType
    <3>3. projection' = [projection EXCEPT ![version] = p] /\ p # None
      BY <2>1, <2>4, <3>2, SameAssumption
    <3>4. projection'[version] = p
      BY <2>2, <3>3
    <3>5. projection' \in [SP!Versions -> SP!ProjectionType \union {None}]
      BY <2>2, <3>2, <3>3
    <3>6. SP!TypeOK'
      BY <2>1, <3>5 DEF SP!TypeOK, SP!ArtifactStates, SP!RunStates, SP!Versions
    <3>7. \A v \in SP!Versions : v > version => projection'[v] = projection[v]
      BY <2>2, <3>3 DEF SP!Versions
    <3>8. SP!FutureBlank'
      BY <2>1, <3>7 DEF SP!Inv, SP!FutureBlank, SP!Versions
    <3>9. SP!RunsFill' /\ SP!Deployed' /\ SP!ReadyMirrored' /\ SP!CurrentSound'
      BY <2>1, <2>4, <3>2, <3>3, <3>4
         DEF SP!Inv, SP!RunsFill, SP!Deployed, SP!ReadyMirrored, SP!CurrentSound, SP!Sound
    <3> QED
      BY <3>6, <3>8, <3>9 DEF SP!Inv
  <2> QED
    BY <2>3, <2>4
<1> QED
  BY <1>3, <1>4, <1>5, <1>6, <1>7, <1>8 DEF Next

(* No cut-over without a drill. *)
DrilledFirst == \A b \in Batches : batch[b].approved => batch[b].drilled

LEMMA DrilledKept == TypeOK /\ DrilledFirst /\ [Next]_vars => DrilledFirst'
<1> SUFFICES ASSUME TypeOK, DrilledFirst, [Next]_vars PROVE DrilledFirst'
  OBVIOUS
<1>1. batch \in [Batches -> Rows]
  BY DEF TypeOK, Rows
<1>2. ASSUME UNCHANGED batch PROVE DrilledFirst'
  BY <1>2 DEF DrilledFirst
<1>3. ASSUME NEW b \in Batches, NEW n, RecordPassed(b, n) \/ RecordFailed(b, n)
      PROVE  DrilledFirst'
  BY <1>1, <1>3 DEF RecordPassed, RecordFailed, DrilledFirst, Rows
<1>4. ASSUME NEW b \in Batches, CreateChecked(b) PROVE DrilledFirst'
  BY <1>1, <1>4 DEF CreateChecked, DrilledFirst, Rows
<1>5. ASSUME NEW b \in Batches, CreateInserted(b) PROVE DrilledFirst'
  BY <1>1, <1>5 DEF CreateInserted, DrilledFirst, Rows
<1>6. ASSUME NEW b \in Batches, DrillRecorded(b) \/ WindowEnds(b) PROVE DrilledFirst'
  BY <1>1, <1>6 DEF DrillRecorded, WindowEnds, DrilledFirst, Rows
<1>7. ASSUME NEW b \in Batches, CutoverApproved(b) PROVE DrilledFirst'
  BY <1>1, <1>7 DEF CutoverApproved, MayCutOver, DrilledFirst, Rows
<1>8. ASSUME NEW b \in Batches, RolledBack(b) PROVE DrilledFirst'
  BY <1>1, <1>8 DEF RolledBack, DrilledFirst, Rows
<1>9. ASSUME NEW b \in Batches,
             \/ \E n \in Steps : StepPassed(b, n) \/ StepFailed(b, n)
             \/ MaterializeStepPassed(b) \/ TransformStepPassed(b) \/ LegacyStopped(b)
      PROVE  DrilledFirst'
  BY <1>3, <1>9 DEF StepPassed, StepFailed, MaterializeStepPassed, TransformStepPassed, LegacyStopped
<1> QED
  BY <1>2, <1>4, <1>5, <1>6, <1>7, <1>8, <1>9 DEF Next, vars, gates

ComposedInv == GatesInv /\ DrilledFirst /\ SP!TypeOK /\ SP!Inv

LEMMA ComposedHolds == Spec => []ComposedInv
<1>1. Init => ComposedInv
  <2>1. Init => SP!Init
    BY DEF Init, Serving!Init, SP!Init, Serving!Versions, SP!Versions
  <2>2. SP!Init => SP!TypeOK /\ SP!Inv
    BY SameAssumption, SP!InitTyped, SP!InitInv
  <2>3. Init => DrilledFirst
    BY DEF Init, DrilledFirst, NoBatch
  <2> QED
    BY <2>1, <2>2, <2>3, InitGates DEF ComposedInv
<1>2. ComposedInv /\ [Next]_vars => ComposedInv'
  BY GatesKept, ServingKept, DrilledKept DEF ComposedInv, GatesInv
<1> QED
  BY <1>1, <1>2, PTL DEF Spec

(* What DorisServing promises of its own steps holds under a migration, too: *)
(* the gates reconcile, hide and withdraw beside the executions, and a query *)
(* is still served only what was loaded and verified, with both rows agreed. *)
THEOREM ServingSurvives ==
    Spec => [](Serving!ReadsLoadedTable /\ Serving!ReadableVerified /\ Serving!ReadyMirrored)
<1>1. ASSUME SP!Inv
      PROVE  Serving!ReadsLoadedTable /\ Serving!ReadableVerified /\ Serving!ReadyMirrored
  <2>1. Serving!ReadyMirrored
    BY <1>1 DEF SP!Inv, SP!ReadyMirrored, Serving!ReadyMirrored
  <2>2. SP!Sound(projection[version], ods, target, verdict[version])
    BY <1>1 DEF SP!Inv, SP!CurrentSound
  <2>3. Serving!ReadsLoadedTable /\ Serving!ReadableVerified
    BY <2>2 DEF SP!Sound, Serving!ReadsLoadedTable, Serving!ReadableVerified, Serving!Readable
  <2> QED
    BY <2>1, <2>3
<1> QED
  BY <1>1, ComposedHolds, PTL DEF ComposedInv

(* What a user reads of a version under migration was cut over, after a     *)
(* drill and on complete evidence, and its sync was verified.               *)
THEOREM CutoverGuards == Spec => []ReadsAreCutOver
<1>1. ComposedInv => ReadsAreCutOver
  <2> SUFFICES ASSUME ComposedInv, UserReads, BatchesOfVersion # {}
               PROVE  \E b \in Created :
                        /\ batch[b].version = version
                        /\ batch[b].approved /\ batch[b].drilled
                        /\ \A n \in 1 .. 10 : evidence[b][n] = "pass"
                        /\ DeploymentReady /\ verdict[version] = "good"
    BY DEF ReadsAreCutOver
  <2>1. PICK i \in BatchesOfVersion : Visible(newest[i])
    BY DEF UserReads, CutoverAllows
  <2>2. newest[i] \in Created /\ newest[i] \in Batches /\ batch[newest[i]].version = version
    BY <2>1, CreatedAreBatches DEF BatchesOfVersion, Created, ComposedInv, GatesInv
  <2>3. batch[newest[i]].approved /\ batch[newest[i]].step >= 10
    BY <2>1 DEF Visible
  <2>4. \A n \in 1 .. 10 : evidence[newest[i]][n] = "pass"
    <3>1. batch[newest[i]].step \in Nat
      <4>1. batch \in [Batches -> Rows]
        BY DEF ComposedInv, GatesInv, TypeOK, Rows
      <4>2. \A r \in Rows : r.step \in Nat
        BY DEF Rows
      <4> QED
        BY <2>2, <4>1, <4>2
    <3>2. \A n \in 1 .. 10 : n \in Steps /\ n <= batch[newest[i]].step
      BY <2>3, <3>1 DEF Steps
    <3> QED
      BY <2>2, <3>2 DEF ComposedInv, GatesInv, EvidenceComplete
  <2>5. DeploymentReady /\ SP!Readable
    BY SameReadable DEF UserReads, Serving!Readable, DeploymentReady
  <2>6. verdict[version] = "good"
    BY <2>5 DEF ComposedInv, SP!Inv, SP!CurrentSound, SP!Sound, SP!Readable
  <2> QED
    BY <2>2, <2>3, <2>4, <2>5, <2>6 DEF ComposedInv, DrilledFirst
<1> QED
  BY <1>1, ComposedHolds, PTL
===============================================================================
