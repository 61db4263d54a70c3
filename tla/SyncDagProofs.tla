---------------------------- MODULE SyncDagProofs ----------------------------
(***************************************************************************)
(* Theorems about SyncDag for any tables, batches, executions, runs and    *)
(* rows, with executions cut short and tasks failing at any moment.        *)
(***************************************************************************)
EXTENDS SyncDag, FiniteSetTheorems, TLAPS

Tasks == [at : {"waiting", "moved", "swapped", "failed"}, try : {1, 2}, read : SUBSET Rows]
RunRecords == [batch : Batches \union {0},
               at : {"none", "queued", "success", "failed"} \union Running,
               try : {1, 2}, left : SUBSET [op : Ops, of : Tables],
               task : [Tables -> Tasks]]

(* What TypeOK says of the runs and of the warehouse. *)
LoadTyped ==
    /\ run \in [Runs -> RunRecords]
    /\ formal \in [Tables -> Contents]
    /\ staging \in [Tables -> Contents]

LEMMA ContentsTyped ==
    /\ Absent \in Contents
    /\ \A read \in SUBSET Rows : Copy(read) \in Contents /\ Copy(read) # Absent
    /\ \A c \in Contents, read \in SUBSET Rows : Loaded(c, read) \in Contents
<1>1. Absent \in Contents
  BY DEF Absent, Contents
<1>2. ASSUME NEW read \in SUBSET Rows PROVE Copy(read) \in Contents /\ Copy(read) # Absent
  BY DEF Copy, Absent, Contents
<1>3. ASSUME NEW c \in Contents, NEW read \in SUBSET Rows PROVE Loaded(c, read) \in Contents
  BY DEF Loaded, Contents
<1> QED
  BY <1>1, <1>2, <1>3

(* Loading an empty table makes a copy; loading any table brings all rows. *)
LEMMA LoadedHolds ==
    ASSUME NEW read \in SUBSET Rows
    PROVE  /\ Loaded(Copy({}), read) = Copy(read)
           /\ \A c \in Contents : Holds(Loaded(c, read), read)
<1>1. Loaded(Copy({}), read) = Copy(read)
  <2>1. \A x \in Rows :
          (IF x \notin read THEN 0 ELSE IF Keyed THEN 1 ELSE 0 + 1) = (IF x \in read THEN 1 ELSE 0)
    OBVIOUS
  <2> QED
    BY <2>1 DEF Loaded, Copy
<1>2. ASSUME NEW c \in Contents PROVE Holds(Loaded(c, read), read)
  <2>1. \A x \in Rows : c.rows[x] \in Nat
    BY DEF Contents
  <2>2. \A x \in Rows : Loaded(c, read).rows[x] =
          (IF x \notin read THEN c.rows[x] ELSE IF Keyed THEN 1 ELSE c.rows[x] + 1)
    BY DEF Loaded, Contents
  <2>3. \A x \in read : Loaded(c, read).rows[x] >= 1
    BY <2>1, <2>2
  <2> QED
    BY <2>3 DEF Holds
<1> QED
  BY <1>1, <1>2

(* The statements of a batch, and the effect of one of them. *)
LEMMA StatementsTyped ==
    ASSUME NEW b \in Batches PROVE Statements(b) \in SUBSET [op : Ops, of : Tables]
  BY DEF Statements, TablesOf

LEMMA EffectTyped ==
    ASSUME NEW s \in [op : Ops, of : Tables], Effect(s),
           formal \in [Tables -> Contents], staging \in [Tables -> Contents]
    PROVE  formal' \in [Tables -> Contents] /\ staging' \in [Tables -> Contents]
<1>1. Copy({}) \in Contents
  BY ContentsTyped
<1>2. CASE s.op = "table"
  BY <1>1, <1>2 DEF Effect
<1>3. CASE s.op = "like"
  BY <1>1, <1>3 DEF Effect
<1>4. CASE s.op = "truncate"
  BY <1>1, <1>4 DEF Effect
<1> QED
  BY <1>2, <1>3, <1>4 DEF Ops

(* A batch that is triggered is one of the plan. *)
JobTyped ==
    /\ job \in [at : {"idle", "stage", "copy", "place", "wait", "trigger"},
               batch : Batches \union {0}, version : 0 .. Executions, seen : SUBSET Batches]
    /\ job.at # "idle" => job.batch \in Batches

DeliveryTyped ==
    /\ JobTyped
    /\ staged \in [Batches -> 0 .. Executions]
    /\ body \in [Batches -> 0 .. Executions]
    /\ dag \in [Batches -> 0 .. Executions]
    /\ parsed \in [Batches -> BOOLEAN]
    /\ active \in [Batches -> BOOLEAN]

LEMMA TypeSplit == TypeOK <=> DeliveryTyped /\ LoadTyped
  BY DEF TypeOK, DeliveryTyped, JobTyped, LoadTyped, RunRecords, Tasks

LEMMA FirstBatch == 1 \in Batches
  BY SyncAssumption DEF Batches, BatchOf

(* The steps of an execution keep the types of the delivery. *)
LEMMA DeliveryStep == TypeOK /\ [Next]_vars => DeliveryTyped'
<1> SUFFICES ASSUME DeliveryTyped, [Next]_vars PROVE DeliveryTyped'
  BY TypeSplit
<1> USE SyncAssumption DEF DeliveryTyped, JobTyped
<1>1. CASE Execute
  BY <1>1, FirstBatch DEF Execute, files, airflow
<1>2. CASE StageBundle
  BY <1>2 DEF StageBundle, airflow
<1>3. CASE CopyBody
  BY <1>3 DEF CopyBody, airflow
<1>4. CASE PlaceDag
  BY <1>4, FirstBatch DEF PlaceDag, Following, airflow
<1>5. CASE ExecutionAborts
  BY <1>5 DEF ExecutionAborts, Ended, NoJob, files, airflow
<1>6. CASE WaitForParse
  BY <1>6 DEF WaitForParse, files, airflow
<1>7. CASE TriggerDag
  BY <1>7 DEF TriggerDag, Triggered, Ended, NoJob, files
<1>8. ASSUME NEW b \in Batches, ParseDag(b) PROVE DeliveryTyped'
  BY <1>8 DEF ParseDag, files
<1>9. ASSUME NEW b \in Batches, ScheduleDue(b) PROVE DeliveryTyped'
  BY <1>9 DEF ScheduleDue, files, airflow
<1>10. ASSUME NEW r \in Runs, Task(r) PROVE DeliveryTyped'
  <2>1. UNCHANGED <<job, files, airflow>>
    BY <1>10 DEF Task, StartRun, StatementRuns, StatementFails, EndRun, Move, MoveFails,
       Swap, SwapFails
  <2> QED
    BY <2>1 DEF files, airflow
<1>11. CASE UNCHANGED vars
  BY <1>11 DEF vars, files, airflow
<1> QED
  BY <1>1, <1>2, <1>3, <1>4, <1>5, <1>6, <1>7, <1>8, <1>9, <1>10, <1>11 DEF Next, Execution

(* A task, or a run, of which one part is replaced. *)
LEMMA RunsTyped ==
    ASSUME NEW r \in Runs, LoadTyped, NEW new \in RunRecords, run' = [run EXCEPT ![r] = new]
    PROVE  run' \in [Runs -> RunRecords]
  BY DEF LoadTyped

LEMMA TaskTyped ==
    ASSUME NEW r \in Runs, LoadTyped, NEW t \in Tables, NEW new \in Tasks, TaskNow(r, t, new)
    PROVE  /\ run' \in [Runs -> RunRecords]
           /\ run' = [run EXCEPT ![r] = [run[r] EXCEPT !.task = [run[r].task EXCEPT ![t] = new]]]
<1>1. run[r] \in RunRecords
  BY DEF LoadTyped
<1>2. [run[r] EXCEPT !.task = [run[r].task EXCEPT ![t] = new]] \in RunRecords
  BY <1>1 DEF RunRecords
<1>3. run' = [run EXCEPT ![r] = [run[r] EXCEPT !.task = [run[r].task EXCEPT ![t] = new]]]
  BY DEF TaskNow
<1> QED
  BY <1>2, <1>3, RunsTyped

(* A run that waits is one of the plan, with nothing done. *)
LEMMA QueuedTyped == \A b \in Batches : Queued(b) \in RunRecords
  BY DEF Queued, NoRun, NoTask, RunRecords, Tasks

(* The steps of the runs keep their types, and those of the tables. *)
LEMMA LoadStep == TypeOK /\ [Next]_vars => LoadTyped'
<1> SUFFICES ASSUME DeliveryTyped, LoadTyped, [Next]_vars PROVE LoadTyped'
  BY TypeSplit
<1>a. ASSUME run' \in [Runs -> RunRecords], UNCHANGED warehouse PROVE LoadTyped'
  BY <1>a DEF LoadTyped, warehouse
<1>1. CASE TriggerDag
  <2>1. CASE \E r \in Unused : run' = [run EXCEPT ![r] = Queued(job.batch)]
    <3>1. job.batch \in Batches
      BY <1>1 DEF TriggerDag, DeliveryTyped, JobTyped
    <3>2. PICK r \in Unused : run' = [run EXCEPT ![r] = Queued(job.batch)]
      BY <2>1
    <3>3. run' \in [Runs -> RunRecords]
      BY <3>1, <3>2, QueuedTyped, RunsTyped DEF Unused
    <3> QED
      BY <1>1, <1>a, <3>3 DEF TriggerDag
  <2>2. CASE UNCHANGED run
    BY <1>1, <1>a, <2>2 DEF TriggerDag, LoadTyped
  <2> QED
    BY <1>1, <2>1, <2>2 DEF TriggerDag
<1>2. ASSUME NEW b \in Batches, ScheduleDue(b) PROVE LoadTyped'
  <2>1. PICK r \in Unused : run' = [run EXCEPT ![r] = Queued(b)]
    BY <1>2 DEF ScheduleDue
  <2>2. run' \in [Runs -> RunRecords]
    BY <2>1, QueuedTyped, RunsTyped DEF Unused
  <2> QED
    BY <1>2, <1>a, <2>2 DEF ScheduleDue
<1>3. ASSUME NEW b \in Batches, ParseDag(b) PROVE LoadTyped'
  BY <1>3 DEF ParseDag, LoadTyped, warehouse
<1>4. CASE Execute \/ StageBundle \/ CopyBody \/ PlaceDag \/ ExecutionAborts \/ WaitForParse
  BY <1>4 DEF Execute, StageBundle, CopyBody, PlaceDag, ExecutionAborts, WaitForParse,
     LoadTyped, warehouse
<1>5. ASSUME NEW r \in Runs, StartRun(r) PROVE LoadTyped'
  <2>1. run' = [run EXCEPT ![r] = [run[r] EXCEPT !.at = "create", !.left = Statements(run[r].batch)]]
    BY <1>5 DEF StartRun
  <2>2. run[r] \in RunRecords /\ Statements(run[r].batch) \in SUBSET [op : Ops, of : Tables]
    BY DEF LoadTyped, Statements, TablesOf
  <2>3. [run[r] EXCEPT !.at = "create", !.left = Statements(run[r].batch)] \in RunRecords
    BY <2>2 DEF RunRecords, Running
  <2> QED
    BY <1>5, <1>a, <2>1, <2>3, RunsTyped DEF StartRun
<1>6. ASSUME NEW r \in Runs, StatementRuns(r) PROVE LoadTyped'
  <2>1. run[r] \in RunRecords
    BY DEF LoadTyped
  <2>2. PICK s \in run[r].left :
          /\ Effect(s)
          /\ run' = [run EXCEPT ![r].left = @ \ {s},
                                ![r].at = IF run[r].left = {s} THEN "load" ELSE @]
    BY <1>6 DEF StatementRuns
  <2>3. s \in [op : Ops, of : Tables]
    BY <2>1 DEF RunRecords
  <2> DEFINE new == [run[r] EXCEPT !.left = @ \ {s},
                                   !.at = IF run[r].left = {s} THEN "load" ELSE @]
  <2>4. new \in RunRecords /\ run' = [run EXCEPT ![r] = new]
    BY <2>1, <2>2 DEF RunRecords, Running, LoadTyped
  <2>5. run' \in [Runs -> RunRecords]
    BY <2>4, RunsTyped
  <2>6. formal' \in [Tables -> Contents] /\ staging' \in [Tables -> Contents]
    BY <2>2, <2>3, EffectTyped DEF LoadTyped
  <2> QED
    BY <2>5, <2>6 DEF LoadTyped
<1>7. ASSUME NEW r \in Runs, StatementFails(r) PROVE LoadTyped'
  <2>1. run[r] \in RunRecords /\ Statements(run[r].batch) \in SUBSET [op : Ops, of : Tables]
    BY DEF LoadTyped, Statements, TablesOf
  <2>2. /\ [run[r] EXCEPT !.try = 2, !.left = Statements(run[r].batch)] \in RunRecords
        /\ [run[r] EXCEPT !.at = "failed"] \in RunRecords
    BY <2>1 DEF RunRecords
  <2>3. \/ run' = [run EXCEPT ![r] = [run[r] EXCEPT !.try = 2, !.left = Statements(run[r].batch)]]
        \/ run' = [run EXCEPT ![r] = [run[r] EXCEPT !.at = "failed"]]
    BY <1>7 DEF StatementFails
  <2> QED
    BY <1>7, <1>a, <2>2, <2>3, RunsTyped DEF StatementFails
<1>8. ASSUME NEW r \in Runs, NEW t \in Tables, Move(r, t) PROVE LoadTyped'
  <2>1. PICK read \in SUBSET Rows :
          /\ staging' = [staging EXCEPT ![t] = Loaded(@, read)]
          /\ TaskNow(r, t, [run[r].task[t] EXCEPT !.at = "moved", !.read = read])
    BY <1>8 DEF Move
  <2>2. run[r].task[t] \in Tasks
    BY DEF LoadTyped, RunRecords
  <2>3. [run[r].task[t] EXCEPT !.at = "moved", !.read = read] \in Tasks
    BY <2>2 DEF Tasks
  <2>4. staging' \in [Tables -> Contents]
    BY <2>1, ContentsTyped DEF LoadTyped
  <2> QED
    BY <1>8, <2>1, <2>3, <2>4, TaskTyped DEF Move, LoadTyped
<1>9. ASSUME NEW r \in Runs, NEW t \in Tables, MoveFails(r, t) PROVE LoadTyped'
  <2>1. PICK some \in SUBSET Rows :
          staging' = IF staging[t] = Absent THEN staging
                     ELSE [staging EXCEPT ![t] = Loaded(@, some)]
    BY <1>9 DEF MoveFails
  <2>2. run[r].task[t] \in Tasks
    BY DEF LoadTyped, RunRecords
  <2>3. Failed(run[r].task[t], "waiting") \in Tasks
    BY <2>2 DEF Tasks, Failed
  <2>4. staging' \in [Tables -> Contents]
    BY <2>1, ContentsTyped DEF LoadTyped
  <2> QED
    BY <1>9, <2>3, <2>4, TaskTyped DEF MoveFails, LoadTyped
<1>b. ASSUME NEW t \in Tables, Replaced(t)
      PROVE  formal' \in [Tables -> Contents] /\ staging' \in [Tables -> Contents]
  BY <1>b, ContentsTyped DEF Replaced, LoadTyped
<1>10. ASSUME NEW r \in Runs, NEW t \in Tables, Swap(r, t) PROVE LoadTyped'
  <2>1. run[r].task[t] \in Tasks
    BY DEF LoadTyped, RunRecords
  <2>2. SwapTask(t, run[r].task[t]) \in Tasks
    BY <2>1 DEF Tasks, SwapTask
  <2> QED
    BY <1>10, <1>b, <2>2, TaskTyped DEF Swap, LoadTyped
<1>11. ASSUME NEW r \in Runs, NEW t \in Tables, SwapFails(r, t) PROVE LoadTyped'
  <2>1. run[r].task[t] \in Tasks
    BY DEF LoadTyped, RunRecords
  <2>2. [run[r].task[t] EXCEPT !.at = "failed"] \in Tasks
    BY <2>1 DEF Tasks
  <2>3. formal' \in [Tables -> Contents] /\ staging' \in [Tables -> Contents]
    BY <1>11, <1>b DEF SwapFails, warehouse, LoadTyped
  <2> QED
    BY <1>11, <2>2, <2>3, TaskTyped DEF SwapFails, LoadTyped
<1>12. ASSUME NEW r \in Runs, EndRun(r) PROVE LoadTyped'
  <2>1. run[r] \in RunRecords
    BY DEF LoadTyped
  <2>2. PICK at \in {"success", "failed"} : run' = [run EXCEPT ![r] = [run[r] EXCEPT !.at = at]]
    BY <1>12 DEF EndRun
  <2>3. [run[r] EXCEPT !.at = at] \in RunRecords
    BY <2>1 DEF RunRecords
  <2> QED
    BY <1>12, <1>a, <2>2, <2>3, RunsTyped DEF EndRun
<1>13. CASE UNCHANGED vars
  BY <1>13 DEF vars, warehouse, LoadTyped
<1> QED
  BY <1>1, <1>2, <1>3, <1>4, <1>5, <1>6, <1>7, <1>8, <1>9, <1>10, <1>11, <1>12, <1>13
  DEF Next, Execution, Task

(* The files, runs and tables stay within their types. *)
THEOREM TypeCorrect == Spec => []TypeOK
<1>1. Init => TypeOK
  <2> SUFFICES ASSUME Init PROVE TypeOK
    OBVIOUS
  <2>1. DeliveryTyped
    BY SyncAssumption DEF Init, DeliveryTyped, JobTyped, NoJob
  <2>2. LoadTyped
    BY ContentsTyped DEF Init, LoadTyped, NoRun, NoTask, RunRecords, Tasks
  <2> QED
    BY <2>1, <2>2, TypeSplit
<1>2. TypeOK /\ [Next]_vars => TypeOK'
  <2>1. DeliveryTyped' /\ LoadTyped' => TypeOK'
    BY DEF TypeOK, DeliveryTyped, JobTyped, LoadTyped, RunRecords, Tasks
  <2> QED
    BY <2>1, DeliveryStep, LoadStep
<1> QED
  BY <1>1, <1>2, PTL DEF Spec

(* While a bundle is on its way, its parts are of the version that is being  *)
(* delivered, and no older than the .py that is there.                      *)
Packaged ==
    /\ \A b \in Batches : dag[b] <= body[b] /\ body[b] <= job.version
    /\ job.at = "copy" => staged[job.batch] = job.version
    /\ job.at = "place" => body[job.batch] = job.version

LEMMA PackagedStep ==
    ASSUME ~CopyFails
    PROVE  TypeOK /\ Packaged /\ [Next]_vars => Packaged'
<1> SUFFICES ASSUME DeliveryTyped, Packaged, [Next]_vars PROVE Packaged'
  BY TypeSplit
<1> USE SyncAssumption DEF DeliveryTyped, JobTyped, Packaged
<1>1. CASE Execute
  BY <1>1 DEF Execute, files
<1>2. CASE StageBundle
  BY <1>2 DEF StageBundle
<1>3. CASE CopyBody
  BY <1>3 DEF CopyBody
<1>4. CASE PlaceDag
  BY <1>4 DEF PlaceDag, Following
<1>5. CASE ExecutionAborts
  BY <1>5 DEF ExecutionAborts, Ended, NoJob, files
<1>6. CASE WaitForParse
  BY <1>6 DEF WaitForParse, files
<1>7. CASE TriggerDag
  BY <1>7 DEF TriggerDag, Triggered, Ended, NoJob, files
<1>8. ASSUME NEW b \in Batches, ParseDag(b) PROVE Packaged'
  BY <1>8 DEF ParseDag, files
<1>9. ASSUME NEW b \in Batches, ScheduleDue(b) PROVE Packaged'
  BY <1>9 DEF ScheduleDue, files
<1>10. ASSUME NEW r \in Runs, Task(r) PROVE Packaged'
  <2>1. UNCHANGED <<job, files>>
    BY <1>10 DEF Task, StartRun, StatementRuns, StatementFails, EndRun, Move, MoveFails,
       Swap, SwapFails
  <2> QED
    BY <2>1 DEF files
<1>11. CASE UNCHANGED vars
  BY <1>11 DEF vars, files
<1> QED
  BY <1>1, <1>2, <1>3, <1>4, <1>5, <1>6, <1>7, <1>8, <1>9, <1>10, <1>11 DEF Next, Execution

(* If copies do not fail unseen, Airflow never finds a .py without the files  *)
(* it needs, however many batches there are and wherever delivery stops.     *)
THEOREM BodyBeforeDag ==
    ASSUME ~CopyFails
    PROVE  Spec => []PackageWhole
<1>1. Init => Packaged
  BY SyncAssumption DEF Init, Packaged, NoJob
<1>2. TypeOK /\ Packaged /\ [Next]_vars => Packaged'
  BY PackagedStep
<1>3. Packaged => PackageWhole
  BY DEF Packaged, PackageWhole
<1> QED
  BY <1>1, <1>2, <1>3, TypeCorrect, PTL DEF Spec

(* A run has only statements of its own batch to do, and where it has created *)
(* a table, or anyone has, the table stays.                                 *)
Owned(r) ==
    /\ run[r].at \in {"queued", "create"} => run[r].batch \in Batches
    /\ run[r].at = "create" => run[r].left \subseteq Statements(run[r].batch)

TableOf(t) == [op |-> "table", of |-> t]

Created(r) ==
    \A t \in TablesOf(run[r].batch) :
        run[r].at = "create" /\ TableOf(t) \notin run[r].left => formal[t] # Absent

RunOrdered == \A r \in Runs : Owned(r) /\ Created(r)

(* No table that exists ceases to. *)
LEMMA FormalStays ==
    TypeOK /\ [Next]_vars => \A t \in Tables : formal[t] # Absent => formal'[t] # Absent
<1> SUFFICES ASSUME LoadTyped, [Next]_vars, NEW t \in Tables, formal[t] # Absent
             PROVE  formal'[t] # Absent
  BY TypeSplit
<1>1. CASE formal' = formal
  BY <1>1
<1>2. ASSUME NEW u \in Tables, Replaced(u) PROVE formal'[t] # Absent
  BY <1>2 DEF Replaced, LoadTyped
<1>3. ASSUME NEW r \in Runs, StatementRuns(r) PROVE formal'[t] # Absent
  <2>1. PICK s \in run[r].left : Effect(s)
    BY <1>3 DEF StatementRuns
  <2>2. s \in [op : Ops, of : Tables]
    BY DEF LoadTyped, RunRecords
  <2>3. CASE s.op = "table"
    BY <2>1, <2>2, <2>3 DEF Effect, LoadTyped
  <2>4. CASE s.op = "like"
    BY <2>1, <2>4 DEF Effect
  <2>5. CASE s.op = "truncate"
    BY <2>1, <2>5 DEF Effect
  <2> QED
    BY <2>2, <2>3, <2>4, <2>5 DEF Ops
<1>4. ASSUME NEW r \in Runs, Task(r), ~StatementRuns(r) PROVE formal'[t] # Absent
  <2>1. CASE \E u \in Tables : Swap(r, u) \/ SwapFails(r, u)
    BY <2>1, <1>1, <1>2 DEF Swap, SwapFails, warehouse
  <2>2. CASE ~\E u \in Tables : Swap(r, u) \/ SwapFails(r, u)
    BY <1>4, <1>1, <2>2 DEF Task, StartRun, StatementFails, EndRun, Move, MoveFails, warehouse
  <2> QED
    BY <2>1, <2>2
<1>5. CASE Execution \/ (\E b \in Batches : ParseDag(b) \/ ScheduleDue(b)) \/ UNCHANGED vars
  BY <1>1, <1>5 DEF Execution, Execute, StageBundle, CopyBody, PlaceDag, ExecutionAborts,
     WaitForParse, TriggerDag, ParseDag, ScheduleDue, vars, warehouse
<1> QED
  BY <1>3, <1>4, <1>5 DEF Next

(* Every table is created first by the statement for it. *)
LEMMA RunOrderedStep == TypeOK /\ RunOrdered /\ [Next]_vars => RunOrdered'
<1> SUFFICES ASSUME TypeOK, RunOrdered, [Next]_vars, NEW q \in Runs
             PROVE  Owned(q)' /\ Created(q)'
  BY DEF RunOrdered
<1>0. /\ LoadTyped
      /\ \A t \in Tables : formal[t] # Absent => formal'[t] # Absent
  BY TypeSplit, FormalStays
<1>q. Owned(q) /\ Created(q)
  BY DEF RunOrdered
<1>a. ASSUME run'[q] = run[q] PROVE Owned(q)' /\ Created(q)'
  BY <1>0, <1>a, <1>q DEF Owned, Created, TablesOf
<1>b. ASSUME NEW b \in Batches, NEW r \in Unused, run' = [run EXCEPT ![r] = Queued(b)]
      PROVE  Owned(q)' /\ Created(q)'
  <2>1. CASE q = r
    <3>1. run'[q] = Queued(b)
      BY <1>0, <1>b, <2>1 DEF LoadTyped
    <3> QED
      BY <3>1 DEF Owned, Created, Queued, NoRun
  <2> QED
    BY <1>0, <1>a, <1>b, <2>1 DEF LoadTyped
<1>1. CASE TriggerDag
  <2>1. job.batch \in Batches
    BY <1>1, TypeSplit DEF TriggerDag, DeliveryTyped, JobTyped
  <2> QED
    BY <1>1, <1>a, <1>b, <2>1 DEF TriggerDag
<1>2. ASSUME NEW b \in Batches, ScheduleDue(b) PROVE Owned(q)' /\ Created(q)'
  BY <1>2, <1>b DEF ScheduleDue
<1>3. ASSUME NEW r \in Runs, StartRun(r) PROVE Owned(q)' /\ Created(q)'
  <2>1. CASE q = r
    <3>1. /\ run'[q] = [run[q] EXCEPT !.at = "create", !.left = Statements(run[q].batch)]
          /\ run[q].at = "queued"
      BY <1>0, <1>3, <2>1 DEF StartRun, LoadTyped
    <3>2. /\ run'[q].at = "create" /\ run'[q].left = Statements(run[q].batch)
          /\ run'[q].batch = run[q].batch
      BY <1>0, <3>1 DEF LoadTyped, RunRecords
    <3>3. \A t \in TablesOf(run[q].batch) : TableOf(t) \in Statements(run[q].batch)
      BY DEF TableOf, Statements, Ops
    <3> QED
      BY <1>q, <3>1, <3>2, <3>3 DEF Owned, Created
  <2> QED
    BY <1>0, <1>a, <1>3, <2>1 DEF StartRun, LoadTyped
<1>4. ASSUME NEW r \in Runs, StatementRuns(r) PROVE Owned(q)' /\ Created(q)'
  <2>1. CASE q = r
    <3>1. PICK s \in run[q].left :
            /\ Effect(s)
            /\ run' = [run EXCEPT ![q].left = @ \ {s},
                                  ![q].at = IF run[q].left = {s} THEN "load" ELSE @]
      BY <1>4, <2>1 DEF StatementRuns
    <3>2. run[q].at = "create"
      BY <1>4, <2>1 DEF StatementRuns, IsNext
    <3>3. /\ run'[q].left = run[q].left \ {s} /\ run'[q].batch = run[q].batch
          /\ run'[q].at \in {"create", "load"}
      BY <1>0, <3>1, <3>2 DEF LoadTyped, RunRecords
    <3>4. Owned(q)'
      BY <1>q, <3>2, <3>3 DEF Owned
    <3>5. ASSUME NEW t \in TablesOf(run[q].batch), TableOf(t) \notin run'[q].left
          PROVE  formal'[t] # Absent
      <4>1. CASE TableOf(t) \notin run[q].left
        BY <1>0, <1>q, <3>2, <4>1 DEF Created, TablesOf
      <4>2. CASE TableOf(t) \in run[q].left
        <5>1. s = TableOf(t)
          BY <3>3, <3>5, <4>2
        <5>2. formal' = IF formal[t] = Absent THEN [formal EXCEPT ![t] = Copy({})] ELSE formal
          BY <3>1, <5>1 DEF Effect, TableOf
        <5> QED
          BY <1>0, <5>2, ContentsTyped DEF LoadTyped, TablesOf
      <4> QED
        BY <4>1, <4>2
    <3> QED
      BY <3>3, <3>4, <3>5 DEF Created
  <2> QED
    BY <1>0, <1>a, <1>4, <2>1 DEF StatementRuns, LoadTyped
<1>5. ASSUME NEW r \in Runs, StatementFails(r) PROVE Owned(q)' /\ Created(q)'
  <2>1. CASE q = r /\ run[q].try = 1
    <3>1. /\ run'[q] = [run[q] EXCEPT !.try = 2, !.left = Statements(run[q].batch)]
          /\ run[q].at = "create"
      BY <1>0, <1>5, <2>1 DEF StatementFails, LoadTyped
    <3>2. /\ run'[q].at = "create" /\ run'[q].left = Statements(run[q].batch)
          /\ run'[q].batch = run[q].batch
      BY <1>0, <3>1 DEF LoadTyped, RunRecords
    <3>3. \A t \in TablesOf(run[q].batch) : TableOf(t) \in Statements(run[q].batch)
      BY DEF TableOf, Statements, Ops
    <3> QED
      BY <1>q, <3>1, <3>2, <3>3 DEF Owned, Created
  <2>2. CASE q = r /\ run[q].try # 1
    <3>1. run'[q].at = "failed"
      BY <1>0, <1>5, <2>2 DEF StatementFails, LoadTyped, RunRecords
    <3> QED
      BY <3>1 DEF Owned, Created
  <2> QED
    BY <1>0, <1>a, <1>5, <2>1, <2>2 DEF StatementFails, LoadTyped
<1>6. ASSUME NEW r \in Runs, run[r].at = "load", EndRun(r) PROVE Owned(q)' /\ Created(q)'
  <2>1. CASE q = r
    <3>1. run'[q].at \in {"success", "failed"}
      BY <1>0, <1>6, <2>1 DEF EndRun, LoadTyped, RunRecords
    <3> QED
      BY <3>1 DEF Owned, Created
  <2> QED
    BY <1>0, <1>a, <1>6, <2>1 DEF EndRun, LoadTyped
<1>7. ASSUME NEW r \in Runs, NEW t \in Tables, NEW new, run[r].at = "load", TaskNow(r, t, new)
      PROVE  Owned(q)' /\ Created(q)'
  <2>1. CASE q = r
    <3>1. run'[q].at = "load"
      BY <1>0, <1>7, <2>1 DEF TaskNow, LoadTyped, RunRecords
    <3> QED
      BY <3>1 DEF Owned, Created
  <2> QED
    BY <1>0, <1>a, <1>7, <2>1 DEF TaskNow, LoadTyped
<1>8. ASSUME NEW r \in Runs, NEW t \in Tables,
             Move(r, t) \/ MoveFails(r, t) \/ Swap(r, t) \/ SwapFails(r, t)
      PROVE  Owned(q)' /\ Created(q)'
  BY <1>7, <1>8 DEF Move, MoveFails, Swap, SwapFails, Doing
<1>9. CASE run' = run
  BY <1>9, <1>a
<1> QED
  BY <1>1, <1>2, <1>3, <1>4, <1>5, <1>6, <1>8, <1>9
  DEF Next, Execution, Task, Execute, StageBundle, CopyBody, PlaceDag, ExecutionAborts,
      WaitForParse, ParseDag, EndRun, vars

(* With at most three tables, all the numbers of a batch have one digit, and  *)
(* a table comes before what is like it.                                   *)
LEMMA SmallBatchOrder ==
    ASSUME NEW b \in Batches, Cardinality(TablesOf(b)) <= 3, NEW t \in TablesOf(b)
    PROVE  ~RunsBefore(b, [op |-> "like", of |-> t], TableOf(t))
<1> DEFINE n == Cardinality(TablesOf(b))
           k == Position(b, t)
           before == {u \in TablesOf(b) : u < t}
<1>1. IsFiniteSet(TablesOf(b))
  <2>1. IsFiniteSet(Tables)
    BY SyncAssumption, FS_Interval DEF Tables
  <2> QED
    BY <2>1, FS_Subset DEF TablesOf
<1>2. before \subseteq TablesOf(b) /\ before # TablesOf(b)
  BY DEF TablesOf, Tables
<1>3. n \in Nat /\ k \in Nat /\ k < n
  BY <1>1, <1>2, FS_Subset, FS_CardinalityType DEF Position
<1>4. n \in 1 .. 3 /\ k \in 0 .. 2
  BY <1>3
<1>5. Number(b, TableOf(t)) = k /\ Number(b, [op |-> "like", of |-> t]) = n + 2 * k
  BY DEF Number, TableOf
<1>6. n + 2 * k < 10 /\ k < 10 /\ k < n + 2 * k
  BY <1>3, <1>4
<1>h. HIDE DEF n, k
<1>7. ~NameBefore(n + 2 * k, k)
  BY <1>4, <1>6 DEF NameBefore, FirstDigit
<1> QED
  BY <1>5, <1>7 DEF RunsBefore

(* In batches of at most three tables no CREATE ... LIKE runs before the table *)
(* it copies, on whatever try (from four tables on it does: "ddl_10").       *)
THEOREM LikesExistingInSmallBatches ==
    ASSUME \A b \in Batches : Cardinality(TablesOf(b)) <= 3
    PROVE  Spec => []LikesExisting
<1>1. Init => RunOrdered
  BY DEF Init, RunOrdered, Owned, Created, NoRun
<1>2. TypeOK /\ RunOrdered /\ [Next]_vars => RunOrdered'
  BY RunOrderedStep
<1>3. RunOrdered => LikesExisting
  <2> SUFFICES ASSUME RunOrdered, NEW r \in Runs, NEW s \in run[r].left,
                      IsNext(r, s), s.op = "like"
               PROVE  formal[s.of] # Absent
    BY DEF LikesExisting
  <2>1. run[r].at = "create"
    BY DEF IsNext
  <2>2. run[r].batch \in Batches /\ s \in Statements(run[r].batch)
    BY <2>1 DEF RunOrdered, Owned
  <2>3. s.of \in TablesOf(run[r].batch) /\ s = [op |-> "like", of |-> s.of]
    BY <2>2 DEF Statements
  <2>4. ~RunsBefore(run[r].batch, s, TableOf(s.of))
    BY <2>2, <2>3, SmallBatchOrder
  <2>5. TableOf(s.of) # s
    BY DEF TableOf
  <2>6. TableOf(s.of) \notin run[r].left
    BY <2>4, <2>5 DEF IsNext
  <2> QED
    BY <2>1, <2>3, <2>6 DEF RunOrdered, Created
<1> QED
  BY <1>1, <1>2, <1>3, TypeCorrect, PTL DEF Spec

(* What a run has done to the staging tables of its batch. *)
TruncateOf(t) == [op |-> "truncate", of |-> t]

Fresh(r) ==
    run[r].at \in {"none", "queued", "create"} => \A t \in Tables : run[r].task[t] = NoTask

Cleared(r) ==
    run[r].at = "create" =>
        \A t \in TablesOf(run[r].batch) : TruncateOf(t) \notin run[r].left => staging[t] = Copy({})

Staged(r) ==
    run[r].at = "load" =>
        \A t \in TablesOf(run[r].batch) :
            /\ run[r].task[t].at = "waiting" /\ run[r].task[t].try = 1 => staging[t] = Copy({})
            /\ run[r].task[t].at = "moved" =>
                 /\ Holds(staging[t], run[r].task[t].read)
                 /\ run[r].task[t].try = 1 => staging[t] = Copy(run[r].task[t].read)

RunClean(r) == Fresh(r) /\ Cleared(r) /\ Staged(r)

Alone ==
    \A q, r \in Runs :
        q # r /\ run[q].at \in Running /\ run[r].at \in Running => run[q].batch # run[r].batch

AllClean == Alone /\ \A r \in Runs : RunClean(r)

(* A step of one run that touches at most one table of its own batch. *)
LEMMA OthersClean ==
    ASSUME LoadTyped, AllClean, NEW r \in Runs, run[r].at \in Running,
           \A q \in Runs \ {r} : run'[q] = run[q],
           run'[r].batch = run[r].batch,
           \A t \in Tables : t \notin TablesOf(run[r].batch) => staging'[t] = staging[t],
           RunClean(r)'
    PROVE  AllClean'
<1>1. Alone'
  BY DEF AllClean, Alone
<1>2. ASSUME NEW q \in Runs \ {r} PROVE RunClean(q)'
  <2>1. RunClean(q) /\ run'[q] = run[q]
    BY DEF AllClean
  <2>2. ASSUME run[q].at \in Running, NEW t \in TablesOf(run[q].batch)
        PROVE  staging'[t] = staging[t]
    <3>1. run[q].batch # run[r].batch
      BY <2>2 DEF AllClean, Alone
    <3>2. t \in Tables /\ t \notin TablesOf(run[r].batch)
      BY <2>2, <3>1 DEF TablesOf
    <3> QED
      BY <3>2
  <2>3. Fresh(q)'
    BY <2>1 DEF RunClean, Fresh
  <2>4. Cleared(q)'
    BY <2>1, <2>2 DEF RunClean, Cleared, Running
  <2>5. Staged(q)'
    BY <2>1, <2>2 DEF RunClean, Staged, Running
  <2> QED
    BY <2>3, <2>4, <2>5 DEF RunClean
<1> QED
  BY <1>1, <1>2 DEF AllClean

(* A step that leaves the staging tables as they are, and one run somewhere   *)
(* it does not run.                                                        *)
LEMMA QuietClean ==
    ASSUME LoadTyped, AllClean, NEW r \in Runs, \A q \in Runs \ {r} : run'[q] = run[q],
           staging' = staging, run'[r].at \notin Running, Fresh(r)'
    PROVE  AllClean'
<1>1. Alone'
  BY DEF AllClean, Alone
<1>2. ASSUME NEW q \in Runs \ {r} PROVE RunClean(q)'
  BY <1>2 DEF AllClean, RunClean, Fresh, Cleared, Staged
<1>3. RunClean(r)'
  BY DEF RunClean, Cleared, Staged, Running
<1> QED
  BY <1>1, <1>2, <1>3 DEF AllClean

(* Where runs of a DAG do not overlap, no run finds in a staging table what   *)
(* another one left there.                                                 *)
LEMMA CleanStep ==
    ASSUME Serial
    PROVE  TypeOK /\ RunOrdered /\ AllClean /\ [Next]_vars => AllClean'
<1> SUFFICES ASSUME TypeOK, RunOrdered, AllClean, [Next]_vars PROVE AllClean'
  OBVIOUS
<1>0. LoadTyped
  BY TypeSplit
<1>a. ASSUME run' = run, staging' = staging PROVE AllClean'
  BY <1>a DEF AllClean, Alone, RunClean, Fresh, Cleared, Staged
<1>b. ASSUME NEW b, NEW r \in Unused, run' = [run EXCEPT ![r] = Queued(b)], staging' = staging
      PROVE  AllClean'
  <2>1. r \in Runs /\ run'[r] = Queued(b) /\ \A q \in Runs \ {r} : run'[q] = run[q]
    BY <1>0, <1>b DEF LoadTyped, Unused
  <2>2. run'[r].at \notin Running /\ Fresh(r)'
    BY <2>1 DEF Queued, NoRun, Running, Fresh
  <2> QED
    BY <1>0, <1>b, <2>1, <2>2, QuietClean
<1>1. CASE TriggerDag
  BY <1>1, <1>a, <1>b DEF TriggerDag, warehouse
<1>2. ASSUME NEW b \in Batches, ScheduleDue(b) PROVE AllClean'
  BY <1>2, <1>b DEF ScheduleDue, warehouse
<1>3. ASSUME NEW r \in Runs, StartRun(r) PROVE AllClean'
  <2>1. /\ run[r].at = "queued" /\ staging' = staging
        /\ \A q \in Runs : run[q].batch = run[r].batch => run[q].at \notin Running
        /\ run' = [run EXCEPT ![r] = [run[r] EXCEPT !.at = "create",
                                                    !.left = Statements(run[r].batch)]]
    BY <1>3 DEF StartRun, warehouse
  <2>2. /\ run'[r].at = "create" /\ run'[r].left = Statements(run[r].batch)
        /\ run'[r].batch = run[r].batch /\ run'[r].task = run[r].task
        /\ \A q \in Runs \ {r} : run'[q] = run[q]
    BY <1>0, <2>1 DEF LoadTyped, RunRecords
  <2>3. Alone'
    BY <2>1, <2>2 DEF AllClean, Alone
  <2>4. ASSUME NEW q \in Runs \ {r} PROVE RunClean(q)'
    BY <2>1, <2>2, <2>4 DEF AllClean, RunClean, Fresh, Cleared, Staged
  <2>5. \A t \in TablesOf(run[r].batch) : TruncateOf(t) \in Statements(run[r].batch)
    BY DEF TruncateOf, Statements, Ops
  <2>6. RunClean(r)'
    BY <2>1, <2>2, <2>5 DEF AllClean, RunClean, Fresh, Cleared, Staged
  <2> QED
    BY <2>3, <2>4, <2>6 DEF AllClean
<1>4. ASSUME NEW r \in Runs, StatementRuns(r) PROVE AllClean'
  <2>1. PICK s \in run[r].left :
          /\ Effect(s)
          /\ run' = [run EXCEPT ![r].left = @ \ {s},
                                ![r].at = IF run[r].left = {s} THEN "load" ELSE @]
    BY <1>4 DEF StatementRuns
  <2>2. run[r].at = "create" /\ RunClean(r)
    BY <1>4 DEF StatementRuns, IsNext, AllClean
  <2>3. /\ run'[r].left = run[r].left \ {s} /\ run'[r].batch = run[r].batch
        /\ run'[r].task = run[r].task
        /\ run'[r].at = IF run[r].left = {s} THEN "load" ELSE "create"
        /\ \A q \in Runs \ {r} : run'[q] = run[q]
    BY <1>0, <2>1, <2>2 DEF LoadTyped, RunRecords
  <2>4. s \in Statements(run[r].batch)
    BY <1>4, <2>2 DEF RunOrdered, Owned
  <2>5. s.op \in Ops /\ s.of \in TablesOf(run[r].batch) /\ s.of \in Tables
    BY <2>4 DEF Statements, TablesOf
  <2>6. \A t \in Tables : t # s.of => staging'[t] = staging[t]
    BY <1>0, <2>1, <2>5 DEF Effect, Ops, LoadTyped, warehouse
  <2>7. ASSUME NEW t \in TablesOf(run[r].batch), TruncateOf(t) \notin run'[r].left
        PROVE  staging'[t] = Copy({})
    <3>1. CASE s = TruncateOf(t)
      <4>1. staging' = [staging EXCEPT ![t] = Copy({})]
        BY <2>1, <3>1 DEF Effect, TruncateOf
      <4> QED
        BY <1>0, <4>1 DEF LoadTyped, TablesOf
    <3>2. CASE s # TruncateOf(t)
      <4>1. TruncateOf(t) \notin run[r].left
        BY <2>3, <2>7, <3>2
      <4>2. staging[t] = Copy({}) /\ staging[t] # Absent
        BY <2>2, <4>1, ContentsTyped DEF RunClean, Cleared
      <4>3. s = [op |-> s.op, of |-> s.of]
        BY <2>4 DEF Statements
      <4>4. ~(s.op = "truncate" /\ s.of = t)
        BY <3>2, <4>3 DEF TruncateOf
      <4>5. CASE s.op = "like" /\ s.of = t
        BY <2>1, <4>2, <4>5 DEF Effect
      <4>6. CASE s.op = "table" /\ s.of = t
        BY <2>1, <4>2, <4>6 DEF Effect
      <4> QED
        BY <2>5, <2>6, <4>2, <4>4, <4>5, <4>6 DEF Ops, TablesOf
    <3> QED
      BY <3>1, <3>2
  <2>8. Fresh(r)'
    BY <2>2, <2>3 DEF RunClean, Fresh
  <2>9. Cleared(r)'
    BY <2>3, <2>7 DEF Cleared
  <2>10. Staged(r)'
    <3> SUFFICES ASSUME run'[r].at = "load", NEW t \in TablesOf(run[r].batch)
                 PROVE  run'[r].task[t] = NoTask /\ staging'[t] = Copy({})
      BY <2>3 DEF Staged, NoTask
    <3>1. run[r].left = {s}
      BY <2>3
    <3> QED
      BY <2>2, <2>3, <2>7, <3>1 DEF RunClean, Fresh, TablesOf
  <2>11. \A t \in Tables : t \notin TablesOf(run[r].batch) => staging'[t] = staging[t]
    BY <2>5, <2>6
  <2> QED
    BY <1>0, <2>2, <2>3, <2>8, <2>9, <2>10, <2>11, OthersClean DEF RunClean, Running
<1>5. ASSUME NEW r \in Runs, StatementFails(r) PROVE AllClean'
  <2>1. run[r].at = "create" /\ staging' = staging /\ RunClean(r)
    BY <1>5 DEF StatementFails, AllClean, warehouse
  <2>2. CASE run[r].try = 1
    <3>1. /\ run'[r].at = "create" /\ run'[r].left = Statements(run[r].batch)
          /\ run'[r].batch = run[r].batch /\ run'[r].task = run[r].task
          /\ \A q \in Runs \ {r} : run'[q] = run[q]
      BY <1>0, <1>5, <2>1, <2>2 DEF StatementFails, LoadTyped, RunRecords
    <3>2. \A t \in TablesOf(run[r].batch) : TruncateOf(t) \in Statements(run[r].batch)
      BY DEF TruncateOf, Statements, Ops
    <3>3. RunClean(r)'
      BY <2>1, <3>1, <3>2 DEF RunClean, Fresh, Cleared, Staged
    <3> QED
      BY <1>0, <2>1, <3>1, <3>3, OthersClean DEF Running
  <2>3. CASE run[r].try # 1
    <3>1. run'[r].at = "failed" /\ \A q \in Runs \ {r} : run'[q] = run[q]
      BY <1>0, <1>5, <2>3 DEF StatementFails, LoadTyped, RunRecords
    <3> QED
      BY <1>0, <2>1, <3>1, QuietClean DEF Running, Fresh
  <2> QED
    BY <2>2, <2>3
<1>6. ASSUME NEW r \in Runs, EndRun(r) PROVE AllClean'
  <2>1. /\ run'[r].at \in {"success", "failed"} /\ staging' = staging
        /\ \A q \in Runs \ {r} : run'[q] = run[q]
    BY <1>0, <1>6 DEF EndRun, LoadTyped, RunRecords, warehouse
  <2> QED
    BY <1>0, <2>1, QuietClean DEF Running, Fresh
<1>7. ASSUME NEW r \in Runs, NEW t \in TablesOf(run[r].batch), run[r].at = "load",
             NEW new \in Tasks, TaskNow(r, t, new),
             \A u \in Tables \ {t} : staging'[u] = staging[u],
             new.at = "waiting" /\ new.try = 1 => staging'[t] = Copy({}),
             new.at = "moved" => /\ Holds(staging'[t], new.read)
                                 /\ new.try = 1 => staging'[t] = Copy(new.read)
      PROVE  AllClean'
  <2>0. t \in Tables
    BY DEF TablesOf
  <2>a. run[r] \in RunRecords
    BY <1>0 DEF LoadTyped
  <2>b. run' = [run EXCEPT ![r] = [run[r] EXCEPT !.task = [run[r].task EXCEPT ![t] = new]]]
    BY <1>0, <1>7, <2>0, TaskTyped
  <2>c. /\ run'[r] = [run[r] EXCEPT !.task = [run[r].task EXCEPT ![t] = new]]
        /\ \A q \in Runs \ {r} : run'[q] = run[q]
    BY <1>0, <2>b DEF LoadTyped
  <2>1. /\ run'[r].at = "load" /\ run'[r].batch = run[r].batch
        /\ run'[r].task = [run[r].task EXCEPT ![t] = new]
        /\ \A q \in Runs \ {r} : run'[q] = run[q]
    BY <1>7, <2>a, <2>c DEF RunRecords
  <2>2. run'[r].task[t] = new /\ \A u \in Tables \ {t} : run'[r].task[u] = run[r].task[u]
    BY <1>0, <2>0, <2>1 DEF LoadTyped, RunRecords
  <2>3. RunClean(r)
    BY DEF AllClean
  <2>4. Fresh(r)' /\ Cleared(r)'
    BY <2>1 DEF Fresh, Cleared
  <2>5. Staged(r)'
    <3> SUFFICES ASSUME NEW u \in TablesOf(run[r].batch)
                 PROVE  /\ run'[r].task[u].at = "waiting" /\ run'[r].task[u].try = 1
                             => staging'[u] = Copy({})
                        /\ run'[r].task[u].at = "moved" =>
                             /\ Holds(staging'[u], run'[r].task[u].read)
                             /\ run'[r].task[u].try = 1
                                  => staging'[u] = Copy(run'[r].task[u].read)
      BY <2>1 DEF Staged
    <3>1. CASE u = t
      BY <1>7, <2>2, <3>1
    <3>2. CASE u # t
      <4>1. staging'[u] = staging[u] /\ run'[r].task[u] = run[r].task[u]
        BY <1>7, <2>2, <3>2 DEF TablesOf
      <4> QED
        BY <1>7, <2>3, <4>1 DEF RunClean, Staged
    <3> QED
      BY <3>1, <3>2
  <2>6. \A u \in Tables : u \notin TablesOf(run[r].batch) => staging'[u] = staging[u]
    BY <1>7
  <2> QED
    BY <1>0, <1>7, <2>1, <2>4, <2>5, <2>6, OthersClean DEF RunClean, Running
<1>8. ASSUME NEW r \in Runs, NEW t \in Tables, Move(r, t) PROVE AllClean'
  <2>1. PICK read \in SUBSET Rows :
          /\ staging' = [staging EXCEPT ![t] = Loaded(@, read)]
          /\ TaskNow(r, t, [run[r].task[t] EXCEPT !.at = "moved", !.read = read])
    BY <1>8 DEF Move
  <2>2. /\ run[r].at = "load" /\ t \in TablesOf(run[r].batch) /\ run[r].task[t].at = "waiting"
        /\ run[r].task[t] \in Tasks /\ staging[t] \in Contents
    BY <1>0, <1>8 DEF Move, Doing, LoadTyped, RunRecords
  <2> DEFINE new == [run[r].task[t] EXCEPT !.at = "moved", !.read = read]
  <2>3. new \in Tasks /\ new.at = "moved" /\ new.read = read /\ new.try = run[r].task[t].try
    BY <2>2 DEF Tasks
  <2>4. staging'[t] = Loaded(staging[t], read) /\ \A u \in Tables \ {t} : staging'[u] = staging[u]
    BY <1>0, <2>1 DEF LoadTyped
  <2>5. Holds(staging'[t], read)
    BY <2>2, <2>4, LoadedHolds
  <2>6. new.try = 1 => staging'[t] = Copy(read)
    <3>1. run[r].task[t].try = 1 => staging[t] = Copy({})
      BY <2>2 DEF AllClean, RunClean, Staged
    <3> QED
      BY <2>3, <2>4, <3>1, LoadedHolds
  <2>h. HIDE DEF new
  <2>7. TaskNow(r, t, new)
    BY <2>1 DEF new
  <2> QED
    BY <1>7, <2>2, <2>3, <2>4, <2>5, <2>6, <2>7
<1>9. ASSUME NEW r \in Runs, NEW t \in Tables, MoveFails(r, t) PROVE AllClean'
  <2>1. /\ run[r].at = "load" /\ t \in TablesOf(run[r].batch)
        /\ run[r].task[t] \in Tasks /\ TaskNow(r, t, Failed(run[r].task[t], "waiting"))
    BY <1>0, <1>9 DEF MoveFails, Doing, LoadTyped, RunRecords
  <2>2. /\ Failed(run[r].task[t], "waiting") \in Tasks
        /\ Failed(run[r].task[t], "waiting").at # "moved"
        /\ Failed(run[r].task[t], "waiting").at = "waiting"
             => Failed(run[r].task[t], "waiting").try = 2
    BY <2>1 DEF Failed, Tasks
  <2>3. \A u \in Tables \ {t} : staging'[u] = staging[u]
    BY <1>0, <1>9 DEF MoveFails, LoadTyped
  <2> QED
    BY <1>7, <2>1, <2>2, <2>3
<1>10. ASSUME NEW r \in Runs, NEW t \in Tables, Swap(r, t) PROVE AllClean'
  <2>1. /\ run[r].at = "load" /\ t \in TablesOf(run[r].batch)
        /\ run[r].task[t] \in Tasks /\ TaskNow(r, t, SwapTask(t, run[r].task[t]))
    BY <1>0, <1>10 DEF Swap, Doing, LoadTyped, RunRecords
  <2>2. /\ SwapTask(t, run[r].task[t]) \in Tasks /\ SwapTask(t, run[r].task[t]).at = "swapped"
    BY <2>1 DEF SwapTask, Tasks
  <2>3. \A u \in Tables \ {t} : staging'[u] = staging[u]
    BY <1>0, <1>10 DEF Swap, Replaced, LoadTyped
  <2> QED
    BY <1>7, <2>1, <2>2, <2>3
<1>11. ASSUME NEW r \in Runs, NEW t \in Tables, SwapFails(r, t) PROVE AllClean'
  <2> DEFINE new == [run[r].task[t] EXCEPT !.at = "failed"]
  <2>1. /\ run[r].at = "load" /\ t \in TablesOf(run[r].batch)
        /\ run[r].task[t] \in Tasks /\ TaskNow(r, t, new)
    BY <1>0, <1>11 DEF SwapFails, Doing, LoadTyped, RunRecords
  <2>2. new \in Tasks /\ new.at = "failed"
    BY <2>1 DEF Tasks
  <2>3. \A u \in Tables \ {t} : staging'[u] = staging[u]
    BY <1>0, <1>11 DEF SwapFails, Replaced, LoadTyped, warehouse
  <2>h. HIDE DEF new
  <2> QED
    BY <1>7, <2>1, <2>2, <2>3
<1>12. CASE Execute \/ StageBundle \/ CopyBody \/ PlaceDag \/ ExecutionAborts \/ WaitForParse
  BY <1>12, <1>a DEF Execute, StageBundle, CopyBody, PlaceDag, ExecutionAborts, WaitForParse,
     warehouse
<1>13. CASE (\E b \in Batches : ParseDag(b)) \/ UNCHANGED vars
  BY <1>13, <1>a DEF ParseDag, vars, warehouse
<1> QED
  BY <1>1, <1>2, <1>3, <1>4, <1>5, <1>6, <1>8, <1>9, <1>10, <1>11, <1>12, <1>13
  DEF Next, Execution, Task

(* What is swapped in is what the run that swaps it has read. *)
LEMMA SwapStep ==
    ASSUME TypeOK, AllClean, NEW r \in Runs, NEW t \in Tables, Doing(r, t, "moved"),
           Replaced(t)
    PROVE  ChangedBy(r, t) /\ \A u \in Tables \ {t} : formal'[u] = formal[u]
<1>1. LoadTyped
  BY TypeSplit
<1>2. formal'[t] = staging[t] /\ \A u \in Tables \ {t} : formal'[u] = formal[u]
  BY <1>1 DEF Replaced, LoadTyped
<1>3. /\ Holds(staging[t], run[r].task[t].read)
      /\ run[r].task[t].try = 1 => staging[t] = Copy(run[r].task[t].read)
  BY DEF AllClean, RunClean, Staged, Doing
<1> QED
  BY <1>2, <1>3 DEF ChangedBy, Holds

(* If Airflow runs one run of a DAG at a time, readers see a table change only *)
(* to all that a move has read, and exactly that unless the move was retried,*)
(* for any tables, batches and runs.                                       *)
THEOREM ReadersSeeWholeLoads ==
    ASSUME Serial
    PROVE  Spec => SwapsWhole
<1> DEFINE Whole ==
      \A t \in Tables :
          \/ formal'[t] = formal[t]
          \/ formal[t] = Absent /\ formal'[t] = Copy({})
          \/ \E r \in Runs : ChangedBy(r, t)
<1>1. Init => RunOrdered /\ AllClean
  BY DEF Init, RunOrdered, Owned, Created, AllClean, Alone, RunClean, Fresh, Cleared, Staged,
     NoRun, Running
<1>2. TypeOK /\ RunOrdered /\ AllClean /\ [Next]_vars => RunOrdered' /\ AllClean'
  BY RunOrderedStep, CleanStep
<1>3. TypeOK /\ AllClean /\ [Next]_vars => Whole
  <2> SUFFICES ASSUME TypeOK, AllClean, [Next]_vars, NEW t \in Tables
               PROVE  \/ formal'[t] = formal[t]
                      \/ formal[t] = Absent /\ formal'[t] = Copy({})
                      \/ \E r \in Runs : ChangedBy(r, t)
    OBVIOUS
  <2>0. LoadTyped
    BY TypeSplit
  <2>1. ASSUME NEW r \in Runs, StatementRuns(r)
        PROVE  formal'[t] = formal[t] \/ (formal[t] = Absent /\ formal'[t] = Copy({}))
    <3>1. PICK s \in run[r].left : Effect(s)
      BY <2>1 DEF StatementRuns
    <3>2. s \in [op : Ops, of : Tables]
      BY <2>0 DEF LoadTyped, RunRecords
    <3>3. CASE s.op = "table"
      BY <2>0, <3>1, <3>2, <3>3 DEF Effect, LoadTyped
    <3>4. CASE s.op = "like"
      BY <3>1, <3>4 DEF Effect
    <3>5. CASE s.op = "truncate"
      BY <3>1, <3>5 DEF Effect
    <3> QED
      BY <3>2, <3>3, <3>4, <3>5 DEF Ops
  <2>2. ASSUME NEW r \in Runs, NEW u \in Tables, Doing(r, u, "moved"), Replaced(u)
        PROVE  formal'[t] = formal[t] \/ ChangedBy(r, t)
    BY <2>2, SwapStep
  <2>3. ASSUME NEW r \in Runs, NEW u \in Tables, Swap(r, u) \/ SwapFails(r, u)
        PROVE  formal'[t] = formal[t] \/ ChangedBy(r, t)
    BY <2>2, <2>3 DEF Swap, SwapFails, warehouse
  <2>4. ASSUME NEW r \in Runs,
               \/ StartRun(r) \/ StatementFails(r) \/ EndRun(r)
               \/ \E u \in Tables : Move(r, u) \/ MoveFails(r, u)
        PROVE  formal' = formal
    BY <2>4 DEF StartRun, StatementFails, EndRun, Move, MoveFails, warehouse
  <2>5. CASE Execution \/ (\E b \in Batches : ParseDag(b) \/ ScheduleDue(b)) \/ UNCHANGED vars
    BY <2>5 DEF Execution, Execute, StageBundle, CopyBody, PlaceDag, ExecutionAborts,
       WaitForParse, TriggerDag, ParseDag, ScheduleDue, vars, warehouse
  <2> QED
    BY <2>1, <2>3, <2>4, <2>5 DEF Next, Task
<1>4. SwapsWhole <=> [][Whole]_vars
  BY DEF SwapsWhole
<1> HIDE DEF Whole
<1> QED
  BY <1>1, <1>2, <1>3, <1>4, TypeCorrect, PTL DEF Spec

-----------------------------------------------------------------------------
(* Tables with a primary key. *)

Copied(content) == content = Absent \/ \E read \in SUBSET Rows : content = Copy(read)
NoDoubles == \A t \in Tables : Copied(formal[t]) /\ Copied(staging[t])

(* What is loaded twice into a table with a key is there once. *)
LEMMA LoadedCopied ==
    ASSUME Keyed, NEW content, Copied(content), content # Absent, NEW read \in SUBSET Rows
    PROVE  Copied(Loaded(content, read))
<1>1. PICK before \in SUBSET Rows : content = Copy(before)
  BY DEF Copied
<1>2. Loaded(Copy(before), read) = Copy(before \union read)
  <2> DEFINE both == [x \in Rows |-> IF x \in before \union read THEN 1 ELSE 0]
             once == [x \in Rows |-> IF x \notin read THEN Copy(before).rows[x]
                                    ELSE IF Keyed THEN 1 ELSE Copy(before).rows[x] + 1]
  <2>1. \A x \in Rows : Copy(before).rows[x] = IF x \in before THEN 1 ELSE 0
    BY DEF Copy
  <2>2. \A x \in Rows : once[x] = both[x]
    BY <2>1
  <2>3. once = both
    <3>1. /\ once = [x \in Rows |-> once[x]] /\ DOMAIN once = Rows
          /\ both = [x \in Rows |-> both[x]] /\ DOMAIN both = Rows
      OBVIOUS
    <3> HIDE DEF once, both
    <3> QED
      BY <2>2, <3>1
  <2>4. Loaded(Copy(before), read) = [Copy(before) EXCEPT !.rows = once]
    BY DEF Loaded
  <2>5. [Copy(before) EXCEPT !.rows = both] = Copy(before \union read)
    <3>1. Copy(before \union read) = [is |-> "there", rows |-> both]
      BY DEF Copy
    <3>2. PICK ones : Copy(before) = [is |-> "there", rows |-> ones]
      BY DEF Copy
    <3> HIDE DEF both
    <3>3. [[is |-> "there", rows |-> ones] EXCEPT !.rows = both] = [is |-> "there", rows |-> both]
      OBVIOUS
    <3> QED
      BY <3>1, <3>2, <3>3
  <2> QED
    BY <2>3, <2>4, <2>5
<1> QED
  BY <1>1, <1>2 DEF Copied

(* A statement makes empty tables only. *)
LEMMA EffectCopied ==
    ASSUME TypeOK, NoDoubles, NEW s \in [op : Ops, of : Tables], Effect(s)
    PROVE  NoDoubles'
<1>1. Copied(Copy({}))
  BY DEF Copied
<1>2. LoadTyped
  BY TypeSplit
<1>3. CASE s.op = "table"
  BY <1>1, <1>2, <1>3 DEF Effect, NoDoubles, LoadTyped, Copied
<1>4. CASE s.op = "like"
  BY <1>1, <1>2, <1>4 DEF Effect, NoDoubles, LoadTyped, Copied
<1>5. CASE s.op = "truncate"
  BY <1>1, <1>2, <1>5 DEF Effect, NoDoubles, LoadTyped, Copied
<1> QED
  BY <1>3, <1>4, <1>5 DEF Ops

LEMMA NoDoublesStep ==
    ASSUME Keyed, TypeOK, NoDoubles, [Next]_vars
    PROVE  NoDoubles'
<1>1. LoadTyped
  BY TypeSplit
<1>2. ASSUME UNCHANGED warehouse PROVE NoDoubles'
  BY <1>2 DEF warehouse, NoDoubles, Copied
<1>3. ASSUME NEW r \in Runs, StatementRuns(r) PROVE NoDoubles'
  <2>1. PICK s \in run[r].left : Effect(s)
    BY <1>3 DEF StatementRuns
  <2>2. s \in [op : Ops, of : Tables]
    BY <1>1 DEF LoadTyped, RunRecords
  <2> QED
    BY <2>1, <2>2, EffectCopied
<1>4. ASSUME NEW t \in Tables, NEW read \in SUBSET Rows, staging[t] # Absent,
             staging' = [staging EXCEPT ![t] = Loaded(staging[t], read)], formal' = formal
      PROVE  NoDoubles'
  <2>1. Copied(Loaded(staging[t], read))
    BY <1>4, LoadedCopied DEF NoDoubles
  <2>2. \A u \in Tables : staging'[u] \in {staging[u], Loaded(staging[t], read)}
    BY <1>1, <1>4 DEF LoadTyped
  <2>3. \A u \in Tables : staging'[u] = staging[u] \/ Copied(staging'[u])
    <3> SUFFICES ASSUME NEW u \in Tables
                 PROVE  staging'[u] = staging[u] \/ Copied(staging'[u])
      OBVIOUS
    <3>1. CASE staging'[u] = Loaded(staging[t], read)
      BY <2>1, <3>1 DEF Copied
    <3> QED
      BY <2>2, <3>1
  <2> QED
    BY <1>4, <2>3 DEF NoDoubles, Copied
<1>5. ASSUME NEW r \in Runs, NEW t \in Tables, Move(r, t) \/ MoveFails(r, t) PROVE NoDoubles'
  <2>1. CASE Move(r, t)
    BY <1>4, <2>1 DEF Move
  <2>2. CASE MoveFails(r, t)
    BY <1>2, <1>4, <2>2 DEF MoveFails, warehouse
  <2> QED
    BY <1>5, <2>1, <2>2
<1>6. ASSUME NEW t \in Tables, Replaced(t) PROVE NoDoubles'
  BY <1>1, <1>6 DEF Replaced, NoDoubles, LoadTyped, Copied
<1>7. ASSUME NEW r \in Runs, NEW t \in Tables, Swap(r, t) \/ SwapFails(r, t) PROVE NoDoubles'
  BY <1>2, <1>6, <1>7 DEF Swap, SwapFails
<1>8. ASSUME NEW r \in Runs, StartRun(r) \/ StatementFails(r) \/ EndRun(r) PROVE NoDoubles'
  BY <1>2, <1>8 DEF StartRun, StatementFails, EndRun
<1>9. CASE Execution \/ (\E b \in Batches : ParseDag(b) \/ ScheduleDue(b)) \/ UNCHANGED vars
  BY <1>2, <1>9 DEF Execution, Execute, StageBundle, CopyBody, PlaceDag, ExecutionAborts,
     WaitForParse, TriggerDag, ParseDag, ScheduleDue, vars, warehouse
<1> QED
  BY <1>3, <1>5, <1>7, <1>8, <1>9 DEF Next, Task

(* With a primary key no row is ever doubled, neither by a move that is tried *)
(* again without clearing the staging table nor by runs of one DAG that      *)
(* overlap: a formal table changes only to one with each row once.           *)
THEOREM KeysKeepRowsSingle == Keyed => (Spec => LoadsWhole)
<1> SUFFICES ASSUME Keyed PROVE Spec => LoadsWhole
  OBVIOUS
<1> DEFINE Whole ==
      \A t \in Tables :
          \/ formal'[t] = formal[t]
          \/ \E read \in SUBSET Rows : formal'[t] = Copy(read)
<1>1. Init => NoDoubles
  BY DEF Init, NoDoubles, Copied
<1>2. TypeOK /\ NoDoubles /\ [Next]_vars => NoDoubles'
  BY NoDoublesStep
<1>3. TypeOK /\ NoDoubles /\ [Next]_vars => Whole
  <2> SUFFICES ASSUME TypeOK, NoDoubles, [Next]_vars, NEW t \in Tables
               PROVE  \/ formal'[t] = formal[t]
                      \/ \E read \in SUBSET Rows : formal'[t] = Copy(read)
    OBVIOUS
  <2>1. CASE formal'[t] = Absent
    BY <2>1, FormalStays
  <2>2. CASE formal'[t] # Absent
    BY <2>2, NoDoublesStep DEF NoDoubles, Copied
  <2> QED
    BY <2>1, <2>2
<1>4. LoadsWhole <=> [][Whole]_vars
  BY DEF LoadsWhole
<1> HIDE DEF Whole
<1> QED
  BY <1>1, <1>2, <1>3, <1>4, TypeCorrect, PTL DEF Spec
=============================================================================
