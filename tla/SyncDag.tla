------------------------------- MODULE SyncDag -------------------------------
(***************************************************************************)
(* A full synchronisation: the runner plans the tables into batches,       *)
(* delivers one DAG for each batch to the Airflow host, waits until it is  *)
(* parsed and triggers it; a run of the DAG creates the tables, loads each *)
(* into a staging table and swaps that for the formal one.                 *)
(*                                                                         *)
(* Executions of the artifact come one after the other (ArtifactPipeline); *)
(* runs of the DAGs go on meanwhile, and the schedule starts more of them. *)
(***************************************************************************)
EXTENDS Integers, FiniteSets

CONSTANTS
    NTables,    \* how many tables are synchronised
    PerDag,     \* max_tasks_per_dag
    Executions, \* how often the artifact is executed (bound)
    Runs,       \* the DAG runs there may be
    Rows,       \* the rows the sources may hold
    Keyed,      \* have the tables a primary key (Doris: UNIQUE KEY)
    Scheduled,  \* have the contracts a refresh_cron
    Serial,     \* does Airflow run one run of a DAG at a time
    CopyFails   \* may the copy on the Airflow host fail

ASSUME SyncAssumption ==
    /\ NTables \in Nat \ {0} /\ PerDag \in Nat \ {0} /\ Executions \in Nat
    /\ {Keyed, Scheduled, Serial, CopyFails} \subseteq BOOLEAN

VARIABLES
    job,     \* the execution under way
    staged,  \* per batch, the version in .staging on the Airflow host (0: none)
    body,    \*   the version of its spec and SQL files
    dag,     \*   the version of its .py
    parsed,  \*   has Airflow registered the DAG
    active,  \*   has it been un-paused
    run,     \* the DAG runs
    formal,  \* the formal tables of the warehouse, as their rows,
    staging  \*   and their staging tables

files == <<staged, body, dag>>
airflow == <<parsed, active>>
warehouse == <<formal, staging>>
vars == <<job, files, airflow, run, warehouse>>

-----------------------------------------------------------------------------
(* Planning. *)

Tables == 1 .. NTables

(* _plan_batches: the tables of one cron, in order, by max_tasks_per_dag. *)
BatchOf(t) == (t - 1) \div PerDag + 1
Batches == 1 .. BatchOf(NTables)
TablesOf(b) == {t \in Tables : BatchOf(t) = b}

(* The statements of a batch: its tables, then, by table, a staging table     *)
(* like it and the TRUNCATE of that.                                       *)
Ops == {"table", "like", "truncate"}
Statements(b) == [op : Ops, of : TablesOf(b)]

(* Its place in the order of the batch, by name. *)
Position(b, t) == Cardinality({u \in TablesOf(b) : u < t})

Number(b, s) ==
    LET n == Cardinality(TablesOf(b))
        k == Position(b, s.of)
    IN  CASE s.op = "table" -> k
          [] s.op = "like" -> n + 2 * k
          [] s.op = "truncate" -> n + 2 * k + 1

(* sorted(ddl_statements) sorts the names "ddl_<number>" as strings (of at    *)
(* most two digits here).                                                  *)
FirstDigit(i) == IF i < 10 THEN i ELSE i \div 10

NameBefore(i, j) ==
    \/ FirstDigit(i) < FirstDigit(j)
    \/ FirstDigit(i) = FirstDigit(j) /\ i < j

RunsBefore(b, s, u) == NameBefore(Number(b, s), Number(b, u))

-----------------------------------------------------------------------------
(* The rows of a table, with the number of times each is there. *)

Absent == [is |-> "absent", rows |-> [x \in Rows |-> 0]]
Copy(read) == [is |-> "there", rows |-> [x \in Rows |-> IF x \in read THEN 1 ELSE 0]]

Loaded(content, read) ==
    [content EXCEPT !.rows =
        [x \in Rows |-> IF x \notin read THEN content.rows[x]
                        ELSE IF Keyed THEN 1 ELSE content.rows[x] + 1]]

NoTask == [at |-> "waiting", try |-> 1, read |-> {}]
NoRun == [batch |-> 0, at |-> "none", try |-> 1, left |-> {}, task |-> [t \in Tables |-> NoTask]]
NoJob == [at |-> "idle", batch |-> 0, version |-> 0, seen |-> {}]

Init ==
    /\ job = NoJob
    /\ staged = [b \in Batches |-> 0]
    /\ body = [b \in Batches |-> 0]
    /\ dag = [b \in Batches |-> 0]
    /\ parsed = [b \in Batches |-> FALSE]
    /\ active = [b \in Batches |-> FALSE]
    /\ run = [r \in Runs |-> NoRun]
    /\ formal = [t \in Tables |-> Absent]
    /\ staging = [t \in Tables |-> Absent]

-----------------------------------------------------------------------------
(* An execution: deliver all batches, wait, trigger them. *)

Execute ==
    /\ job.at = "idle"
    /\ job.version < Executions
    /\ job' = [at |-> "stage", batch |-> 1, version |-> job.version + 1, seen |-> {}]
    /\ UNCHANGED <<files, airflow, run, warehouse>>

(* What was executed remains; the next execution is another version. *)
Ended == job' = [NoJob EXCEPT !.version = job.version]

(* Mutant: the .py travels with the package, and is there before it. *)
StageEverything ==
    /\ job.at = "stage"
    /\ staged' = [staged EXCEPT ![job.batch] = job.version]
    /\ dag' = [dag EXCEPT ![job.batch] = job.version]
    /\ job' = [job EXCEPT !.at = "copy"]
    /\ UNCHANGED <<body, airflow, run, warehouse>>

(* mkdir, rsync of the spec and the SQL, and the shared jar. *)
StageBundle ==
    /\ job.at = "stage"
    /\ staged' = [staged EXCEPT ![job.batch] = job.version]
    /\ job' = [job EXCEPT !.at = "copy"]
    /\ UNCHANGED <<body, dag, airflow, run, warehouse>>

(* cp && rm; rmdir || true: the exit status is that of the last command, so  *)
(* that a copy that failed goes unnoticed and leaves the staging directory. *)
CopyBody ==
    /\ job.at = "copy"
    /\ \/ /\ body' = [body EXCEPT ![job.batch] = staged[job.batch]]
          /\ staged' = [staged EXCEPT ![job.batch] = 0]
       \/ CopyFails /\ UNCHANGED <<body, staged>>
    /\ job' = [job EXCEPT !.at = "place"]
    /\ UNCHANGED <<dag, airflow, run, warehouse>>

Following == IF job.batch + 1 \in Batches
             THEN [job EXCEPT !.at = "stage", !.batch = @ + 1]
             ELSE [job EXCEPT !.at = "wait", !.batch = 1]

PlaceDag ==
    /\ job.at = "place"
    /\ dag' = [dag EXCEPT ![job.batch] = job.version]
    /\ job' = Following
    /\ UNCHANGED <<staged, body, airflow, run, warehouse>>

(* A command that fails or times out raises, and so does one whose effect is  *)
(* there all the same; or the process dies.  What was delivered stays.      *)
ExecutionAborts ==
    /\ job.at # "idle"
    /\ Ended
    /\ UNCHANGED <<files, airflow, run, warehouse>>

(* _wait_for_parse: until Airflow knows all DAGs, or the time is up; it knows *)
(* a DAG that it has parsed in an earlier version.                         *)
WaitForParse ==
    /\ job.at = "wait"
    /\ job' = [job EXCEPT !.at = "trigger", !.seen = {b \in Batches : parsed[b]}]
    /\ UNCHANGED <<files, airflow, run, warehouse>>

Unused == {r \in Runs : run[r].batch = 0}
Queued(b) == [NoRun EXCEPT !.batch = b, !.at = "queued"]
Triggered == IF job.batch + 1 \in Batches
             THEN job' = [job EXCEPT !.batch = @ + 1]
             ELSE Ended

(* Each batch in turn: un-paused and triggered, or not, or only un-paused; an *)
(* error is noted in the receipt, and the others have their turn.           *)
TriggerDag ==
    /\ job.at = "trigger"
    /\ \/ /\ job.batch \in job.seen
          /\ active' = [active EXCEPT ![job.batch] = TRUE]
          /\ \E r \in Unused : run' = [run EXCEPT ![r] = Queued(job.batch)]
       \/ /\ job.batch \in job.seen
          /\ active' = [active EXCEPT ![job.batch] = TRUE]
          /\ UNCHANGED run
       \/ UNCHANGED <<active, run>>
    /\ Triggered
    /\ UNCHANGED <<files, parsed, warehouse>>

Execution ==
    \/ Execute \/ StageBundle \/ CopyBody \/ PlaceDag \/ ExecutionAborts
    \/ WaitForParse \/ TriggerDag

-----------------------------------------------------------------------------
(* Airflow: external; it parses what it finds, and starts what is due. *)

ParseDag(b) ==
    /\ dag[b] # 0
    /\ body[b] # 0
    /\ parsed' = [parsed EXCEPT ![b] = TRUE]
    /\ UNCHANGED <<job, files, active, run, warehouse>>

ScheduleDue(b) ==
    /\ Scheduled
    /\ active[b]
    /\ \E r \in Unused : run' = [run EXCEPT ![r] = Queued(b)]
    /\ UNCHANGED <<job, files, airflow, warehouse>>

Running == {"create", "load"}

StartRun(r) ==
    /\ run[r].at = "queued"
    /\ Serial => \A q \in Runs : run[q].batch = run[r].batch => run[q].at \notin Running
    /\ run' = [run EXCEPT ![r].at = "create", ![r].left = Statements(run[r].batch)]
    /\ UNCHANGED <<job, files, airflow, warehouse>>

-----------------------------------------------------------------------------
(* The task create_tables. *)

IsNext(r, s) ==
    /\ run[r].at = "create"
    /\ s \in run[r].left
    /\ \A u \in run[r].left \ {s} : RunsBefore(run[r].batch, s, u)

(* Mutant: the staging table is not cleared. *)
EffectUncleared(s) ==
    CASE s.op = "table" ->
           /\ formal' = IF formal[s.of] = Absent THEN [formal EXCEPT ![s.of] = Copy({})]
                                                 ELSE formal
           /\ UNCHANGED staging
      [] s.op = "like" ->
           /\ formal[s.of] # Absent
           /\ staging' = IF staging[s.of] = Absent THEN [staging EXCEPT ![s.of] = Copy({})]
                                                   ELSE staging
           /\ UNCHANGED formal
      [] s.op = "truncate" -> UNCHANGED warehouse

(* CREATE ... IF NOT EXISTS, or TRUNCATE; false where the statement fails.   *)
Effect(s) ==
    CASE s.op = "table" ->
           /\ formal' = IF formal[s.of] = Absent THEN [formal EXCEPT ![s.of] = Copy({})]
                                                 ELSE formal
           /\ UNCHANGED staging
      [] s.op = "like" ->
           /\ formal[s.of] # Absent
           /\ staging' = IF staging[s.of] = Absent THEN [staging EXCEPT ![s.of] = Copy({})]
                                                   ELSE staging
           /\ UNCHANGED formal
      [] s.op = "truncate" ->
           /\ staging[s.of] # Absent
           /\ staging' = [staging EXCEPT ![s.of] = Copy({})]
           /\ UNCHANGED formal

StatementRuns(r) ==
    /\ \E s \in run[r].left :
         /\ IsNext(r, s)
         /\ Effect(s)
         /\ run' = [run EXCEPT ![r].left = @ \ {s},
                               ![r].at = IF run[r].left = {s} THEN "load" ELSE @]
    /\ UNCHANGED <<job, files, airflow>>

(* retries: 1, from the first statement on. *)
StatementFails(r) ==
    /\ run[r].at = "create"
    /\ run' = IF run[r].try = 1
              THEN [run EXCEPT ![r].try = 2, ![r].left = Statements(run[r].batch)]
              ELSE [run EXCEPT ![r].at = "failed"]
    /\ UNCHANGED <<job, files, airflow, warehouse>>

-----------------------------------------------------------------------------
(* The tasks that move a table, and those that swap it. *)

Doing(r, t, at) == run[r].at = "load" /\ t \in TablesOf(run[r].batch) /\ run[r].task[t].at = at
TaskNow(r, t, new) == run' = [run EXCEPT ![r].task[t] = new]

Failed(task, again) ==
    IF task.try = 1 THEN [task EXCEPT !.at = again, !.try = 2] ELSE [task EXCEPT !.at = "failed"]

(* INSERT INTO staging SELECT * FROM source, whatever rows that has now. *)
Move(r, t) ==
    /\ Doing(r, t, "waiting")
    /\ staging[t] # Absent
    /\ \E read \in SUBSET Rows :
         /\ staging' = [staging EXCEPT ![t] = Loaded(@, read)]
         /\ TaskNow(r, t, [run[r].task[t] EXCEPT !.at = "moved", !.read = read])
    /\ UNCHANGED <<job, files, airflow, formal>>

(* Some of the rows, or all, were loaded; the task alone is tried again.     *)
MoveFails(r, t) ==
    /\ Doing(r, t, "waiting")
    /\ \E some \in SUBSET Rows :
         staging' = IF staging[t] = Absent THEN staging
                    ELSE [staging EXCEPT ![t] = Loaded(@, some)]
    /\ TaskNow(r, t, Failed(run[r].task[t], "waiting"))
    /\ UNCHANGED <<job, files, airflow, formal>>

(* REPLACE WITH TABLE ("swap" = "false"): the staging table takes the place  *)
(* of the formal one, which is dropped.                                    *)
Replaced(t) ==
    /\ staging[t] # Absent
    /\ formal' = [formal EXCEPT ![t] = staging[t]]
    /\ staging' = [staging EXCEPT ![t] = Absent]

(* Mutant: the state of the task as Airflow spells it. *)
SwapTaskSuccess(t, task) == [task EXCEPT !.at = "success"]

SwapTask(t, task) == [task EXCEPT !.at = "swapped"]

Swap(r, t) ==
    /\ Doing(r, t, "moved")
    /\ Replaced(t)
    /\ TaskNow(r, t, SwapTask(t, run[r].task[t]))
    /\ UNCHANGED <<job, files, airflow>>

(* Both tries fail; or the first one works but its answer is lost, and the   *)
(* second finds no staging table.                                          *)
SwapFails(r, t) ==
    /\ Doing(r, t, "moved")
    /\ Replaced(t) \/ UNCHANGED warehouse
    /\ TaskNow(r, t, [run[r].task[t] EXCEPT !.at = "failed"])
    /\ UNCHANGED <<job, files, airflow>>

EndRun(r) ==
    LET ends == {run[r].task[t].at : t \in TablesOf(run[r].batch)} IN
    /\ run[r].at = "load"
    /\ ends \subseteq {"swapped", "failed"}
    /\ run' = [run EXCEPT ![r].at = IF ends = {"swapped"} THEN "success" ELSE "failed"]
    /\ UNCHANGED <<job, files, airflow, warehouse>>

Task(r) ==
    \/ StartRun(r) \/ StatementRuns(r) \/ StatementFails(r) \/ EndRun(r)
    \/ \E t \in Tables : Move(r, t) \/ MoveFails(r, t) \/ Swap(r, t) \/ SwapFails(r, t)

Next ==
    \/ Execution
    \/ \E b \in Batches : ParseDag(b) \/ ScheduleDue(b)
    \/ \E r \in Runs : Task(r)

Spec == Init /\ [][Next]_vars

-----------------------------------------------------------------------------
(* Properties. *)

Contents == [is : {"absent", "there"}, rows : [Rows -> Nat]]

TypeOK ==
    /\ job \in [at : {"idle", "stage", "copy", "place", "wait", "trigger"},
               batch : Batches \union {0}, version : 0 .. Executions, seen : SUBSET Batches]
    /\ job.at # "idle" => job.batch \in Batches
    /\ staged \in [Batches -> 0 .. Executions]
    /\ body \in [Batches -> 0 .. Executions]
    /\ dag \in [Batches -> 0 .. Executions]
    /\ parsed \in [Batches -> BOOLEAN]
    /\ active \in [Batches -> BOOLEAN]
    /\ run \in [Runs -> [batch : Batches \union {0},
                        at : {"none", "queued", "success", "failed"} \union Running,
                        try : {1, 2}, left : SUBSET [op : Ops, of : Tables],
                        task : [Tables -> [at : {"waiting", "moved", "swapped", "failed"},
                                           try : {1, 2}, read : SUBSET Rows]]]]
    /\ formal \in [Tables -> Contents]
    /\ staging \in [Tables -> Contents]

(* Airflow never finds a .py before the spec and the SQL that it belongs to,  *)
(* wherever an execution is cut short and however often it is repeated.     *)
PackageWhole == \A b \in Batches : dag[b] <= body[b]

(* "guarantees that full-load staging never executes CREATE TABLE ... LIKE   *)
(* before the formal target exists": whatever failed before.                *)
LikesExisting ==
    \A r \in Runs : \A s \in run[r].left :
        IsNext(r, s) /\ s.op = "like" => formal[s.of] # Absent

Holds(content, read) == \A x \in read : content.rows[x] >= 1

(* Readers of a formal table see it change only when it is created, or to    *)
(* everything that a run's move has read, and to nothing else unless that   *)
(* move was tried twice: a failed run leaves it alone, and what it left     *)
(* behind is not mixed into the next one.                                  *)
ChangedBy(r, t) ==
    LET task == run[r].task[t] IN
    /\ Doing(r, t, "moved")
    /\ Holds(formal'[t], task.read)
    /\ task.try = 1 => formal'[t] = Copy(task.read)

SwapsWhole ==
    [][\A t \in Tables :
          \/ formal'[t] = formal[t]
          \/ formal[t] = Absent /\ formal'[t] = Copy({})
          \/ \E r \in Runs : ChangedBy(r, t)]_vars

(* "A full load must start from an empty table": what becomes the formal     *)
(* table is what one move has read, each row once.                          *)
LoadsWhole ==
    [][\A t \in Tables :
          \/ formal'[t] = formal[t]
          \/ \E read \in SUBSET Rows : formal'[t] = Copy(read)]_vars
=============================================================================
