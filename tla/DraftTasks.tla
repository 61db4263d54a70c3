------------------------------ MODULE DraftTasks ------------------------------
(***************************************************************************)
(* The lifecycle of draft generation tasks: the rows of                    *)
(* draft_generation_tasks, the API requests that insert, retry and stop    *)
(* them, the detached worker process that each row gets, the automatic     *)
(* resume of a worker that failed on its connection, and the sweep of      *)
(* stale rows when an API process starts.                                  *)
(*                                                                         *)
(* Every party talks to the others through the table alone.  A step of     *)
(* this module is one database session (or one atomic SQL statement): what *)
(* a session reads may be out of date by the time the next one writes.     *)
(***************************************************************************)
EXTENDS Naturals, FiniteSets

CONSTANTS
    Tasks,         \* identities of task rows (bounds how many are ever inserted)
    Domains,       \* data domains
    Scopes,        \* generation scopes in use, among "full", "objects", "relations"
    Clients,       \* API requests that may be in flight at the same time
    None,          \* "no row"
    MaxRunning,    \* settings.max_concurrent_draft_generations
    MaxResumes,    \* settings.draft_auto_resume_max
    SerialWrites,  \* TRUE: SQLite, a write statement excludes every other writer;
                   \* FALSE: PostgreSQL, a statement counts on its own snapshot
    Crashes,       \* may worker processes be killed, and process launches fail
    Restarts       \* may API processes die and start again

ASSUME ConstantsAssumption ==
    /\ IsFiniteSet(Tasks)
    /\ None \notin Tasks
    /\ Scopes \subseteq {"full", "objects", "relations"}
    /\ MaxRunning \in Nat
    /\ MaxResumes \in Nat
    /\ {SerialWrites, Crashes, Restarts} \subseteq BOOLEAN

VARIABLES
    status,  \* the status column; "absent" before the row is inserted
    job,     \* what the row asks for: columns never written again
    note,    \* the message column, as far as the code reads it back
    pc,      \* the worker process of a row, by the session it runs next
    flaky,   \* did the exception a worker is handling look transient
    req,     \* the API requests in flight
    sweep,   \* rows a starting API process has read as stale, not yet written
    merged,  \* rows whose result was committed into the ontology
    halted   \* rows stopped while every check of their worker lay ahead

vars == <<status, job, note, pc, flaky, req, sweep, merged, halted>>

Active == {"queued", "running"}
Terminal == {"succeeded", "failed", "cancelled"}

(* The pc of a worker: before it holds a slot, while it holds one, after. *)
Entering == {"start", "await", "claim", "claiming", "wait"}
Working == {"admitted", "run", "begin", "fetch", "generate", "save", "commit"}
Failing == {"caught", "mark", "fail"}
Resuming == {"resume", "insert", "launch"}
Live == Entering \union Working \union Failing \union Resuming

(* Where a worker, or a row whose worker is yet to be launched, still has a   *)
(* look at the cancellation flag before its next write of the status.       *)
Attentive == {"none", "start", "await", "claim", "claiming", "wait", "admitted",
              "begin", "fetch", "generate", "save", "caught"}

Jobs == [dom : Domains, scope : Scopes, cut : BOOLEAN,
         how : {"start", "retry", "resume"}, of : Tasks \union {None}]
NoJob == [dom |-> None, scope |-> "none", cut |-> FALSE, how |-> "none", of |-> None]

Idle == [at |-> "idle", job |-> NoJob, task |-> None]
Requests == {Idle} \union [at : {"insert"}, job : Jobs, task : {None}]
                   \union [at : {"launch", "stop"}, job : {NoJob}, task : Tasks]

Running == {t \in Tasks : status[t] = "running"}
Absent == {t \in Tasks : status[t] = "absent"}

(* Mutant: overlooks that a "full" task rebuilds objects and relations alike. *)
ConflictsSameScope(dom, scope) ==
    {t \in Tasks : status[t] \in Active /\ job[t].dom = dom /\ job[t].scope = scope}

(* _ensure_no_conflicting_task: the active rows that stand in the way. *)
Conflicts(dom, scope) ==
    {t \in Tasks : /\ status[t] \in Active
                   /\ job[t].dom = dom
                   /\ scope = "full" \/ job[t].scope \in {"full", scope}}

Init ==
    /\ status = [t \in Tasks |-> "absent"]
    /\ job = [t \in Tasks |-> NoJob]
    /\ note = [t \in Tasks |-> "none"]
    /\ pc = [t \in Tasks |-> "none"]
    /\ flaky = [t \in Tasks |-> FALSE]
    /\ req = [c \in Clients |-> Idle]
    /\ sweep = {}
    /\ merged = {}
    /\ halted = {}

(* db.add(DraftGenerationTask(...)); db.commit() of job j as row t. *)
Insert(t, j, message) ==
    /\ status[t] = "absent"
    /\ status' = [status EXCEPT ![t] = "queued"]
    /\ job' = [job EXCEPT ![t] = j]
    /\ note' = [note EXCEPT ![t] = message]

-----------------------------------------------------------------------------
(* API requests. *)

(* start_*_generation up to the conflict check. *)
StartChecked(c) ==
    /\ req[c].at = "idle"
    /\ \E dom \in Domains, scope \in Scopes, cut \in BOOLEAN :
         /\ cut => scope = "objects"
         /\ Conflicts(dom, scope) = {}
         /\ req' = [req EXCEPT ![c] =
              [at |-> "insert", task |-> None,
               job |-> [dom |-> dom, scope |-> scope, cut |-> cut,
                        how |-> "start", of |-> None]]]
    /\ UNCHANGED <<status, job, note, pc, flaky, sweep, merged, halted>>

(* What a row inserted because of row t asks for. *)
Successor(t, how, cut) ==
    [dom |-> job[t].dom, scope |-> job[t].scope, cut |-> cut, how |-> how, of |-> t]

RetryJob(t) == Successor(t, "retry", job[t].cut)

(* retry_draft_generation up to the conflict check: the new row inherits the *)
(* scope and the selection of tables of the failed one.                     *)
RetryChecked(c, t) ==
    /\ req[c].at = "idle"
    /\ status[t] = "failed"
    /\ Conflicts(job[t].dom, job[t].scope) = {}
    /\ req' = [req EXCEPT ![c] = [at |-> "insert", task |-> None, job |-> RetryJob(t)]]
    /\ UNCHANGED <<status, job, note, pc, flaky, sweep, merged, halted>>

InsertRow(c, t) ==
    /\ req[c].at = "insert"
    /\ Insert(t, req[c].job, "entry")
    /\ req' = [req EXCEPT ![c] = [at |-> "launch", task |-> t, job |-> NoJob]]
    /\ UNCHANGED <<pc, flaky, sweep, merged, halted>>

(* launch_draft_task: the detached process of the row just inserted. *)
LaunchWorker(c) ==
    /\ req[c].at = "launch"
    /\ pc' = [pc EXCEPT ![req[c].task] = "start"]
    /\ req' = [req EXCEPT ![c] = Idle]
    /\ UNCHANGED <<status, job, note, flaky, sweep, merged, halted>>

(* stop_draft_generation: reads an active row, then writes "cancelled". *)
StopChecked(c, t) ==
    /\ req[c].at = "idle"
    /\ status[t] \in Active
    /\ req' = [req EXCEPT ![c] = [at |-> "stop", task |-> t, job |-> NoJob]]
    /\ UNCHANGED <<status, job, note, pc, flaky, sweep, merged, halted>>

StopWritten(c) ==
    LET t == req[c].task IN
    /\ req[c].at = "stop"
    /\ status' = [status EXCEPT ![t] = "cancelled"]
    /\ note' = [note EXCEPT ![t] = "end"]
    /\ halted' = IF pc[t] \in Attentive /\ status[t] \in Active /\ t \notin sweep
                 THEN halted \union {t} ELSE halted
    /\ req' = [req EXCEPT ![c] = Idle]
    /\ UNCHANGED <<job, pc, flaky, sweep, merged>>

-----------------------------------------------------------------------------
(* The worker process of row t. *)

Goto(t, next) == pc' = [pc EXCEPT ![t] = next]

(* A session that only looks at the cancellation flag. *)
CheckCancelled(t, here, next) ==
    /\ pc[t] = here
    /\ Goto(t, IF status[t] = "cancelled" THEN "done" ELSE next)
    /\ UNCHANGED <<status, job, note, flaky, req, sweep, merged, halted>>

(* draft_worker._execute reads the row and leaves if it is over. *)
WorkerStart(t) ==
    /\ pc[t] = "start"
    /\ Goto(t, IF status[t] \in Terminal THEN "done" ELSE "await")
    /\ UNCHANGED <<status, job, note, flaky, req, sweep, merged, halted>>

AwaitSlot(t) == CheckCancelled(t, "await", "claim")

SlotGone(t) ==
    /\ pc[t] = "claim"
    /\ status[t] \in Terminal
    /\ Goto(t, "done")
    /\ UNCHANGED <<status, job, note, flaky, req, sweep, merged, halted>>

SlotTaken(t) ==
    /\ status[t] = "queued"
    /\ status' = [status EXCEPT ![t] = "running"]
    /\ note' = [note EXCEPT ![t] = IF @ = "queue" THEN "work" ELSE @]
    /\ Goto(t, "admitted")
    /\ UNCHANGED <<job, flaky, req, sweep, merged, halted>>

(* Mutant: a worker that finds no slot leaves instead of waiting. *)
SlotRefusedLeaves(t) ==
    /\ Goto(t, "done")
    /\ UNCHANGED <<status, job, note, flaky, req, sweep, merged, halted>>

SlotRefused(t) ==
    /\ Goto(t, "wait")
    /\ UNCHANGED <<status, job, note, flaky, req, sweep, merged, halted>>

(* Mutant: one slot too many. *)
MaySlotOffByOne(t) == status[t] = "queued" /\ Cardinality(Running) <= MaxRunning

(* The WHERE clause of the claim: still queued, and COUNT(running) < max. *)
MaySlot(t) == status[t] = "queued" /\ Cardinality(Running) < MaxRunning

(* The claim when the database runs one write statement at a time. *)
ClaimSlot(t) ==
    /\ SerialWrites
    /\ pc[t] = "claim"
    /\ status[t] \notin Terminal
    /\ IF MaySlot(t) THEN SlotTaken(t) ELSE SlotRefused(t)

(* The same statement under READ COMMITTED: the count is taken on the        *)
(* snapshot of the statement, and only the row itself is locked and read    *)
(* again before it is written.                                             *)
ClaimCounted(t) ==
    /\ ~SerialWrites
    /\ pc[t] = "claim"
    /\ status[t] \notin Terminal
    /\ IF MaySlot(t)
       THEN /\ Goto(t, "claiming")
            /\ UNCHANGED <<status, job, note, flaky, req, sweep, merged, halted>>
       ELSE SlotRefused(t)

ClaimCommitted(t) ==
    /\ pc[t] = "claiming"
    /\ IF status[t] = "queued" THEN SlotTaken(t) ELSE SlotRefused(t)

(* Writes the position in the queue as the message, and sleeps. *)
ReportPosition(t) ==
    /\ pc[t] = "wait"
    /\ note' = [note EXCEPT ![t] = IF status[t] = "cancelled" THEN @ ELSE "queue"]
    /\ Goto(t, "await")
    /\ UNCHANGED <<status, job, flaky, req, sweep, merged, halted>>

Admitted(t) == CheckCancelled(t, "admitted", "run")

(* The first session of _run_*: the domain, and for relations the objects.  *)
RunOpens(t) ==
    /\ pc[t] = "run"
    /\ Goto(t, "begin")
    /\ UNCHANGED <<status, job, note, flaky, req, sweep, merged, halted>>

RunRejected(t) ==
    /\ pc[t] = "run"
    /\ job[t].scope = "relations"
    /\ status' = [status EXCEPT ![t] = "failed"]
    /\ note' = [note EXCEPT ![t] = "end"]
    /\ Goto(t, "done")
    /\ UNCHANGED <<job, flaky, req, sweep, merged, halted>>

(* ensure_not_cancelled, then a progress write: it replaces the message. *)
CheckAndReport(t, here, next) ==
    /\ pc[t] = here
    /\ IF status[t] = "cancelled"
       THEN Goto(t, "done") /\ UNCHANGED note
       ELSE Goto(t, next) /\ note' = [note EXCEPT ![t] = "work"]
    /\ UNCHANGED <<status, job, flaky, req, sweep, merged, halted>>

RunBegins(t) == CheckAndReport(t, "begin", "fetch")
EvidenceFetched(t) == CheckAndReport(t, "fetch", "generate")
DraftGenerated(t) == CheckAndReport(t, "generate", "save")

(* Mutant: no look at the cancellation flag before the merge. *)
SaveUnchecked(t) ==
    /\ pc[t] = "save"
    /\ Goto(t, "commit")
    /\ UNCHANGED <<status, job, note, flaky, req, sweep, merged, halted>>

SaveChecked(t) == CheckCancelled(t, "save", "commit")

(* Mutant: writes the legacy terminal status "completed". *)
MergedLegacy(t) ==
    /\ pc[t] = "commit"
    /\ status' = [status EXCEPT ![t] = "completed"]
    /\ note' = [note EXCEPT ![t] = "end"]
    /\ merged' = merged \union {t}
    /\ Goto(t, "done")
    /\ UNCHANGED <<job, flaky, req, sweep, halted>>

(* The session that merges the draft: it does not look at the status again. *)
Merged(t) ==
    /\ pc[t] = "commit"
    /\ status' = [status EXCEPT ![t] = "succeeded"]
    /\ note' = [note EXCEPT ![t] = "end"]
    /\ merged' = merged \union {t}
    /\ Goto(t, "done")
    /\ UNCHANGED <<job, flaky, req, sweep, halted>>

(* The ontology whose relations were to be merged is gone. *)
MergeRejected(t) ==
    /\ pc[t] = "commit"
    /\ job[t].scope = "relations"
    /\ status' = [status EXCEPT ![t] = "failed"]
    /\ note' = [note EXCEPT ![t] = "end"]
    /\ Goto(t, "done")
    /\ UNCHANGED <<job, flaky, req, sweep, merged, halted>>

(* An exception inside the try block of _run_*: transient when it came from  *)
(* DataHub or from the LLM, not when it came from the database or a merge.  *)
RunRaises(t) ==
    /\ pc[t] \in {"begin", "fetch", "generate", "save", "commit"}
    /\ \E transient \in BOOLEAN :
         /\ transient => pc[t] \in {"fetch", "generate"}
         /\ flaky' = [flaky EXCEPT ![t] = transient]
    /\ Goto(t, "caught")
    /\ UNCHANGED <<status, job, note, req, sweep, merged, halted>>

(* An exception before that block reaches draft_worker.main, which marks    *)
(* the row and never resumes.                                              *)
EntryRaises(t) ==
    /\ pc[t] \in Entering \union {"admitted", "run"}
    /\ flaky' = [flaky EXCEPT ![t] = FALSE]
    /\ Goto(t, "mark")
    /\ UNCHANGED <<status, job, note, req, sweep, merged, halted>>

(* Mutant: the handler swallows the exception and leaves the row as it is. *)
HandlerSwallows(t) == CheckCancelled(t, "caught", "done")

(* The handler of _run_* returns if the row is cancelled ... *)
HandlerChecks(t) == CheckCancelled(t, "caught", "mark")

AfterMark(t) == IF flaky[t] THEN "resume" ELSE "done"

(* ... and _mark_task_failed looks again, but its caller goes on either way. *)
MarkChecks(t) ==
    /\ pc[t] = "mark"
    /\ Goto(t, IF status[t] = "cancelled" THEN AfterMark(t) ELSE "fail")
    /\ UNCHANGED <<status, job, note, flaky, req, sweep, merged, halted>>

MarkedFailed(t) ==
    /\ pc[t] = "fail"
    /\ status' = [status EXCEPT ![t] = "failed"]
    /\ note' = [note EXCEPT ![t] = "end"]
    /\ Goto(t, AfterMark(t))
    /\ UNCHANGED <<job, flaky, req, sweep, merged, halted>>

(* The earlier resumes _maybe_auto_resume finds: by the message of the row. *)
PriorResumes(t) ==
    {u \in Tasks : /\ status[u] # "absent"
                   /\ job[u].dom = job[t].dom
                   /\ job[u].scope = job[t].scope
                   /\ note[u] = "resumed"}

ResumeChecked(t) ==
    /\ pc[t] = "resume"
    /\ Goto(t, IF Cardinality(PriorResumes(t)) < MaxResumes THEN "insert" ELSE "done")
    /\ UNCHANGED <<status, job, note, flaky, req, sweep, merged, halted>>

(* The resumed row names a domain and a scope, no selection of tables. *)
ResumeInserted(t, u) ==
    /\ pc[t] = "insert"
    /\ Insert(u, Successor(t, "resume", FALSE), "resumed")
    /\ Goto(t, "launch")
    /\ UNCHANGED <<flaky, req, sweep, merged, halted>>

ResumeLaunched(t) ==
    /\ pc[t] = "launch"
    /\ \E u \in Tasks :
         /\ job[u].how = "resume" /\ job[u].of = t
         /\ pc' = [pc EXCEPT ![t] = "done", ![u] = "start"]
    /\ UNCHANGED <<status, job, note, flaky, req, sweep, merged, halted>>

Worker(t) ==
    \/ WorkerStart(t) \/ AwaitSlot(t) \/ SlotGone(t) \/ ClaimSlot(t)
    \/ ClaimCounted(t) \/ ClaimCommitted(t) \/ ReportPosition(t)
    \/ Admitted(t) \/ RunOpens(t) \/ RunRejected(t)
    \/ RunBegins(t) \/ EvidenceFetched(t) \/ DraftGenerated(t) \/ SaveChecked(t)
    \/ Merged(t) \/ MergeRejected(t) \/ RunRaises(t) \/ EntryRaises(t)
    \/ HandlerChecks(t) \/ MarkChecks(t) \/ MarkedFailed(t)
    \/ ResumeChecked(t) \/ ResumeLaunched(t)
    \/ \E u \in Tasks : ResumeInserted(t, u)

-----------------------------------------------------------------------------
(* Failures of processes. *)

(* A worker is killed, or the process it wanted to launch does not start. *)
WorkerKilled(t) ==
    /\ Crashes
    /\ pc[t] \in Live
    /\ Goto(t, "dead")
    /\ UNCHANGED <<status, job, note, flaky, req, sweep, merged, halted>>

(* The API process of a request dies with it, wherever it stands. *)
RequestLost(c) ==
    /\ Restarts
    /\ req[c].at # "idle"
    /\ req' = [req EXCEPT ![c] = Idle]
    /\ UNCHANGED <<status, job, note, pc, flaky, sweep, merged, halted>>

(* recover_stale_draft_tasks of a starting API process.  Nothing bounds the  *)
(* time between two writes of a row, so any active row may have passed the   *)
(* grace window; the rows read here are written in a later step.            *)
SweepReads ==
    /\ Restarts
    /\ sweep = {}
    /\ \E stale \in SUBSET {t \in Tasks : status[t] \in Active} : sweep' = stale
    /\ UNCHANGED <<status, job, note, pc, flaky, req, merged, halted>>

(* Mutant: the sweep queues stale rows again instead of failing them. *)
SweepRequeues ==
    /\ sweep # {}
    /\ status' = [t \in Tasks |-> IF t \in sweep THEN "queued" ELSE status[t]]
    /\ note' = [t \in Tasks |-> IF t \in sweep THEN "queue" ELSE note[t]]
    /\ sweep' = {}
    /\ UNCHANGED <<job, pc, flaky, req, merged, halted>>

SweepWrites ==
    /\ sweep # {}
    /\ status' = [t \in Tasks |-> IF t \in sweep THEN "failed" ELSE status[t]]
    /\ note' = [t \in Tasks |-> IF t \in sweep THEN "end" ELSE note[t]]
    /\ sweep' = {}
    /\ UNCHANGED <<job, pc, flaky, req, merged, halted>>

Next ==
    \/ \E c \in Clients :
         \/ StartChecked(c) \/ LaunchWorker(c) \/ StopWritten(c) \/ RequestLost(c)
         \/ \E t \in Tasks : RetryChecked(c, t) \/ InsertRow(c, t) \/ StopChecked(c, t)
    \/ \E t \in Tasks : Worker(t) \/ WorkerKilled(t)
    \/ SweepReads \/ SweepWrites

Spec == Init /\ [][Next]_vars

(* Processes that are not killed keep running, and a request that inserted   *)
(* a row goes on to launch its worker.  Nobody has to ask for anything.      *)
Fairness ==
    /\ \A t \in Tasks : WF_vars(Worker(t))
    /\ \A c \in Clients : WF_vars(LaunchWorker(c))

FairSpec == Spec /\ Fairness

-----------------------------------------------------------------------------
(* Properties. *)

TypeOK ==
    /\ status \in [Tasks -> {"absent"} \union Active \union Terminal]
    /\ job \in [Tasks -> Jobs \union {NoJob}]
    /\ \A t \in Tasks : status[t] # "absent" => job[t] \in Jobs
    /\ note \in [Tasks -> {"none", "entry", "resumed", "queue", "work", "end"}]
    /\ pc \in [Tasks -> {"none", "done", "dead"} \union Live]
    /\ flaky \in [Tasks -> BOOLEAN]
    /\ req \in [Clients -> Requests]
    /\ sweep \subseteq Tasks
    /\ merged \subseteq Tasks
    /\ halted \subseteq Tasks

(* No more rows are "running" than settings.max_concurrent_draft_generations: *)
(* what the claim statement of _try_claim_running_slot is for.               *)
SlotLimit == Cardinality(Running) <= MaxRunning

(* What those who queue see of the table. *)
Queue == INSTANCE SlotQueue WITH
    Limit <- MaxRunning,
    waiting <- {t \in Tasks : status[t] = "queued"},
    working <- Running,
    over <- {t \in Tasks : status[t] \in Terminal}

(* However requests, workers, stops, sweeps, crashes and restarts interleave, *)
(* a row is admitted only to a free slot and never comes back once it is     *)
(* over: no late write of a worker, of a stop or of the sweep revives it.   *)
QueueKept == Queue!Spec

(* A row holds its slot only while its worker is between claiming it and     *)
(* giving it back, or has been killed: no path out of the worker leaks one.  *)
SlotHeld ==
    \A t \in Tasks : status[t] = "running" => pc[t] \in Working \union Failing \union {"dead"}

(* A stop that arrives while the worker still has a check ahead is final:    *)
(* the row stays cancelled, nothing of it is merged, nothing resumes it.     *)
EarlyStopFinal ==
    \A t \in halted :
        /\ status[t] = "cancelled"
        /\ t \notin merged
        /\ \A u \in Tasks : ~(job[u].how = "resume" /\ job[u].of = t)

(* _ensure_no_conflicting_task is meant to keep two active rows of a domain  *)
(* apart unless one is for objects and the other for relations.             *)
NoConflict ==
    \A t, u \in Tasks :
        /\ t # u
        /\ {status[t], status[u]} \subseteq Active
        /\ job[t].dom = job[u].dom
        => {job[t].scope, job[u].scope} = {"objects", "relations"}

(* A row that continues an earlier one asks for the same domain, scope and   *)
(* selection of tables.                                                    *)
Inherited ==
    \A t \in Tasks :
        job[t].how \in {"retry", "resume"} =>
            LET u == job[t].of IN
            <<job[t].dom, job[t].scope, job[t].cut>> = <<job[u].dom, job[u].scope, job[u].cut>>

(* config.py and _maybe_auto_resume: at most draft_auto_resume_max automatic *)
(* resumes for a domain and a scope before a human has to retry.            *)
ResumesBounded ==
    \A dom \in Domains, scope \in Scopes :
        Cardinality({t \in Tasks : /\ job[t].how = "resume"
                                   /\ job[t].dom = dom
                                   /\ job[t].scope = scope}) <= MaxResumes

(* Every row inserted is eventually decided, as long as workers are not      *)
(* killed: slots are given back, and whoever waits for one gets it.         *)
QueueDrains == \A t \in Tasks : status[t] = "queued" ~> status[t] \in Terminal
=============================================================================
