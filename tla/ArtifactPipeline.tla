--------------------------- MODULE ArtifactPipeline ---------------------------
(***************************************************************************)
(* The pipeline of one governance artifact (a transform or a metric task): *)
(* draft, validate, confirm, execute, and the reconciliation with the DAG  *)
(* run that an execution submits to Airflow.                               *)
(*                                                                         *)
(* Sessions of the API and of the MCP server share the row of the artifact *)
(* with the processes that execute it.  A request reads the row in one     *)
(* step and writes it in a later one; the ORM writes only the columns that *)
(* differ from what the session has read.                                  *)
(***************************************************************************)
EXTENDS Naturals, FiniteSets

CONSTANTS
    Clients,     \* requests that may be in flight at the same time
    Executions,  \* claims of the artifact (bounds how often it is claimed)
    Specs,       \* the declarative specs it may be edited to
    None,        \* NULL
    MaxConfirms, \* bound on the confirmations that are counted
    Projected,   \* has the artifact a warehouse projection that reconciliation keeps
    Handoffs,    \* may Airflow be unconfigured when the artifact is executed
    Pruning,     \* may Airflow forget a finished run
    Crashes      \* may processes die, and detached workers fail to start

ASSUME PipelineAssumption ==
    /\ IsFiniteSet(Executions)
    /\ None \notin Specs \union Executions
    /\ MaxConfirms \in Nat
    /\ {Projected, Handoffs, Pruning, Crashes} \subseteq BOOLEAN

VARIABLES
    status,        \* the columns of the artifact: status,
    spec,          \*   spec_json,
    report,        \*   validation_report_json, as the spec it is about,
    receipt,       \*   execution_receipt_json
    projection,    \* transform_status of its warehouse projection
    req,           \* the requests in flight
    exec,          \* the executions, by the step they take next
    dag,           \* the DAG run of an execution, as Airflow knows it
    approved,      \* the spec that was last confirmed
    confirmations, \* how many times a confirmation was written
    won            \* executions whose run succeeded, or that only hand SQL over

row == <<status, spec, report, receipt>>
history == <<approved, confirmations, won>>
vars == <<row, projection, req, exec, dag, history>>

Statuses == {"drafted", "validated", "confirmed", "executing", "succeeded", "failed"}
Editable == {"drafted", "validated", "failed"}
Settled == {"executing", "succeeded"}

NoReceipt == [kind |-> "none", of |-> None, ok |-> FALSE]
Receipts == [kind : {"none", "error", "handoff", "dag"},
             of : Executions \union {None}, ok : BOOLEAN]

(* What a request has read, and the answer it got from Airflow. *)
Idle == [at |-> "idle", status |-> "drafted", spec |-> None, report |-> None,
         receipt |-> NoReceipt, exec |-> None, seen |-> "unknown"]
DagStates == {"none", "running", "success", "failed", "pruned"}
Requests == [at : {"idle", "edit", "validate", "confirm", "claim", "dispatch", "poll", "judge"},
             status : Statuses, spec : Specs \union {None}, report : Specs \union {None},
             receipt : Receipts, exec : Executions \union {None},
             seen : DagStates \union {"unknown"}]

InExecutor == {"run", "sent", "unsent", "raised", "handoff"}
InFlight == {"load"} \union InExecutor \union {"crashed", "mark"}
Steps == {"none", "claimed", "released", "done", "dead"} \union InFlight

Init ==
    /\ status = "drafted"
    /\ spec \in Specs
    /\ report = None
    /\ receipt = NoReceipt
    /\ projection = "none"
    /\ req = [c \in Clients |-> Idle]
    /\ exec = [e \in Executions |-> [at |-> "none", spec |-> None]]
    /\ dag = [e \in Executions |-> "none"]
    /\ approved = None
    /\ confirmations = 0
    /\ won = {}

(* The value of a column after a session that loaded one value assigns new.  *)
Flushed(current, loaded, new) == IF new = loaded THEN current ELSE new

(* A request of client c loads the row; loaded keeps what it will compare or *)
(* use of it.                                                              *)
Loads(c, loaded) ==
    /\ req[c].at = "idle"
    /\ req' = [req EXCEPT ![c] = loaded]
    /\ UNCHANGED <<row, projection, exec, dag, history>>

Ends(c) == req' = [req EXCEPT ![c] = Idle]

-----------------------------------------------------------------------------
(* Edit, validate, confirm: check what was loaded, then write. *)

EditReads(c) ==
    /\ status \in Editable
    /\ Loads(c, [Idle EXCEPT !.at = "edit", !.status = status, !.spec = spec, !.report = report])

(* Mutant: an edit that leaves the artifact validated. *)
EditKeepsStatus(c) ==
    /\ req[c].at = "edit"
    /\ \E new \in Specs : spec' = Flushed(spec, req[c].spec, new)
    /\ report' = Flushed(report, req[c].report, None)
    /\ Ends(c)
    /\ UNCHANGED <<status, receipt, projection, exec, dag, history>>

EditWrites(c) ==
    /\ req[c].at = "edit"
    /\ \E new \in Specs : spec' = Flushed(spec, req[c].spec, new)
    /\ status' = Flushed(status, req[c].status, "drafted")
    /\ report' = Flushed(report, req[c].report, None)
    /\ Ends(c)
    /\ UNCHANGED <<receipt, projection, exec, dag, history>>

ValidateReads(c) ==
    /\ status \notin Settled
    /\ Loads(c, [Idle EXCEPT !.at = "validate", !.status = status, !.spec = spec])

(* The report is on the spec that was loaded; it carries a time stamp, so it *)
(* is always written.  No kind is high-risk, so only blocking issues, or    *)
(* their absence, decide.                                                  *)
ValidateWrites(c) ==
    /\ req[c].at = "validate"
    /\ report' = req[c].spec
    /\ \E ready \in BOOLEAN :
         status' = Flushed(status, req[c].status, IF ready THEN "validated" ELSE "drafted")
    /\ Ends(c)
    /\ UNCHANGED <<spec, receipt, projection, exec, dag, history>>

ConfirmReads(c) ==
    /\ status = "validated"
    /\ confirmations < MaxConfirms
    /\ Loads(c, [Idle EXCEPT !.at = "confirm", !.spec = spec])

ConfirmWrites(c) ==
    /\ req[c].at = "confirm"
    /\ status' = "confirmed"
    /\ approved' = req[c].spec
    /\ confirmations' = confirmations + 1
    /\ Ends(c)
    /\ UNCHANGED <<spec, report, receipt, projection, exec, dag, won>>

-----------------------------------------------------------------------------
(* Execution. *)

Goto(e, next) == exec' = [exec EXCEPT ![e].at = next]
Unclaimed == {e \in Executions : exec[e].at = "none"}

ClaimReads(c) == status = "confirmed" /\ Loads(c, [Idle EXCEPT !.at = "claim"])

Claims(c) ==
    \E e \in Unclaimed :
        /\ status' = "executing"
        /\ Goto(e, "claimed")
        /\ req' = [req EXCEPT ![c] = [Idle EXCEPT !.at = "dispatch", !.exec = e]]
        /\ UNCHANGED <<spec, report, receipt, projection, dag, history>>

(* Mutant: trusts what was read and updates without the WHERE clause. *)
ClaimUnconditional(c) == req[c].at = "claim" /\ Claims(c)

(* claim_execution: UPDATE ... WHERE status = 'confirmed'. *)
ClaimWrites(c) ==
    /\ req[c].at = "claim"
    /\ \/ status = "confirmed" /\ Claims(c)
       \/ /\ status # "confirmed"
          /\ Ends(c)
          /\ UNCHANGED <<row, projection, exec, dag, history>>

(* The claimant executes in its own request, or starts a detached worker.   *)
Dispatch(c) ==
    /\ req[c].at = "dispatch"
    /\ Goto(req[c].exec, "load")
    /\ Ends(c)
    /\ UNCHANGED <<row, projection, dag, history>>

(* Mutant: takes the claim back although the worker is running. *)
DispatchDoubted(c) ==
    /\ req[c].at = "dispatch"
    /\ status' = "confirmed"
    /\ Goto(req[c].exec, "load")
    /\ Ends(c)
    /\ UNCHANGED <<spec, report, receipt, projection, dag, history>>

(* The worker did not start: release_execution_claim. *)
DispatchFails(c) ==
    /\ Crashes
    /\ req[c].at = "dispatch"
    /\ status' = IF status = "executing" /\ receipt = NoReceipt THEN "confirmed" ELSE status
    /\ Goto(req[c].exec, "released")
    /\ Ends(c)
    /\ UNCHANGED <<spec, report, receipt, projection, dag, history>>

RequestLost(c) ==
    /\ Crashes
    /\ req[c].at # "idle"
    /\ Ends(c)
    /\ UNCHANGED <<row, projection, exec, dag, history>>

(* execute_claimed loads the row.  A refusal reaches the handler of a worker *)
(* process, or ends an API request.                                        *)
ExecutionLoads(e) ==
    /\ exec[e].at = "load"
    /\ \/ /\ status = "executing"
          /\ exec' = [exec EXCEPT ![e] = [at |-> "run", spec |-> spec]]
       \/ status = "succeeded" /\ Goto(e, "done")
       \/ status \notin Settled /\ \E next \in {"crashed", "done"} : Goto(e, next)
    /\ UNCHANGED <<row, projection, req, dag, history>>

ExecutorRaises(e) ==
    /\ exec[e].at = "run"
    /\ Goto(e, "raised")
    /\ UNCHANGED <<row, projection, req, dag, history>>

(* The trigger call starts a run; its answer may be lost. *)
RunTriggered(e) ==
    /\ exec[e].at = "run"
    /\ dag' = [dag EXCEPT ![e] = "running"]
    /\ \E next \in {"sent", "unsent"} : Goto(e, next)
    /\ UNCHANGED <<row, projection, req, history>>

RunRejected(e) ==
    /\ exec[e].at = "run"
    /\ Goto(e, "unsent")
    /\ UNCHANGED <<row, projection, req, dag, history>>

HandsOver(e) ==
    /\ Handoffs
    /\ exec[e].at = "run"
    /\ Goto(e, "handoff")
    /\ UNCHANGED <<row, projection, req, dag, history>>

Receipt(kind, e, ok) == [kind |-> kind, of |-> e, ok |-> ok]

(* Mutant: a receipt is as good as a success, whatever it says. *)
ReceiptWrittenBlind(e) ==
    /\ exec[e].at \in {"sent", "unsent", "raised", "handoff"}
    /\ receipt' = Receipt("dag", e, TRUE)
    /\ status' = "succeeded"
    /\ Goto(e, "done")
    /\ UNCHANGED <<spec, report, projection, req, dag, history>>

(* The end of execute_claimed.  It loaded "executing", so that status is not *)
(* written when the run was submitted.                                     *)
ReceiptWritten(e) ==
    /\ \/ /\ exec[e].at = "sent"
          /\ receipt' = Receipt("dag", e, TRUE)
          /\ UNCHANGED <<status, won>>
       \/ /\ exec[e].at = "unsent"
          /\ receipt' = Receipt("dag", e, FALSE)
          /\ status' = "failed"
          /\ UNCHANGED won
       \/ /\ exec[e].at = "raised"
          /\ receipt' = Receipt("error", e, FALSE)
          /\ status' = "failed"
          /\ UNCHANGED won
       \/ /\ exec[e].at = "handoff"
          /\ receipt' = Receipt("handoff", e, TRUE)
          /\ status' = "succeeded"
          /\ won' = won \union {e}
    /\ Goto(e, "done")
    /\ UNCHANGED <<spec, report, projection, req, dag, approved, confirmations>>

(* The session fails to commit what the executor returned. *)
RecordingRaises(e) ==
    /\ Crashes
    /\ exec[e].at \in InExecutor \ {"run"}
    /\ Goto(e, "crashed")
    /\ UNCHANGED <<row, projection, req, dag, history>>

(* _mark_crashed of the worker process. *)
CrashReads(e) ==
    /\ exec[e].at = "crashed"
    /\ Goto(e, IF status = "executing" THEN "mark" ELSE "done")
    /\ UNCHANGED <<row, projection, req, dag, history>>

CrashWrites(e) ==
    /\ exec[e].at = "mark"
    /\ status' = "failed"
    /\ receipt' = Receipt("error", None, FALSE)
    /\ Goto(e, "done")
    /\ UNCHANGED <<spec, report, projection, req, dag, history>>

ExecutionKilled(e) ==
    /\ Crashes
    /\ exec[e].at \in InFlight
    /\ Goto(e, "dead")
    /\ UNCHANGED <<row, projection, req, dag, history>>

Execution(e) ==
    \/ ExecutionLoads(e) \/ ExecutorRaises(e) \/ RunTriggered(e) \/ RunRejected(e)
    \/ HandsOver(e) \/ ReceiptWritten(e) \/ RecordingRaises(e)
    \/ CrashReads(e) \/ CrashWrites(e)

-----------------------------------------------------------------------------
(* Airflow: external, known by the answers of get_dag_run. *)

RunEnds(e) ==
    /\ dag[e] = "running"
    /\ \/ dag' = [dag EXCEPT ![e] = "success"] /\ won' = won \union {e}
       \/ dag' = [dag EXCEPT ![e] = "failed"] /\ UNCHANGED won
    /\ UNCHANGED <<row, projection, req, exec, approved, confirmations>>

RunPruned(e) ==
    /\ Pruning
    /\ dag[e] \in {"success", "failed"}
    /\ dag' = [dag EXCEPT ![e] = "pruned"]
    /\ UNCHANGED <<row, projection, req, exec, history>>

-----------------------------------------------------------------------------
(* _reconcile_orchestrated_status, which every read of the artifact runs. *)

(* Mutant: looks at succeeded artifacts only. *)
ReconcileReadsSucceeded(c) ==
    /\ status = "succeeded"
    /\ receipt.kind = "dag"
    /\ Loads(c, [Idle EXCEPT !.at = IF receipt.ok THEN "poll" ELSE "judge",
                            !.status = status, !.receipt = receipt])

ReconcileReads(c) ==
    /\ status \in Settled
    /\ receipt.kind = "dag"
    /\ Loads(c, [Idle EXCEPT !.at = IF receipt.ok THEN "poll" ELSE "judge",
                            !.status = status, !.receipt = receipt])

(* One question to Airflow: "unknown" when there is no answer, and a run     *)
(* that Airflow does not know has failed.                                  *)
Answers(e) == {"unknown", IF dag[e] \in {"none", "pruned"} THEN "failed" ELSE dag[e]}

ProjectionAfter(answer) ==
    CASE answer = "success" -> "ready"
      [] answer = "failed" -> "failed"
      [] OTHER -> "running"

(* Asks Airflow, then brings the projection in line, in a commit of its own. *)
Polls(c, answer) ==
    /\ req[c].at = "poll"
    /\ projection' = IF Projected /\ answer # "unknown"
                     THEN ProjectionAfter(answer) ELSE projection
    /\ req' = [req EXCEPT ![c].at = "judge", ![c].seen = answer]
    /\ UNCHANGED <<row, exec, dag, history>>

ReconcilePolls(c) ==
    req[c].at = "poll" /\ \E answer \in Answers(req[c].receipt.of) : Polls(c, answer)

(* Airflow is not configured, or asking it raises: the handler gives up. *)
ReconcileGivesUp(c) ==
    /\ Handoffs
    /\ req[c].at = "poll"
    /\ Ends(c)
    /\ UNCHANGED <<row, projection, exec, dag, history>>

(* Mutant: takes any terminal state of the run for a success. *)
VerdictTerminal(r) == IF r.seen \in {"running", "unknown"} THEN "executing" ELSE "succeeded"

(* Mutant: stores the state as Airflow spells it. *)
VerdictVerbatim(r) == IF r.seen = "unknown" THEN "executing" ELSE r.seen

Verdict(r) ==
    CASE ~r.receipt.ok \/ r.seen = "failed" -> "failed"
      [] r.seen = "success" -> "succeeded"
      [] OTHER -> "executing"

(* The commit of the projection makes the session forget the row, so that    *)
(* the status is then written even where it does not change.               *)
ReconcileWrites(c) ==
    LET r == req[c] IN
    /\ r.at = "judge"
    /\ status' = IF Projected /\ r.receipt.ok /\ r.seen # "unknown"
                 THEN Verdict(r) ELSE Flushed(status, r.status, Verdict(r))
    /\ Ends(c)
    /\ UNCHANGED <<spec, report, receipt, projection, exec, dag, history>>

Request(c) ==
    \/ EditReads(c) \/ EditWrites(c) \/ ValidateReads(c) \/ ValidateWrites(c)
    \/ ConfirmReads(c) \/ ConfirmWrites(c) \/ ClaimReads(c) \/ ClaimWrites(c)
    \/ Dispatch(c) \/ DispatchFails(c) \/ RequestLost(c)
    \/ ReconcileReads(c) \/ ReconcilePolls(c) \/ ReconcileGivesUp(c) \/ ReconcileWrites(c)

Next ==
    \/ \E c \in Clients : Request(c)
    \/ \E e \in Executions :
         Execution(e) \/ ExecutionKilled(e) \/ RunEnds(e) \/ RunPruned(e)

Spec == Init /\ [][Next]_vars

(* Processes go on, Airflow finishes its runs, whoever waits for the task    *)
(* keeps asking for it, and Airflow answers now and then.                   *)
Fairness ==
    /\ \A e \in Executions : WF_vars(Execution(e)) /\ WF_vars(RunEnds(e))
    /\ \A c \in Clients :
         /\ WF_vars(EditWrites(c) \/ ValidateWrites(c) \/ ConfirmWrites(c))
         /\ WF_vars(ClaimWrites(c) \/ Dispatch(c))
         /\ SF_vars(ReconcileReads(c))
         /\ WF_vars(ReconcilePolls(c))
         /\ SF_vars(ReconcilePolls(c) /\ req'[c].seen # "unknown")
         /\ WF_vars(ReconcileWrites(c))

FairSpec == Spec /\ Fairness

-----------------------------------------------------------------------------
(* Properties. *)

TypeOK ==
    /\ status \in Statuses
    /\ spec \in Specs
    /\ report \in Specs \union {None}
    /\ receipt \in Receipts
    /\ projection \in {"none", "running", "ready", "failed"}
    /\ req \in [Clients -> Requests]
    /\ \A c \in Clients : req[c].at = "dispatch" => req[c].exec \in Executions
    /\ \A c \in Clients : req[c].at = "poll" => req[c].receipt.of \in Executions
    /\ exec \in [Executions -> [at : Steps, spec : Specs \union {None}]]
    /\ dag \in [Executions -> DagStates]
    /\ approved \in Specs \union {None}
    /\ confirmations \in Nat
    /\ won \subseteq Executions

(* The executions that have loaded their spec, whatever becomes of them. *)
Performed == {e \in Executions : exec[e].spec # None}

(* However requests interleave, no two executions share a confirmation: the  *)
(* conditional UPDATE of claim_execution lets one of many claimants through.*)
EffectsConfirmed == Cardinality(Performed) <= confirmations

(* An artifact, or its projection, is reported as good only after some       *)
(* execution of it was: no interleaving of late answers makes one up.       *)
SucceededRan ==
    /\ status = "succeeded" => won # {}
    /\ projection = "ready" => \E e \in won : dag[e] # "none"

(* What an operator sees of it. *)
Promise == INSTANCE ApprovedExecution WITH
    unspent <- confirmations - Cardinality(Performed),
    performed <- Performed,
    good <- won,
    reported <- (status = "succeeded")

(* However confirmations, claims, crashes and late answers interleave, every  *)
(* step is an approval, the one execution it pays for, its success, or a    *)
(* report of it.                                                           *)
PromiseKept == Promise!Spec

(* With one request at a time, whatever detached executions do meanwhile,    *)
(* what is confirmed, executed and reported as a success is the spec that   *)
(* was validated and that the operator confirmed.                          *)
ConfirmedAsReported ==
    status \in {"confirmed"} \union Settled => spec = report /\ spec = approved

(* A request reconciles the artifact while an execution of it is under way.  *)
(* That execution has written no receipt yet: the one that the request has  *)
(* read is of an execution before it, and only a retry has such a receipt.  *)
Overtaken ==
    \E c \in Clients, e \in Executions :
        req[c].at \in {"poll", "judge"} /\ exec[e].at \in {"claimed"} \union InFlight

(* A success is the success of the very execution whose receipt the row shows. *)
ShownWon == status = "succeeded" => receipt.of \in won

(* Where no request judges an execution by the receipt of an earlier one,    *)
(* every success that is ever shown is that of the execution its receipt    *)
(* names, through any number of failures, edits, retries and forgotten runs. *)
VerdictOfReceipt == []~Overtaken => []ShownWon

(* At most one execution is under way, from its claim to its receipt or its  *)
(* end, and meanwhile the artifact says so.                                 *)
Alone ==
    \A e \in Executions : exec[e].at \in {"claimed"} \union InFlight =>
        /\ status = "executing"
        /\ \A f \in Executions \ {e} : exec[f].at \notin {"claimed"} \union InFlight

(* Where no request judges an execution by the receipt of an earlier one,    *)
(* executions of an artifact follow one another, whatever crashes, whichever *)
(* workers do not start and whichever answers are lost.                     *)
OneAtATime == []~Overtaken => []Alone

(* "failed" is a state with a result to judge: nothing of the artifact is    *)
(* being executed any more.                                                *)
FailedIsOver == status = "failed" => \A e \in Executions : exec[e].at \notin InExecutor

(* A poll of Airflow that gets no answer changes nothing ("keep it unknown,  *)
(* ask again next time"): a success is never taken back to "executing".     *)
SuccessKept == [][status = "succeeded" => status' \in {"succeeded", "failed"}]_vars

(* As long as no process dies, and no request judges an execution by the     *)
(* receipt of an earlier one, an execution is decided in the end.           *)
Decided == []~Overtaken => (status = "executing" ~> status \in {"succeeded", "failed"})
=============================================================================
