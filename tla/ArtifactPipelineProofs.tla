------------------------ MODULE ArtifactPipelineProofs ------------------------
(***************************************************************************)
(* Theorems about ArtifactPipeline for any number of requests, executions  *)
(* and specs, with processes dying and Airflow not answering at any moment.*)
(***************************************************************************)
EXTENDS ArtifactPipeline, FiniteSetTheorems, TLAPS

(* An execution knows its spec only once it has loaded the row. *)
SpecLate ==
    \A e \in Executions :
        exec[e].at \in {"none", "claimed", "released", "load"} => exec[e].spec = None

(* A claim is dispatched by the one request that made it. *)
DispatchOwn ==
    /\ \A c \in Clients : req[c].at = "dispatch" => exec[req[c].exec].at = "claimed"
    /\ \A c, d \in Clients :
         c # d /\ req[c].at = "dispatch" /\ req[d].at = "dispatch" => req[c].exec # req[d].exec

(* A receipt that names a DAG run names an execution. *)
ReceiptOwned == receipt.kind = "dag" => receipt.of \in Executions

(* Claims that were not taken back; each has used up a confirmation, and a   *)
(* row that is "confirmed" holds one that is still to be used.              *)
Spent == {e \in Executions : exec[e].at \notin {"none", "released"}}
Credit == Cardinality(Spent) + (IF status = "confirmed" THEN 1 ELSE 0) <= confirmations

(* A request, or Airflow, that says "success" says so of a run that did. *)
SuccessesWon ==
    /\ \A e \in Executions : dag[e] = "success" => e \in won
    /\ \A c \in Clients : req[c].seen = "success" => won # {}

Owned == TypeOK /\ ReceiptOwned /\ SpecLate /\ DispatchOwn

(* A request stays one when it takes down an answer of Airflow. *)
LEMMA AnswerTyped ==
    ASSUME NEW r \in Requests, NEW answer \in DagStates \union {"unknown"}
    PROVE  LET q == [r EXCEPT !.at = "judge", !.seen = answer]
           IN  q \in Requests /\ q.at = "judge"
  BY DEF Requests

(* Polling Airflow keeps the types. *)
LEMMA PollsTyped ==
    ASSUME TypeOK, NEW c \in Clients, ReconcilePolls(c)
    PROVE  TypeOK'
<1>1. PICK answer \in Answers(req[c].receipt.of) : Polls(c, answer)
  BY DEF ReconcilePolls
<1>2. req[c] \in Requests /\ req[c].receipt.of \in Executions
  BY DEF TypeOK, ReconcilePolls
<1>3. answer \in {"unknown", "running", "success", "failed"}
  BY <1>2 DEF Answers, TypeOK, DagStates
<1>4. projection' \in {"none", "running", "ready", "failed"}
  BY <1>1, <1>3 DEF Polls, ProjectionAfter, TypeOK
<1> DEFINE q == [req[c] EXCEPT !.at = "judge", !.seen = answer]
<1>5. q \in Requests /\ q.at = "judge"
  BY <1>2, <1>3, AnswerTyped DEF DagStates
<1>6. req' = [req EXCEPT ![c] = q]
  BY <1>1 DEF Polls
<1> HIDE DEF q
<1>7. req' \in [Clients -> Requests]
  BY <1>5, <1>6 DEF TypeOK
<1>8. \A d \in Clients :
        /\ req'[d].at = "dispatch" => req'[d].exec \in Executions
        /\ req'[d].at = "poll" => req'[d].receipt.of \in Executions
  BY <1>5, <1>6 DEF TypeOK
<1> QED
  BY <1>1, <1>4, <1>7, <1>8 DEF Polls, TypeOK, row, history

(* The variables stay within their types. *)
LEMMA TypeStep == TypeOK /\ ReceiptOwned /\ [Next]_vars => TypeOK'
<1> SUFFICES ASSUME TypeOK, ReceiptOwned, [Next]_vars PROVE TypeOK'
  OBVIOUS
<1> USE PipelineAssumption DEF TypeOK, Statuses, Receipts, NoReceipt, Requests, DagStates, Steps, InFlight, InExecutor, ReceiptOwned
<1>1. ASSUME NEW c \in Clients, EditReads(c) PROVE TypeOK'
  <2>1. [Idle EXCEPT !.at = "edit", !.status = status, !.spec = spec, !.report = report]
          \in Requests
    BY DEF Idle
  <2> QED
    BY <1>1, <2>1 DEF EditReads, Loads, row, history
<1>2. ASSUME NEW c \in Clients, EditWrites(c) PROVE TypeOK'
  BY <1>2 DEF EditWrites, Flushed, Ends, Idle, row, history
<1>3. ASSUME NEW c \in Clients, ValidateReads(c) PROVE TypeOK'
  <2>1. [Idle EXCEPT !.at = "validate", !.status = status, !.spec = spec] \in Requests
    BY DEF Idle
  <2> QED
    BY <1>3, <2>1 DEF ValidateReads, Loads, row, history
<1>4. ASSUME NEW c \in Clients, ValidateWrites(c) PROVE TypeOK'
  BY <1>4 DEF ValidateWrites, Flushed, Ends, Idle, row, history
<1>5. ASSUME NEW c \in Clients, ConfirmReads(c) PROVE TypeOK'
  BY <1>5 DEF ConfirmReads, Loads, Idle, row, history
<1>6. ASSUME NEW c \in Clients, ConfirmWrites(c) PROVE TypeOK'
  BY <1>6 DEF ConfirmWrites, Ends, Idle, row, history
<1>7. ASSUME NEW c \in Clients, ClaimReads(c) PROVE TypeOK'
  BY <1>7 DEF ClaimReads, Loads, Idle, row, history
<1>8. ASSUME NEW c \in Clients, ClaimWrites(c) PROVE TypeOK'
  <2>1. CASE Claims(c)
    <3>1. PICK e \in Executions :
            /\ Goto(e, "claimed")
            /\ req' = [req EXCEPT ![c] = [Idle EXCEPT !.at = "dispatch", !.exec = e]]
      BY <2>1 DEF Claims, Unclaimed
    <3>2. [Idle EXCEPT !.at = "dispatch", !.exec = e] \in Requests
      BY DEF Idle
    <3>3. exec' \in [Executions -> [at : Steps, spec : Specs \union {None}]]
      BY <3>1 DEF Goto
    <3>4. \A d \in Clients :
            /\ d # c => req'[d] = req[d]
            /\ req'[c].at = "dispatch" /\ req'[c].exec = e
      BY <3>1 DEF Idle
    <3>5. req' \in [Clients -> Requests]
      BY ONLY req \in [Clients -> Requests], c \in Clients, <3>1, <3>2
    <3>6. \A d \in Clients :
            /\ req'[d].at = "dispatch" => req'[d].exec \in Executions
            /\ req'[d].at = "poll" => req'[d].receipt.of \in Executions
      BY <3>4
    <3>7. /\ status' = "executing"
          /\ UNCHANGED <<spec, report, receipt, projection, dag, approved, confirmations, won>>
      BY <2>1 DEF Claims, history
    <3> QED
      BY <3>3, <3>5, <3>6, <3>7
  <2>2. CASE Ends(c) /\ UNCHANGED <<row, projection, exec, dag, history>>
    BY <2>2 DEF Ends, Idle, row, history
  <2> QED
    BY <1>8, <2>1, <2>2 DEF ClaimWrites
<1>9. ASSUME NEW c \in Clients, Dispatch(c) PROVE TypeOK'
  BY <1>9 DEF Dispatch, Goto, Ends, Idle, row, history
<1>10. ASSUME NEW c \in Clients, DispatchFails(c) PROVE TypeOK'
  BY <1>10 DEF DispatchFails, Goto, Ends, Idle, row, history
<1>11. ASSUME NEW c \in Clients, RequestLost(c) PROVE TypeOK'
  BY <1>11 DEF RequestLost, Ends, Idle, row, history
<1>12. ASSUME NEW c \in Clients, ReconcileReads(c) PROVE TypeOK'
  BY <1>12 DEF ReconcileReads, Loads, Idle, Settled, row, history
<1>13. ASSUME NEW c \in Clients, ReconcilePolls(c) PROVE TypeOK'
  BY <1>13, PollsTyped
<1>14. ASSUME NEW c \in Clients, ReconcileGivesUp(c) PROVE TypeOK'
  BY <1>14 DEF ReconcileGivesUp, Ends, Idle, row, history
<1>15. ASSUME NEW c \in Clients, ReconcileWrites(c) PROVE TypeOK'
  BY <1>15 DEF ReconcileWrites, Flushed, Verdict, Ends, Idle, row, history
<1>16. ASSUME NEW e \in Executions, ExecutionLoads(e) PROVE TypeOK'
  BY <1>16 DEF ExecutionLoads, Goto, row, history
<1>17. ASSUME NEW e \in Executions, ExecutorRaises(e) PROVE TypeOK'
  BY <1>17 DEF ExecutorRaises, Goto, row, history
<1>18. ASSUME NEW e \in Executions, RunTriggered(e) PROVE TypeOK'
  BY <1>18 DEF RunTriggered, Goto, row, history
<1>19. ASSUME NEW e \in Executions, RunRejected(e) PROVE TypeOK'
  BY <1>19 DEF RunRejected, Goto, row, history
<1>20. ASSUME NEW e \in Executions, HandsOver(e) PROVE TypeOK'
  BY <1>20 DEF HandsOver, Goto, row, history
<1>21. ASSUME NEW e \in Executions, ReceiptWritten(e) PROVE TypeOK'
  <2>1. \A kind \in {"error", "handoff", "dag"}, ok \in BOOLEAN : Receipt(kind, e, ok) \in Receipts
    BY DEF Receipt
  <2>3. receipt' \in Receipts /\ status' \in Statuses /\ won' \subseteq Executions
    BY <1>21, <2>1 DEF ReceiptWritten
  <2>2. exec' \in [Executions -> [at : Steps, spec : Specs \union {None}]]
    BY <1>21 DEF ReceiptWritten, Goto
  <2> QED
    BY <1>21, <2>2, <2>3 DEF ReceiptWritten
<1>22. ASSUME NEW e \in Executions, RecordingRaises(e) PROVE TypeOK'
  BY <1>22 DEF RecordingRaises, Goto, row, history
<1>23. ASSUME NEW e \in Executions, CrashReads(e) PROVE TypeOK'
  BY <1>23 DEF CrashReads, Goto, row, history
<1>24. ASSUME NEW e \in Executions, CrashWrites(e) PROVE TypeOK'
  BY <1>24 DEF CrashWrites, Goto, Receipt, row, history
<1>25. ASSUME NEW e \in Executions, ExecutionKilled(e) PROVE TypeOK'
  BY <1>25 DEF ExecutionKilled, Goto, row, history
<1>26. ASSUME NEW e \in Executions, RunEnds(e) PROVE TypeOK'
  <2>1. dag' \in [Executions -> DagStates] /\ won' \subseteq Executions
    BY <1>26 DEF RunEnds
  <2> QED
    BY <1>26, <2>1 DEF RunEnds, row
<1>27. ASSUME NEW e \in Executions, RunPruned(e) PROVE TypeOK'
  BY <1>27 DEF RunPruned, row, history
<1>28. CASE UNCHANGED vars
  BY <1>28 DEF vars, row, history
<1> QED
  BY <1>1, <1>2, <1>3, <1>4, <1>5, <1>6, <1>7, <1>8, <1>9, <1>10, <1>11, <1>12, <1>13, <1>14, <1>15, <1>16, <1>17, <1>18, <1>19, <1>20, <1>21, <1>22, <1>23, <1>24, <1>25, <1>26, <1>27, <1>28 DEF Next, Request, Execution

(* Receipts, late specs and dispatches keep the one owner that made them. *)
LEMMA OwnedStep == Owned /\ [Next]_vars => Owned'
<1> SUFFICES ASSUME Owned, [Next]_vars PROVE (ReceiptOwned /\ SpecLate /\ DispatchOwn)'
  BY TypeStep DEF Owned
<1> USE PipelineAssumption DEF Owned, TypeOK, ReceiptOwned, SpecLate, DispatchOwn, InFlight, InExecutor
<1>1. ASSUME NEW c \in Clients, EditReads(c) PROVE (ReceiptOwned /\ SpecLate /\ DispatchOwn)'
  BY <1>1 DEF EditReads, Loads, Editable, Idle, row, history
<1>2. ASSUME NEW c \in Clients, EditWrites(c) PROVE (ReceiptOwned /\ SpecLate /\ DispatchOwn)'
  BY <1>2 DEF EditWrites, Flushed, Ends, Idle, row, history
<1>3. ASSUME NEW c \in Clients, ValidateReads(c) PROVE (ReceiptOwned /\ SpecLate /\ DispatchOwn)'
  BY <1>3 DEF ValidateReads, Loads, Idle, Settled, row, history
<1>4. ASSUME NEW c \in Clients, ValidateWrites(c) PROVE (ReceiptOwned /\ SpecLate /\ DispatchOwn)'
  BY <1>4 DEF ValidateWrites, Flushed, Ends, Idle, row, history
<1>5. ASSUME NEW c \in Clients, ConfirmReads(c) PROVE (ReceiptOwned /\ SpecLate /\ DispatchOwn)'
  BY <1>5 DEF ConfirmReads, Loads, Idle, row, history
<1>6. ASSUME NEW c \in Clients, ConfirmWrites(c) PROVE (ReceiptOwned /\ SpecLate /\ DispatchOwn)'
  BY <1>6 DEF ConfirmWrites, Ends, Idle, row, history
<1>7. ASSUME NEW c \in Clients, ClaimReads(c) PROVE (ReceiptOwned /\ SpecLate /\ DispatchOwn)'
  BY <1>7 DEF ClaimReads, Loads, Idle, row, history
<1>8. ASSUME NEW c \in Clients, ClaimWrites(c) PROVE (ReceiptOwned /\ SpecLate /\ DispatchOwn)'
  <2>1. CASE Claims(c)
    <3>1. PICK e \in Unclaimed :
            /\ Goto(e, "claimed")
            /\ req' = [req EXCEPT ![c] = [Idle EXCEPT !.at = "dispatch", !.exec = e]]
      BY <2>1 DEF Claims
    <3>2. \A d \in Clients :
            /\ d # c => req'[d] = req[d]
            /\ req'[c].at = "dispatch" /\ req'[c].exec = e
      BY <3>1 DEF Idle
    <3>3. \A f \in Executions :
            /\ exec'[f].spec = exec[f].spec
            /\ exec'[f].at = IF f = e THEN "claimed" ELSE exec[f].at
      BY <3>1 DEF Goto, Unclaimed
    <3>4. exec[e].at = "none" /\ e \in Executions
      BY DEF Unclaimed
    <3> QED
      BY <2>1, <3>2, <3>3, <3>4 DEF Claims
  <2>2. CASE Ends(c) /\ UNCHANGED <<row, projection, exec, dag, history>>
    BY <2>2 DEF Ends, Idle, row, history
  <2> QED
    BY <1>8, <2>1, <2>2 DEF ClaimWrites
<1>9. ASSUME NEW c \in Clients, Dispatch(c) PROVE (ReceiptOwned /\ SpecLate /\ DispatchOwn)'
  BY <1>9 DEF Dispatch, Goto, Ends, Idle, row, history
<1>10. ASSUME NEW c \in Clients, DispatchFails(c) PROVE (ReceiptOwned /\ SpecLate /\ DispatchOwn)'
  BY <1>10 DEF DispatchFails, Goto, Ends, Idle, row, history
<1>11. ASSUME NEW c \in Clients, RequestLost(c) PROVE (ReceiptOwned /\ SpecLate /\ DispatchOwn)'
  BY <1>11 DEF RequestLost, Ends, Idle, row, history
<1>12. ASSUME NEW c \in Clients, ReconcileReads(c) PROVE (ReceiptOwned /\ SpecLate /\ DispatchOwn)'
  BY <1>12 DEF ReconcileReads, Loads, Idle, Settled, row, history
<1>13. ASSUME NEW c \in Clients, ReconcilePolls(c) PROVE (ReceiptOwned /\ SpecLate /\ DispatchOwn)'
  BY <1>13 DEF ReconcilePolls, Polls, Answers, ProjectionAfter, row, history
<1>14. ASSUME NEW c \in Clients, ReconcileGivesUp(c) PROVE (ReceiptOwned /\ SpecLate /\ DispatchOwn)'
  BY <1>14 DEF ReconcileGivesUp, Ends, Idle, row, history
<1>15. ASSUME NEW c \in Clients, ReconcileWrites(c) PROVE (ReceiptOwned /\ SpecLate /\ DispatchOwn)'
  BY <1>15 DEF ReconcileWrites, Flushed, Verdict, Ends, Idle, row, history
<1>16. ASSUME NEW e \in Executions, ExecutionLoads(e) PROVE (ReceiptOwned /\ SpecLate /\ DispatchOwn)'
  BY <1>16 DEF ExecutionLoads, Goto, row, history
<1>17. ASSUME NEW e \in Executions, ExecutorRaises(e) PROVE (ReceiptOwned /\ SpecLate /\ DispatchOwn)'
  BY <1>17 DEF ExecutorRaises, Goto, row, history
<1>18. ASSUME NEW e \in Executions, RunTriggered(e) PROVE (ReceiptOwned /\ SpecLate /\ DispatchOwn)'
  BY <1>18 DEF RunTriggered, Goto, row, history
<1>19. ASSUME NEW e \in Executions, RunRejected(e) PROVE (ReceiptOwned /\ SpecLate /\ DispatchOwn)'
  BY <1>19 DEF RunRejected, Goto, row, history
<1>20. ASSUME NEW e \in Executions, HandsOver(e) PROVE (ReceiptOwned /\ SpecLate /\ DispatchOwn)'
  BY <1>20 DEF HandsOver, Goto, row, history
<1>21. ASSUME NEW e \in Executions, ReceiptWritten(e) PROVE (ReceiptOwned /\ SpecLate /\ DispatchOwn)'
  BY <1>21 DEF ReceiptWritten, Goto, Receipt, row, history
<1>22. ASSUME NEW e \in Executions, RecordingRaises(e) PROVE (ReceiptOwned /\ SpecLate /\ DispatchOwn)'
  BY <1>22 DEF RecordingRaises, Goto, row, history
<1>23. ASSUME NEW e \in Executions, CrashReads(e) PROVE (ReceiptOwned /\ SpecLate /\ DispatchOwn)'
  BY <1>23 DEF CrashReads, Goto, row, history
<1>24. ASSUME NEW e \in Executions, CrashWrites(e) PROVE (ReceiptOwned /\ SpecLate /\ DispatchOwn)'
  BY <1>24 DEF CrashWrites, Goto, Receipt, row, history
<1>25. ASSUME NEW e \in Executions, ExecutionKilled(e) PROVE (ReceiptOwned /\ SpecLate /\ DispatchOwn)'
  BY <1>25 DEF ExecutionKilled, Goto, row, history
<1>26. ASSUME NEW e \in Executions, RunEnds(e) PROVE (ReceiptOwned /\ SpecLate /\ DispatchOwn)'
  BY <1>26 DEF RunEnds, row, history
<1>27. ASSUME NEW e \in Executions, RunPruned(e) PROVE (ReceiptOwned /\ SpecLate /\ DispatchOwn)'
  BY <1>27 DEF RunPruned, row, history
<1>28. CASE UNCHANGED vars
  BY <1>28 DEF vars, row, history
<1> QED
  BY <1>1, <1>2, <1>3, <1>4, <1>5, <1>6, <1>7, <1>8, <1>9, <1>10, <1>11, <1>12, <1>13, <1>14, <1>15, <1>16, <1>17, <1>18, <1>19, <1>20, <1>21, <1>22, <1>23, <1>24, <1>25, <1>26, <1>27, <1>28 DEF Next, Request, Execution

(* No step but a confirmation, a claim and its release touches the account of *)
(* confirmations.                                                           *)
Balanced ==
    /\ Spent' = Spent
    /\ confirmations' = confirmations
    /\ status' = "confirmed" => status = "confirmed"

(* No step claims the artifact without a confirmation left to pay for it. *)
LEMMA CreditStep == Owned /\ Credit /\ [Next]_vars => Credit'
<1> SUFFICES ASSUME Owned, Credit, [Next]_vars PROVE Credit'
  OBVIOUS
<1>a. IsFiniteSet(Spent) /\ Cardinality(Spent) \in Nat /\ confirmations \in Nat
  BY PipelineAssumption, FS_Subset, FS_CardinalityType DEF Spent, Owned, TypeOK
<1>b. ASSUME Balanced PROVE Credit'
  BY <1>a, <1>b DEF Balanced, Credit
<1>1. ASSUME NEW c \in Clients, EditReads(c) PROVE Credit'
  BY <1>b, <1>1 DEF Balanced, Spent, EditReads, Loads, row, history, Owned, TypeOK, InFlight, InExecutor
<1>2. ASSUME NEW c \in Clients, EditWrites(c) PROVE Credit'
  BY <1>b, <1>2 DEF Balanced, Spent, EditWrites, Flushed, row, history, Owned, TypeOK, InFlight, InExecutor
<1>3. ASSUME NEW c \in Clients, ValidateReads(c) PROVE Credit'
  BY <1>b, <1>3 DEF Balanced, Spent, ValidateReads, Loads, row, history, Owned, TypeOK, InFlight, InExecutor
<1>4. ASSUME NEW c \in Clients, ValidateWrites(c) PROVE Credit'
  BY <1>b, <1>4 DEF Balanced, Spent, ValidateWrites, Flushed, row, history, Owned, TypeOK, InFlight, InExecutor
<1>5. ASSUME NEW c \in Clients, ConfirmReads(c) PROVE Credit'
  BY <1>b, <1>5 DEF Balanced, Spent, ConfirmReads, Loads, row, history, Owned, TypeOK, InFlight, InExecutor
<1>6. ASSUME NEW c \in Clients, ConfirmWrites(c) PROVE Credit'
  <2>1. Spent' = Spent /\ confirmations' = confirmations + 1 /\ status' = "confirmed"
    BY <1>6 DEF ConfirmWrites, Spent
  <2> QED
    BY <1>a, <2>1 DEF Credit
<1>7. ASSUME NEW c \in Clients, ClaimReads(c) PROVE Credit'
  BY <1>b, <1>7 DEF Balanced, Spent, ClaimReads, Loads, row, history, Owned, TypeOK, InFlight, InExecutor
<1>8. ASSUME NEW c \in Clients, ClaimWrites(c) PROVE Credit'
  <2>1. CASE status = "confirmed" /\ Claims(c)
    <3>1. PICK e \in Unclaimed : Goto(e, "claimed")
      BY <2>1 DEF Claims
    <3>2. Spent' = Spent \union {e} /\ e \notin Spent
      BY <3>1 DEF Spent, Unclaimed, Goto, Owned, TypeOK
    <3>3. Cardinality(Spent') = Cardinality(Spent) + 1
      BY <1>a, <3>2, FS_AddElement
    <3>4. status' = "executing" /\ confirmations' = confirmations
      BY <2>1 DEF Claims, history
    <3> QED
      BY <1>a, <2>1, <3>3, <3>4 DEF Credit
  <2>2. CASE Ends(c) /\ UNCHANGED <<row, projection, exec, dag, history>>
    BY <1>b, <2>2 DEF Balanced, Spent, row, history
  <2> QED
    BY <1>8, <2>1, <2>2 DEF ClaimWrites
<1>9. ASSUME NEW c \in Clients, Dispatch(c) PROVE Credit'
  <2>1. req[c].exec \in Executions /\ exec[req[c].exec].at = "claimed"
    BY <1>9 DEF Dispatch, Owned, TypeOK, DispatchOwn
  <2> QED
    BY <1>b, <1>9, <2>1 DEF Balanced, Spent, Dispatch, Goto, row, history, Owned, TypeOK
<1>10. ASSUME NEW c \in Clients, DispatchFails(c) PROVE Credit'
  <2> DEFINE e == req[c].exec
  <2>1. e \in Executions /\ exec[e].at = "claimed"
    BY <1>10 DEF DispatchFails, Owned, TypeOK, DispatchOwn
  <2>2. Spent' = Spent \ {e} /\ e \in Spent
    BY <1>10, <2>1 DEF DispatchFails, Goto, Spent, Owned, TypeOK
  <2>3. Cardinality(Spent') = Cardinality(Spent) - 1
    BY <1>a, <2>2, FS_RemoveElement
  <2>4. status' = "confirmed" => status \in {"executing", "confirmed"}
    BY <1>10 DEF DispatchFails
  <2>5. confirmations' = confirmations
    BY <1>10 DEF DispatchFails, history
  <2> QED
    BY <1>a, <2>3, <2>4, <2>5 DEF Credit
<1>11. ASSUME NEW c \in Clients, RequestLost(c) PROVE Credit'
  BY <1>b, <1>11 DEF Balanced, Spent, RequestLost, row, history, Owned, TypeOK, InFlight, InExecutor
<1>12. ASSUME NEW c \in Clients, ReconcileReads(c) PROVE Credit'
  BY <1>b, <1>12 DEF Balanced, Spent, ReconcileReads, Loads, row, history, Owned, TypeOK, InFlight, InExecutor
<1>13. ASSUME NEW c \in Clients, ReconcilePolls(c) PROVE Credit'
  BY <1>b, <1>13 DEF Balanced, Spent, ReconcilePolls, Polls, row, history
<1>14. ASSUME NEW c \in Clients, ReconcileGivesUp(c) PROVE Credit'
  BY <1>b, <1>14 DEF Balanced, Spent, ReconcileGivesUp, row, history, Owned, TypeOK, InFlight, InExecutor
<1>15. ASSUME NEW c \in Clients, ReconcileWrites(c) PROVE Credit'
  BY <1>b, <1>15 DEF Balanced, Spent, ReconcileWrites, Flushed, Verdict, row, history, Owned, TypeOK, InFlight, InExecutor
<1>16. ASSUME NEW e \in Executions, ExecutionLoads(e) PROVE Credit'
  BY <1>b, <1>16 DEF Balanced, Spent, ExecutionLoads, Goto, row, history, Owned, TypeOK, InFlight, InExecutor
<1>17. ASSUME NEW e \in Executions, ExecutorRaises(e) PROVE Credit'
  BY <1>b, <1>17 DEF Balanced, Spent, ExecutorRaises, Goto, row, history, Owned, TypeOK, InFlight, InExecutor
<1>18. ASSUME NEW e \in Executions, RunTriggered(e) PROVE Credit'
  BY <1>b, <1>18 DEF Balanced, Spent, RunTriggered, Goto, row, history, Owned, TypeOK, InFlight, InExecutor
<1>19. ASSUME NEW e \in Executions, RunRejected(e) PROVE Credit'
  BY <1>b, <1>19 DEF Balanced, Spent, RunRejected, Goto, row, history, Owned, TypeOK, InFlight, InExecutor
<1>20. ASSUME NEW e \in Executions, HandsOver(e) PROVE Credit'
  BY <1>b, <1>20 DEF Balanced, Spent, HandsOver, Goto, row, history, Owned, TypeOK, InFlight, InExecutor
<1>21. ASSUME NEW e \in Executions, ReceiptWritten(e) PROVE Credit'
  BY <1>b, <1>21 DEF Balanced, Spent, ReceiptWritten, Goto, row, history, Owned, TypeOK, InFlight, InExecutor
<1>22. ASSUME NEW e \in Executions, RecordingRaises(e) PROVE Credit'
  BY <1>b, <1>22 DEF Balanced, Spent, RecordingRaises, Goto, row, history, Owned, TypeOK, InFlight, InExecutor
<1>23. ASSUME NEW e \in Executions, CrashReads(e) PROVE Credit'
  BY <1>b, <1>23 DEF Balanced, Spent, CrashReads, Goto, row, history, Owned, TypeOK, InFlight, InExecutor
<1>24. ASSUME NEW e \in Executions, CrashWrites(e) PROVE Credit'
  BY <1>b, <1>24 DEF Balanced, Spent, CrashWrites, Goto, row, history, Owned, TypeOK, InFlight, InExecutor
<1>25. ASSUME NEW e \in Executions, ExecutionKilled(e) PROVE Credit'
  BY <1>b, <1>25 DEF Balanced, Spent, ExecutionKilled, Goto, row, history, Owned, TypeOK, InFlight, InExecutor
<1>26. ASSUME NEW e \in Executions, RunEnds(e) PROVE Credit'
  BY <1>b, <1>26 DEF Balanced, Spent, RunEnds, row, history, Owned, TypeOK, InFlight, InExecutor
<1>27. ASSUME NEW e \in Executions, RunPruned(e) PROVE Credit'
  BY <1>b, <1>27 DEF Balanced, Spent, RunPruned, row, history, Owned, TypeOK, InFlight, InExecutor
<1>28. CASE UNCHANGED vars
  BY <1>b, <1>28 DEF Balanced, Spent, vars, row, history
<1> QED
  BY <1>1, <1>2, <1>3, <1>4, <1>5, <1>6, <1>7, <1>8, <1>9, <1>10, <1>11, <1>12, <1>13, <1>14, <1>15, <1>16, <1>17, <1>18, <1>19, <1>20, <1>21, <1>22, <1>23, <1>24, <1>25, <1>26, <1>27, <1>28 DEF Next, Request, Execution

(* A success that is reported, anywhere, is the success of some execution. *)
Reported == SuccessesWon /\ SucceededRan

(* No step reports a success of Airflow that no execution had. *)
LEMMA ReportedStep == Owned /\ Reported /\ [Next]_vars => Reported'
<1> SUFFICES ASSUME Owned, Reported, [Next]_vars PROVE Reported'
  OBVIOUS
<1> USE DEF Owned, Reported, TypeOK, SuccessesWon, SucceededRan
<1>1. ASSUME NEW c \in Clients, EditReads(c) PROVE Reported'
  BY <1>1 DEF EditReads, Loads, Ends, Idle, row, history
<1>2. ASSUME NEW c \in Clients, EditWrites(c) PROVE Reported'
  BY <1>2 DEF EditWrites, Flushed, Ends, Idle, row, history
<1>3. ASSUME NEW c \in Clients, ValidateReads(c) PROVE Reported'
  BY <1>3 DEF ValidateReads, Loads, Ends, Idle, row, history
<1>4. ASSUME NEW c \in Clients, ValidateWrites(c) PROVE Reported'
  BY <1>4 DEF ValidateWrites, Flushed, Ends, Idle, row, history
<1>5. ASSUME NEW c \in Clients, ConfirmReads(c) PROVE Reported'
  BY <1>5 DEF ConfirmReads, Loads, Ends, Idle, row, history
<1>6. ASSUME NEW c \in Clients, ConfirmWrites(c) PROVE Reported'
  BY <1>6 DEF ConfirmWrites, Ends, Idle, row, history
<1>7. ASSUME NEW c \in Clients, ClaimReads(c) PROVE Reported'
  BY <1>7 DEF ClaimReads, Loads, Ends, Idle, row, history
<1>8. ASSUME NEW c \in Clients, ClaimWrites(c) PROVE Reported'
  <2>1. CASE status = "confirmed" /\ Claims(c)
    <3>1. PICK e \in Unclaimed :
            req' = [req EXCEPT ![c] = [Idle EXCEPT !.at = "dispatch", !.exec = e]]
      BY <2>1 DEF Claims
    <3>2. \A d \in Clients : req'[d].seen = "success" => req[d].seen = "success"
      BY <3>1 DEF Idle
    <3> QED
      BY <2>1, <3>2 DEF Claims, history
  <2>2. CASE Ends(c) /\ UNCHANGED <<row, projection, exec, dag, history>>
    BY <2>2 DEF Ends, Idle, row, history
  <2> QED
    BY <1>8, <2>1, <2>2 DEF ClaimWrites
<1>9. ASSUME NEW c \in Clients, Dispatch(c) PROVE Reported'
  BY <1>9 DEF Dispatch, Goto, Ends, Idle, row, history
<1>10. ASSUME NEW c \in Clients, DispatchFails(c) PROVE Reported'
  BY <1>10 DEF DispatchFails, Goto, Ends, Idle, row, history
<1>11. ASSUME NEW c \in Clients, RequestLost(c) PROVE Reported'
  BY <1>11 DEF RequestLost, Ends, Idle, row, history
<1>12. ASSUME NEW c \in Clients, ReconcileReads(c) PROVE Reported'
  BY <1>12 DEF ReconcileReads, Loads, Ends, Idle, row, history
<1>13. ASSUME NEW c \in Clients, ReconcilePolls(c) PROVE Reported'
  <2>1. PICK answer \in Answers(req[c].receipt.of) : Polls(c, answer)
    BY <1>13 DEF ReconcilePolls
  <2>2. req[c].receipt.of \in Executions
    BY <1>13 DEF ReconcilePolls
  <2>3. answer = "success" => req[c].receipt.of \in won /\ dag[req[c].receipt.of] = "success"
    BY <2>2 DEF Answers
  <2>4. \A d \in Clients : req'[d].seen = "success" => won # {}
    BY <2>1, <2>3 DEF Polls
  <2>5. projection' = "ready" => projection = "ready" \/ answer = "success"
    BY <2>1 DEF Polls, ProjectionAfter
  <2> QED
    BY <2>1, <2>2, <2>3, <2>4, <2>5 DEF Polls, row, history
<1>14. ASSUME NEW c \in Clients, ReconcileGivesUp(c) PROVE Reported'
  BY <1>14 DEF ReconcileGivesUp, Ends, Idle, row, history
<1>15. ASSUME NEW c \in Clients, ReconcileWrites(c) PROVE Reported'
  <2>1. status' = "succeeded" => status = "succeeded" \/ req[c].seen = "success"
    BY <1>15 DEF ReconcileWrites, Flushed, Verdict
  <2> QED
    BY <1>15, <2>1 DEF ReconcileWrites, Ends, Idle, history
<1>16. ASSUME NEW e \in Executions, ExecutionLoads(e) PROVE Reported'
  BY <1>16 DEF ExecutionLoads, Goto, Ends, Idle, row, history
<1>17. ASSUME NEW e \in Executions, ExecutorRaises(e) PROVE Reported'
  BY <1>17 DEF ExecutorRaises, Goto, Ends, Idle, row, history
<1>18. ASSUME NEW e \in Executions, RunTriggered(e) PROVE Reported'
  BY <1>18 DEF RunTriggered, Goto, Ends, Idle, row, history
<1>19. ASSUME NEW e \in Executions, RunRejected(e) PROVE Reported'
  BY <1>19 DEF RunRejected, Goto, Ends, Idle, row, history
<1>20. ASSUME NEW e \in Executions, HandsOver(e) PROVE Reported'
  BY <1>20 DEF HandsOver, Goto, Ends, Idle, row, history
<1>21. ASSUME NEW e \in Executions, ReceiptWritten(e) PROVE Reported'
  BY <1>21 DEF ReceiptWritten, Goto, Ends, Idle, row, history
<1>22. ASSUME NEW e \in Executions, RecordingRaises(e) PROVE Reported'
  BY <1>22 DEF RecordingRaises, Goto, Ends, Idle, row, history
<1>23. ASSUME NEW e \in Executions, CrashReads(e) PROVE Reported'
  BY <1>23 DEF CrashReads, Goto, Ends, Idle, row, history
<1>24. ASSUME NEW e \in Executions, CrashWrites(e) PROVE Reported'
  BY <1>24 DEF CrashWrites, Goto, Ends, Idle, row, history
<1>25. ASSUME NEW e \in Executions, ExecutionKilled(e) PROVE Reported'
  BY <1>25 DEF ExecutionKilled, Goto, Ends, Idle, row, history
<1>26. ASSUME NEW e \in Executions, RunEnds(e) PROVE Reported'
  BY <1>26 DEF RunEnds, Ends, Idle, row, history
<1>27. ASSUME NEW e \in Executions, RunPruned(e) PROVE Reported'
  BY <1>27 DEF RunPruned, Ends, Idle, row, history
<1>28. CASE UNCHANGED vars
  BY <1>28 DEF vars, row, history
<1> QED
  BY <1>1, <1>2, <1>3, <1>4, <1>5, <1>6, <1>7, <1>8, <1>9, <1>10, <1>11, <1>12, <1>13, <1>14, <1>15, <1>16, <1>17, <1>18, <1>19, <1>20, <1>21, <1>22, <1>23, <1>24, <1>25, <1>26, <1>27, <1>28 DEF Next, Request, Execution

IInv == Owned /\ Credit /\ Reported

(* In every reachable state of the execution endpoints the receipt and the  *)
(* dispatches have an owner, the claims are covered by confirmations and a  *)
(* reported success happened: the inductive invariant of this component.    *)
THEOREM InvHolds == Spec => []IInv
<1>1. Init => IInv
  <2> SUFFICES ASSUME Init PROVE IInv
    OBVIOUS
  <2>1. Spent = {}
    BY DEF Init, Spent
  <2>2. Owned
    BY PipelineAssumption DEF Init, Owned, TypeOK, ReceiptOwned, SpecLate, DispatchOwn,
       Idle, NoReceipt, Requests, Receipts, Statuses, DagStates, Steps
  <2>3. Credit
    BY <2>1, FS_EmptySet DEF Init, Credit
  <2>4. Reported
    BY DEF Init, Reported, SuccessesWon, SucceededRan, Idle
  <2> QED
    BY <2>2, <2>3, <2>4 DEF IInv
<1>2. IInv /\ [Next]_vars => IInv'
  BY OwnedStep, CreditStep, ReportedStep DEF IInv
<1> QED
  BY <1>1, <1>2, PTL DEF Spec

(* The rows, requests and executions stay within their types. *)
THEOREM TypeCorrect == Spec => []TypeOK
<1>1. IInv => TypeOK
  BY DEF IInv, Owned
<1> QED
  BY <1>1, InvHolds, PTL

(* Every execution has a confirmation of its own, however the requests that  *)
(* confirm and claim the artifact interleave, and whatever dies.            *)
THEOREM ClaimsAreConfirmed == Spec => []EffectsConfirmed
<1>1. IInv => EffectsConfirmed
  <2> SUFFICES ASSUME IInv PROVE EffectsConfirmed
    OBVIOUS
  <2>1. IsFiniteSet(Spent) /\ Cardinality(Spent) \in Nat /\ confirmations \in Nat
    BY PipelineAssumption, FS_Subset, FS_CardinalityType DEF Spent, IInv, Owned, TypeOK
  <2>2. Performed \subseteq Spent
    BY DEF Performed, Spent, IInv, Owned, SpecLate
  <2>3. Cardinality(Performed) \in Nat /\ Cardinality(Performed) <= Cardinality(Spent)
    BY <2>1, <2>2, FS_Subset, FS_CardinalityType
  <2>4. Cardinality(Spent) <= confirmations
    BY <2>1 DEF IInv, Credit
  <2> QED
    BY <2>1, <2>3, <2>4 DEF EffectsConfirmed
<1> QED
  BY <1>1, InvHolds, PTL

(* Success is never made up: where the row or the projection reports it, an  *)
(* execution of the artifact did succeed.                                   *)
THEOREM SuccessIsReal == Spec => []SucceededRan
<1>1. IInv => SucceededRan
  BY DEF IInv, Reported
<1> QED
  BY <1>1, InvHolds, PTL

(* An execution that acts, or has a run, has loaded its spec. *)
Performing ==
    \A e \in Executions :
        exec[e].at \in InExecutor \/ dag[e] # "none" => exec[e].spec # None

(* No step acts for an execution that has not loaded its spec. *)
LEMMA PerformingStep == Owned /\ Performing /\ [Next]_vars => Performing'
<1> SUFFICES ASSUME Owned, Performing, [Next]_vars PROVE Performing'
  OBVIOUS
<1> USE PipelineAssumption DEF Owned, TypeOK, Performing, InExecutor
<1>1. ASSUME NEW c \in Clients, EditReads(c) PROVE Performing'
  BY <1>1 DEF EditReads, Loads
<1>2. ASSUME NEW c \in Clients, EditWrites(c) PROVE Performing'
  BY <1>2 DEF EditWrites
<1>3. ASSUME NEW c \in Clients, ValidateReads(c) PROVE Performing'
  BY <1>3 DEF ValidateReads, Loads
<1>4. ASSUME NEW c \in Clients, ValidateWrites(c) PROVE Performing'
  BY <1>4 DEF ValidateWrites
<1>5. ASSUME NEW c \in Clients, ConfirmReads(c) PROVE Performing'
  BY <1>5 DEF ConfirmReads, Loads
<1>6. ASSUME NEW c \in Clients, ConfirmWrites(c) PROVE Performing'
  BY <1>6 DEF ConfirmWrites
<1>7. ASSUME NEW c \in Clients, ClaimReads(c) PROVE Performing'
  BY <1>7 DEF ClaimReads, Loads
<1>8. ASSUME NEW c \in Clients, ClaimWrites(c) PROVE Performing'
  <2>1. CASE Claims(c)
    <3>1. PICK e \in Unclaimed : Goto(e, "claimed") /\ UNCHANGED dag
      BY <2>1 DEF Claims
    <3> QED
      BY <3>1 DEF Goto, Unclaimed
  <2>2. CASE UNCHANGED <<row, projection, exec, dag, history>>
    BY <2>2
  <2> QED
    BY <1>8, <2>1, <2>2 DEF ClaimWrites
<1>9. ASSUME NEW c \in Clients, Dispatch(c) PROVE Performing'
  BY <1>9 DEF Dispatch, Goto, DispatchOwn
<1>10. ASSUME NEW c \in Clients, DispatchFails(c) PROVE Performing'
  BY <1>10 DEF DispatchFails, Goto, DispatchOwn
<1>11. ASSUME NEW c \in Clients, RequestLost(c) PROVE Performing'
  BY <1>11 DEF RequestLost
<1>12. ASSUME NEW c \in Clients, ReconcileReads(c) PROVE Performing'
  BY <1>12 DEF ReconcileReads, Loads
<1>13. ASSUME NEW c \in Clients, ReconcilePolls(c) PROVE Performing'
  BY <1>13 DEF ReconcilePolls, Polls
<1>14. ASSUME NEW c \in Clients, ReconcileGivesUp(c) PROVE Performing'
  BY <1>14 DEF ReconcileGivesUp
<1>15. ASSUME NEW c \in Clients, ReconcileWrites(c) PROVE Performing'
  BY <1>15 DEF ReconcileWrites
<1>16. ASSUME NEW e \in Executions, ExecutionLoads(e) PROVE Performing'
  BY <1>16 DEF ExecutionLoads, Goto
<1>17. ASSUME NEW e \in Executions, ExecutorRaises(e) PROVE Performing'
  BY <1>17 DEF ExecutorRaises, Goto
<1>18. ASSUME NEW e \in Executions, RunTriggered(e) PROVE Performing'
  BY <1>18 DEF RunTriggered, Goto
<1>19. ASSUME NEW e \in Executions, RunRejected(e) PROVE Performing'
  BY <1>19 DEF RunRejected, Goto
<1>20. ASSUME NEW e \in Executions, HandsOver(e) PROVE Performing'
  BY <1>20 DEF HandsOver, Goto
<1>21. ASSUME NEW e \in Executions, ReceiptWritten(e) PROVE Performing'
  BY <1>21 DEF ReceiptWritten, Goto
<1>22. ASSUME NEW e \in Executions, RecordingRaises(e) PROVE Performing'
  BY <1>22 DEF RecordingRaises, Goto
<1>23. ASSUME NEW e \in Executions, CrashReads(e) PROVE Performing'
  BY <1>23 DEF CrashReads, Goto
<1>24. ASSUME NEW e \in Executions, CrashWrites(e) PROVE Performing'
  BY <1>24 DEF CrashWrites, Goto
<1>25. ASSUME NEW e \in Executions, ExecutionKilled(e) PROVE Performing'
  BY <1>25 DEF ExecutionKilled, Goto, InFlight
<1>26. ASSUME NEW e \in Executions, RunEnds(e) PROVE Performing'
  BY <1>26 DEF RunEnds
<1>27. ASSUME NEW e \in Executions, RunPruned(e) PROVE Performing'
  BY <1>27 DEF RunPruned
<1>28. CASE UNCHANGED vars
  BY <1>28 DEF vars
<1> QED
  BY <1>1, <1>2, <1>3, <1>4, <1>5, <1>6, <1>7, <1>8, <1>9, <1>10, <1>11, <1>12, <1>13, <1>14, <1>15, <1>16, <1>17, <1>18, <1>19, <1>20, <1>21, <1>22, <1>23, <1>24, <1>25, <1>26, <1>27, <1>28 DEF Next, Request, Execution

(* The step says nothing new of what was approved, performed or good. *)
Quiet ==
    /\ confirmations' = confirmations
    /\ Performed' = Performed
    /\ won' = won

(* A quiet step is a report, and keeps it true. *)
LEMMA QuietReports ==
    ASSUME SucceededRan', Quiet
    PROVE  Promise!Report
  BY DEF Quiet, SucceededRan, Promise!Report

(* A run that did well was performed. *)
LEMMA WinSucceeds ==
    ASSUME NEW e \in Executions, e \in Performed, confirmations' = confirmations,
           Performed' = Performed, won' = won \union {e},
           status' = status \/ status' = "succeeded"
    PROVE  Promise!Succeed(e)
  BY DEF Promise!Succeed

(* Every step of the pipeline is one that ApprovedExecution allows. *)
LEMMA StepKeepsPromise ==
    IInv /\ Performing /\ IInv' /\ [Next]_vars => [Promise!Next]_(Promise!vars)
<1> SUFFICES ASSUME IInv, Performing, IInv', [Next]_vars PROVE [Promise!Next]_(Promise!vars)
  OBVIOUS
<1>a. SucceededRan'
  BY DEF IInv, Reported
<1>b. ASSUME Quiet PROVE Promise!Next
  BY <1>a, <1>b, QuietReports DEF Promise!Next
<1>c. exec \in [Executions -> [at : Steps, spec : Specs \union {None}]]
  BY DEF IInv, Owned, TypeOK
<1>d. IsFiniteSet(Performed) /\ Cardinality(Performed) \in Nat /\ confirmations \in Nat
  BY PipelineAssumption, FS_Subset, FS_CardinalityType DEF Performed, IInv, Owned, TypeOK
<1>1. ASSUME NEW c \in Clients, EditReads(c) PROVE Promise!Next
  BY <1>b, <1>c, <1>1 DEF EditReads, Loads, Quiet, Performed, row, history
<1>2. ASSUME NEW c \in Clients, EditWrites(c) PROVE Promise!Next
  BY <1>b, <1>c, <1>2 DEF EditWrites, Quiet, Performed, row, history
<1>3. ASSUME NEW c \in Clients, ValidateReads(c) PROVE Promise!Next
  BY <1>b, <1>c, <1>3 DEF ValidateReads, Loads, Quiet, Performed, row, history
<1>4. ASSUME NEW c \in Clients, ValidateWrites(c) PROVE Promise!Next
  BY <1>b, <1>c, <1>4 DEF ValidateWrites, Quiet, Performed, row, history
<1>5. ASSUME NEW c \in Clients, ConfirmReads(c) PROVE Promise!Next
  BY <1>b, <1>c, <1>5 DEF ConfirmReads, Loads, Quiet, Performed, row, history
<1>6. ASSUME NEW c \in Clients, ConfirmWrites(c) PROVE Promise!Next
  <2>1. Performed' = Performed /\ confirmations' = confirmations + 1
    BY <1>6 DEF ConfirmWrites, Performed
  <2>2. (confirmations + 1) - Cardinality(Performed) = (confirmations - Cardinality(Performed)) + 1
    BY <1>d
  <2>3. Promise!Approve
    BY <1>6, <2>1, <2>2 DEF ConfirmWrites, Promise!Approve
  <2> QED
    BY <2>3 DEF Promise!Next
<1>7. ASSUME NEW c \in Clients, ClaimReads(c) PROVE Promise!Next
  BY <1>b, <1>c, <1>7 DEF ClaimReads, Loads, Quiet, Performed, row, history
<1>8. ASSUME NEW c \in Clients, ClaimWrites(c) PROVE Promise!Next
  <2>1. CASE Claims(c)
    <3>1. PICK e \in Unclaimed : Goto(e, "claimed") /\ UNCHANGED history
      BY <2>1 DEF Claims
    <3> QED
      BY <1>b, <1>c, <3>1 DEF Quiet, Performed, Goto, Unclaimed, history
  <2>2. CASE UNCHANGED <<row, projection, exec, dag, history>>
    BY <1>b, <2>2 DEF Quiet, Performed, history
  <2> QED
    BY <1>8, <2>1, <2>2 DEF ClaimWrites
<1>9. ASSUME NEW c \in Clients, Dispatch(c) PROVE Promise!Next
  BY <1>b, <1>c, <1>9 DEF Dispatch, Goto, Quiet, Performed, row, history
<1>10. ASSUME NEW c \in Clients, DispatchFails(c) PROVE Promise!Next
  BY <1>b, <1>c, <1>10 DEF DispatchFails, Goto, Quiet, Performed, row, history
<1>11. ASSUME NEW c \in Clients, RequestLost(c) PROVE Promise!Next
  BY <1>b, <1>c, <1>11 DEF RequestLost, Quiet, Performed, row, history
<1>12. ASSUME NEW c \in Clients, ReconcileReads(c) PROVE Promise!Next
  BY <1>b, <1>c, <1>12 DEF ReconcileReads, Loads, Quiet, Performed, row, history
<1>13. ASSUME NEW c \in Clients, ReconcilePolls(c) PROVE Promise!Next
  BY <1>b, <1>c, <1>13 DEF ReconcilePolls, Polls, Quiet, Performed, row, history
<1>14. ASSUME NEW c \in Clients, ReconcileGivesUp(c) PROVE Promise!Next
  BY <1>b, <1>c, <1>14 DEF ReconcileGivesUp, Quiet, Performed, row, history
<1>15. ASSUME NEW c \in Clients, ReconcileWrites(c) PROVE Promise!Next
  BY <1>b, <1>c, <1>15 DEF ReconcileWrites, Quiet, Performed, row, history
<1>16. ASSUME NEW e \in Executions, ExecutionLoads(e) PROVE Promise!Next
  <2>1. CASE exec' = [exec EXCEPT ![e] = [at |-> "run", spec |-> spec]]
    <3>1. exec[e].at = "load" /\ exec[e].spec = None /\ spec # None
      BY <1>16, PipelineAssumption DEF ExecutionLoads, IInv, Owned, SpecLate, TypeOK
    <3>2. e \notin Performed /\ Performed' = Performed \union {e}
      BY <1>c, <2>1, <3>1 DEF Performed
    <3>3. e \in Spent /\ Performed \subseteq Spent \ {e}
      BY <3>1, <3>2 DEF Performed, Spent, IInv, Owned, SpecLate
    <3>4. IsFiniteSet(Spent) /\ Cardinality(Spent) \in Nat /\ confirmations \in Nat
      BY PipelineAssumption, FS_Subset, FS_CardinalityType DEF Spent, IInv, Owned, TypeOK
    <3>5. IsFiniteSet(Spent \ {e}) /\ Cardinality(Spent \ {e}) = Cardinality(Spent) - 1
      BY <3>3, <3>4, FS_RemoveElement
    <3>6. Cardinality(Performed) \in Nat /\ Cardinality(Performed) <= Cardinality(Spent \ {e})
      BY <3>3, <3>5, FS_Subset, FS_CardinalityType
    <3>7. Cardinality(Spent) <= confirmations
      BY <3>4 DEF IInv, Credit
    <3>8. Cardinality(Performed) < confirmations
      BY <3>4, <3>5, <3>6, <3>7
    <3>9. UNCHANGED <<status, confirmations, won>>
      BY <1>16 DEF ExecutionLoads, row, history
    <3>10. Cardinality(Performed') = Cardinality(Performed) + 1
      BY <1>d, <3>2, FS_AddElement
    <3>11. /\ confirmations - Cardinality(Performed) > 0
           /\ confirmations - Cardinality(Performed') = (confirmations - Cardinality(Performed)) - 1
      BY <1>d, <3>8, <3>10
    <3>12. Promise!Perform(e)
      BY <3>2, <3>9, <3>11 DEF Promise!Perform
    <3> QED
      BY <3>12 DEF Promise!Next
  <2>2. CASE \E next \in Steps : Goto(e, next)
    BY <1>b, <1>c, <1>16, <2>2 DEF ExecutionLoads, Quiet, Performed, Goto, history
  <2> QED
    BY <1>16, <2>1, <2>2 DEF ExecutionLoads, Steps, InFlight
<1>17. ASSUME NEW e \in Executions, ExecutorRaises(e) PROVE Promise!Next
  BY <1>b, <1>c, <1>17 DEF ExecutorRaises, Goto, Quiet, Performed, row, history
<1>18. ASSUME NEW e \in Executions, RunTriggered(e) PROVE Promise!Next
  BY <1>b, <1>c, <1>18 DEF RunTriggered, Goto, Quiet, Performed, row, history
<1>19. ASSUME NEW e \in Executions, RunRejected(e) PROVE Promise!Next
  BY <1>b, <1>c, <1>19 DEF RunRejected, Goto, Quiet, Performed, row, history
<1>20. ASSUME NEW e \in Executions, HandsOver(e) PROVE Promise!Next
  BY <1>b, <1>c, <1>20 DEF HandsOver, Goto, Quiet, Performed, row, history
<1>21. ASSUME NEW e \in Executions, ReceiptWritten(e) PROVE Promise!Next
  <2>1. confirmations' = confirmations /\ Performed' = Performed
    BY <1>c, <1>21 DEF ReceiptWritten, Performed, Goto
  <2>2. CASE won' = won
    BY <1>b, <2>1, <2>2 DEF Quiet
  <2>3. CASE exec[e].at = "handoff" /\ status' = "succeeded" /\ won' = won \union {e}
    <3>1. e \in Performed
      BY <2>3 DEF Performing, InExecutor, Performed
    <3> QED
      BY <2>1, <2>3, <3>1, WinSucceeds DEF Promise!Next
  <2> QED
    BY <1>21, <2>2, <2>3 DEF ReceiptWritten
<1>22. ASSUME NEW e \in Executions, RecordingRaises(e) PROVE Promise!Next
  BY <1>b, <1>c, <1>22 DEF RecordingRaises, Goto, Quiet, Performed, row, history
<1>23. ASSUME NEW e \in Executions, CrashReads(e) PROVE Promise!Next
  BY <1>b, <1>c, <1>23 DEF CrashReads, Goto, Quiet, Performed, row, history
<1>24. ASSUME NEW e \in Executions, CrashWrites(e) PROVE Promise!Next
  BY <1>b, <1>c, <1>24 DEF CrashWrites, Goto, Quiet, Performed, row, history
<1>25. ASSUME NEW e \in Executions, ExecutionKilled(e) PROVE Promise!Next
  BY <1>b, <1>c, <1>25 DEF ExecutionKilled, Goto, Quiet, Performed, row, history
<1>26. ASSUME NEW e \in Executions, RunEnds(e) PROVE Promise!Next
  <2>1. confirmations' = confirmations /\ Performed' = Performed /\ status' = status
    BY <1>26 DEF RunEnds, Performed, row
  <2>2. e \in Performed
    BY <1>26 DEF RunEnds, Performing, Performed
  <2>3. CASE won' = won
    BY <1>b, <2>1, <2>3 DEF Quiet
  <2>4. CASE won' = won \union {e}
    BY <2>1, <2>2, <2>4, WinSucceeds DEF Promise!Next
  <2> QED
    BY <1>26, <2>3, <2>4 DEF RunEnds
<1>27. ASSUME NEW e \in Executions, RunPruned(e) PROVE Promise!Next
  BY <1>b, <1>c, <1>27 DEF RunPruned, Quiet, Performed, row, history
<1>28. CASE UNCHANGED vars
  BY <1>28 DEF vars, row, history, Performed, Promise!vars
<1> QED
  BY <1>1, <1>2, <1>3, <1>4, <1>5, <1>6, <1>7, <1>8, <1>9, <1>10, <1>11, <1>12, <1>13, <1>14, <1>15, <1>16, <1>17, <1>18, <1>19, <1>20, <1>21, <1>22, <1>23, <1>24, <1>25, <1>26, <1>27, <1>28 DEF Next, Request, Execution

(* The pipeline implements ApprovedExecution: however its requests, processes *)
(* and answers interleave, what an operator sees of it is approvals, one    *)
(* execution for each at most, and reports of what went well.               *)
THEOREM KeepsPromise == Spec => PromiseKept
<1>1. Init => Promise!Init
  <2> SUFFICES ASSUME Init PROVE Promise!Init
    OBVIOUS
  <2>1. Performed = {}
    BY DEF Init, Performed
  <2>2. confirmations - Cardinality(Performed) = 0
    BY <2>1, FS_EmptySet DEF Init
  <2> QED
    BY <2>1, <2>2 DEF Init, Promise!Init
<1>2. Init => Performing
  BY DEF Init, Performing, InExecutor
<1>3. IInv /\ Performing /\ [Next]_vars => Performing'
  BY PerformingStep DEF IInv
<1> QED
  BY <1>1, <1>2, <1>3, InvHolds, StepKeepsPromise, PTL DEF Spec, PromiseKept, Promise!Spec

-----------------------------------------------------------------------------
(* Whose success it is.  While a request holds a receipt and no execution is  *)
(* under way, nobody replaces that receipt, and an execution under way finds *)
(* no success on the row that is not its own.                              *)
Underway == \E e \in Executions : exec[e].at \in {"claimed"} \union InFlight
NoHandoff == \A e \in Executions : exec[e].at # "handoff"

Attributed ==
    /\ NoHandoff
    /\ Underway => status # "succeeded"
    /\ \A c \in Clients : req[c].at \in {"poll", "judge"} => req[c].receipt = receipt
    /\ \A c \in Clients :
         req[c].at = "judge" /\ req[c].seen = "success" => req[c].receipt.of \in won
    /\ ShownWon

(* No step gives the success of one execution to another, where no request   *)
(* judges an execution by the receipt of an earlier one.                    *)
LEMMA AttributedStep ==
    ASSUME Handoffs = FALSE, Owned, SuccessesWon, ~Overtaken, Attributed, [Next]_vars
    PROVE  Attributed'
<1> USE DEF Owned, TypeOK, SuccessesWon, DispatchOwn, Overtaken, Attributed, Underway, NoHandoff, ShownWon,
        InFlight, InExecutor
<1>1. ASSUME NEW c \in Clients, EditReads(c) PROVE Attributed'
  BY <1>1 DEF EditReads, Loads, Goto, Ends, Idle, row, history
<1>2. ASSUME NEW c \in Clients, EditWrites(c) PROVE Attributed'
  BY <1>2 DEF EditWrites, Flushed, Goto, Ends, Idle, row, history
<1>3. ASSUME NEW c \in Clients, ValidateReads(c) PROVE Attributed'
  BY <1>3 DEF ValidateReads, Loads, Goto, Ends, Idle, row, history
<1>4. ASSUME NEW c \in Clients, ValidateWrites(c) PROVE Attributed'
  BY <1>4 DEF ValidateWrites, Flushed, Goto, Ends, Idle, row, history
<1>5. ASSUME NEW c \in Clients, ConfirmReads(c) PROVE Attributed'
  BY <1>5 DEF ConfirmReads, Loads, Goto, Ends, Idle, row, history
<1>6. ASSUME NEW c \in Clients, ConfirmWrites(c) PROVE Attributed'
  BY <1>6 DEF ConfirmWrites, Goto, Ends, Idle, row, history
<1>7. ASSUME NEW c \in Clients, ClaimReads(c) PROVE Attributed'
  BY <1>7 DEF ClaimReads, Loads, Goto, Ends, Idle, row, history
<1>8. ASSUME NEW c \in Clients, ClaimWrites(c) PROVE Attributed'
  <2>1. CASE Claims(c)
    <3>1. PICK e \in Unclaimed :
            /\ exec' = [exec EXCEPT ![e].at = "claimed"]
            /\ req' = [req EXCEPT ![c] = [Idle EXCEPT !.at = "dispatch", !.exec = e]]
      BY <2>1 DEF Claims, Goto
    <3>2. \A d \in Clients :
            /\ d # c => req'[d] = req[d]
            /\ req'[c].at = "dispatch" /\ req'[c].seen = "unknown"
      BY <3>1 DEF Idle
    <3>3. \A f \in Executions : exec'[f].at \in {exec[f].at, "claimed"}
      BY <3>1 DEF Unclaimed
    <3> QED
      BY <2>1, <3>2, <3>3, <1>8 DEF Claims, ClaimWrites, history
  <2>2. CASE Ends(c) /\ UNCHANGED <<row, projection, exec, dag, history>>
    BY <2>2 DEF Ends, Idle, row, history
  <2> QED
    BY <1>8, <2>1, <2>2 DEF ClaimWrites
<1>9. ASSUME NEW c \in Clients, Dispatch(c) PROVE Attributed'
  BY <1>9 DEF Dispatch, Goto, Ends, Idle, row, history
<1>10. ASSUME NEW c \in Clients, DispatchFails(c) PROVE Attributed'
  BY <1>10 DEF DispatchFails, Goto, Ends, Idle, row, history
<1>11. ASSUME NEW c \in Clients, RequestLost(c) PROVE Attributed'
  BY <1>11 DEF RequestLost, Goto, Ends, Idle, row, history
<1>12. ASSUME NEW c \in Clients, ReconcileReads(c) PROVE Attributed'
  BY <1>12 DEF ReconcileReads, Loads, Goto, Ends, Idle, row, history
<1>13. ASSUME NEW c \in Clients, ReconcilePolls(c) PROVE Attributed'
  <2>1. PICK answer \in Answers(req[c].receipt.of) : Polls(c, answer)
    BY <1>13 DEF ReconcilePolls
  <2>2. req[c].receipt.of \in Executions
    BY <1>13 DEF ReconcilePolls
  <2>3. answer = "success" => req[c].receipt.of \in won
    BY <2>2 DEF Answers
  <2> QED
    BY <2>1, <2>3 DEF Polls, row, history
<1>14. ASSUME NEW c \in Clients, ReconcileGivesUp(c) PROVE Attributed'
  BY <1>14 DEF ReconcileGivesUp, Goto, Ends, Idle, row, history
<1>15. ASSUME NEW c \in Clients, ReconcileWrites(c) PROVE Attributed'
  BY <1>15 DEF ReconcileWrites, Flushed, Verdict, Goto, Ends, Idle, row, history
<1>16. ASSUME NEW e \in Executions, ExecutionLoads(e) PROVE Attributed'
  BY <1>16 DEF ExecutionLoads, Goto, Ends, Idle, row, history
<1>17. ASSUME NEW e \in Executions, ExecutorRaises(e) PROVE Attributed'
  BY <1>17 DEF ExecutorRaises, Goto, Ends, Idle, row, history
<1>18. ASSUME NEW e \in Executions, RunTriggered(e) PROVE Attributed'
  BY <1>18 DEF RunTriggered, Goto, Ends, Idle, row, history
<1>19. ASSUME NEW e \in Executions, RunRejected(e) PROVE Attributed'
  BY <1>19 DEF RunRejected, Goto, Ends, Idle, row, history
<1>20. ASSUME NEW e \in Executions, HandsOver(e) PROVE Attributed'
  BY <1>20 DEF HandsOver, Goto, Ends, Idle, row, history
<1>21. ASSUME NEW e \in Executions, ReceiptWritten(e) PROVE Attributed'
  BY <1>21 DEF ReceiptWritten, Receipt, Goto, Ends, Idle, row, history
<1>22. ASSUME NEW e \in Executions, RecordingRaises(e) PROVE Attributed'
  BY <1>22 DEF RecordingRaises, Goto, Ends, Idle, row, history
<1>23. ASSUME NEW e \in Executions, CrashReads(e) PROVE Attributed'
  BY <1>23 DEF CrashReads, Goto, Ends, Idle, row, history
<1>24. ASSUME NEW e \in Executions, CrashWrites(e) PROVE Attributed'
  BY <1>24 DEF CrashWrites, Receipt, Goto, Ends, Idle, row, history
<1>25. ASSUME NEW e \in Executions, ExecutionKilled(e) PROVE Attributed'
  BY <1>25 DEF ExecutionKilled, Goto, Ends, Idle, row, history
<1>26. ASSUME NEW e \in Executions, RunEnds(e) PROVE Attributed'
  BY <1>26 DEF RunEnds, Goto, Ends, Idle, row, history
<1>27. ASSUME NEW e \in Executions, RunPruned(e) PROVE Attributed'
  BY <1>27 DEF RunPruned, Goto, Ends, Idle, row, history
<1>28. CASE UNCHANGED vars
  BY <1>28 DEF vars, row, history
<1> QED
  BY <1>1, <1>2, <1>3, <1>4, <1>5, <1>6, <1>7, <1>8, <1>9, <1>10, <1>11, <1>12, <1>13, <1>14, <1>15, <1>16, <1>17, <1>18, <1>19, <1>20, <1>21, <1>22, <1>23, <1>24, <1>25, <1>26, <1>27, <1>28 DEF Next, Request, Execution

(* For any number of requests, executions and crashes, where the artifact is *)
(* never handed over without a run: a success shown is that of the execution *)
(* whose receipt is shown, unless a request judged an execution by the      *)
(* receipt of an earlier one.                                              *)
THEOREM VerdictIsOfReceipt == Handoffs = FALSE => (Spec => VerdictOfReceipt)
<1> SUFFICES ASSUME Handoffs = FALSE PROVE Spec => VerdictOfReceipt
  OBVIOUS
<1>1. Init => Attributed
  BY DEF Init, Attributed, Underway, NoHandoff, ShownWon, InFlight, InExecutor, Idle
<1>2. IInv /\ ~Overtaken /\ Attributed /\ [Next]_vars => Attributed'
  BY AttributedStep DEF IInv, Reported
<1>3. Attributed => ShownWon
  BY DEF Attributed
<1> QED
  BY <1>1, <1>2, <1>3, InvHolds, PTL DEF Spec, VerdictOfReceipt

-----------------------------------------------------------------------------
(* What is confirmed is what was validated.  A request on its own finds the  *)
(* row as it has read it, but for an execution that fails meanwhile.        *)
OneRequest == \A c, d \in Clients : c = d

Agreed == spec = report /\ spec = approved

Undisturbed(r) ==
    /\ r.at = "edit" => r.status \in Editable /\ status \in {r.status, "failed"}
    /\ r.at = "validate" => r.status \notin Settled /\ status \in {r.status, "failed"}
    /\ r.at \in {"edit", "validate", "confirm"} => r.spec = spec
    /\ r.at = "confirm" => spec = report
    /\ r.at \in {"poll", "judge"} => Agreed

Faithful ==
    /\ NoHandoff
    /\ \A c \in Clients : Undisturbed(req[c])
    /\ status = "validated" => spec = report
    /\ ConfirmedAsReported

(* No step confirms, executes or reports another spec than the validated one. *)
LEMMA FaithfulStep ==
    ASSUME OneRequest, Handoffs = FALSE, Owned, Faithful, [Next]_vars
    PROVE  Faithful'
<1> USE DEF Owned, TypeOK, OneRequest, Faithful, Undisturbed, NoHandoff, ConfirmedAsReported, Agreed,
        Editable, Settled, InExecutor
<1>1. ASSUME NEW c \in Clients, EditReads(c) PROVE Faithful'
  BY <1>1 DEF EditReads, Loads, Goto, Ends, Idle, row, history
<1>2. ASSUME NEW c \in Clients, EditWrites(c) PROVE Faithful'
  BY <1>2 DEF EditWrites, Flushed, Goto, Ends, Idle, row, history
<1>3. ASSUME NEW c \in Clients, ValidateReads(c) PROVE Faithful'
  BY <1>3 DEF ValidateReads, Loads, Goto, Ends, Idle, row, history
<1>4. ASSUME NEW c \in Clients, ValidateWrites(c) PROVE Faithful'
  BY <1>4 DEF ValidateWrites, Flushed, Goto, Ends, Idle, row, history
<1>5. ASSUME NEW c \in Clients, ConfirmReads(c) PROVE Faithful'
  BY <1>5 DEF ConfirmReads, Loads, Goto, Ends, Idle, row, history
<1>6. ASSUME NEW c \in Clients, ConfirmWrites(c) PROVE Faithful'
  BY <1>6 DEF ConfirmWrites, Goto, Ends, Idle, row, history
<1>7. ASSUME NEW c \in Clients, ClaimReads(c) PROVE Faithful'
  BY <1>7 DEF ClaimReads, Loads, Goto, Ends, Idle, row, history
<1>8. ASSUME NEW c \in Clients, ClaimWrites(c) PROVE Faithful'
  <2>1. CASE status = "confirmed" /\ Claims(c)
    <3>1. PICK e \in Unclaimed :
            /\ exec' = [exec EXCEPT ![e].at = "claimed"]
            /\ req' = [req EXCEPT ![c] = [Idle EXCEPT !.at = "dispatch", !.exec = e]]
      BY <2>1 DEF Claims, Goto
    <3>2. \A d \in Clients : req'[d].at = "dispatch"
      BY <3>1 DEF Idle
    <3>3. \A f \in Executions : exec'[f].at \in {exec[f].at, "claimed"}
      BY <3>1 DEF Unclaimed
    <3> QED
      BY <2>1, <3>2, <3>3 DEF Claims, history
  <2>2. CASE Ends(c) /\ UNCHANGED <<row, projection, exec, dag, history>>
    BY <2>2 DEF Ends, Idle, row, history
  <2> QED
    BY <1>8, <2>1, <2>2 DEF ClaimWrites
<1>9. ASSUME NEW c \in Clients, Dispatch(c) PROVE Faithful'
  BY <1>9 DEF Dispatch, Goto, Ends, Idle, row, history
<1>10. ASSUME NEW c \in Clients, DispatchFails(c) PROVE Faithful'
  BY <1>10 DEF DispatchFails, Goto, Ends, Idle, row, history
<1>11. ASSUME NEW c \in Clients, RequestLost(c) PROVE Faithful'
  BY <1>11 DEF RequestLost, Goto, Ends, Idle, row, history
<1>12. ASSUME NEW c \in Clients, ReconcileReads(c) PROVE Faithful'
  BY <1>12 DEF ReconcileReads, Loads, Goto, Ends, Idle, row, history
<1>13. ASSUME NEW c \in Clients, ReconcilePolls(c) PROVE Faithful'
  BY <1>13 DEF ReconcilePolls, Polls, Goto, Ends, Idle, row, history
<1>14. ASSUME NEW c \in Clients, ReconcileGivesUp(c) PROVE Faithful'
  BY <1>14 DEF ReconcileGivesUp, Goto, Ends, Idle, row, history
<1>15. ASSUME NEW c \in Clients, ReconcileWrites(c) PROVE Faithful'
  BY <1>15 DEF ReconcileWrites, Flushed, Verdict, Goto, Ends, Idle, row, history
<1>16. ASSUME NEW e \in Executions, ExecutionLoads(e) PROVE Faithful'
  BY <1>16 DEF ExecutionLoads, Goto, Ends, Idle, row, history
<1>17. ASSUME NEW e \in Executions, ExecutorRaises(e) PROVE Faithful'
  BY <1>17 DEF ExecutorRaises, Goto, Ends, Idle, row, history
<1>18. ASSUME NEW e \in Executions, RunTriggered(e) PROVE Faithful'
  BY <1>18 DEF RunTriggered, Goto, Ends, Idle, row, history
<1>19. ASSUME NEW e \in Executions, RunRejected(e) PROVE Faithful'
  BY <1>19 DEF RunRejected, Goto, Ends, Idle, row, history
<1>20. ASSUME NEW e \in Executions, HandsOver(e) PROVE Faithful'
  BY <1>20 DEF HandsOver, Goto, Ends, Idle, row, history
<1>21. ASSUME NEW e \in Executions, ReceiptWritten(e) PROVE Faithful'
  BY <1>21 DEF ReceiptWritten, Receipt, Goto, Ends, Idle, row, history
<1>22. ASSUME NEW e \in Executions, RecordingRaises(e) PROVE Faithful'
  BY <1>22 DEF RecordingRaises, Goto, Ends, Idle, row, history
<1>23. ASSUME NEW e \in Executions, CrashReads(e) PROVE Faithful'
  BY <1>23 DEF CrashReads, Goto, Ends, Idle, row, history
<1>24. ASSUME NEW e \in Executions, CrashWrites(e) PROVE Faithful'
  BY <1>24 DEF CrashWrites, Receipt, Goto, Ends, Idle, row, history
<1>25. ASSUME NEW e \in Executions, ExecutionKilled(e) PROVE Faithful'
  BY <1>25 DEF ExecutionKilled, Goto, Ends, Idle, row, history
<1>26. ASSUME NEW e \in Executions, RunEnds(e) PROVE Faithful'
  BY <1>26 DEF RunEnds, Goto, Ends, Idle, row, history
<1>27. ASSUME NEW e \in Executions, RunPruned(e) PROVE Faithful'
  BY <1>27 DEF RunPruned, Goto, Ends, Idle, row, history
<1>28. CASE UNCHANGED vars
  BY <1>28 DEF vars, row, history
<1> QED
  BY <1>1, <1>2, <1>3, <1>4, <1>5, <1>6, <1>7, <1>8, <1>9, <1>10, <1>11, <1>12, <1>13, <1>14, <1>15, <1>16, <1>17, <1>18, <1>19, <1>20, <1>21, <1>22, <1>23, <1>24, <1>25, <1>26, <1>27, <1>28 DEF Next, Request, Execution

(* With one request at a time, whatever executions, crashes and late runs do *)
(* meanwhile, what is confirmed, executed and reported as a success is the   *)
(* spec that was validated and confirmed.                                   *)
THEOREM ConfirmedIsReported ==
    OneRequest /\ Handoffs = FALSE => (Spec => []ConfirmedAsReported)
<1> SUFFICES ASSUME OneRequest, Handoffs = FALSE PROVE Spec => []ConfirmedAsReported
  OBVIOUS
<1>1. Init => Faithful
  BY DEF Init, Faithful, Undisturbed, NoHandoff, ConfirmedAsReported, Settled, Idle
<1>2. IInv /\ Faithful /\ [Next]_vars => Faithful'
  BY FaithfulStep DEF IInv
<1>3. Faithful => ConfirmedAsReported
  BY DEF Faithful
<1> QED
  BY <1>1, <1>2, <1>3, InvHolds, PTL DEF Spec

-----------------------------------------------------------------------------
(* One execution at a time.  While a request has the row loaded that it will *)
(* give back to people, edited, validated or confirmed, none is under way.  *)
Sole ==
    /\ Alone
    /\ Underway => \A c \in Clients : req[c].at \notin {"edit", "validate", "confirm"}

(* A claim needs a confirmed row, which no execution is under way beside; a  *)
(* verdict is given on none that is.                                        *)
LEMMA SoleStep ==
    ASSUME OneRequest, Owned, ~Overtaken, Sole, [Next]_vars
    PROVE  Sole'
<1> USE DEF Owned, TypeOK, DispatchOwn, OneRequest, Overtaken, Sole, Alone, Underway, InFlight, InExecutor
<1>1. ASSUME NEW c \in Clients, EditReads(c) PROVE Sole'
  BY <1>1 DEF EditReads, Loads, Editable, Settled, Goto, Ends, Idle, row, history
<1>2. ASSUME NEW c \in Clients, EditWrites(c) PROVE Sole'
  BY <1>2 DEF EditWrites, Flushed, Goto, Ends, Idle, row, history
<1>3. ASSUME NEW c \in Clients, ValidateReads(c) PROVE Sole'
  BY <1>3 DEF ValidateReads, Loads, Editable, Settled, Goto, Ends, Idle, row, history
<1>4. ASSUME NEW c \in Clients, ValidateWrites(c) PROVE Sole'
  BY <1>4 DEF ValidateWrites, Flushed, Goto, Ends, Idle, row, history
<1>5. ASSUME NEW c \in Clients, ConfirmReads(c) PROVE Sole'
  BY <1>5 DEF ConfirmReads, Loads, Goto, Ends, Idle, row, history
<1>6. ASSUME NEW c \in Clients, ConfirmWrites(c) PROVE Sole'
  BY <1>6 DEF ConfirmWrites, Goto, Ends, Idle, row, history
<1>7. ASSUME NEW c \in Clients, ClaimReads(c) PROVE Sole'
  BY <1>7 DEF ClaimReads, Loads, Goto, Ends, Idle, row, history
<1>8. ASSUME NEW c \in Clients, ClaimWrites(c) PROVE Sole'
  <2>1. CASE status = "confirmed" /\ Claims(c)
    <3>1. PICK e \in Unclaimed :
            /\ exec' = [exec EXCEPT ![e].at = "claimed"]
            /\ req' = [req EXCEPT ![c] = [Idle EXCEPT !.at = "dispatch", !.exec = e]]
            /\ status' = "executing"
      BY <2>1 DEF Claims, Goto
    <3>2. \A d \in Clients : req'[d].at = "dispatch"
      BY <3>1 DEF Idle
    <3>3. ~Underway
      BY <2>1
    <3>4. \A f \in Executions \ {e} : exec'[f] = exec[f]
      BY <3>1 DEF Unclaimed
    <3> QED
      BY <3>1, <3>2, <3>3, <3>4
  <2>2. CASE Ends(c) /\ UNCHANGED <<row, projection, exec, dag, history>>
    BY <2>2 DEF Ends, Idle, row, history
  <2> QED
    BY <1>8, <2>1, <2>2 DEF ClaimWrites
<1>9. ASSUME NEW c \in Clients, Dispatch(c) PROVE Sole'
  BY <1>9 DEF Dispatch, Goto, Ends, Idle, row, history
<1>10. ASSUME NEW c \in Clients, DispatchFails(c) PROVE Sole'
  BY <1>10 DEF DispatchFails, Goto, Ends, Idle, row, history
<1>11. ASSUME NEW c \in Clients, RequestLost(c) PROVE Sole'
  BY <1>11 DEF RequestLost, Goto, Ends, Idle, row, history
<1>12. ASSUME NEW c \in Clients, ReconcileReads(c) PROVE Sole'
  BY <1>12 DEF ReconcileReads, Loads, Goto, Ends, Idle, row, history
<1>13. ASSUME NEW c \in Clients, ReconcilePolls(c) PROVE Sole'
  BY <1>13 DEF ReconcilePolls, Polls, Goto, Ends, Idle, row, history
<1>14. ASSUME NEW c \in Clients, ReconcileGivesUp(c) PROVE Sole'
  BY <1>14 DEF ReconcileGivesUp, Goto, Ends, Idle, row, history
<1>15. ASSUME NEW c \in Clients, ReconcileWrites(c) PROVE Sole'
  BY <1>15 DEF ReconcileWrites, Goto, Ends, Idle, row, history
<1>16. ASSUME NEW e \in Executions, ExecutionLoads(e) PROVE Sole'
  BY <1>16 DEF ExecutionLoads, Goto, Ends, Idle, row, history
<1>17. ASSUME NEW e \in Executions, ExecutorRaises(e) PROVE Sole'
  BY <1>17 DEF ExecutorRaises, Goto, Ends, Idle, row, history
<1>18. ASSUME NEW e \in Executions, RunTriggered(e) PROVE Sole'
  BY <1>18 DEF RunTriggered, Goto, Ends, Idle, row, history
<1>19. ASSUME NEW e \in Executions, RunRejected(e) PROVE Sole'
  BY <1>19 DEF RunRejected, Goto, Ends, Idle, row, history
<1>20. ASSUME NEW e \in Executions, HandsOver(e) PROVE Sole'
  BY <1>20 DEF HandsOver, Goto, Ends, Idle, row, history
<1>21. ASSUME NEW e \in Executions, ReceiptWritten(e) PROVE Sole'
  BY <1>21 DEF ReceiptWritten, Receipt, Goto, Ends, Idle, row, history
<1>22. ASSUME NEW e \in Executions, RecordingRaises(e) PROVE Sole'
  BY <1>22 DEF RecordingRaises, Goto, Ends, Idle, row, history
<1>23. ASSUME NEW e \in Executions, CrashReads(e) PROVE Sole'
  BY <1>23 DEF CrashReads, Goto, Ends, Idle, row, history
<1>24. ASSUME NEW e \in Executions, CrashWrites(e) PROVE Sole'
  BY <1>24 DEF CrashWrites, Receipt, Goto, Ends, Idle, row, history
<1>25. ASSUME NEW e \in Executions, ExecutionKilled(e) PROVE Sole'
  BY <1>25 DEF ExecutionKilled, Goto, Ends, Idle, row, history
<1>26. ASSUME NEW e \in Executions, RunEnds(e) PROVE Sole'
  BY <1>26 DEF RunEnds, Goto, Ends, Idle, row, history
<1>27. ASSUME NEW e \in Executions, RunPruned(e) PROVE Sole'
  BY <1>27 DEF RunPruned, Goto, Ends, Idle, row, history
<1>28. CASE UNCHANGED vars
  BY <1>28 DEF vars, row, history
<1> QED
  BY <1>1, <1>2, <1>3, <1>4, <1>5, <1>6, <1>7, <1>8, <1>9, <1>10, <1>11, <1>12, <1>13, <1>14, <1>15, <1>16, <1>17, <1>18, <1>19, <1>20, <1>21, <1>22, <1>23, <1>24, <1>25, <1>26, <1>27, <1>28 DEF Next, Request, Execution

(* With one request at a time, and whatever dies: as long as no execution is *)
(* judged by the receipt of an earlier one, executions of the artifact       *)
(* follow one another, and the artifact is executing while one is under way. *)
THEOREM ExecutionsFollow == OneRequest => (Spec => OneAtATime)
<1> SUFFICES ASSUME OneRequest PROVE Spec => OneAtATime
  OBVIOUS
<1>1. Init => Sole
  BY DEF Init, Sole, Alone, Underway, InFlight, InExecutor
<1>2. IInv /\ ~Overtaken /\ Sole /\ [Next]_vars => Sole'
  BY SoleStep DEF IInv
<1>3. Sole => Alone
  BY DEF Sole
<1> QED
  BY <1>1, <1>2, <1>3, InvHolds, PTL DEF Spec, OneAtATime
==============================================================================
