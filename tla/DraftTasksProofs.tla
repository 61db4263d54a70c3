--------------------------- MODULE DraftTasksProofs ---------------------------
(***************************************************************************)
(* Theorems about DraftTasks for any number of rows, requests, domains and *)
(* slots, with workers killed and API processes restarting at any moment.  *)
(***************************************************************************)
EXTENDS DraftTasks, FiniteSetTheorems, TLAPS

(* Whoever is about to write a row writes one that was inserted. *)
Inserted ==
    /\ \A t \in Tasks : pc[t] # "none" => status[t] # "absent"
    /\ \A c \in Clients : req[c].at \in {"launch", "stop"} => status[req[c].task] # "absent"
    /\ \A t \in sweep : status[t] # "absent"

(* Each row is launched once: by the request that inserted it, or by the     *)
(* worker that resumes itself through it.                                  *)
AbsentRows == \A t \in Tasks : status[t] = "absent" => job[t] = NoJob
RequestJobs == \A c \in Clients : req[c].job.how # "resume"
LaunchPending ==
    \A c \in Clients : req[c].at = "launch" =>
        pc[req[c].task] = "none" /\ job[req[c].task].how # "resume"
LaunchUnique ==
    \A c, d \in Clients :
        c # d /\ req[c].at = "launch" /\ req[d].at = "launch" => req[c].task # req[d].task
ResumeChild ==
    \A u \in Tasks : job[u].how = "resume" =>
        /\ job[u].of \in Tasks
        /\ pc[job[u].of] \in {"launch", "done", "dead"}
        /\ pc[job[u].of] = "launch" => pc[u] = "none"

Launched == AbsentRows /\ RequestJobs /\ LaunchPending /\ LaunchUnique /\ ResumeChild

(* The variables stay within their types. *)
LEMMA TypeInit == Init => TypeOK
  BY DEF Init, TypeOK, Active, Terminal, Jobs, NoJob, Live, Entering, Requests,
     Working, Failing, Resuming, Idle

(* Every step keeps the types; a row that is written was inserted before. *)
LEMMA TypeStep == TypeOK /\ Inserted /\ [Next]_vars => TypeOK'
<1> SUFFICES ASSUME TypeOK, Inserted, [Next]_vars PROVE TypeOK'
  OBVIOUS
<1> USE ConstantsAssumption DEF TypeOK, Active, Terminal, Live, Entering, Working, Failing,
        Resuming
<1>1. ASSUME NEW c \in Clients, StartChecked(c) PROVE TypeOK'
  BY <1>1 DEF StartChecked, Jobs, Requests
<1>2. ASSUME NEW c \in Clients, NEW t \in Tasks, RetryChecked(c, t) PROVE TypeOK'
  BY <1>2 DEF RetryChecked, RetryJob, Successor, Jobs, Requests
<1>3. ASSUME NEW c \in Clients, NEW t \in Tasks, InsertRow(c, t) PROVE TypeOK'
  BY <1>3 DEF InsertRow, Insert, Requests, Idle
<1>4. ASSUME NEW c \in Clients, LaunchWorker(c) PROVE TypeOK'
  BY <1>4 DEF LaunchWorker, Requests, Idle
<1>5. ASSUME NEW c \in Clients, NEW t \in Tasks, StopChecked(c, t) PROVE TypeOK'
  BY <1>5 DEF StopChecked, Requests
<1>6. ASSUME NEW c \in Clients, StopWritten(c) PROVE TypeOK'
  BY <1>6 DEF StopWritten, Requests, Idle, Inserted
<1>7. ASSUME NEW c \in Clients, RequestLost(c) PROVE TypeOK'
  BY <1>7 DEF RequestLost, Requests, Idle
<1>8. ASSUME NEW t \in Tasks, Worker(t) PROVE TypeOK'
  <2>1. CASE WorkerStart(t)
    BY <2>1 DEF WorkerStart, Goto
  <2>2. CASE AwaitSlot(t)
    BY <2>2 DEF AwaitSlot, Goto, CheckCancelled
  <2>3. CASE SlotGone(t)
    BY <2>3 DEF SlotGone, Goto
  <2>4. CASE ClaimSlot(t)
    BY <2>4 DEF ClaimSlot, Goto, SlotTaken, SlotRefused, MaySlot
  <2>5. CASE ClaimCounted(t)
    BY <2>5 DEF ClaimCounted, SlotRefused, Goto, MaySlot
  <2>6. CASE ClaimCommitted(t)
    BY <2>6 DEF ClaimCommitted, Goto, SlotTaken, SlotRefused
  <2>7. CASE ReportPosition(t)
    BY <2>7 DEF ReportPosition, Goto
  <2>8. CASE Admitted(t)
    BY <2>8 DEF Admitted, Goto, CheckCancelled
  <2>9. CASE RunOpens(t)
    BY <2>9 DEF RunOpens, Goto
  <2>10. CASE RunRejected(t)
    BY <2>10 DEF RunRejected, Goto, Inserted
  <2>11. CASE RunBegins(t)
    BY <2>11 DEF RunBegins, Goto, CheckAndReport
  <2>12. CASE EvidenceFetched(t)
    BY <2>12 DEF EvidenceFetched, Goto, CheckAndReport
  <2>13. CASE DraftGenerated(t)
    BY <2>13 DEF DraftGenerated, Goto, CheckAndReport
  <2>14. CASE SaveChecked(t)
    BY <2>14 DEF SaveChecked, Goto, CheckCancelled
  <2>15. CASE Merged(t)
    BY <2>15 DEF Merged, Goto, Inserted
  <2>16. CASE MergeRejected(t)
    BY <2>16 DEF MergeRejected, Goto, Inserted
  <2>17. CASE RunRaises(t)
    BY <2>17 DEF RunRaises, Goto
  <2>18. CASE EntryRaises(t)
    BY <2>18 DEF EntryRaises, Goto
  <2>19. CASE HandlerChecks(t)
    BY <2>19 DEF HandlerChecks, Goto, CheckCancelled
  <2>20. CASE MarkChecks(t)
    BY <2>20 DEF MarkChecks, Goto, AfterMark
  <2>21. CASE MarkedFailed(t)
    BY <2>21 DEF MarkedFailed, Goto, AfterMark, Inserted
  <2>22. CASE ResumeChecked(t)
    BY <2>22 DEF ResumeChecked, Goto
  <2>23. CASE ResumeLaunched(t)
    BY <2>23 DEF ResumeLaunched, Goto
  <2>24. ASSUME NEW u \in Tasks, ResumeInserted(t, u) PROVE TypeOK'
    BY <2>24 DEF ResumeInserted, Insert, Goto, Successor, Jobs, Inserted
  <2> QED
    BY <1>8, <2>1, <2>2, <2>3, <2>4, <2>5, <2>6, <2>7, <2>8, <2>9, <2>10, <2>11, <2>12, <2>13, <2>14, <2>15, <2>16, <2>17, <2>18, <2>19, <2>20, <2>21, <2>22, <2>23, <2>24 DEF Worker
<1>9. ASSUME NEW t \in Tasks, WorkerKilled(t) PROVE TypeOK'
  BY <1>9 DEF WorkerKilled, Goto
<1>10. CASE SweepReads
  BY <1>10 DEF SweepReads
<1>11. CASE SweepWrites
  BY <1>11 DEF SweepWrites, Inserted
<1>12. CASE UNCHANGED vars
  BY <1>12 DEF vars
<1> QED
  BY <1>1, <1>2, <1>3, <1>4, <1>5, <1>6, <1>7, <1>8, <1>9, <1>10, <1>11, <1>12 DEF Next

(* All the actions of a worker but those of a resume: they write the row and  *)
(* the pc of that worker and nothing of any other row or request.           *)
Quiet(t) ==
    /\ pc[t] \in Live \ {"launch"}
    /\ pc'[t] \in {"done"} \union (Live \ {"start", "launch"})
    /\ status'[t] # "absent"
    /\ \A u \in Tasks \ {t} : status'[u] = status[u] /\ pc'[u] = pc[u]
    /\ status'[t] = "running" => pc'[t] \in Working \union Failing
    /\ status'[t] \in Active => status[t] \in Active
    /\ status'[t] = "queued" => status[t] = "queued"
    /\ pc'[t] = "insert" => Cardinality(PriorResumes(t)) < MaxResumes
    /\ UNCHANGED <<job, req, sweep, halted>>

(* A worker writes its own row and counters and no other, unless it inserts *)
(* the row of its resume or launches the worker of that row.                *)
LEMMA WorkerForms ==
    ASSUME TypeOK, Inserted, SlotHeld, NEW t \in Tasks, Worker(t)
    PROVE  Quiet(t) \/ ResumeLaunched(t) \/ \E u \in Tasks : ResumeInserted(t, u)
<1> USE ConstantsAssumption DEF TypeOK, Active, Terminal, Live, Entering, Working, Failing,
        Resuming, Inserted, SlotHeld, Quiet
<1>1. CASE WorkerStart(t)
  BY <1>1 DEF WorkerStart, Goto
<1>2. CASE AwaitSlot(t)
  BY <1>2 DEF AwaitSlot, Goto, CheckCancelled
<1>3. CASE SlotGone(t)
  BY <1>3 DEF SlotGone, Goto
<1>4. CASE ClaimSlot(t)
  BY <1>4 DEF ClaimSlot, Goto, SlotTaken, SlotRefused, MaySlot
<1>5. CASE ClaimCounted(t)
  BY <1>5 DEF ClaimCounted, SlotRefused, Goto, MaySlot
<1>6. CASE ClaimCommitted(t)
  BY <1>6 DEF ClaimCommitted, Goto, SlotTaken, SlotRefused
<1>7. CASE ReportPosition(t)
  BY <1>7 DEF ReportPosition, Goto
<1>8. CASE Admitted(t)
  BY <1>8 DEF Admitted, Goto, CheckCancelled
<1>9. CASE RunOpens(t)
  BY <1>9 DEF RunOpens, Goto
<1>10. CASE RunRejected(t)
  BY <1>10 DEF RunRejected, Goto
<1>11. CASE RunBegins(t)
  BY <1>11 DEF RunBegins, Goto, CheckAndReport
<1>12. CASE EvidenceFetched(t)
  BY <1>12 DEF EvidenceFetched, Goto, CheckAndReport
<1>13. CASE DraftGenerated(t)
  BY <1>13 DEF DraftGenerated, Goto, CheckAndReport
<1>14. CASE SaveChecked(t)
  BY <1>14 DEF SaveChecked, Goto, CheckCancelled
<1>15. CASE Merged(t)
  BY <1>15 DEF Merged, Goto
<1>16. CASE MergeRejected(t)
  BY <1>16 DEF MergeRejected, Goto
<1>17. CASE RunRaises(t)
  BY <1>17 DEF RunRaises, Goto
<1>18. CASE EntryRaises(t)
  BY <1>18 DEF EntryRaises, Goto
<1>19. CASE HandlerChecks(t)
  BY <1>19 DEF HandlerChecks, Goto, CheckCancelled
<1>20. CASE MarkChecks(t)
  BY <1>20 DEF MarkChecks, Goto, AfterMark
<1>21. CASE MarkedFailed(t)
  BY <1>21 DEF MarkedFailed, Goto, AfterMark
<1>22. CASE ResumeChecked(t)
  BY <1>22 DEF ResumeChecked, Goto
<1>23. CASE ResumeLaunched(t)
  BY <1>23
<1>24. CASE \E u \in Tasks : ResumeInserted(t, u)
  BY <1>24
<1> QED
  BY <1>1, <1>2, <1>3, <1>4, <1>5, <1>6, <1>7, <1>8, <1>9, <1>10, <1>11, <1>12, <1>13, <1>14, <1>15, <1>16, <1>17, <1>18, <1>19, <1>20, <1>21, <1>22, <1>23, <1>24 DEF Worker

(* At the start nobody is about to write a row. *)
LEMMA InsertedInit == Init => Inserted
  BY DEF Init, Inserted, Idle

(* No step makes anybody about to write a row that is not there. *)
LEMMA InsertedStep == TypeOK /\ Inserted /\ Launched /\ SlotHeld /\ [Next]_vars => Inserted'
<1> SUFFICES ASSUME TypeOK, Inserted, Launched, SlotHeld, [Next]_vars PROVE Inserted'
  OBVIOUS
<1> USE ConstantsAssumption DEF TypeOK, Active, Terminal, Live, Entering, Working, Failing,
        Resuming, Inserted
<1>1. ASSUME NEW c \in Clients, StartChecked(c) PROVE Inserted'
  BY <1>1 DEF StartChecked, Jobs, Requests
<1>2. ASSUME NEW c \in Clients, NEW t \in Tasks, RetryChecked(c, t) PROVE Inserted'
  BY <1>2 DEF RetryChecked, RetryJob, Successor, Jobs, Requests
<1>3. ASSUME NEW c \in Clients, NEW t \in Tasks, InsertRow(c, t) PROVE Inserted'
  BY <1>3 DEF InsertRow, Insert, Requests, Idle, NoJob
<1>4. ASSUME NEW c \in Clients, LaunchWorker(c) PROVE Inserted'
  BY <1>4 DEF LaunchWorker, Requests, Idle
<1>5. ASSUME NEW c \in Clients, NEW t \in Tasks, StopChecked(c, t) PROVE Inserted'
  BY <1>5 DEF StopChecked, Requests
<1>6. ASSUME NEW c \in Clients, StopWritten(c) PROVE Inserted'
  BY <1>6 DEF StopWritten, Requests, Idle
<1>7. ASSUME NEW c \in Clients, RequestLost(c) PROVE Inserted'
  BY <1>7 DEF RequestLost, Requests, Idle
<1>8. ASSUME NEW t \in Tasks, Worker(t) PROVE Inserted'
  <2>1. CASE Quiet(t)
    BY <2>1 DEF Quiet, Requests, Idle
  <2>2. ASSUME NEW u \in Tasks, ResumeInserted(t, u) PROVE Inserted'
    BY <2>2 DEF ResumeInserted, Insert, Goto, Successor
  <2>3. CASE ResumeLaunched(t)
    BY <2>3 DEF ResumeLaunched, Launched, AbsentRows, ResumeChild, Jobs, NoJob
  <2> QED
    BY <1>8, <2>1, <2>2, <2>3, WorkerForms
<1>9. ASSUME NEW t \in Tasks, WorkerKilled(t) PROVE Inserted'
  BY <1>9 DEF WorkerKilled, Goto
<1>10. CASE SweepReads
  BY <1>10 DEF SweepReads
<1>11. CASE SweepWrites
  BY <1>11 DEF SweepWrites, Requests, Idle
<1>12. CASE UNCHANGED vars
  BY <1>12 DEF vars
<1> QED
  BY <1>1, <1>2, <1>3, <1>4, <1>5, <1>6, <1>7, <1>8, <1>9, <1>10, <1>11, <1>12 DEF Next

(* At the start no row is "running". *)
LEMMA SlotHeldInit == Init => SlotHeld
  BY DEF Init, SlotHeld

(* Every step keeps each "running" row in the hands of a worker that gives  *)
(* the slot back, or of nobody once that worker was killed.                 *)
LEMMA SlotHeldStep == TypeOK /\ Inserted /\ Launched /\ SlotHeld /\ [Next]_vars => SlotHeld'
<1> SUFFICES ASSUME TypeOK, Inserted, Launched, SlotHeld, [Next]_vars PROVE SlotHeld'
  OBVIOUS
<1> USE ConstantsAssumption DEF TypeOK, Active, Terminal, Live, Entering, Working, Failing,
        Resuming, SlotHeld
<1>1. ASSUME NEW c \in Clients, StartChecked(c) PROVE SlotHeld'
  BY <1>1 DEF StartChecked, Jobs, Requests
<1>2. ASSUME NEW c \in Clients, NEW t \in Tasks, RetryChecked(c, t) PROVE SlotHeld'
  BY <1>2 DEF RetryChecked, RetryJob, Successor, Jobs, Requests
<1>3. ASSUME NEW c \in Clients, NEW t \in Tasks, InsertRow(c, t) PROVE SlotHeld'
  BY <1>3 DEF InsertRow, Insert, Requests, Idle
<1>4. ASSUME NEW c \in Clients, LaunchWorker(c) PROVE SlotHeld'
  BY <1>4 DEF LaunchWorker, Requests, Idle, Launched, LaunchPending
<1>5. ASSUME NEW c \in Clients, NEW t \in Tasks, StopChecked(c, t) PROVE SlotHeld'
  BY <1>5 DEF StopChecked, Requests
<1>6. ASSUME NEW c \in Clients, StopWritten(c) PROVE SlotHeld'
  BY <1>6 DEF StopWritten, Requests, Idle
<1>7. ASSUME NEW c \in Clients, RequestLost(c) PROVE SlotHeld'
  BY <1>7 DEF RequestLost, Requests, Idle
<1>8. ASSUME NEW t \in Tasks, Worker(t) PROVE SlotHeld'
  <2>1. CASE Quiet(t)
    BY <2>1 DEF Quiet
  <2>2. ASSUME NEW u \in Tasks, ResumeInserted(t, u) PROVE SlotHeld'
    BY <2>2 DEF ResumeInserted, Insert, Goto, Successor
  <2>3. CASE ResumeLaunched(t)
    BY <2>3 DEF ResumeLaunched, Launched, ResumeChild, Jobs, NoJob
  <2> QED
    BY <1>8, <2>1, <2>2, <2>3, WorkerForms
<1>9. ASSUME NEW t \in Tasks, WorkerKilled(t) PROVE SlotHeld'
  BY <1>9 DEF WorkerKilled, Goto
<1>10. CASE SweepReads
  BY <1>10 DEF SweepReads
<1>11. CASE SweepWrites
  BY <1>11 DEF SweepWrites
<1>12. CASE UNCHANGED vars
  BY <1>12 DEF vars
<1> QED
  BY <1>1, <1>2, <1>3, <1>4, <1>5, <1>6, <1>7, <1>8, <1>9, <1>10, <1>11, <1>12 DEF Next

(* At the start no row was launched. *)
LEMMA LaunchedInit == Init => Launched
  BY DEF Init, Launched, AbsentRows, RequestJobs, LaunchPending, LaunchUnique, ResumeChild,
     Idle, NoJob

(* Every step keeps each row launched at most once. *)
LEMMA LaunchedStep == TypeOK /\ Inserted /\ Launched /\ SlotHeld /\ [Next]_vars => Launched'
<1> SUFFICES ASSUME TypeOK, Inserted, Launched, SlotHeld, [Next]_vars PROVE Launched'
  OBVIOUS
<1> USE ConstantsAssumption DEF TypeOK, Active, Terminal, Live, Entering, Working, Failing,
        Resuming, Launched
<1>1. ASSUME NEW c \in Clients, StartChecked(c) PROVE Launched'
  <2>1. AbsentRows'
    BY <1>1 DEF StartChecked, AbsentRows
  <2>2. RequestJobs'
    BY <1>1 DEF StartChecked, RequestJobs
  <2>3. LaunchPending'
    BY <1>1 DEF StartChecked, LaunchPending
  <2>4. LaunchUnique'
    BY <1>1 DEF StartChecked, LaunchUnique
  <2>5. ResumeChild'
    BY <1>1 DEF StartChecked, ResumeChild
  <2> QED
    BY <2>1, <2>2, <2>3, <2>4, <2>5
<1>2. ASSUME NEW c \in Clients, NEW t \in Tasks, RetryChecked(c, t) PROVE Launched'
  <2>1. AbsentRows'
    BY <1>2 DEF RetryChecked, RetryJob, Successor, AbsentRows
  <2>2. RequestJobs'
    BY <1>2 DEF RetryChecked, RetryJob, Successor, RequestJobs
  <2>3. LaunchPending'
    BY <1>2 DEF RetryChecked, RetryJob, Successor, LaunchPending
  <2>4. LaunchUnique'
    BY <1>2 DEF RetryChecked, RetryJob, Successor, LaunchUnique
  <2>5. ResumeChild'
    BY <1>2 DEF RetryChecked, RetryJob, Successor, ResumeChild
  <2> QED
    BY <2>1, <2>2, <2>3, <2>4, <2>5
<1>3. ASSUME NEW c \in Clients, NEW t \in Tasks, InsertRow(c, t) PROVE Launched'
  <2>1. AbsentRows'
    BY <1>3 DEF InsertRow, Insert, Inserted, AbsentRows
  <2>2. RequestJobs'
    BY <1>3 DEF InsertRow, Insert, Inserted, RequestJobs, NoJob
  <2>3. LaunchPending'
    BY <1>3 DEF InsertRow, Insert, Inserted, LaunchPending, AbsentRows, NoJob, RequestJobs, Requests, Idle
  <2>4. LaunchUnique'
    BY <1>3 DEF InsertRow, Insert, Inserted, LaunchUnique, Requests, Idle
  <2>5. ResumeChild'
    BY <1>3 DEF InsertRow, Insert, Inserted, ResumeChild, RequestJobs, AbsentRows, NoJob
  <2> QED
    BY <2>1, <2>2, <2>3, <2>4, <2>5
<1>4. ASSUME NEW c \in Clients, LaunchWorker(c) PROVE Launched'
  <2>1. AbsentRows'
    BY <1>4 DEF LaunchWorker, Idle, Requests, AbsentRows
  <2>2. RequestJobs'
    BY <1>4 DEF LaunchWorker, Idle, Requests, RequestJobs, NoJob
  <2>3. LaunchPending'
    BY <1>4 DEF LaunchWorker, Idle, Requests, LaunchPending, LaunchUnique
  <2>4. LaunchUnique'
    BY <1>4 DEF LaunchWorker, Idle, Requests, LaunchUnique
  <2>5. ResumeChild'
    BY <1>4 DEF LaunchWorker, Idle, Requests, ResumeChild, LaunchPending
  <2> QED
    BY <2>1, <2>2, <2>3, <2>4, <2>5
<1>5. ASSUME NEW c \in Clients, NEW t \in Tasks, StopChecked(c, t) PROVE Launched'
  <2>1. AbsentRows'
    BY <1>5 DEF StopChecked, AbsentRows
  <2>2. RequestJobs'
    BY <1>5 DEF StopChecked, RequestJobs, NoJob
  <2>3. LaunchPending'
    BY <1>5 DEF StopChecked, LaunchPending
  <2>4. LaunchUnique'
    BY <1>5 DEF StopChecked, LaunchUnique
  <2>5. ResumeChild'
    BY <1>5 DEF StopChecked, ResumeChild
  <2> QED
    BY <2>1, <2>2, <2>3, <2>4, <2>5
<1>6. ASSUME NEW c \in Clients, StopWritten(c) PROVE Launched'
  <2>1. AbsentRows'
    BY <1>6 DEF StopWritten, Idle, AbsentRows, Inserted
  <2>2. RequestJobs'
    BY <1>6 DEF StopWritten, Idle, RequestJobs, NoJob
  <2>3. LaunchPending'
    BY <1>6 DEF StopWritten, Idle, LaunchPending
  <2>4. LaunchUnique'
    BY <1>6 DEF StopWritten, Idle, LaunchUnique
  <2>5. ResumeChild'
    BY <1>6 DEF StopWritten, Idle, ResumeChild
  <2> QED
    BY <2>1, <2>2, <2>3, <2>4, <2>5
<1>7. ASSUME NEW c \in Clients, RequestLost(c) PROVE Launched'
  <2>1. AbsentRows'
    BY <1>7 DEF RequestLost, Idle, AbsentRows
  <2>2. RequestJobs'
    BY <1>7 DEF RequestLost, Idle, RequestJobs, NoJob
  <2>3. LaunchPending'
    BY <1>7 DEF RequestLost, Idle, LaunchPending
  <2>4. LaunchUnique'
    BY <1>7 DEF RequestLost, Idle, LaunchUnique
  <2>5. ResumeChild'
    BY <1>7 DEF RequestLost, Idle, ResumeChild
  <2> QED
    BY <2>1, <2>2, <2>3, <2>4, <2>5
<1>8. ASSUME NEW t \in Tasks, Worker(t) PROVE Launched'
  <2>1. CASE Quiet(t)
    <3>1. AbsentRows'
      BY <2>1 DEF Quiet, AbsentRows
    <3>2. RequestJobs'
      BY <2>1 DEF Quiet, RequestJobs
    <3>3. LaunchPending'
      BY <2>1 DEF Quiet, LaunchPending, Requests, Idle
    <3>4. LaunchUnique'
      BY <2>1 DEF Quiet, LaunchUnique
    <3>5. ResumeChild'
      BY <2>1 DEF Quiet, ResumeChild
    <3> QED
      BY <3>1, <3>2, <3>3, <3>4, <3>5
  <2>2. ASSUME NEW u \in Tasks, ResumeInserted(t, u) PROVE Launched'
    <3>1. AbsentRows'
      BY <2>2 DEF ResumeInserted, Insert, Goto, Successor, Inserted, AbsentRows
    <3>2. RequestJobs'
      BY <2>2 DEF ResumeInserted, Insert, Goto, Successor, Inserted, RequestJobs
    <3>3. LaunchPending'
      BY <2>2 DEF ResumeInserted, Insert, Goto, Successor, Inserted, LaunchPending, NoJob, Requests, Idle
    <3>4. LaunchUnique'
      BY <2>2 DEF ResumeInserted, Insert, Goto, Successor, Inserted, LaunchUnique
    <3>5. ResumeChild'
      BY <2>2 DEF ResumeInserted, Insert, Goto, Successor, Inserted, ResumeChild, AbsentRows, NoJob
    <3> QED
      BY <3>1, <3>2, <3>3, <3>4, <3>5
  <2>3. CASE ResumeLaunched(t)
    <3>1. AbsentRows'
      BY <2>3 DEF ResumeLaunched, AbsentRows
    <3>2. RequestJobs'
      BY <2>3 DEF ResumeLaunched, RequestJobs
    <3>3. LaunchPending'
      BY <2>3 DEF ResumeLaunched, LaunchPending, ResumeChild, Jobs, NoJob, Requests, Idle
    <3>4. LaunchUnique'
      BY <2>3 DEF ResumeLaunched, LaunchUnique
    <3>5. ResumeChild'
      BY <2>3 DEF ResumeLaunched, ResumeChild, Jobs, NoJob
    <3> QED
      BY <3>1, <3>2, <3>3, <3>4, <3>5
  <2> QED
    BY <1>8, <2>1, <2>2, <2>3, WorkerForms
<1>9. ASSUME NEW t \in Tasks, WorkerKilled(t) PROVE Launched'
  BY <1>9 DEF WorkerKilled, Goto, AbsentRows, RequestJobs, LaunchPending, LaunchUnique, ResumeChild
<1>10. CASE SweepReads
  BY <1>10 DEF SweepReads, AbsentRows, RequestJobs, LaunchPending, LaunchUnique, ResumeChild
<1>11. CASE SweepWrites
  BY <1>11 DEF SweepWrites, Inserted, AbsentRows, RequestJobs, LaunchPending, LaunchUnique, ResumeChild
<1>12. CASE UNCHANGED vars
  BY <1>12 DEF vars, AbsentRows, RequestJobs, LaunchPending, LaunchUnique, ResumeChild
<1> QED
  BY <1>1, <1>2, <1>3, <1>4, <1>5, <1>6, <1>7, <1>8, <1>9, <1>10, <1>11, <1>12 DEF Next

(* The invariant of the system that the theorems below rest on. *)
Inv == TypeOK /\ Inserted /\ SlotHeld /\ Launched

(* The four parts hold together in every reachable state. *)
LEMMA InvHolds == Spec => []Inv
<1>1. Init => Inv
  BY TypeInit, InsertedInit, SlotHeldInit, LaunchedInit DEF Inv
<1>2. Inv /\ [Next]_vars => Inv'
  BY TypeStep, InsertedStep, SlotHeldStep, LaunchedStep DEF Inv
<1> QED
  BY <1>1, <1>2, PTL DEF Spec

(* Every variable of the task table, the workers and the requests stays      *)
(* within its type, whatever is killed or restarted.                        *)
THEOREM TypeCorrect == Spec => []TypeOK
  BY InvHolds, PTL DEF Inv

(* No way out of a worker leaves its row "running": a slot is lost only with *)
(* a worker that is killed.                                                *)
THEOREM SlotsAreGivenBack == Spec => []SlotHeld
  BY InvHolds, PTL DEF Inv

(* What a worker does to the set of running rows when write statements       *)
(* exclude each other: it adds its own row when a slot is free, or none.    *)
NoClaiming == \A t \in Tasks : pc[t] # "claiming"

Frugal(t) ==
    /\ NoClaiming'
    /\ \/ Running' \subseteq Running
       \/ Running' \subseteq Running \union {t} /\ Cardinality(Running) < MaxRunning

(* A worker's step under one lock of writers is frugal. *)
LEMMA WorkerFrugal ==
    ASSUME TypeOK, SerialWrites, NoClaiming, NEW t \in Tasks, Worker(t)
    PROVE  Frugal(t)
<1> USE DEF TypeOK, NoClaiming, Frugal, Running
<1>1. CASE WorkerStart(t)
  BY <1>1 DEF WorkerStart, Goto
<1>2. CASE AwaitSlot(t)
  BY <1>2 DEF AwaitSlot, Goto, CheckCancelled
<1>3. CASE SlotGone(t)
  BY <1>3 DEF SlotGone, Goto
<1>4. CASE ClaimSlot(t)
  BY <1>4 DEF ClaimSlot, Goto, SlotTaken, SlotRefused, MaySlot
<1>5. CASE ClaimCounted(t)
  BY <1>5 DEF ClaimCounted, SlotRefused, Goto, MaySlot
<1>6. CASE ClaimCommitted(t)
  BY <1>6 DEF ClaimCommitted, Goto, SlotTaken, SlotRefused
<1>7. CASE ReportPosition(t)
  BY <1>7 DEF ReportPosition, Goto
<1>8. CASE Admitted(t)
  BY <1>8 DEF Admitted, Goto, CheckCancelled
<1>9. CASE RunOpens(t)
  BY <1>9 DEF RunOpens, Goto
<1>10. CASE RunRejected(t)
  BY <1>10 DEF RunRejected, Goto
<1>11. CASE RunBegins(t)
  BY <1>11 DEF RunBegins, Goto, CheckAndReport
<1>12. CASE EvidenceFetched(t)
  BY <1>12 DEF EvidenceFetched, Goto, CheckAndReport
<1>13. CASE DraftGenerated(t)
  BY <1>13 DEF DraftGenerated, Goto, CheckAndReport
<1>14. CASE SaveChecked(t)
  BY <1>14 DEF SaveChecked, Goto, CheckCancelled
<1>15. CASE Merged(t)
  BY <1>15 DEF Merged, Goto
<1>16. CASE MergeRejected(t)
  BY <1>16 DEF MergeRejected, Goto
<1>17. CASE RunRaises(t)
  BY <1>17 DEF RunRaises, Goto
<1>18. CASE EntryRaises(t)
  BY <1>18 DEF EntryRaises, Goto
<1>19. CASE HandlerChecks(t)
  BY <1>19 DEF HandlerChecks, Goto, CheckCancelled
<1>20. CASE MarkChecks(t)
  BY <1>20 DEF MarkChecks, Goto, AfterMark
<1>21. CASE MarkedFailed(t)
  BY <1>21 DEF MarkedFailed, Goto, AfterMark
<1>22. CASE ResumeChecked(t)
  BY <1>22 DEF ResumeChecked, Goto
<1>23. CASE ResumeLaunched(t)
  BY <1>23 DEF ResumeLaunched, Goto
<1>24. ASSUME NEW u \in Tasks, ResumeInserted(t, u) PROVE Frugal(t)
  BY <1>24 DEF ResumeInserted, Insert, Goto
<1> QED
  BY <1>1, <1>2, <1>3, <1>4, <1>5, <1>6, <1>7, <1>8, <1>9, <1>10, <1>11, <1>12, <1>13, <1>14, <1>15, <1>16, <1>17, <1>18, <1>19, <1>20, <1>21, <1>22, <1>23, <1>24 DEF Worker

(* Where write statements exclude each other (SQLite), the claim statement   *)
(* keeps the number of running rows within max_concurrent_draft_generations. *)
THEOREM SlotLimitHolds == SerialWrites => (Spec => []SlotLimit)
<1> SUFFICES ASSUME SerialWrites PROVE Spec => []SlotLimit
  OBVIOUS
<1> USE ConstantsAssumption
<1> DEFINE Limit == NoClaiming /\ SlotLimit
<1>1. Init => Limit
  <2> SUFFICES ASSUME Init PROVE Limit
    OBVIOUS
  <2>1. Running = {}
    BY DEF Init, Running
  <2> QED
    BY <2>1, FS_EmptySet DEF Init, SlotLimit, NoClaiming
<1>2. Inv /\ Limit /\ [Next]_vars => Limit'
  <2> SUFFICES ASSUME Inv, Limit, [Next]_vars PROVE Limit'
    OBVIOUS
  <2>1. IsFiniteSet(Running) /\ Cardinality(Running) \in Nat
    BY FS_Subset, FS_CardinalityType DEF Running
  <2>2. ASSUME NoClaiming', Running' \subseteq Running PROVE Limit'
    BY <2>1, <2>2, FS_Subset, FS_CardinalityType DEF SlotLimit
  <2>3. ASSUME NEW t \in Tasks, NoClaiming', Running' \subseteq Running \union {t},
               Cardinality(Running) < MaxRunning
        PROVE  Limit'
    <3>1. /\ IsFiniteSet(Running \union {t})
          /\ \/ Cardinality(Running \union {t}) = Cardinality(Running)
             \/ Cardinality(Running \union {t}) = Cardinality(Running) + 1
      <4>1. CASE t \in Running
        <5>1. Running \union {t} = Running
          BY <4>1
        <5> QED
          BY <2>1, <5>1
      <4>2. CASE t \notin Running
        BY <2>1, <4>2, FS_AddElement
      <4> QED
        BY <4>1, <4>2
    <3>2. Cardinality(Running') \in Nat /\ Cardinality(Running') <= Cardinality(Running \union {t})
      BY <2>3, <3>1, FS_Subset, FS_CardinalityType
    <3> QED
      BY <2>1, <2>3, <3>1, <3>2 DEF SlotLimit
  <2>4. ASSUME NEW t \in Tasks, Worker(t) PROVE Limit'
    BY <2>2, <2>3, <2>4, WorkerFrugal DEF Frugal, Inv
  <2>5. ASSUME NEW t \in Tasks, WorkerKilled(t) PROVE Limit'
    BY <2>5, <2>2 DEF WorkerKilled, Goto, Running, NoClaiming, Inv, TypeOK
  <2>6. ASSUME NEW c \in Clients,
               StartChecked(c) \/ LaunchWorker(c) \/ StopWritten(c) \/ RequestLost(c)
        PROVE  Limit'
    BY <2>6, <2>2 DEF StartChecked, LaunchWorker, StopWritten, RequestLost, Running,
       NoClaiming, Inv, TypeOK
  <2>7. ASSUME NEW c \in Clients, NEW t \in Tasks,
               RetryChecked(c, t) \/ InsertRow(c, t) \/ StopChecked(c, t)
        PROVE  Limit'
    BY <2>7, <2>2 DEF RetryChecked, InsertRow, Insert, StopChecked, Running,
       NoClaiming, Inv, TypeOK
  <2>8. CASE SweepReads \/ SweepWrites
    BY <2>8, <2>2 DEF SweepReads, SweepWrites, Running, NoClaiming, Inv, TypeOK
  <2>9. CASE UNCHANGED vars
    BY <2>9, <2>2 DEF vars, Running, NoClaiming
  <2> QED
    BY <2>4, <2>5, <2>6, <2>7, <2>8, <2>9 DEF Next
<1> QED
  BY <1>1, <1>2, InvHolds, PTL DEF Spec

-----------------------------------------------------------------------------
(* Stopped rows.  A row enters "halted" when its worker still has a check of *)
(* the cancellation flag ahead; from there every path leads to the exit.     *)
Halting ==
    \A t \in halted :
        /\ status[t] = "cancelled"
        /\ t \notin merged
        /\ t \notin sweep
        /\ \/ pc[t] \in Attentive \union {"done", "dead"}
           \/ pc[t] = "mark" /\ ~flaky[t]

MergedLast == \A t \in merged : pc[t] = "done"

HaltedChildless ==
    \A t \in halted, u \in Tasks : ~(job[u].how = "resume" /\ job[u].of = t)

Halts == Halting /\ MergedLast /\ HaltedChildless

(* What a step of the worker of row t does to that row, if it was stopped.   *)
Heeds(t) ==
    /\ t \in halted => /\ status'[t] = "cancelled"
                       /\ \/ pc'[t] \in Attentive \union {"done", "dead"}
                          \/ pc'[t] = "mark" /\ ~flaky'[t]
                       /\ t \notin merged'
    /\ merged' \subseteq merged \union {t}
    /\ t \in merged' => pc'[t] = "done"
    /\ \A u \in Tasks \ {t} : flaky'[u] = flaky[u]

(* A worker's step heeds the stop of its own task. *)
LEMMA WorkerHeeds ==
    ASSUME TypeOK, Halting, MergedLast, NEW t \in Tasks, Worker(t)
    PROVE  Heeds(t)
<1> USE DEF TypeOK, Halting, MergedLast, Heeds, Attentive, Live, Entering, Working, Failing,
        Resuming, Terminal
<1>1. CASE WorkerStart(t)
  BY <1>1 DEF WorkerStart, Goto
<1>2. CASE AwaitSlot(t)
  BY <1>2 DEF AwaitSlot, Goto, CheckCancelled
<1>3. CASE SlotGone(t)
  BY <1>3 DEF SlotGone, Goto
<1>4. CASE ClaimSlot(t)
  BY <1>4 DEF ClaimSlot, Goto, SlotTaken, SlotRefused, MaySlot
<1>5. CASE ClaimCounted(t)
  BY <1>5 DEF ClaimCounted, SlotRefused, Goto, MaySlot
<1>6. CASE ClaimCommitted(t)
  BY <1>6 DEF ClaimCommitted, Goto, SlotTaken, SlotRefused
<1>7. CASE ReportPosition(t)
  BY <1>7 DEF ReportPosition, Goto
<1>8. CASE Admitted(t)
  BY <1>8 DEF Admitted, Goto, CheckCancelled
<1>9. CASE RunOpens(t)
  BY <1>9 DEF RunOpens, Goto
<1>10. CASE RunRejected(t)
  BY <1>10 DEF RunRejected, Goto
<1>11. CASE RunBegins(t)
  BY <1>11 DEF RunBegins, Goto, CheckAndReport
<1>12. CASE EvidenceFetched(t)
  BY <1>12 DEF EvidenceFetched, Goto, CheckAndReport
<1>13. CASE DraftGenerated(t)
  BY <1>13 DEF DraftGenerated, Goto, CheckAndReport
<1>14. CASE SaveChecked(t)
  BY <1>14 DEF SaveChecked, Goto, CheckCancelled
<1>15. CASE Merged(t)
  BY <1>15 DEF Merged, Goto
<1>16. CASE MergeRejected(t)
  BY <1>16 DEF MergeRejected, Goto
<1>17. CASE RunRaises(t)
  BY <1>17 DEF RunRaises, Goto
<1>18. CASE EntryRaises(t)
  BY <1>18 DEF EntryRaises, Goto
<1>19. CASE HandlerChecks(t)
  BY <1>19 DEF HandlerChecks, Goto, CheckCancelled
<1>20. CASE MarkChecks(t)
  BY <1>20 DEF MarkChecks, Goto, AfterMark
<1>21. CASE MarkedFailed(t)
  BY <1>21 DEF MarkedFailed, Goto, AfterMark
<1>22. CASE ResumeChecked(t)
  BY <1>22 DEF ResumeChecked, Goto
<1>23. CASE ResumeLaunched(t)
  BY <1>23 DEF ResumeLaunched, Goto
<1>24. ASSUME NEW u \in Tasks, ResumeInserted(t, u) PROVE Heeds(t)
  BY <1>24 DEF ResumeInserted, Insert, Goto
<1> QED
  BY <1>1, <1>2, <1>3, <1>4, <1>5, <1>6, <1>7, <1>8, <1>9, <1>10, <1>11, <1>12, <1>13, <1>14, <1>15, <1>16, <1>17, <1>18, <1>19, <1>20, <1>21, <1>22, <1>23, <1>24 DEF Worker

(* Every step keeps a stopped task stopped and unmerged. *)
LEMMA HaltsStep == Inv /\ Halts /\ [Next]_vars => Halts'
<1> SUFFICES ASSUME Inv, Halts, [Next]_vars PROVE Halts'
  OBVIOUS
<1> USE ConstantsAssumption DEF Inv, TypeOK, Halts
<1>1. ASSUME NEW c \in Clients, StartChecked(c) PROVE Halts'
  <2>1. Halting'
    BY <1>1 DEF StartChecked, Jobs, Requests, Halting
  <2>2. MergedLast'
    BY <1>1 DEF StartChecked, Jobs, Requests, MergedLast
  <2>3. HaltedChildless'
    BY <1>1 DEF StartChecked, Jobs, Requests, HaltedChildless
  <2> QED
    BY <2>1, <2>2, <2>3
<1>2. ASSUME NEW c \in Clients, NEW t \in Tasks, RetryChecked(c, t) PROVE Halts'
  <2>1. Halting'
    BY <1>2 DEF RetryChecked, RetryJob, Successor, Jobs, Requests, Halting
  <2>2. MergedLast'
    BY <1>2 DEF RetryChecked, RetryJob, Successor, Jobs, Requests, MergedLast
  <2>3. HaltedChildless'
    BY <1>2 DEF RetryChecked, RetryJob, Successor, Jobs, Requests, HaltedChildless
  <2> QED
    BY <2>1, <2>2, <2>3
<1>3. ASSUME NEW c \in Clients, NEW t \in Tasks, InsertRow(c, t) PROVE Halts'
  <2>1. Halting'
    BY <1>3 DEF InsertRow, Insert, Requests, Idle, Halting, Inserted
  <2>2. MergedLast'
    BY <1>3 DEF InsertRow, Insert, Requests, Idle, MergedLast, Inserted
  <2>3. HaltedChildless'
    BY <1>3 DEF InsertRow, Insert, Requests, Idle, HaltedChildless, Launched, RequestJobs
  <2> QED
    BY <2>1, <2>2, <2>3
<1>4. ASSUME NEW c \in Clients, LaunchWorker(c) PROVE Halts'
  <2>1. Halting'
    BY <1>4 DEF LaunchWorker, Requests, Idle, Halting, Launched, LaunchPending, Attentive
  <2>2. MergedLast'
    BY <1>4 DEF LaunchWorker, Requests, Idle, MergedLast, Launched, LaunchPending
  <2>3. HaltedChildless'
    BY <1>4 DEF LaunchWorker, Requests, Idle, HaltedChildless
  <2> QED
    BY <2>1, <2>2, <2>3
<1>5. ASSUME NEW c \in Clients, NEW t \in Tasks, StopChecked(c, t) PROVE Halts'
  <2>1. Halting'
    BY <1>5 DEF StopChecked, Requests, Halting
  <2>2. MergedLast'
    BY <1>5 DEF StopChecked, Requests, MergedLast
  <2>3. HaltedChildless'
    BY <1>5 DEF StopChecked, Requests, HaltedChildless
  <2> QED
    BY <2>1, <2>2, <2>3
<1>6. ASSUME NEW c \in Clients, StopWritten(c) PROVE Halts'
  <2>1. Halting'
    BY <1>6 DEF StopWritten, Requests, Idle, Halting, MergedLast, Attentive
  <2>2. MergedLast'
    BY <1>6 DEF StopWritten, Requests, Idle, MergedLast
  <2>3. HaltedChildless'
    BY <1>6 DEF StopWritten, Requests, Idle, HaltedChildless, Launched, ResumeChild, Attentive
  <2> QED
    BY <2>1, <2>2, <2>3
<1>7. ASSUME NEW c \in Clients, RequestLost(c) PROVE Halts'
  <2>1. Halting'
    BY <1>7 DEF RequestLost, Requests, Idle, Halting
  <2>2. MergedLast'
    BY <1>7 DEF RequestLost, Requests, Idle, MergedLast
  <2>3. HaltedChildless'
    BY <1>7 DEF RequestLost, Requests, Idle, HaltedChildless
  <2> QED
    BY <2>1, <2>2, <2>3
<1>8. ASSUME NEW t \in Tasks, Worker(t) PROVE Halts'
  <2>1. CASE Quiet(t)
    <3>1. Halting'
      BY <2>1, <1>8, WorkerHeeds DEF Quiet, Heeds, Halting, MergedLast
    <3>2. MergedLast'
      BY <2>1, <1>8, WorkerHeeds DEF Quiet, Heeds, MergedLast, Halting
    <3>3. HaltedChildless'
      BY <2>1, <1>8, WorkerHeeds DEF Quiet, Heeds, HaltedChildless
    <3> QED
      BY <3>1, <3>2, <3>3
  <2>2. ASSUME NEW u \in Tasks, ResumeInserted(t, u) PROVE Halts'
    <3>1. Halting'
      BY <2>2, <1>8, WorkerHeeds DEF ResumeInserted, Insert, Goto, Successor, Heeds, Halting, Inserted, MergedLast
    <3>2. MergedLast'
      BY <2>2, <1>8, WorkerHeeds DEF ResumeInserted, Insert, Goto, Successor, Heeds, MergedLast, Halting, Inserted
    <3>3. HaltedChildless'
      BY <2>2, <1>8, WorkerHeeds DEF ResumeInserted, Insert, Goto, Successor, Heeds, HaltedChildless, Halting, Attentive
    <3> QED
      BY <3>1, <3>2, <3>3
  <2>3. CASE ResumeLaunched(t)
    <3>1. Halting'
      BY <2>3 DEF ResumeLaunched, Halting, Launched, ResumeChild, Attentive
    <3>2. MergedLast'
      BY <2>3 DEF ResumeLaunched, MergedLast, Launched, ResumeChild
    <3>3. HaltedChildless'
      BY <2>3 DEF ResumeLaunched, HaltedChildless
    <3> QED
      BY <3>1, <3>2, <3>3
  <2> QED
    BY <1>8, <2>1, <2>2, <2>3, WorkerForms DEF Inv
<1>9. ASSUME NEW t \in Tasks, WorkerKilled(t) PROVE Halts'
  <2>1. Halting'
    BY <1>9 DEF WorkerKilled, Goto, Halting
  <2>2. MergedLast'
    BY <1>9 DEF WorkerKilled, Goto, MergedLast, Live, Entering, Working, Failing, Resuming
  <2>3. HaltedChildless'
    BY <1>9 DEF WorkerKilled, Goto, HaltedChildless
  <2> QED
    BY <2>1, <2>2, <2>3
<1>10. CASE SweepReads
  <2>1. Halting'
    BY <1>10 DEF SweepReads, Halting, Active
  <2>2. MergedLast'
    BY <1>10 DEF SweepReads, MergedLast
  <2>3. HaltedChildless'
    BY <1>10 DEF SweepReads, HaltedChildless
  <2> QED
    BY <2>1, <2>2, <2>3
<1>11. CASE SweepWrites
  <2>1. Halting'
    BY <1>11 DEF SweepWrites, Halting
  <2>2. MergedLast'
    BY <1>11 DEF SweepWrites, MergedLast
  <2>3. HaltedChildless'
    BY <1>11 DEF SweepWrites, HaltedChildless
  <2> QED
    BY <2>1, <2>2, <2>3
<1>12. CASE UNCHANGED vars
  <2>1. Halting'
    BY <1>12 DEF vars, Halting
  <2>2. MergedLast'
    BY <1>12 DEF vars, MergedLast
  <2>3. HaltedChildless'
    BY <1>12 DEF vars, HaltedChildless
  <2> QED
    BY <2>1, <2>2, <2>3
<1> QED
  BY <1>1, <1>2, <1>3, <1>4, <1>5, <1>6, <1>7, <1>8, <1>9, <1>10, <1>11, <1>12 DEF Next

(* A stop that finds a check ahead of the worker is final: the row stays     *)
(* cancelled, its draft is never merged and no automatic resume follows it.  *)
THEOREM StopsAreFinal == Spec => []EarlyStopFinal
<1>1. Init => Halts
  BY DEF Init, Halts, Halting, MergedLast, HaltedChildless
<1>2. Halts => EarlyStopFinal
  BY DEF Halts, Halting, HaltedChildless, EarlyStopFinal
<1> QED
  BY <1>1, <1>2, HaltsStep, InvHolds, PTL DEF Spec

-----------------------------------------------------------------------------
(* Conflicting rows.  The conflict check and the insert of the row are two    *)
(* sessions, and a resume inserts without a check: the check is good for as  *)
(* long as nobody else inserts in between.                                  *)
OneRequest == \A c, d \in Clients : c = d

Separate ==
    \A c \in Clients :
        req[c].at = "insert" => Conflicts(req[c].job.dom, req[c].job.scope) = {}
NoResume == \A t \in Tasks : pc[t] # "insert"

Apart == NoConflict /\ Separate /\ NoResume

(* No row becomes active by the step, and none changes what it asks for. *)
Calm ==
    /\ UNCHANGED job
    /\ \A t \in Tasks : status'[t] \in Active => status[t] \in Active

(* A calm step brings no row in the way of another, or of a request. *)
LEMMA CalmKeepsApart ==
    ASSUME Apart, Calm, NoResume',
           \A c \in Clients : req'[c].at = "insert" =>
               req'[c] = req[c] \/ Conflicts(req'[c].job.dom, req'[c].job.scope) = {}
    PROVE  Apart'
<1>1. NoConflict'
  BY DEF Apart, Calm, NoConflict, Active
<1>2. \A dom, scope : (Conflicts(dom, scope))' \subseteq Conflicts(dom, scope)
  BY DEF Calm, Conflicts
<1>3. ASSUME NEW c \in Clients, req'[c].at = "insert"
      PROVE  (Conflicts(req[c].job.dom, req[c].job.scope))' = {}
  <2>1. Conflicts(req'[c].job.dom, req'[c].job.scope) = {}
    BY <1>3 DEF Apart, Separate
  <2>2. (Conflicts(req[c].job.dom, req[c].job.scope))'
          \subseteq Conflicts(req'[c].job.dom, req'[c].job.scope)
    BY <1>3 DEF Calm, Conflicts
  <2> QED
    BY <2>1, <2>2
<1> QED
  BY <1>1, <1>3 DEF Apart, Separate

(* A request that checked inserts a row that nothing stands in the way of,   *)
(* when it is the only one.                                                *)
LEMMA InsertKeepsApart ==
    ASSUME OneRequest, Inv, Apart, NEW c \in Clients, NEW t \in Tasks, InsertRow(c, t)
    PROVE  Apart'
<1> USE ConstantsAssumption DEF Inv, TypeOK
<1>1. /\ req[c].at = "insert" /\ req[c].job \in Jobs
      /\ Conflicts(req[c].job.dom, req[c].job.scope) = {}
  <2>1. req[c].at = "insert" /\ req[c] \in Requests
    BY DEF InsertRow
  <2>2. req[c].job \in Jobs
    BY <2>1 DEF Requests, Idle
  <2> QED
    BY <2>1, <2>2 DEF Apart, Separate
<1>2. /\ \A u \in Tasks \ {t} : status'[u] = status[u] /\ job'[u] = job[u]
      /\ job'[t] = req[c].job
  BY DEF InsertRow, Insert
<1>3. ASSUME NEW u \in Tasks \ {t}, status[u] \in Active, job[u].dom = job'[t].dom
      PROVE  {job[u].scope, job'[t].scope} = {"objects", "relations"}
  <2>1. job[u] \in Jobs
    BY <1>3 DEF Active
  <2>2. req[c].job.scope # "full" /\ job[u].scope \notin {"full", req[c].job.scope}
    BY <1>1, <1>2, <1>3 DEF Conflicts
  <2>3. /\ job[u].scope \in {"full", "objects", "relations"}
        /\ req[c].job.scope \in {"full", "objects", "relations"}
    BY <1>1, <2>1 DEF Jobs
  <2> QED
    BY <1>2, <2>2, <2>3
<1>4. NoConflict'
  <2> SUFFICES ASSUME NEW u \in Tasks, NEW v \in Tasks, u # v,
                      status'[u] \in Active, status'[v] \in Active, job'[u].dom = job'[v].dom
               PROVE  {job'[u].scope, job'[v].scope} = {"objects", "relations"}
    BY DEF NoConflict
  <2>1. CASE u = t
    <3>1. {job[v].scope, job'[t].scope} = {"objects", "relations"}
      BY <1>2, <1>3, <2>1
    <3>2. job'[v] = job[v]
      BY <1>2, <2>1
    <3> QED
      BY ONLY <2>1, <3>1, <3>2
  <2>2. CASE v = t
    BY <1>2, <1>3, <2>2
  <2>3. CASE u # t /\ v # t
    BY <1>2, <2>3 DEF Apart, NoConflict
  <2> QED
    BY <2>1, <2>2, <2>3
<1>5. Separate'
  BY DEF OneRequest, InsertRow, Separate
<1>6. NoResume'
  BY DEF InsertRow, Apart, NoResume
<1> QED
  BY <1>4, <1>5, <1>6 DEF Apart

(* No step brings two rows of one domain into each other's way. *)
LEMMA ApartStep ==
    ASSUME OneRequest, MaxResumes = 0, Inv, Apart, [Next]_vars
    PROVE  Apart'
<1> USE ConstantsAssumption DEF Inv, TypeOK, Apart, Calm, NoResume, Active
<1>1. ASSUME NEW c \in Clients, StartChecked(c) PROVE Apart'
  BY <1>1, CalmKeepsApart DEF StartChecked
<1>2. ASSUME NEW c \in Clients, NEW t \in Tasks, RetryChecked(c, t) PROVE Apart'
  BY <1>2, CalmKeepsApart DEF RetryChecked, RetryJob, Successor
<1>3. ASSUME NEW c \in Clients, NEW t \in Tasks, InsertRow(c, t) PROVE Apart'
  BY <1>3, InsertKeepsApart
<1>4. ASSUME NEW c \in Clients, LaunchWorker(c) PROVE Apart'
  BY <1>4, CalmKeepsApart DEF LaunchWorker, Idle
<1>5. ASSUME NEW c \in Clients, NEW t \in Tasks, StopChecked(c, t) PROVE Apart'
  BY <1>5, CalmKeepsApart DEF StopChecked
<1>6. ASSUME NEW c \in Clients, StopWritten(c) PROVE Apart'
  BY <1>6, CalmKeepsApart DEF StopWritten, Idle, Inserted
<1>7. ASSUME NEW c \in Clients, RequestLost(c) PROVE Apart'
  BY <1>7, CalmKeepsApart DEF RequestLost, Idle
<1>8. ASSUME NEW t \in Tasks, Worker(t) PROVE Apart'
  <2>1. CASE Quiet(t)
    <3>1. PriorResumes(t) \subseteq Tasks
      BY DEF PriorResumes
    <3>2. Cardinality(PriorResumes(t)) \in Nat
      BY <3>1, FS_Subset, FS_CardinalityType
    <3>3. pc'[t] # "insert"
      BY <2>1, <3>2 DEF Quiet
    <3> QED
      BY <2>1, <3>3, CalmKeepsApart DEF Quiet
  <2>2. ASSUME NEW u \in Tasks, ResumeInserted(t, u) PROVE Apart'
    BY <2>2 DEF ResumeInserted
  <2>3. CASE ResumeLaunched(t)
    BY <2>3, CalmKeepsApart DEF ResumeLaunched
  <2> QED
    BY <1>8, <2>1, <2>2, <2>3, WorkerForms
<1>9. ASSUME NEW t \in Tasks, WorkerKilled(t) PROVE Apart'
  BY <1>9, CalmKeepsApart DEF WorkerKilled, Goto
<1>10. CASE SweepReads
  BY <1>10, CalmKeepsApart DEF SweepReads
<1>11. CASE SweepWrites
  BY <1>11, CalmKeepsApart DEF SweepWrites
<1>12. CASE UNCHANGED vars
  BY <1>12, CalmKeepsApart DEF vars
<1> QED
  BY <1>1, <1>2, <1>3, <1>4, <1>5, <1>6, <1>7, <1>8, <1>9, <1>10, <1>11, <1>12 DEF Next

(* One request at a time and no automatic resume: _ensure_no_conflicting_task *)
(* keeps two active rows of a domain apart, whatever stops, sweeps, crashes  *)
(* and restarts do in between.  The runs show that it takes both conditions. *)
THEOREM ConflictsAreKeptOut == OneRequest /\ MaxResumes = 0 => (Spec => []NoConflict)
<1> SUFFICES ASSUME OneRequest, MaxResumes = 0 PROVE Spec => []NoConflict
  OBVIOUS
<1>1. Init => Apart
  BY DEF Init, Apart, NoConflict, Separate, NoResume, Active, Idle
<1>2. Inv /\ Apart /\ [Next]_vars => Apart'
  BY ApartStep
<1>3. Apart => NoConflict
  BY DEF Apart
<1> QED
  BY <1>1, <1>2, <1>3, InvHolds, PTL DEF Spec

-----------------------------------------------------------------------------
(* The table as a queue.  Each step admits a row to a free slot, brings a new *)
(* one in, or gives some rows up; none of them brings a row back.           *)
Waiting == {t \in Tasks : status[t] = "queued"}
Over == {t \in Tasks : status[t] \in Terminal}

(* Rows that the step gives up are the only ones whose place changes. *)
LEMMA GivingUpLeaves ==
    ASSUME TypeOK, TypeOK', NEW gone \in SUBSET Tasks,
           \A t \in gone : status[t] \in Active /\ status'[t] \in Terminal,
           \A t \in Tasks \ gone : \/ status'[t] = status[t]
                                   \/ status[t] \in Terminal /\ status'[t] \in Terminal
    PROVE  Queue!Next
<1> USE DEF TypeOK, Active, Terminal, Waiting, Over, Running
<1>1. gone \subseteq Waiting \union Running
  OBVIOUS
<1>2. Waiting' = Waiting \ gone
  OBVIOUS
<1>3. Running' = Running \ gone
  OBVIOUS
<1>4. Over' = Over \union gone
  OBVIOUS
<1>5. Queue!Leave(gone)
  BY <1>1, <1>2, <1>3, <1>4 DEF Queue!Leave
<1> QED
  BY <1>5 DEF Queue!Next

(* A row that is inserted comes into the queue. *)
LEMMA InsertEnters ==
    ASSUME TypeOK, NEW t \in Tasks, status[t] = "absent",
           status' = [status EXCEPT ![t] = "queued"]
    PROVE  Queue!Next
<1> USE DEF TypeOK, Active, Terminal, Waiting, Over, Running
<1>1. t \notin Waiting \union Running \union Over
  OBVIOUS
<1>2. Waiting' = Waiting \union {t}
  OBVIOUS
<1>3. Running' = Running /\ Over' = Over
  OBVIOUS
<1>4. Queue!Enter(t)
  BY <1>1, <1>2, <1>3 DEF Queue!Enter
<1> QED
  BY <1>4 DEF Queue!Next

(* A row that takes a slot is admitted. *)
LEMMA SlotAdmits ==
    ASSUME TypeOK, NEW t \in Tasks, status[t] = "queued", Cardinality(Running) < MaxRunning,
           status' = [status EXCEPT ![t] = "running"]
    PROVE  Queue!Next
<1> USE DEF TypeOK, Active, Terminal, Waiting, Over, Running
<1>1. t \in Waiting /\ Waiting' = Waiting \ {t}
  OBVIOUS
<1>2. Running' = Running \union {t}
  OBVIOUS
<1>3. Over' = Over
  OBVIOUS
<1>4. Queue!Cardinality(Running) = Cardinality(Running)
  BY DEF Queue!Cardinality, Cardinality
<1>5. Queue!Admit(t)
  BY <1>1, <1>2, <1>3, <1>4 DEF Queue!Admit
<1> QED
  BY <1>5 DEF Queue!Next

(* What a worker does to its own row is a step of the queue. *)
LEMMA WorkerQueues ==
    ASSUME SerialWrites, Inv, TypeOK', NoClaiming, NEW t \in Tasks, Worker(t)
    PROVE  Queue!Next
<1> USE DEF Inv
<1>1. CASE Quiet(t)
  <2> USE <1>1 DEF TypeOK
  <2>1. \A u \in Tasks \ {t} : status'[u] = status[u]
    BY DEF Quiet
  <2>2. status[t] # "absent" /\ status'[t] # "absent"
    BY DEF Quiet, Inserted, Live, Entering, Working, Failing, Resuming
  <2>3. CASE status[t] = "queued" /\ status'[t] = "running"
    <3>1. status' = [status EXCEPT ![t] = "running"]
      BY <2>1, <2>3
    <3>2. t \in Running' /\ t \notin Running
      BY <2>3 DEF Running
    <3>3. Cardinality(Running) < MaxRunning
      BY <3>2, WorkerFrugal DEF Frugal
    <3> QED
      BY <2>3, <3>1, <3>3, SlotAdmits
  <2>4. CASE status[t] \in Active /\ status'[t] \in Terminal
    <3>1. /\ {t} \in SUBSET Tasks
          /\ \A u \in {t} : status[u] \in Active /\ status'[u] \in Terminal
      BY <2>4
    <3> QED
      BY <2>1, <3>1, GivingUpLeaves
  <2>5. CASE \/ status'[t] = status[t]
             \/ status[t] \in Terminal /\ status'[t] \in Terminal
    <3>1. \A u \in Tasks : \/ status'[u] = status[u]
                           \/ status[u] \in Terminal /\ status'[u] \in Terminal
      BY <2>1, <2>5
    <3>2. {} \in SUBSET Tasks /\ Tasks \ {} = Tasks
      OBVIOUS
    <3> QED
      BY <3>1, <3>2, GivingUpLeaves
  <2>6. \/ status[t] = "queued" /\ status'[t] = "running"
        \/ status[t] \in Active /\ status'[t] \in Terminal
        \/ status'[t] = status[t]
        \/ status[t] \in Terminal /\ status'[t] \in Terminal
    BY <2>2 DEF Quiet, Active, Terminal
  <2> QED
    BY <2>3, <2>4, <2>5, <2>6
<1>2. ASSUME NEW u \in Tasks, ResumeInserted(t, u) PROVE Queue!Next
  BY <1>2, InsertEnters DEF ResumeInserted, Insert
<1>3. CASE ResumeLaunched(t)
  <2>1. status' = status /\ {} \in SUBSET Tasks
    BY <1>3 DEF ResumeLaunched
  <2> QED
    BY <2>1, GivingUpLeaves
<1> QED
  BY <1>1, <1>2, <1>3, WorkerForms

(* Every step of the table is one that SlotQueue allows. *)
LEMMA StepKeepsQueue ==
    ASSUME SerialWrites, Inv, TypeOK', NoClaiming, [Next]_vars
    PROVE  [Queue!Next]_(Queue!vars)
<1>1. ASSUME status' = status PROVE UNCHANGED Queue!vars
  BY <1>1 DEF Queue!vars, Running
<1>2. ASSUME NEW c \in Clients,
             StartChecked(c) \/ LaunchWorker(c) \/ RequestLost(c)
      PROVE  status' = status
  BY <1>2 DEF StartChecked, LaunchWorker, RequestLost
<1>3. ASSUME NEW c \in Clients, NEW t \in Tasks, RetryChecked(c, t) \/ StopChecked(c, t)
      PROVE  status' = status
  BY <1>3 DEF RetryChecked, StopChecked
<1>4. ASSUME NEW c \in Clients, NEW t \in Tasks, InsertRow(c, t) PROVE Queue!Next
  BY <1>4, InsertEnters DEF InsertRow, Insert, Inv
<1>5. ASSUME NEW c \in Clients, StopWritten(c) PROVE Queue!Next
  <2> DEFINE t == req[c].task
  <2>1. t \in Tasks /\ status[t] # "absent" /\ status' = [status EXCEPT ![t] = "cancelled"]
    BY <1>5 DEF StopWritten, Inv, Inserted, TypeOK, Requests, Idle
  <2>2. status'[t] = "cancelled" /\ \A u \in Tasks \ {t} : status'[u] = status[u]
    BY <2>1 DEF Inv, TypeOK
  <2>3. CASE status[t] \in Active
    <3>1. /\ {t} \in SUBSET Tasks
          /\ \A u \in {t} : status[u] \in Active /\ status'[u] \in Terminal
      BY <2>1, <2>2, <2>3 DEF Terminal
    <3> QED
      BY <2>2, <3>1, GivingUpLeaves DEF Inv
  <2>4. CASE status[t] \in Terminal
    <3>1. /\ {} \in SUBSET Tasks
          /\ \A u \in Tasks : \/ status'[u] = status[u]
                              \/ status[u] \in Terminal /\ status'[u] \in Terminal
      BY <2>2, <2>4 DEF Terminal
    <3> QED
      BY <3>1, GivingUpLeaves DEF Inv
  <2> QED
    BY <2>1, <2>3, <2>4 DEF Inv, TypeOK
<1>6. ASSUME NEW t \in Tasks, Worker(t) PROVE Queue!Next
  BY <1>6, WorkerQueues
<1>7. ASSUME NEW t \in Tasks, WorkerKilled(t) PROVE status' = status
  BY <1>7 DEF WorkerKilled
<1>8. CASE SweepReads
  BY <1>1, <1>8 DEF SweepReads
<1>9. CASE SweepWrites
  <2> DEFINE gone == {t \in sweep : status[t] \in Active}
  <2>1. /\ gone \in SUBSET Tasks
        /\ \A t \in gone : status[t] \in Active /\ status'[t] \in Terminal
    BY <1>9 DEF SweepWrites, Inv, TypeOK, Terminal
  <2>2. ASSUME NEW t \in Tasks \ gone
        PROVE  \/ status'[t] = status[t]
               \/ status[t] \in Terminal /\ status'[t] \in Terminal
    BY <1>9 DEF SweepWrites, Inv, TypeOK, Inserted, Terminal
  <2> HIDE DEF gone
  <2> QED
    BY <2>1, <2>2, GivingUpLeaves DEF Inv
<1>10. CASE UNCHANGED vars
  BY <1>1, <1>10 DEF vars
<1> QED
  BY <1>1, <1>2, <1>3, <1>4, <1>5, <1>6, <1>7, <1>8, <1>9, <1>10 DEF Next

(* No step of a worker, of a request or of the sweep starts a counted claim  *)
(* where write statements exclude each other.                              *)
LEMMA NoClaimingStep ==
    ASSUME SerialWrites, Inv, NoClaiming, [Next]_vars
    PROVE  NoClaiming'
<1> USE DEF NoClaiming, Inv, TypeOK
<1>1. ASSUME NEW c \in Clients, LaunchWorker(c) PROVE NoClaiming'
  BY <1>1 DEF LaunchWorker
<1>2. ASSUME NEW t \in Tasks, Worker(t) PROVE NoClaiming'
  BY <1>2, WorkerFrugal DEF Frugal
<1>3. ASSUME NEW t \in Tasks, WorkerKilled(t) PROVE NoClaiming'
  BY <1>3 DEF WorkerKilled, Goto
<1>4. ASSUME NEW c \in Clients, StartChecked(c) \/ StopWritten(c) \/ RequestLost(c)
      PROVE  NoClaiming'
  BY <1>4 DEF StartChecked, StopWritten, RequestLost
<1>5. ASSUME NEW c \in Clients, NEW t \in Tasks,
             RetryChecked(c, t) \/ InsertRow(c, t) \/ StopChecked(c, t)
      PROVE  NoClaiming'
  BY <1>5 DEF RetryChecked, InsertRow, StopChecked
<1>6. CASE SweepReads \/ SweepWrites \/ UNCHANGED vars
  BY <1>6 DEF SweepReads, SweepWrites, vars
<1> QED
  BY <1>1, <1>2, <1>3, <1>4, <1>5, <1>6 DEF Next

(* Where write statements exclude each other, the table of tasks, with all   *)
(* that is written to it late or by several parties, implements SlotQueue.   *)
THEOREM KeepsQueue == SerialWrites => (Spec => QueueKept)
<1> SUFFICES ASSUME SerialWrites PROVE Spec => QueueKept
  OBVIOUS
<1>1. Init => Queue!Init
  BY DEF Init, Queue!Init, Running, Terminal
<1>2. Init => NoClaiming
  BY DEF Init, NoClaiming
<1>3. Inv /\ NoClaiming /\ [Next]_vars => NoClaiming'
  BY NoClaimingStep
<1>4. Inv /\ NoClaiming /\ Inv' /\ [Next]_vars => [Queue!Next]_(Queue!vars)
  BY StepKeepsQueue DEF Inv
<1> QED
  BY <1>1, <1>2, <1>3, <1>4, InvHolds, PTL DEF Spec, QueueKept, Queue!Spec

-----------------------------------------------------------------------------
(* Rows that continue others.  A retry asks for what the row before it asked *)
(* for; a resume for the same domain and scope, and always for all tables.   *)
Continues(j) ==
    j.how \in {"retry", "resume"} =>
        /\ j.of \in Tasks
        /\ status[j.of] # "absent"
        /\ j.dom = job[j.of].dom
        /\ j.scope = job[j.of].scope
        /\ j.cut = (j.how = "retry" /\ job[j.of].cut)

Continuing ==
    /\ \A t \in Tasks : Continues(job[t])
    /\ \A c \in Clients : Continues(req[c].job)

(* Rows that are there stay there, and ask for what they asked for. *)
Lasting ==
    \A t \in Tasks : status[t] # "absent" => status'[t] # "absent" /\ job'[t] = job[t]

(* Where rows last, a continuation stays one. *)
LEMMA LastingContinues ==
    ASSUME NEW j, Lasting, Continues(j)
    PROVE  Continues(j)'
  BY DEF Lasting, Continues

(* What a row that is there is continued by. *)
LEMMA SuccessorContinues ==
    ASSUME TypeOK, NEW t \in Tasks, status[t] # "absent"
    PROVE  Continues(RetryJob(t)) /\ Continues(Successor(t, "resume", FALSE))
<1>1. job[t].cut \in BOOLEAN
  BY DEF TypeOK, Jobs
<1> QED
  BY <1>1 DEF Continues, RetryJob, Successor

(* Each step continues only rows that are there, and leaves those as they are. *)
LEMMA ContinuingStep ==
    ASSUME Inv, Continuing, [Next]_vars
    PROVE  Continuing'
<1> USE ConstantsAssumption DEF Inv, TypeOK, Continuing
<1>a. ASSUME Lasting,
             \A t \in Tasks : job'[t] = job[t] \/ Continues(job'[t]),
             \A c \in Clients : req'[c].job = req[c].job \/ Continues(req'[c].job)
      PROVE  Continuing'
  <2>1. \A t \in Tasks : Continues(job'[t])
    BY <1>a
  <2>2. \A c \in Clients : Continues(req'[c].job)
    BY <1>a
  <2>3. ASSUME NEW t \in Tasks PROVE (Continues(job[t]))'
    BY <1>a, <2>1, <2>3 DEF Lasting, Continues
  <2>4. ASSUME NEW c \in Clients PROVE (Continues(req[c].job))'
    BY <1>a, <2>2, <2>4 DEF Lasting, Continues
  <2> QED
    BY <2>3, <2>4
<1>b. Continues(NoJob)
  BY DEF Continues, NoJob
<1>1. ASSUME NEW c \in Clients, StartChecked(c) PROVE Continuing'
  <2>1. \A d \in Clients : req'[d].job = req[d].job \/ req'[d].job.how = "start"
    BY <1>1 DEF StartChecked
  <2>2. \A d \in Clients : req'[d].job = req[d].job \/ Continues(req'[d].job)
    BY <2>1 DEF Continues
  <2> QED
    BY <1>a, <1>1, <2>2 DEF StartChecked, Lasting
<1>2. ASSUME NEW c \in Clients, NEW t \in Tasks, RetryChecked(c, t) PROVE Continuing'
  <2>1. \A d \in Clients : req'[d].job = req[d].job \/ req'[d].job = RetryJob(t)
    BY <1>2 DEF RetryChecked
  <2>2. Continues(RetryJob(t))
    BY <1>2, SuccessorContinues DEF RetryChecked
  <2> QED
    BY <1>a, <1>2, <2>1, <2>2 DEF RetryChecked, Lasting
<1>3. ASSUME NEW c \in Clients, NEW t \in Tasks, InsertRow(c, t) PROVE Continuing'
  <2>1. \A u \in Tasks : job'[u] = job[u] \/ job'[u] = req[c].job
    BY <1>3 DEF InsertRow, Insert
  <2>2. \A d \in Clients : req'[d].job \in {req[d].job, NoJob}
    BY <1>3 DEF InsertRow
  <2>3. Lasting
    BY <1>3 DEF InsertRow, Insert, Lasting
  <2> QED
    BY <1>a, <1>b, <2>1, <2>2, <2>3
<1>4. ASSUME NEW c \in Clients, LaunchWorker(c) PROVE Continuing'
  <2>1. \A d \in Clients : req'[d].job \in {req[d].job, NoJob}
    BY <1>4 DEF LaunchWorker, Idle
  <2> QED
    BY <1>a, <1>b, <1>4, <2>1 DEF LaunchWorker, Lasting
<1>5. ASSUME NEW c \in Clients, NEW t \in Tasks, StopChecked(c, t) PROVE Continuing'
  <2>1. \A d \in Clients : req'[d].job \in {req[d].job, NoJob}
    BY <1>5 DEF StopChecked
  <2> QED
    BY <1>a, <1>b, <1>5, <2>1 DEF StopChecked, Lasting
<1>6. ASSUME NEW c \in Clients, StopWritten(c) PROVE Continuing'
  <2>1. \A d \in Clients : req'[d].job \in {req[d].job, NoJob}
    BY <1>6 DEF StopWritten, Idle
  <2>2. Lasting
    BY <1>6 DEF StopWritten, Lasting
  <2> QED
    BY <1>a, <1>b, <1>6, <2>1, <2>2 DEF StopWritten
<1>7. ASSUME NEW c \in Clients, RequestLost(c) PROVE Continuing'
  <2>1. \A d \in Clients : req'[d].job \in {req[d].job, NoJob}
    BY <1>7 DEF RequestLost, Idle
  <2> QED
    BY <1>a, <1>b, <1>7, <2>1 DEF RequestLost, Lasting
<1>8. ASSUME NEW t \in Tasks, Worker(t) PROVE Continuing'
  <2>1. CASE Quiet(t)
    BY <1>a, <2>1 DEF Quiet, Lasting
  <2>2. ASSUME NEW u \in Tasks, ResumeInserted(t, u) PROVE Continuing'
    <3>1. \A v \in Tasks : job'[v] = job[v] \/ job'[v] = Successor(t, "resume", FALSE)
      BY <2>2 DEF ResumeInserted, Insert
    <3>2. Continues(Successor(t, "resume", FALSE))
      BY <2>2, SuccessorContinues DEF ResumeInserted, Inserted
    <3>3. Lasting
      BY <2>2 DEF ResumeInserted, Insert, Lasting
    <3> QED
      BY <1>a, <2>2, <3>1, <3>2, <3>3 DEF ResumeInserted
  <2>3. CASE ResumeLaunched(t)
    BY <1>a, <2>3 DEF ResumeLaunched, Lasting
  <2> QED
    BY <1>8, <2>1, <2>2, <2>3, WorkerForms
<1>9. ASSUME NEW t \in Tasks, WorkerKilled(t) PROVE Continuing'
  BY <1>a, <1>9 DEF WorkerKilled, Lasting
<1>10. CASE SweepReads
  BY <1>a, <1>10 DEF SweepReads, Lasting
<1>11. CASE SweepWrites
  BY <1>a, <1>11 DEF SweepWrites, Lasting
<1>12. CASE UNCHANGED vars
  BY <1>a, <1>12 DEF vars, Lasting
<1> QED
  BY <1>1, <1>2, <1>3, <1>4, <1>5, <1>6, <1>7, <1>8, <1>9, <1>10, <1>11, <1>12 DEF Next

(* A row that continues another names one that is there, and asks for the    *)
(* same domain and scope; a retry for the same tables, too.  A resume is the *)
(* only continuation that can widen what was asked for.                     *)
THEOREM ContinuationsInherit == Spec => []Continuing
<1>1. Init => Continuing
  BY DEF Init, Continuing, Continues, NoJob, Idle
<1>2. Inv /\ Continuing /\ [Next]_vars => Continuing'
  BY ContinuingStep
<1> QED
  BY <1>1, <1>2, InvHolds, PTL DEF Spec
=============================================================================
