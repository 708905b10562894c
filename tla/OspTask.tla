------------------------------ MODULE OspTask -------------------------------
(***************************************************************************)
(* The life of tasks that are run by an OSP scanner, or by gvmd itself     *)
(* (the "CVE scanner").                                                    *)
(*                                                                         *)
(* As in OtpTask a session process forks a handler process, and the two    *)
(* only meet in the database.  But these tasks do not go through           *)
(* set_task_requested, the handler does not set current_scanner_task (so   *)
(* set_task_run_status never touches the report and nothing is cleaned up  *)
(* when the handler exits), and the handler of an OSP task polls both the  *)
(* scanner and the status of the task.  Every action is one statement or   *)
(* one transaction.                                                        *)
(***************************************************************************)
EXTENDS TaskStatus, Naturals, FiniteSets

CONSTANTS
    Task,       \* tasks of one of the two kinds
    CveTask,    \* those of the CVE scanner
    Session,    \* slots for processes that serve a client
    Handler,    \* slots for processes that handle a scan
    NoTask,
    MaxReport,  \* bound on the rows ever inserted into the reports table
    SerialIds,  \* reports.id is SERIAL (PostgreSQL); else INTEGER PRIMARY KEY
    Ops,        \* GMP commands the clients use
    Faults      \* what may go wrong outside gvmd

ASSUME OspTaskAssumption == CveTask \subseteq Task /\ NoTask \notin Task
ASSUME OspProcAssumption == Session \cap Handler = {}
ASSUME OspReportAssumption == MaxReport \in Nat
ASSUME OspIdsAssumption == SerialIds \in BOOLEAN
ASSUME OspOpsAssumption ==
    Ops \subseteq {"start_task", "resume_task", "stop_task", "delete_task",
                  "delete_report"}
ASSUME OspFaultsAssumption == Faults \subseteq {"fork", "osp", "kill", "crash"}

Proc == Session \cup Handler
Report == 1 .. MaxReport
NoReport == 0

VARIABLES
    up,                     \* is the daemon running
    run_status,             \* tasks.run_status
    hidden,                 \* tasks in the trashcan (tasks.hidden = 2)
    report_task,            \* reports.task, NoTask when there is no such row
    scan_run_status,        \* reports.scan_run_status
    ended,                  \* reports with an end_time
    next_report,            \* how many reports were inserted so far, plus one
    pc,                     \* where each process is
    task,                   \* the task it works on
    global_current_report,  \* the global of the same name in each process
    next_status             \* the status a handler is about to write

vars == << up, run_status, hidden, report_task, scan_run_status, ended,
           next_report, pc, task, global_current_report, next_status >>

(***************************************************************************)
(* Program counters of a session:                                          *)
(*   idle      between commands (or no client connected)                   *)
(*   create    run_osp_task, run_cve_task: before create_current_report    *)
(*   mark      before set_task_run_status Requested                        *)
(*   fork      before fork                                                 *)
(*   undo      fork has failed, task is Interrupted, its report not yet    *)
(*   stopreq   stop_osp_task, connected and with a running report          *)
(*   stopend   stop_osp_task, at end_stop_osp                              *)
(*   stoprep   stop_osp_task, the task is Stopped, a report not yet        *)
(*   stop      stop_task_internal has read an active status                *)
(*   delmark, deltrash   DELETE_TASK has read an active, another status    *)
(* and of a handler:                                                       *)
(*   free      no such process                                             *)
(*   launch    forked                                                      *)
(*   running   OSP: the task is Running, its report not yet                *)
(*   loop      handle_osp_scan, before it reads the status                 *)
(*   poll      handle_osp_scan, before it asks the scanner                 *)
(*   calc      CVE: makes the results                                      *)
(*   wtask     before the final status of the task is written              *)
(*   wrep      before that of the report is written                        *)
(***************************************************************************)
SessionPC == { "idle", "create", "mark", "fork", "undo", "stopreq", "stopend",
               "stoprep", "stop", "delmark", "deltrash" }
HandlerPC == { "free", "launch", "running", "loop", "poll", "calc", "wtask",
               "wrep" }

RestPC(p) == IF p \in Session THEN "idle" ELSE "free"
AtRest(p) == pc[p] = RestPC(p)

\* The type invariant: also, a process that works on a task is not at rest.
TypeOK ==
    /\ up \in BOOLEAN
    /\ run_status \in [Task -> task_status_t]
    /\ hidden \in SUBSET Task
    /\ report_task \in [Report -> Task \cup {NoTask}]
    /\ scan_run_status \in [Report -> task_status_t]
    /\ ended \in SUBSET Report
    /\ next_report \in 1 .. MaxReport + 1
    /\ pc \in [Proc -> SessionPC \cup HandlerPC]
    /\ \A s \in Session : pc[s] \in SessionPC
    /\ \A h \in Handler : pc[h] \in HandlerPC
    /\ task \in [Proc -> Task \cup {NoTask}]
    /\ global_current_report \in [Proc -> Report \cup {NoReport}]
    /\ next_status \in [Proc -> task_status_t]
    /\ \A p \in Proc : task[p] = NoTask <=> AtRest(p)

Init ==
    /\ up = TRUE
    /\ run_status = [t \in Task |-> TASK_STATUS_NEW]
    /\ hidden = {}
    /\ report_task = [r \in Report |-> NoTask]
    /\ scan_run_status = [r \in Report |-> TASK_STATUS_NEW]
    /\ ended = {}
    /\ next_report = 1
    /\ pc = [p \in Proc |-> RestPC(p)]
    /\ task = [p \in Proc |-> NoTask]
    /\ global_current_report = [p \in Proc |-> NoReport]
    /\ next_status = [p \in Proc |-> TASK_STATUS_NEW]

-----------------------------------------------------------------------------
(***************************************************************************)
(* Helpers.                                                                *)
(***************************************************************************)
Goto(p, l) == pc' = [pc EXCEPT ![p] = l]
SetTask(t, status) == run_status' = [run_status EXCEPT ![t] = status]

\* The rows of the reports table.
Rows == {r \in Report : report_task[r] # NoTask}

\* UPDATE reports: no effect on report 0 or a deleted row.
SetReport(r, status) ==
    scan_run_status' = IF r \in Rows THEN [scan_run_status EXCEPT ![r] = status]
                       ELSE scan_run_status

\* set_scan_end_time_epoch.
EndReport(r) == ended' = ended \cup ({r} \cap Rows)

\* The process is done with its task.
LetGo(p) ==
    /\ Goto(p, RestPC(p))
    /\ task' = [task EXCEPT ![p] = NoTask]
    /\ next_status' = [next_status EXCEPT ![p] = TASK_STATUS_NEW]

\* A session answers the client; the global keeps its value.
Return(s) == LetGo(s) /\ UNCHANGED global_current_report

\* The process dies, or clears the global itself.
Finish(p) ==
    /\ LetGo(p)
    /\ global_current_report' = [global_current_report EXCEPT ![p] = NoReport]

\* A command on task t arrives at session s and reaches program point l.
Begin(s, t, l) ==
    /\ up
    /\ pc[s] = "idle"
    /\ t \notin hidden
    /\ Goto(s, l)
    /\ task' = [task EXCEPT ![s] = t]
    /\ UNCHANGED << up, run_status, hidden, report_task, scan_run_status,
                    ended, next_report, global_current_report, next_status >>

\* A step of a command or of a handler that changes the database only ...
StepDb == UNCHANGED << up, hidden, report_task, ended, next_report, task,
                       global_current_report, next_status >>

\* ... and the part of the database that most steps leave alone.
Tables == << up, hidden, report_task, ended, next_report >>

-----------------------------------------------------------------------------
(***************************************************************************)
(* START_TASK and RESUME_TASK.                                             *)
(***************************************************************************)

\* Keeps the reports that are still to be made within the bound.
ReportLeft ==
    next_report + Cardinality({s \in Session : pc[s] = "create"}) <= MaxReport

\* start_task, run_task and run_osp_task or run_cve_task: whatever the status.
StartTask(s, t) ==
    /\ "start_task" \in Ops
    /\ ReportLeft
    /\ Begin(s, t, "create")

\* resume_task: starts from the beginning, too.
ResumeTask(s, t) ==
    /\ "resume_task" \in Ops
    /\ ReportLeft
    /\ run_status[t] \in ResumableStatus
    /\ Begin(s, t, "create")

\* The report with the highest id.
Latest(R) == CHOOSE r \in R : \A q \in R : q <= r

\* The id that the INSERT gives the report: that of the sequence, or, in SQLite,
\* the one after the highest in the table, which may have been another report's.
NewReport ==
    IF SerialIds THEN next_report
    ELSE IF Rows = {} THEN 1 ELSE Latest(Rows) + 1

\* create_current_report.  When the global is still set, an assertion aborts the
\* process, or START_TASK fails in a build without assertions.
CreateCurrentReport(s) ==
    /\ pc[s] = "create"
    /\ \/ /\ global_current_report[s] # NoReport
          /\ Finish(s) \/ Return(s)
          /\ UNCHANGED << Tables, run_status, scan_run_status >>
       \/ /\ global_current_report[s] = NoReport
          /\ next_report <= MaxReport /\ NewReport \in Report
          /\ report_task' = [report_task EXCEPT ![NewReport] = task[s]]
          /\ scan_run_status' =
                [scan_run_status EXCEPT ![NewReport] = TASK_STATUS_REQUESTED]
          /\ global_current_report' =
                [global_current_report EXCEPT ![s] = NewReport]
          /\ next_report' = next_report + 1
          /\ Goto(s, "mark")
          /\ UNCHANGED << up, run_status, hidden, ended, task, next_status >>

MarkRequested(s) ==
    /\ pc[s] = "mark"
    /\ SetTask(task[s], TASK_STATUS_REQUESTED)
    /\ Goto(s, "fork")
    /\ StepDb /\ UNCHANGED scan_run_status

\* fork: the parent returns and keeps global_current_report.
Fork(s, h) ==
    /\ pc[s] = "fork"
    /\ pc[h] = "free"
    /\ pc' = [pc EXCEPT ![s] = "idle", ![h] = "launch"]
    /\ task' = [task EXCEPT ![s] = NoTask, ![h] = task[s]]
    /\ global_current_report' =
          [global_current_report EXCEPT ![h] = global_current_report[s]]
    /\ UNCHANGED << Tables, run_status, scan_run_status, next_status >>

ForkFails(s) ==
    /\ "fork" \in Faults
    /\ pc[s] = "fork"
    /\ SetTask(task[s], TASK_STATUS_INTERRUPTED)
    /\ Goto(s, "undo")
    /\ StepDb /\ UNCHANGED scan_run_status

\* Mutant: the fail exit leaves the status of the report alone.
UndoReport_TaskOnly(s) ==
    /\ pc[s] = "undo"
    /\ Finish(s)
    /\ UNCHANGED << Tables, run_status, scan_run_status >>

UndoReport(s) ==
    /\ pc[s] = "undo"
    /\ SetReport(global_current_report[s], TASK_STATUS_INTERRUPTED)
    /\ Finish(s)
    /\ UNCHANGED << Tables, run_status >>

\* The client leaves a session whose global is still set.
Disconnect(s) ==
    /\ up
    /\ pc[s] = "idle"
    /\ global_current_report[s] # NoReport
    /\ global_current_report' = [global_current_report EXCEPT ![s] = NoReport]
    /\ UNCHANGED << Tables, run_status, scan_run_status, pc, task, next_status >>

-----------------------------------------------------------------------------
(***************************************************************************)
(* STOP_TASK and DELETE_TASK.                                              *)
(***************************************************************************)

\* task_running_report: a report that is Running and has no end time.
HasRunningReport(t) ==
    /\ run_status[t] \in {TASK_STATUS_REQUESTED, TASK_STATUS_RUNNING}
    /\ \E r \in Report : /\ report_task[r] = t
                         /\ scan_run_status[r] = TASK_STATUS_RUNNING
                         /\ r \notin ended

\* stop_task of an OSP task: stop_osp_task, whatever the status.  Without a
\* connection or a running report it goes straight to its end.
StopOspTask(s, t) ==
    /\ "stop_task" \in Ops
    /\ t \notin CveTask
    /\ \/ HasRunningReport(t) /\ Begin(s, t, "stopreq")
       \/ ("osp" \in Faults \/ ~ HasRunningReport(t)) /\ Begin(s, t, "stopend")

StopRequest(s) ==
    /\ pc[s] = "stopreq"
    /\ SetTask(task[s], TASK_STATUS_STOP_REQUESTED)
    /\ Goto(s, "stopend")
    /\ StepDb /\ UNCHANGED scan_run_status

\* Mutant: stop_osp_task ends its report only, and leaves the task to the handler.
StopEnd_ReportOnly(s) ==
    /\ pc[s] = "stopend"
    /\ EndReport(global_current_report[s])
    /\ Goto(s, "stoprep")
    /\ UNCHANGED << up, run_status, hidden, report_task, scan_run_status,
                    next_report, task, global_current_report, next_status >>

\* The report is that of the global of the session, not that of the task.
StopEnd(s) ==
    /\ pc[s] = "stopend"
    /\ EndReport(global_current_report[s])
    /\ SetTask(task[s], TASK_STATUS_STOPPED)
    /\ Goto(s, "stoprep")
    /\ UNCHANGED << up, hidden, report_task, scan_run_status, next_report, task,
                    global_current_report, next_status >>

StopReport(s) ==
    /\ pc[s] = "stoprep"
    /\ SetReport(global_current_report[s], TASK_STATUS_STOPPED)
    /\ Return(s)
    /\ UNCHANGED << Tables, run_status >>

\* stop_task of a CVE task: stop_task_internal reads the status ...
StopCveTask(s, t) ==
    /\ "stop_task" \in Ops
    /\ t \in CveTask
    /\ run_status[t] \in {TASK_STATUS_REQUESTED, TASK_STATUS_RUNNING}
    /\ Begin(s, t, "stop")

\* Mutant: the session goes on although it has forgotten its task.
StopTaskWrite_LosesTask(s) ==
    /\ pc[s] = "stop"
    /\ SetTask(task[s], TASK_STATUS_STOP_REQUESTED)
    /\ task' = [task EXCEPT ![s] = NoTask]
    /\ Goto(s, "stoprep")
    /\ UNCHANGED << Tables, scan_run_status, global_current_report, next_status >>

\* ... and writes another.
StopTaskWrite(s) ==
    /\ pc[s] = "stop"
    /\ SetTask(task[s], TASK_STATUS_STOP_REQUESTED)
    /\ Return(s)
    /\ UNCHANGED << Tables, scan_run_status >>

\* request_delete_task_uuid, without "ultimate" (see OtpTask for that).
DeleteTask(s, t) ==
    /\ "delete_task" \in Ops
    /\ Begin(s, t, IF run_status[t] \in {TASK_STATUS_REQUESTED,
                                         TASK_STATUS_RUNNING}
                   THEN "delmark" ELSE "deltrash")

DeleteTaskMark(s) ==
    /\ pc[s] = "delmark"
    /\ SetTask(task[s], TASK_STATUS_DELETE_REQUESTED)
    /\ Return(s)
    /\ UNCHANGED << Tables, scan_run_status >>

DeleteTaskTrash(s) ==
    /\ pc[s] = "deltrash"
    /\ hidden' = hidden \cup {task[s]}
    /\ Return(s)
    /\ UNCHANGED << up, run_status, report_task, scan_run_status, ended,
                    next_report >>

\* The status delete_report_internal gives the task afterwards: that of the
\* report with the highest id that is left, or New.
StatusAfterDelete(t, r) ==
    LET R == {q \in Rows \ {r} : report_task[q] = t}
    IN  IF R = {} THEN TASK_STATUS_NEW ELSE scan_run_status[Latest(R)]

\* delete_report and delete_report_internal: one transaction.  The report may be
\* one that stop_osp_task has marked Stopped and that a handler still has.
DeleteReport(s, r) ==
    /\ "delete_report" \in Ops
    /\ up /\ pc[s] = "idle"
    /\ r \in Rows
    /\ scan_run_status[r] \notin ReportInUseStatus
    /\ SetTask(report_task[r], StatusAfterDelete(report_task[r], r))
    /\ report_task' = [report_task EXCEPT ![r] = NoTask]
    /\ scan_run_status' = [scan_run_status EXCEPT ![r] = TASK_STATUS_NEW]
    /\ ended' = ended \ {r}
    /\ UNCHANGED << up, hidden, next_report, pc, task, global_current_report,
                    next_status >>

-----------------------------------------------------------------------------
(***************************************************************************)
(* The handler process.                                                    *)
(***************************************************************************)

\* launch_osp_task succeeds: the task and then the report are Running.
Launch(h) ==
    /\ pc[h] = "launch"
    /\ task[h] \notin CveTask
    /\ SetTask(task[h], TASK_STATUS_RUNNING)
    /\ Goto(h, "running")
    /\ StepDb /\ UNCHANGED scan_run_status

ReportRunning(h) ==
    /\ pc[h] = "running"
    /\ SetReport(global_current_report[h], TASK_STATUS_RUNNING)
    /\ Goto(h, "loop")
    /\ StepDb /\ UNCHANGED run_status

\* The handler has made up its mind about the final status.
End(h, status, l) ==
    /\ next_status' = [next_status EXCEPT ![h] = status]
    /\ Goto(h, l)
    /\ UNCHANGED << Tables, scan_run_status, task, global_current_report >>

\* Mutant: the exit for a scan that could not be launched forgets the task.
LaunchFails_ReportOnly(h) ==
    /\ "osp" \in Faults
    /\ pc[h] = "launch"
    /\ task[h] \notin CveTask
    /\ End(h, TASK_STATUS_DONE, "wrep")
    /\ UNCHANGED run_status

\* launch_osp_task fails: Done, with an error result.
LaunchFails(h) ==
    /\ "osp" \in Faults
    /\ pc[h] = "launch"
    /\ task[h] \notin CveTask
    /\ End(h, TASK_STATUS_DONE, "wtask")
    /\ UNCHANGED run_status

\* handle_osp_scan: the status first ...
CheckStatus(h) ==
    /\ pc[h] = "loop"
    /\ \/ /\ run_status[task[h]] \in {TASK_STATUS_STOPPED,
                                      TASK_STATUS_STOP_REQUESTED}
          /\ End(h, TASK_STATUS_STOPPED, "wtask")
       \/ /\ run_status[task[h]] \notin {TASK_STATUS_STOPPED,
                                         TASK_STATUS_STOP_REQUESTED}
          /\ End(h, next_status[h], "poll")
    /\ UNCHANGED run_status

\* ... then the scanner: it is not there yet, ...
PollAgain(h) ==
    /\ pc[h] = "poll"
    /\ End(h, next_status[h], "loop")
    /\ UNCHANGED run_status

\* ... it has an error, or the scan is complete and its report is fetched.
PollEnds(h) ==
    /\ pc[h] = "poll"
    /\ \/ "osp" \in Faults /\ End(h, TASK_STATUS_STOPPED, "wtask")
       \/ End(h, TASK_STATUS_DONE, "wtask")
    /\ UNCHANGED run_status

\* fork_cve_scan_handler: only the task is Running ...
CveLaunch(h) ==
    /\ pc[h] = "launch"
    /\ task[h] \in CveTask
    /\ SetTask(task[h], TASK_STATUS_RUNNING)
    /\ Goto(h, "calc")
    /\ StepDb /\ UNCHANGED scan_run_status

\* ... and nothing stops the calculation, unless the target has no hosts or a
\* report of a host cannot be found.
CveCalculate(h) ==
    /\ pc[h] = "calc"
    /\ \E status \in {TASK_STATUS_DONE, TASK_STATUS_INTERRUPTED} :
          End(h, status, "wtask")
    /\ UNCHANGED run_status

\* A result is added and the row of the report is gone: the foreign key of results
\* makes sql abort the process.
ResultRefused(h) ==
    /\ pc[h] \in {"launch", "poll", "calc"}
    /\ global_current_report[h] \notin Rows
    /\ Finish(h)
    /\ UNCHANGED << Tables, run_status, scan_run_status >>

\* The end of both handlers: the status of the task, then of the report.
WriteTask(h) ==
    /\ pc[h] = "wtask"
    /\ SetTask(task[h], next_status[h])
    /\ Goto(h, "wrep")
    /\ StepDb /\ UNCHANGED scan_run_status

WriteReport(h) ==
    /\ pc[h] = "wrep"
    /\ SetReport(global_current_report[h], next_status[h])
    /\ IF next_status[h] = TASK_STATUS_INTERRUPTED THEN UNCHANGED ended
       ELSE EndReport(global_current_report[h])
    /\ Finish(h)
    /\ UNCHANGED << up, run_status, hidden, report_task, next_report >>

-----------------------------------------------------------------------------
(***************************************************************************)
(* Failures.  As current_scanner_task is not set, a handler that is asked  *)
(* to terminate leaves its task as it is, like one that is killed.         *)
(***************************************************************************)
Kill(p) ==
    /\ "kill" \in Faults
    /\ ~ AtRest(p)
    /\ Finish(p)
    /\ UNCHANGED << Tables, run_status, scan_run_status >>

Crash ==
    /\ "crash" \in Faults
    /\ up
    /\ up' = FALSE
    /\ pc' = [p \in Proc |-> RestPC(p)]
    /\ task' = [p \in Proc |-> NoTask]
    /\ global_current_report' = [p \in Proc |-> NoReport]
    /\ next_status' = [p \in Proc |-> TASK_STATUS_NEW]
    /\ UNCHANGED << run_status, hidden, report_task, scan_run_status, ended,
                    next_report >>

\* stop_active_tasks; see OtpTask.
Restart ==
    /\ ~ up
    /\ up' = TRUE
    /\ run_status' =
          [t \in Task |-> IF t \notin hidden /\ run_status[t] \in ActiveStatus
                          THEN TASK_STATUS_INTERRUPTED ELSE run_status[t]]
    /\ scan_run_status' =
          [r \in Report |-> IF scan_run_status[r] \in ActiveStatus
                            THEN TASK_STATUS_INTERRUPTED ELSE scan_run_status[r]]
    /\ UNCHANGED << hidden, report_task, ended, next_report, pc, task,
                    global_current_report, next_status >>

-----------------------------------------------------------------------------
Request(s) ==
    \/ \E t \in Task : \/ StartTask(s, t)
                       \/ ResumeTask(s, t)
                       \/ StopOspTask(s, t)
                       \/ StopCveTask(s, t)
                       \/ DeleteTask(s, t)
    \/ \E r \in Report : DeleteReport(s, r)
    \/ Disconnect(s)

SessionStep(s) ==
    \/ CreateCurrentReport(s)
    \/ MarkRequested(s)
    \/ \E h \in Handler : Fork(s, h)
    \/ UndoReport(s)
    \/ StopRequest(s)
    \/ StopEnd(s)
    \/ StopReport(s)
    \/ StopTaskWrite(s)
    \/ DeleteTaskMark(s)
    \/ DeleteTaskTrash(s)

HandlerStep(h) ==
    \/ Launch(h)
    \/ ReportRunning(h)
    \/ CheckStatus(h)
    \/ CveLaunch(h)
    \/ CveCalculate(h)
    \/ WriteTask(h)
    \/ WriteReport(h)

Failure ==
    \/ \E s \in Session : ForkFails(s)
    \/ \E h \in Handler : LaunchFails(h)
    \/ \E p \in Proc : Kill(p)
    \/ Crash
    \/ Restart

Next ==
    \/ \E s \in Session : Request(s) \/ SessionStep(s)
    \/ \E h \in Handler : \/ HandlerStep(h)
                          \/ PollAgain(h) \/ PollEnds(h) \/ ResultRefused(h)
    \/ Failure

Spec == Init /\ [][Next]_vars

(***************************************************************************)
(* Fairness: the kernel schedules every process, and a scanner that is     *)
(* asked again and again has an error or completes the scan at some point. *)
(***************************************************************************)
FairSpec ==
    /\ Spec
    /\ \A s \in Session : WF_vars(SessionStep(s))
    /\ \A h \in Handler : /\ WF_vars(HandlerStep(h) \/ PollAgain(h))
                          /\ SF_vars(PollEnds(h))
    /\ WF_vars(Restart)

-----------------------------------------------------------------------------
(***************************************************************************)
(* Properties.                                                             *)
(***************************************************************************)

\* Every exit of a session and of a handler leaves the report in a final status
\* (unless processes are killed; then the next start of the daemon sees to it).
\* A report that says its scan is active has a handler, or will get one, although
\* two handlers may scan the same task, stop_osp_task writes the report of its
\* session, and reports are deleted under their handlers.
NoOrphanReport ==
    up => \A r \in Rows :
             scan_run_status[r] \in ActiveStatus
             => \E p \in Proc : ~ AtRest(p) /\ global_current_report[p] = r

\* A task that says it is active is attended to: a process works on it that will
\* write its final status, or ask the handler to.  Nothing orders two starts of a
\* task, nor a start and a stop, and each process writes the status whatever it is:
\* still none of them leaves an active status behind for good.  (Unless processes
\* are killed, or DELETE_REPORT writes the status of another report.  A CVE task
\* that was stopped too late stays Stop Requested, and no handler looks for Delete
\* Requested.  The restart leaves the trashcan alone.)
ActiveAttended ==
    up => \A t \in Task \ hidden :
             \/ run_status[t] \in {TASK_STATUS_REQUESTED, TASK_STATUS_RUNNING}
             \/ run_status[t] = TASK_STATUS_STOP_REQUESTED /\ t \notin CveTask
             => \E p \in Proc : ~ AtRest(p) /\ task[p] = t

\* The task of an OSP scanner gets out of the active statuses, however often it
\* is started and stopped while it runs, and although the handler may overwrite
\* the Stopped of stop_osp_task with Running.
ScanEnds ==
    \A t \in Task : run_status[t] \in ActiveStatus ~> run_status[t] \notin ActiveStatus

-----------------------------------------------------------------------------
(***************************************************************************)
(* What comments of the code and the GMP documentation say, and the code   *)
(* does not guarantee.                                                     *)
(***************************************************************************)

\* start_task: "Before forking: 1 task is active already".  A task that a handler
\* scans is not started again.
SingleScan ==
    \A g, h \in Handler :
        pc[g] # "free" /\ pc[h] # "free" /\ task[g] = task[h] => g = h
=============================================================================
