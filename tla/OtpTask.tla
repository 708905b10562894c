------------------------------ MODULE OtpTask -------------------------------
(***************************************************************************)
(* The life of tasks that are run by a local OpenVAS scanner over OTP.     *)
(*                                                                         *)
(* gvmd is a set of forked processes that share nothing but the database.  *)
(* A session process serves GMP commands to one client.  START_TASK and    *)
(* RESUME_TASK fork a handler process that talks to the scanner until the  *)
(* scan ends.  Everything the processes tell each other goes through the   *)
(* run_status column of the tasks table, which they read and write in      *)
(* separate SQL statements; every action below is one such statement, or   *)
(* one transaction when the code runs the statements in one.               *)
(*                                                                         *)
(* Locking is that of the PostgreSQL backend.  The exclusive transactions  *)
(* of the SQLite backend allow a subset of these interleavings; but SQLite *)
(* gives the id of a deleted report out again (SerialIds).                 *)
(***************************************************************************)
EXTENDS TaskStatus, Naturals, FiniteSets

CONSTANTS
    Task,       \* rows that CREATE_TASK made in the tasks table
    Session,    \* slots for processes that serve a client
    Handler,    \* slots for processes that run a scan
    NoTask,     \* "0", a task_t that is no row
    MaxReport,  \* bound on the rows ever inserted into the reports table
    SerialIds,  \* reports.id is SERIAL (PostgreSQL); else INTEGER PRIMARY KEY
    Ops,        \* GMP commands the clients use
    Faults      \* what may go wrong outside gvmd

ASSUME NoTaskAssumption == NoTask \notin Task
ASSUME ProcAssumption == Session \cap Handler = {}
ASSUME MaxReportAssumption == MaxReport \in Nat
ASSUME SerialIdsAssumption == SerialIds \in BOOLEAN

Command == { "start_task", "stop_task", "resume_task", "delete_task",
             "restore", "empty_trashcan", "delete_report" }
Fault == { "lock", "uuid", "target", "fork", "send", "scanner", "kill", "crash" }

ASSUME OpsAssumption == Ops \subseteq Command
ASSUME FaultsAssumption == Faults \subseteq Fault

Proc == Session \cup Handler
Report == 1 .. MaxReport
NoReport == 0

VARIABLES
    up,                     \* is the daemon running
    run_status,             \* tasks.run_status
    location,               \* tasks.hidden: 0 "table", 2 "trash"; "gone": no row
    report_task,            \* reports.task, NoTask when there is no such row
    scan_run_status,        \* reports.scan_run_status
    next_report,            \* how many reports were inserted so far, plus one
    pc,                     \* where each process is
    task,                   \* the task it works on (local, current_scanner_task)
    global_current_report,  \* the global of the same name in each process
    from,                   \* argument of run_task: 0 start, 1 resume
    next_status,            \* a status it has read or decided on, not yet written
    ultimate                \* whether it has to delete the task, and how

vars == << up, run_status, location, report_task, scan_run_status, next_report,
           pc, task, global_current_report, from, next_status, ultimate >>

db == << run_status, location, report_task, scan_run_status, next_report >>
locals == << task, global_current_report, from, next_status, ultimate >>

(***************************************************************************)
(* Program counters.                                                       *)
(*   idle     session between commands (or no client connected)            *)
(*   free     no such handler process                                      *)
(*   req      run_task, before set_task_requested                          *)
(*   prep     task is Requested, before run_task_prepare_report            *)
(*   trim     resume: has the id of the report, before it is marked        *)
(*   fork     report is ready, before fork                                 *)
(*   undo     fail exit: task is Interrupted, its report not yet           *)
(*   stop     stop_task_internal has read an active status                 *)
(*   mark     DELETE_TASK has read an active status, in a transaction      *)
(*   drop     DELETE_TASK has read another status, in a transaction        *)
(*   child    forked, sending the scan to the scanner                      *)
(*   scan     current_scanner_task is set; in the loop of serve_gmp        *)
(*   wrep     set_task_run_status, before the UPDATE of reports            *)
(*   wtask    set_task_run_status, before the UPDATE of tasks              *)
(*   dlock    SCAN_END of a task to delete, before delete_task_lock        *)
(***************************************************************************)
SessionPC == { "idle", "req", "prep", "trim", "fork", "undo",
               "stop", "mark", "drop" }
HandlerPC == { "free", "child", "undo", "scan", "wrep", "wtask", "dlock" }

RestPC(p) == IF p \in Session THEN "idle" ELSE "free"
AtRest(p) == pc[p] = RestPC(p)

Deletion == { "keep", "trash", "ultimate" }

\* What the database holds.
DbType ==
    /\ up \in BOOLEAN
    /\ run_status \in [Task -> task_status_t]
    /\ location \in [Task -> {"table", "trash", "gone"}]
    /\ report_task \in [Report -> Task \cup {NoTask}]
    /\ scan_run_status \in [Report -> task_status_t]
    /\ next_report \in 1 .. MaxReport + 1

\* What each process holds.
ProcType ==
    /\ pc \in [Proc -> SessionPC \cup HandlerPC]
    /\ \A s \in Session : pc[s] \in SessionPC
    /\ \A h \in Handler : pc[h] \in HandlerPC
    /\ task \in [Proc -> Task \cup {NoTask}]
    /\ global_current_report \in [Proc -> Report \cup {NoReport}]
    /\ from \in [Proc -> {0, 1}]
    /\ next_status \in [Proc -> task_status_t]
    /\ ultimate \in [Proc -> Deletion]

\* The type invariant: also, exactly the processes that work on nothing have let
\* go of their task.
TypeOK ==
    /\ DbType
    /\ ProcType
    /\ \A p \in Proc : task[p] = NoTask <=> AtRest(p)

Init ==
    /\ up = TRUE
    /\ run_status = [t \in Task |-> TASK_STATUS_NEW]
    /\ location = [t \in Task |-> "table"]
    /\ report_task = [r \in Report |-> NoTask]
    /\ scan_run_status = [r \in Report |-> TASK_STATUS_NEW]
    /\ next_report = 1
    /\ pc = [p \in Proc |-> RestPC(p)]
    /\ task = [p \in Proc |-> NoTask]
    /\ global_current_report = [p \in Proc |-> NoReport]
    /\ from = [p \in Proc |-> 0]
    /\ next_status = [p \in Proc |-> TASK_STATUS_NEW]
    /\ ultimate = [p \in Proc |-> "keep"]

-----------------------------------------------------------------------------
(***************************************************************************)
(* Helpers.                                                                *)
(***************************************************************************)
ReportsOf(t) == {r \in Report : report_task[r] = t}
Latest(R) == CHOOSE r \in R : \A q \in R : q <= r

\* The process is done with its task and the locals of the command are gone.
LetGo(p) ==
    /\ pc' = [pc EXCEPT ![p] = RestPC(p)]
    /\ task' = [task EXCEPT ![p] = NoTask]
    /\ from' = [from EXCEPT ![p] = 0]
    /\ next_status' = [next_status EXCEPT ![p] = TASK_STATUS_NEW]
    /\ ultimate' = [ultimate EXCEPT ![p] = "keep"]

\* A session answers the client.  The global keeps its value.
Return(s) == LetGo(s) /\ UNCHANGED global_current_report

\* The process dies, and the slot of a session serves the next client; or it
\* clears the global itself and returns.
Finish(p) ==
    /\ LetGo(p)
    /\ global_current_report' = [global_current_report EXCEPT ![p] = NoReport]

Goto(p, l) == pc' = [pc EXCEPT ![p] = l]

\* A command on task t arrives at session s and reaches program point l.
Begin(s, t, l) ==
    /\ up
    /\ pc[s] = "idle"
    /\ Goto(s, l)
    /\ task' = [task EXCEPT ![s] = t]

\* find_task_with_permission: the task is in the table, not in the trashcan.
FindTask(t) == location[t] = "table"

\* UPDATE tasks SET run_status: no effect when the row is gone.
UpdateTask(t, status) ==
    run_status' = IF location[t] = "gone" THEN run_status
                  ELSE [run_status EXCEPT ![t] = status]

\* UPDATE reports SET scan_run_status: no effect on report 0 or a deleted row.
UpdateReport(r, status) ==
    scan_run_status' =
        IF r \in Report /\ report_task[r] # NoTask
        THEN [scan_run_status EXCEPT ![r] = status]
        ELSE scan_run_status

-----------------------------------------------------------------------------
(***************************************************************************)
(* START_TASK and RESUME_TASK.                                             *)
(***************************************************************************)

\* Keeps the reports that are still to be made within the bound.
ReportLeft ==
    next_report + Cardinality({s \in Session : pc[s] \in {"req", "prep"}})
        <= MaxReport

\* start_task, run_task and the first part of run_otp_task, up to
\* set_task_requested.  The error returns of this part change nothing.
StartTask(s, t) ==
    /\ "start_task" \in Ops
    /\ ReportLeft
    /\ FindTask(t)
    /\ Begin(s, t, "req")
    /\ UNCHANGED << up, db, global_current_report, from, next_status, ultimate >>

\* resume_task: as start_task, when the task is Stopped or Interrupted.
ResumeTask(s, t) ==
    /\ "resume_task" \in Ops
    /\ FindTask(t)
    /\ run_status[t] \in ResumableStatus
    /\ Begin(s, t, "req")
    /\ from' = [from EXCEPT ![s] = 1]
    /\ UNCHANGED << up, db, global_current_report, next_status, ultimate >>

\* LOCK table tasks IN ACCESS EXCLUSIVE MODE waits for every transaction that
\* has read the tasks table: those of DELETE_TASK.
TasksLockable == \A s \in Session : pc[s] \notin {"mark", "drop"}

\* Mutant: the list of set_task_requested lacks "Stop Waiting".
StatusRefusesStart_NoStopWaiting ==
    ActiveStatus \ {TASK_STATUS_STOP_WAITING}

\* The statuses in which set_task_requested answers "active already".
StatusRefusesStart ==
    { TASK_STATUS_REQUESTED,
      TASK_STATUS_RUNNING,
      TASK_STATUS_STOP_REQUESTED,
      TASK_STATUS_STOP_REQUESTED_GIVEUP,
      TASK_STATUS_STOP_WAITING,
      TASK_STATUS_DELETE_REQUESTED,
      TASK_STATUS_DELETE_ULTIMATE_REQUESTED,
      TASK_STATUS_DELETE_ULTIMATE_WAITING,
      TASK_STATUS_DELETE_WAITING }

\* set_task_requested: one transaction, when the table can be locked.  sql_int
\* aborts the process when the row is gone; an assertion does, in builds that
\* have them, when the global is still set.
SetTaskRequested(s) ==
    /\ pc[s] = "req"
    /\ TasksLockable
    /\ LET t == task[s] IN
       \/ /\ location[t] = "gone" \/ global_current_report[s] # NoReport
          /\ Finish(s)
          /\ UNCHANGED << up, db >>
       \/ /\ \/ location[t] # "gone" /\ run_status[t] \in StatusRefusesStart
             \/ "lock" \in Faults
          /\ Return(s)
          /\ UNCHANGED << up, db >>
       \/ /\ location[t] # "gone" /\ run_status[t] \notin StatusRefusesStart
          /\ run_status' = [run_status EXCEPT ![t] = TASK_STATUS_REQUESTED]
          /\ next_status' = [next_status EXCEPT ![s] = run_status[t]]
          /\ Goto(s, "prep")
          /\ UNCHANGED << up, location, report_task, scan_run_status,
                          next_report, task, global_current_report, from,
                          ultimate >>

\* The id that the INSERT gives the report: that of the sequence, or, in SQLite,
\* the one after the highest in the table, which may have been another report's.
NewReport ==
    LET R == {r \in Report : report_task[r] # NoTask}
    IN  IF SerialIds THEN next_report
        ELSE IF R = {} THEN 1 ELSE Latest(R) + 1

\* run_task_prepare_report, new report.  The foreign key of reports.task makes
\* the INSERT fail, and sql abort the process, when the task is gone.
CreateCurrentReport(s) ==
    /\ pc[s] = "prep"
    /\ from[s] = 0
    /\ global_current_report[s] = NoReport
    /\ IF location[task[s]] = "gone"
       THEN Finish(s) /\ UNCHANGED << up, db >>
       ELSE /\ next_report <= MaxReport /\ NewReport \in Report
            /\ report_task' = [report_task EXCEPT ![NewReport] = task[s]]
            /\ scan_run_status' =
                  [scan_run_status EXCEPT ![NewReport] = TASK_STATUS_REQUESTED]
            /\ global_current_report' =
                  [global_current_report EXCEPT ![s] = NewReport]
            /\ next_report' = next_report + 1
            /\ Goto(s, "fork")
            /\ UNCHANGED << up, run_status, location, task, from, next_status,
                            ultimate >>

\* create_current_report cannot make an ID, or finds the global still set in a
\* build without assertions: run_otp_task puts the status that
\* set_task_requested returned back.
CreateCurrentReportFails(s) ==
    /\ pc[s] = "prep"
    /\ from[s] = 0
    /\ "uuid" \in Faults \/ global_current_report[s] # NoReport
    /\ UpdateTask(task[s], next_status[s])
    /\ Return(s)
    /\ UNCHANGED << up, location, report_task, scan_run_status, next_report >>

\* Mutant: the last report whatever its status (task_last_report_any_status).
LastResumableReport_AnyStatus(t) ==
    IF ReportsOf(t) = {} THEN NoReport ELSE Latest(ReportsOf(t))

\* task_last_resumable_report.
LastResumableReport(t) ==
    LET R == {r \in ReportsOf(t) : scan_run_status[r] \in ResumableStatus}
    IN  IF R = {} THEN NoReport ELSE Latest(R)

\* run_task_prepare_report when resuming: the SELECT of the report ...
FindResumableReport(s) ==
    /\ pc[s] = "prep"
    /\ from[s] = 1
    /\ global_current_report' =
          [global_current_report EXCEPT ![s] = LastResumableReport(task[s])]
    /\ Goto(s, "trim")
    /\ UNCHANGED << up, db, task, from, next_status, ultimate >>

\* ... and the UPDATEs that follow it.  scan_start_time_epoch aborts the
\* process when there is no such report.
MarkResumedReport(s) ==
    LET r == global_current_report[s] IN
    /\ pc[s] = "trim"
    /\ UpdateReport(r, TASK_STATUS_REQUESTED)
    /\ IF r # NoReport /\ report_task[r] # NoTask
       THEN Goto(s, "fork") /\ UNCHANGED locals
       ELSE Finish(s)
    /\ UNCHANGED << up, run_status, location, report_task, next_report >>

\* "Check target": the task got another target, and the one that run_otp_task
\* holds was deleted, since run_task_setup.  The status is put back; the report
\* and the global are left as they are.
TargetGone(s) ==
    /\ "target" \in Faults
    /\ pc[s] = "fork"
    /\ UpdateTask(task[s], next_status[s])
    /\ Return(s)
    /\ UNCHANGED << up, location, report_task, scan_run_status, next_report >>

\* The client of a session whose global is still set leaves.
Disconnect(s) ==
    /\ up /\ pc[s] = "idle"
    /\ global_current_report[s] # NoReport
    /\ global_current_report' = [global_current_report EXCEPT ![s] = NoReport]
    /\ UNCHANGED << up, db, pc, task, from, next_status, ultimate >>

\* fork: the child carries on with the task and the report, the parent clears
\* its global_current_report and answers the client.
Fork(s, h) ==
    /\ pc[s] = "fork"
    /\ pc[h] = "free"
    /\ pc' = [pc EXCEPT ![s] = "idle", ![h] = "child"]
    /\ task' = [task EXCEPT ![s] = NoTask, ![h] = task[s]]
    /\ global_current_report' =
          [global_current_report EXCEPT ![s] = NoReport,
                                        ![h] = global_current_report[s]]
    /\ from' = [from EXCEPT ![s] = 0]
    /\ next_status' = [next_status EXCEPT ![s] = TASK_STATUS_NEW]
    /\ UNCHANGED << up, db, ultimate >>

\* The first half of a fail exit: set_task_interrupted.  current_scanner_task
\* is not set, so only the task is updated.
SetTaskInterrupted(p) ==
    /\ UpdateTask(task[p], TASK_STATUS_INTERRUPTED)
    /\ Goto(p, "undo")
    /\ UNCHANGED << up, location, report_task, scan_run_status, next_report,
                    locals >>

ForkFails(s) ==
    /\ "fork" \in Faults
    /\ pc[s] = "fork"
    /\ SetTaskInterrupted(s)

\* Mutant: the fail exits leave the status of the report alone.
UndoReport_TaskOnly(p) ==
    /\ pc[p] = "undo"
    /\ Finish(p)
    /\ UNCHANGED << up, db >>

\* The second half: set_report_scan_run_status, then return -9 or -10.
UndoReport(p) ==
    /\ pc[p] = "undo"
    /\ UpdateReport(global_current_report[p], TASK_STATUS_INTERRUPTED)
    /\ Finish(p)
    /\ UNCHANGED << up, run_status, location, report_task, next_report >>

-----------------------------------------------------------------------------
(***************************************************************************)
(* STOP_TASK and DELETE_TASK.                                              *)
(***************************************************************************)

\* The statuses in which stop_task_internal asks the handler to stop.  The
\* handler serves no client, so current_scanner_task never is the task here.
StatusTakesStop == { TASK_STATUS_REQUESTED, TASK_STATUS_RUNNING }

\* stop_task reads the status, and has nothing to do in any other status ...
StopTask(s, t) ==
    /\ "stop_task" \in Ops
    /\ FindTask(t)
    /\ run_status[t] \in StatusTakesStop
    /\ Begin(s, t, "stop")
    /\ UNCHANGED << up, db, global_current_report, from, next_status, ultimate >>

\* Mutants: the status is set to Stopped at once, before the handler has stopped
\* the scan; the session forgets to leave the command.
StopTaskWrite_Stopped(s) ==
    /\ pc[s] = "stop"
    /\ UpdateTask(task[s], TASK_STATUS_STOPPED)
    /\ Return(s)
    /\ UNCHANGED << up, location, report_task, scan_run_status, next_report >>

StopTaskWrite_KeepsTask(s) ==
    /\ pc[s] = "stop"
    /\ UpdateTask(task[s], TASK_STATUS_STOP_REQUESTED)
    /\ Goto(s, "idle")
    /\ UNCHANGED << up, location, report_task, scan_run_status, next_report,
                    locals >>

\* ... and then writes Stop Requested, whatever the status is by now.
StopTaskWrite(s) ==
    /\ pc[s] = "stop"
    /\ UpdateTask(task[s], TASK_STATUS_STOP_REQUESTED)
    /\ Return(s)
    /\ UNCHANGED << up, location, report_task, scan_run_status, next_report >>

\* request_delete_task_uuid for a task in the table: begins a transaction and
\* reads the status.
DeleteTask(s, t, u) ==
    /\ "delete_task" \in Ops
    /\ FindTask(t)
    /\ Begin(s, t, IF run_status[t] \in StatusTakesStop THEN "mark" ELSE "drop")
    /\ ultimate' = [ultimate EXCEPT ![s] = u]
    /\ UNCHANGED << up, db, global_current_report, from, next_status >>

\* stop_task_internal returned 1: the handler is asked to delete the task.
DeleteTaskMark(s) ==
    /\ pc[s] = "mark"
    /\ UpdateTask(task[s],
                  IF ultimate[s] = "ultimate"
                  THEN TASK_STATUS_DELETE_ULTIMATE_REQUESTED
                  ELSE TASK_STATUS_DELETE_REQUESTED)
    /\ Return(s)
    /\ UNCHANGED << up, location, report_task, scan_run_status, next_report >>

\* delete_reports fails when delete_report_internal refuses one of them.
ReportsDeletable(T) ==
    \A r \in Report :
        report_task[r] \in T => scan_run_status[r] \notin ReportInUseStatus

\* The rows of the tasks in T and of their reports are removed.
RemoveTasks(T) ==
    /\ location' = [t \in Task |-> IF t \in T THEN "gone" ELSE location[t]]
    /\ report_task' =
          [r \in Report |-> IF report_task[r] \in T THEN NoTask
                            ELSE report_task[r]]
    /\ scan_run_status' =
          [r \in Report |-> IF report_task[r] \in T THEN TASK_STATUS_NEW
                            ELSE scan_run_status[r]]
    /\ UNCHANGED << run_status, next_report >>

\* delete_task, within the transaction of its caller: to the trashcan, or
\* entirely, or rolled back because a report is in use.
delete_task(t, u) ==
    \/ /\ u = "trash"
       /\ location' = [location EXCEPT ![t] = "trash"]
       /\ UNCHANGED << run_status, report_task, scan_run_status, next_report >>
    \/ /\ u = "ultimate"
       /\ ReportsDeletable({t})
       /\ RemoveTasks({t})
    \/ /\ u = "ultimate"
       /\ ~ ReportsDeletable({t})
       /\ UNCHANGED db

\* stop_task_internal returned 0: the task is deleted at once.
DeleteTaskDrop(s) ==
    /\ pc[s] = "drop"
    /\ IF location[task[s]] = "gone"
       THEN UNCHANGED db
       ELSE delete_task(task[s], ultimate[s])
    /\ Return(s)
    /\ UNCHANGED up

\* request_delete_task_uuid for a task in the trashcan.  Without "ultimate" it
\* has nothing to do.
DeleteTrashTask(s, t) ==
    /\ "delete_task" \in Ops
    /\ up /\ pc[s] = "idle"
    /\ location[t] = "trash"
    /\ ReportsDeletable({t})
    /\ RemoveTasks({t})
    /\ UNCHANGED << up, pc, locals >>

\* manage_empty_trashcan and delete_trash_tasks: all of them, or none.
EmptyTrashcan(s) ==
    LET T == {t \in Task : location[t] = "trash"} IN
    /\ "empty_trashcan" \in Ops
    /\ up /\ pc[s] = "idle"
    /\ T # {}
    /\ ReportsDeletable(T)
    /\ RemoveTasks(T)
    /\ UNCHANGED << up, pc, locals >>

\* manage_restore of a task.
Restore(s, t) ==
    /\ "restore" \in Ops
    /\ up /\ pc[s] = "idle"
    /\ location[t] = "trash"
    /\ location' = [location EXCEPT ![t] = "table"]
    /\ UNCHANGED << up, run_status, report_task, scan_run_status, next_report,
                    pc, locals >>

\* The status delete_report_internal gives the task afterwards: that of the
\* report with the highest id that is left, or New.
StatusAfterDelete(t, r) ==
    LET R == ReportsOf(t) \ {r}
    IN  IF R = {} THEN TASK_STATUS_NEW ELSE scan_run_status[Latest(R)]

\* delete_report and delete_report_internal: one transaction.
DeleteReport(s, r) ==
    /\ "delete_report" \in Ops
    /\ up /\ pc[s] = "idle"
    /\ report_task[r] # NoTask
    /\ scan_run_status[r] \notin ReportInUseStatus
    /\ LET t == report_task[r] IN
       run_status' = [run_status EXCEPT ![t] = StatusAfterDelete(t, r)]
    /\ report_task' = [report_task EXCEPT ![r] = NoTask]
    /\ scan_run_status' = [scan_run_status EXCEPT ![r] = TASK_STATUS_NEW]
    /\ UNCHANGED << up, location, next_report, pc, locals >>

-----------------------------------------------------------------------------
(***************************************************************************)
(* The handler process.                                                    *)
(***************************************************************************)

\* The rest of run_otp_task in the child: everything is sent to the scanner
\* and current_scanner_task is set ...
ChildSends(h) ==
    /\ pc[h] = "child"
    /\ Goto(h, "scan")
    /\ UNCHANGED << up, db, locals >>

\* ... or the buffer to the scanner is full and the scan is given up.
ChildSendFails(h) ==
    /\ "send" \in Faults
    /\ pc[h] = "child"
    /\ SetTaskInterrupted(h)

\* The handler has read the status of its task, and enters
\* set_task_run_status with a new one.
Decide(h, status, u) ==
    /\ next_status' = [next_status EXCEPT ![h] = status]
    /\ ultimate' = [ultimate EXCEPT ![h] = u]
    /\ Goto(h, "wrep")
    /\ UNCHANGED << up, db, task, global_current_report, from >>

\* In the loop of serve_gmp, the row of the task still being there.
Scanning(h) == pc[h] = "scan" /\ location[task[h]] # "gone"

\* manage_check_current_task: what other processes asked for is sent to the
\* scanner as STOP_WHOLE_TEST and acknowledged in the status.
WaitingStatus(status) ==
    CASE status = TASK_STATUS_STOP_REQUESTED -> TASK_STATUS_STOP_WAITING
      [] status = TASK_STATUS_DELETE_REQUESTED -> TASK_STATUS_DELETE_WAITING
      [] status = TASK_STATUS_DELETE_ULTIMATE_REQUESTED ->
            TASK_STATUS_DELETE_ULTIMATE_WAITING

CheckCurrentTask(h) ==
    /\ Scanning(h)
    /\ run_status[task[h]] \in { TASK_STATUS_STOP_REQUESTED,
                                 TASK_STATUS_DELETE_REQUESTED,
                                 TASK_STATUS_DELETE_ULTIMATE_REQUESTED }
    /\ Decide(h, WaitingStatus(run_status[task[h]]), "keep")

\* SCAN_START from the scanner.
ScanStart(h) ==
    /\ Scanning(h)
    /\ run_status[task[h]] = TASK_STATUS_REQUESTED
    /\ Decide(h, TASK_STATUS_RUNNING, "keep")

\* Mutants: SCAN_END has no case for "Stop Waiting", or keeps a task whose
\* deletion has been acknowledged.
EndStatus_NoStopWaiting(status) ==
    IF status = TASK_STATUS_STOP_WAITING THEN status ELSE TASK_STATUS_STOPPED

EndDeletion_NoDeleteWaiting(status) ==
    IF status = TASK_STATUS_DELETE_REQUESTED THEN "trash" ELSE "keep"

\* SCAN_END: the status the task ends in ...
EndStatus(status) ==
    IF status \in { TASK_STATUS_STOP_REQUESTED,
                    TASK_STATUS_STOP_WAITING,
                    TASK_STATUS_DELETE_REQUESTED,
                    TASK_STATUS_DELETE_WAITING,
                    TASK_STATUS_DELETE_ULTIMATE_REQUESTED,
                    TASK_STATUS_DELETE_ULTIMATE_WAITING }
    THEN TASK_STATUS_STOPPED
    ELSE TASK_STATUS_DONE

\* ... and whether it is deleted then.
EndDeletion(status) ==
    CASE status \in { TASK_STATUS_DELETE_REQUESTED,
                      TASK_STATUS_DELETE_WAITING } -> "trash"
      [] status \in { TASK_STATUS_DELETE_ULTIMATE_REQUESTED,
                      TASK_STATUS_DELETE_ULTIMATE_WAITING } -> "ultimate"
      [] OTHER -> "keep"

\* SCAN_END from the scanner.  An interrupted task is let go of as it is.
ScanEnd(h) ==
    /\ Scanning(h)
    /\ LET status == run_status[task[h]] IN
       \/ /\ status = TASK_STATUS_INTERRUPTED
          /\ Finish(h)
          /\ UNCHANGED << up, db >>
       \/ /\ status # TASK_STATUS_INTERRUPTED
          /\ Decide(h, EndStatus(status), EndDeletion(status))

\* The connection to the scanner is lost, the buffer to it is full, or a
\* termination signal arrives: serve_gmp returns, and on exit
\* cleanup_manage_process sets the task to Interrupted.
HandlerExits(h) ==
    /\ "scanner" \in Faults
    /\ pc[h] = "scan"
    /\ Decide(h, TASK_STATUS_INTERRUPTED, "keep")

\* The row of the task is gone: reading its status aborts the process.
HandlerAborts(h) ==
    /\ pc[h] = "scan"
    /\ location[task[h]] = "gone"
    /\ Finish(h)
    /\ UNCHANGED << up, db >>

\* A result arrives and the row of the report is gone: the foreign key of results
\* makes sql abort the process, within a transaction, so the task stays as it is.
ResultRefused(h) ==
    /\ pc[h] = "scan"
    /\ global_current_report[h] \in Report
    /\ report_task[global_current_report[h]] = NoTask
    /\ Finish(h)
    /\ UNCHANGED << up, db >>

\* set_task_run_status_internal: the report first ...
WriteReport(h) ==
    /\ pc[h] = "wrep"
    /\ UpdateReport(global_current_report[h], next_status[h])
    /\ Goto(h, "wtask")
    /\ UNCHANGED << up, run_status, location, report_task, next_report, locals >>

\* ... then the task.  Afterwards the handler stays in its loop, deletes the
\* task, or lets go of the task and exits.
WriteTask(h) ==
    /\ pc[h] = "wtask"
    /\ UpdateTask(task[h], next_status[h])
    /\ \/ /\ next_status[h] \in ActiveStatus
          /\ Goto(h, "scan")
          /\ next_status' = [next_status EXCEPT ![h] = TASK_STATUS_NEW]
          /\ UNCHANGED << task, global_current_report, from, ultimate >>
       \/ /\ next_status[h] \notin ActiveStatus
          /\ ultimate[h] # "keep"
          /\ Goto(h, "dlock")
          /\ UNCHANGED locals
       \/ /\ next_status[h] \notin ActiveStatus
          /\ ultimate[h] = "keep"
          /\ Finish(h)
    /\ UNCHANGED << up, location, report_task, scan_run_status, next_report >>

\* delete_task_lock: gives up on a task that is hidden; aborts when it is gone.
DeleteTaskLock(h) ==
    /\ pc[h] = "dlock"
    /\ IF location[task[h]] = "table"
       THEN delete_task(task[h], ultimate[h])
       ELSE UNCHANGED db
    /\ Finish(h)
    /\ UNCHANGED up

-----------------------------------------------------------------------------
(***************************************************************************)
(* Failures of processes and of the whole daemon.                          *)
(***************************************************************************)

\* A process is killed without a chance to clean up.  Its transaction is
\* rolled back.
Kill(p) ==
    /\ "kill" \in Faults
    /\ ~ AtRest(p)
    /\ Finish(p)
    /\ UNCHANGED << up, db >>

\* The machine loses power, or every process is killed.
Crash ==
    /\ "crash" \in Faults
    /\ up
    /\ up' = FALSE
    /\ pc' = [p \in Proc |-> RestPC(p)]
    /\ task' = [p \in Proc |-> NoTask]
    /\ global_current_report' = [p \in Proc |-> NoReport]
    /\ from' = [p \in Proc |-> 0]
    /\ next_status' = [p \in Proc |-> TASK_STATUS_NEW]
    /\ ultimate' = [p \in Proc |-> "keep"]
    /\ UNCHANGED db

\* stop_active_tasks, run by init_manage before any client is served.  The task
\* iterator skips the trashcan; the UPDATE of the reports does not.
Restart ==
    /\ ~ up
    /\ up' = TRUE
    /\ run_status' =
          [t \in Task |-> IF location[t] = "table"
                             /\ run_status[t] \in ActiveStatus
                          THEN TASK_STATUS_INTERRUPTED ELSE run_status[t]]
    /\ scan_run_status' =
          [r \in Report |-> IF scan_run_status[r] \in ActiveStatus
                            THEN TASK_STATUS_INTERRUPTED ELSE scan_run_status[r]]
    /\ UNCHANGED << location, report_task, next_report, pc, locals >>

-----------------------------------------------------------------------------
\* A new command from a client, or its end.
Request(s) ==
    \/ \E t \in Task : \/ StartTask(s, t)
                       \/ ResumeTask(s, t)
                       \/ StopTask(s, t)
                       \/ \E u \in {"trash", "ultimate"} : DeleteTask(s, t, u)
                       \/ DeleteTrashTask(s, t)
                       \/ Restore(s, t)
    \/ EmptyTrashcan(s)
    \/ \E r \in Report : DeleteReport(s, r)
    \/ Disconnect(s)

\* The next step of a command a session is working on.
SessionStep(s) ==
    \/ SetTaskRequested(s)
    \/ CreateCurrentReport(s)
    \/ FindResumableReport(s)
    \/ MarkResumedReport(s)
    \/ \E h \in Handler : Fork(s, h)
    \/ UndoReport(s)
    \/ StopTaskWrite(s)
    \/ DeleteTaskMark(s)
    \/ DeleteTaskDrop(s)

\* A step of a handler that waits for nobody else.
HandlerStep(h) ==
    \/ ChildSends(h)
    \/ UndoReport(h)
    \/ CheckCurrentTask(h)
    \/ HandlerAborts(h)
    \/ WriteReport(h)
    \/ WriteTask(h)
    \/ DeleteTaskLock(h)

Failure ==
    \/ \E s \in Session : \/ CreateCurrentReportFails(s)
                           \/ TargetGone(s)
                           \/ ForkFails(s)
    \/ \E h \in Handler : ChildSendFails(h) \/ HandlerExits(h)
    \/ \E p \in Proc : Kill(p)
    \/ Crash
    \/ Restart

Next ==
    \/ \E s \in Session : Request(s) \/ SessionStep(s)
    \/ \E h \in Handler : \/ HandlerStep(h)
                          \/ ScanStart(h) \/ ScanEnd(h) \/ ResultRefused(h)
    \/ Failure

Spec == Init /\ [][Next]_vars

(***************************************************************************)
(* Fairness: the kernel schedules every process, and a scanner that runs a *)
(* scan ends it at some point.  Nothing is assumed about clients, nor that *)
(* a scanner reports the start of a scan.                                  *)
(***************************************************************************)
FairSpec ==
    /\ Spec
    /\ \A s \in Session : WF_vars(SessionStep(s))
    /\ \A h \in Handler : WF_vars(HandlerStep(h)) /\ WF_vars(ScanEnd(h))
    /\ WF_vars(Restart)

-----------------------------------------------------------------------------
(***************************************************************************)
(* Properties.                                                             *)
(***************************************************************************)

\* From the moment set_task_requested succeeds until the task leaves the
\* active statuses, the process is responsible for a scan of its task.
ScanPC == { "prep", "trim", "fork", "child", "scan", "wrep", "wtask" }
HasScan(p, t) == pc[p] \in ScanPC /\ task[p] = t

\* "Locking here prevents another process from starting the task concurrently":
\* however START_TASK, RESUME_TASK, STOP_TASK and DELETE_TASK interleave, and
\* whichever processes die, at most one process has a scan of a task.
SingleScan ==
    \A t \in Task : \A p, q \in Proc :
        HasScan(p, t) /\ HasScan(q, t) => p = q

\* The run status implements a lock: a scan is taken up only when nobody has one
\* of the task, passed on by fork, and given back by its holder alone.
owner == [t \in Task |-> {p \in Proc : HasScan(p, t)}]
Lock == INSTANCE ScanLock
ImplementsLock == Lock!Spec

\* While a process has a scan of a task, no other process ever sees the task in
\* a status that allows to start or resume it, or that says the scan is over.
ActiveWhileScanned ==
    \A t \in Task : \A p \in Proc :
        HasScan(p, t) /\ location[t] # "gone" => run_status[t] \in ActiveStatus

\* Two scans never write into the same report: a resumed report is not in the
\* hands of any other process, also not of one that is on a fail exit.  (As long
\* as no report is deleted under its handler: SQLite would give its id to the
\* report of the next scan.)
SingleReportWriter ==
    \A p, q \in Proc :
        /\ global_current_report[p] # NoReport
        /\ global_current_report[p] = global_current_report[q]
        /\ pc[p] # "dlock" /\ pc[q] # "dlock"
        => p = q

\* DELETE_REPORT may have been given: fewer reports are left than were made.
\* delete_report_internal accepts a report that is Stop Waiting, or final and still
\* in the hands of its handler, and overwrites the status of the task, which serves
\* as the lock: from then on two handlers may scan the task, and each may end or
\* interrupt it for the other.
ReportDeleted ==
    /\ "delete_report" \in Ops
    /\ Cardinality({r \in Report : report_task[r] # NoTask}) < next_report - 1

\* Every exit of a process, its fail exits included, leaves its report in a
\* final status: a report that says its scan is active, so that it can neither
\* be resumed nor deleted, is in the hands of a process.  (Unless processes are
\* killed; then the next start of the daemon sees to it.  Unless a report was
\* deleted.)
NoOrphanReport ==
    up /\ ~ ReportDeleted =>
        \A r \in Report :
            report_task[r] # NoTask /\ scan_run_status[r] \in ActiveStatus
            => \E p \in Proc : ~ AtRest(p) /\ global_current_report[p] = r

\* The report of a scan that is done is never reopened, whatever is resumed,
\* interrupted or restarted later.
DoneReportFinal ==
    [][\A r \in Report :
         /\ report_task[r] # NoTask /\ report_task'[r] # NoTask
         /\ scan_run_status[r] = TASK_STATUS_DONE
         => scan_run_status'[r] = TASK_STATUS_DONE]_vars

\* Once the handler has passed a stop on to the scanner, the task gets out of
\* the active statuses, or is deleted (unless a report is deleted).
StopWaitingEnds ==
    \A t \in Task :
        run_status[t] = TASK_STATUS_STOP_WAITING
        ~> run_status[t] \notin ActiveStatus \/ location[t] = "gone" \/ ReportDeleted

\* Once the handler has acknowledged a deletion, the task does leave the table
\* (unless a report is deleted).
DeleteWaitingEnds ==
    \A t \in Task :
        run_status[t] = TASK_STATUS_DELETE_WAITING
        ~> location[t] # "table" \/ ReportDeleted

-----------------------------------------------------------------------------
(***************************************************************************)
(* What comments of the code and the GMP documentation say, and the code   *)
(* does not guarantee.                                                     *)
(***************************************************************************)

\* request_delete_task_uuid: "If the task is running already then delete_task
\* will lead to ROLLBACK."  A task whose scan a process still has is not removed.
NotRemovedWhileScanned ==
    \A t \in Task : \A p \in Proc : HasScan(p, t) => location[t] # "gone"

\* delete_report: "If the report is running already then delete_report_internal
\* will ROLLBACK."  The report of a scan that goes on is not removed.
ReportKeptWhileScanned ==
    \A h \in Handler :
        pc[h] \in {"child", "scan"} => report_task[global_current_report[h]] # NoTask

\* GMP: "The client uses the stop_task command to manually stop a running
\* task."  A task whose stop was requested gets out of the active statuses.
StopHonoured ==
    \A t \in Task :
        run_status[t] = TASK_STATUS_STOP_REQUESTED
        ~> run_status[t] \notin ActiveStatus \/ location[t] = "gone"
=============================================================================
