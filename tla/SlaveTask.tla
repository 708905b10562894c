----------------------------- MODULE SlaveTask ------------------------------
(***************************************************************************)
(* A task that is run by a slave: another gvmd, reached over GMP.          *)
(*                                                                         *)
(* The handler process sets up a copy of the task on the slave (with its   *)
(* credentials, target and config), starts it, and polls it until it ends, *)
(* fetching new results on the way.  The connection may break at any time, *)
(* a reply may be lost with it, and the whole setup is repeated when       *)
(* something fails.  Meanwhile clients change the status of the task in    *)
(* the database.                                                           *)
(*                                                                         *)
(* How sessions exclude each other, and the order of the writes to task    *)
(* and report, are the subject of OtpTask: START_TASK, RESUME_TASK and the *)
(* fail exits share that code, and are one action each here.  A new scan   *)
(* begins only when the handler of the last one has exited: DELETE_REPORT  *)
(* can make a task startable under its handler, but for two handlers of    *)
(* one task see OtpTask and OspTask.                                       *)
(***************************************************************************)
EXTENDS TaskStatus, Naturals, FiniteSets, Sequences

CONSTANTS
    MaxTask,    \* bound on the tasks ever created on the slave
    MaxResult,  \* bound on the results of one scan
    MaxFailure, \* bound on the failures in one behaviour
    MaxOlder,   \* bound on the earlier reports of the task
    Ops,        \* GMP commands the clients use
    Faults      \* what may go wrong outside gvmd

ASSUME SlaveBoundAssumption ==
    MaxTask \in Nat /\ MaxResult \in Nat /\ MaxFailure \in Nat /\ MaxOlder \in Nat
ASSUME SlaveOpsAssumption ==
    Ops \subseteq {"start_task", "resume_task", "stop_task", "delete_task",
                  "delete_report"}
ASSUME SlaveFaultsAssumption ==
    Faults \subseteq {"login", "refuse", "data", "slave", "signal", "crash"}

SlaveId == 1 .. MaxTask
NoSlave == 0

VARIABLES
    \* The database of the master.
    run_status,             \* tasks.run_status
    hidden,                 \* is the task in the trashcan
    scan_run_status,        \* reports.scan_run_status of the report of the handler,
                            \* or the last one; New when there is no such row
    slave_task_uuid,        \* reports.slave_task_uuid of that report
    results,                \* the results of that report
    older,                  \* the rows of earlier reports, the newest last
    \* The handler process.
    pc,
    current_scanner_task,   \* is this global set
    last_stopped_report,    \* is the scan to be resumed
    mine,                   \* the task on the slave, or what was made for it
    ids,                    \* which of the global_slave_*_uuid are set
    next_result,
    seen_run,               \* the run status at the start of a poll, until used
    seen,                   \* the status of the slave task in the reply, likewise
    after,                  \* where the clean up on the slave leads to
    termination_signal,
    link,                   \* is the connection to the slave up
    failures,               \* how many failures there have been
    \* The slave.
    slave_status,           \* the status of each task
    slave_objs,             \* what was created for it and still exists
    slave_results,          \* the number of its results so far
    next_slave              \* the next task that will be created

db == << run_status, hidden, scan_run_status, slave_task_uuid, results, older >>
setup == << current_scanner_task, last_stopped_report, mine, ids >>
polled == << next_result, seen_run, seen >>
net == << link, failures >>
slave == << slave_status, slave_objs, slave_results, next_slave >>
vars == << db, pc, setup, polled, after, termination_signal, net, slave >>

(***************************************************************************)
(* The handler is                                                          *)
(*   free      not there                                                   *)
(*   connect   in the first loop of handle_slave_task                      *)
(*   setup     at the head of its second loop                              *)
(*   rget      in slave_setup, asks for the task it is to resume           *)
(*   rids      in setup_ids                                                *)
(*   target, config, task, start, record   creates these on the slave,     *)
(*             starts the task, and writes its uuid to the report          *)
(*   poll, get, report   in the polling loop: before it reads the run      *)
(*             status, asks for the status of the slave task, its report   *)
(*   pstop, pwait, pgiveup   there, having read that a client wants the    *)
(*             scan to stop: before it stops the slave task, before it     *)
(*             writes the status that says so, before it gives up          *)
(*   rsleep, isleep, psleep, fsleep   in slave_sleep_connect, called from  *)
(*             rget, rids, the polling loop, or after a failed setup       *)
(*   fstop, ftask, fconfig, ftarget, fcred   cleans up on the slave        *)
(*   exit      about to exit                                               *)
(***************************************************************************)
SleepPC == {"rsleep", "isleep", "psleep", "fsleep"}
PollPC == {"poll", "pstop", "pwait", "pgiveup", "get", "report"}
PC == { "free", "connect", "setup", "rget", "rids", "target", "config", "task",
        "start", "record", "fstop", "ftask", "fconfig", "ftarget", "fcred",
        "exit" } \cup SleepPC \cup PollPC

SlaveActive == {"Requested", "Running", "Stop Requested", "Delete Requested"}
SlaveStatus == SlaveActive \cup {"none", "New", "Stopped", "Interrupted", "Done"}
Obj == {"credential", "target", "config"}
Id == Obj \cup {"task"}

\* A row of the reports table; NoRow stands for one that is not there.
Row == [status : task_status_t, uuid : Nat, results : SUBSET (SlaveId \X (1 .. MaxResult))]
NoRow == [status |-> TASK_STATUS_NEW, uuid |-> NoSlave, results |-> {}]

\* The type invariant; the report names a task that was created on the slave.
TypeOK ==
    /\ run_status \in task_status_t
    /\ hidden \in BOOLEAN
    /\ scan_run_status \in task_status_t
    /\ slave_task_uuid \in 0 .. next_slave - 1
    /\ results \subseteq SlaveId \X (1 .. MaxResult)
    /\ older \in Seq(Row)
    /\ \A i \in 1 .. Len(older) : older[i].uuid < next_slave
    /\ pc \in PC
    /\ current_scanner_task \in BOOLEAN
    /\ last_stopped_report \in BOOLEAN
    /\ mine \in 0 .. next_slave - 1
    /\ ids \subseteq Id
    /\ next_result \in 1 .. MaxResult + 1
    /\ seen_run \in task_status_t
    /\ seen \in SlaveStatus
    /\ after \in {"retry", "giveup", "done"}
    /\ termination_signal \in BOOLEAN
    /\ link \in BOOLEAN
    /\ failures \in 0 .. MaxFailure
    /\ slave_status \in [SlaveId -> SlaveStatus]
    /\ slave_objs \in [SlaveId -> SUBSET Obj]
    /\ slave_results \in [SlaveId -> 0 .. MaxResult]
    /\ next_slave \in 1 .. MaxTask + 1
    /\ pc \in {"record", "rget", "rids", "psleep"} \cup PollPC
          => mine # NoSlave /\ "task" \in ids

Init ==
    /\ run_status = TASK_STATUS_NEW
    /\ hidden = FALSE
    /\ scan_run_status = TASK_STATUS_NEW
    /\ slave_task_uuid = NoSlave
    /\ results = {}
    /\ older = << >>
    /\ pc = "free"
    /\ current_scanner_task = FALSE
    /\ last_stopped_report = FALSE
    /\ mine = NoSlave
    /\ ids = {}
    /\ next_result = 1
    /\ seen_run = TASK_STATUS_NEW
    /\ seen = "none"
    /\ after = "giveup"
    /\ termination_signal = FALSE
    /\ link = FALSE
    /\ failures = 0
    /\ slave_status = [n \in SlaveId |-> "none"]
    /\ slave_objs = [n \in SlaveId |-> {}]
    /\ slave_results = [n \in SlaveId |-> 0]
    /\ next_slave = 1

-----------------------------------------------------------------------------
(***************************************************************************)
(* Helpers.                                                                *)
(***************************************************************************)

\* Is the row of the report there?  A report is Requested when it is made, and is
\* never New again.
HasReport == scan_run_status # TASK_STATUS_NEW

\* UPDATE reports: no effect on a row that was deleted.
SetReport(status) == scan_run_status' = IF HasReport THEN status ELSE scan_run_status

\* set_task_run_status (task, ...): the report follows only while
\* current_scanner_task is set.
SetStatus(status) ==
    /\ run_status' = status
    /\ IF current_scanner_task THEN SetReport(status) ELSE UNCHANGED scan_run_status

\* set_task_run_status (current_scanner_task, ...): while the global is 0 this
\* updates the report, and a task 0 that does not exist.
SetStatusOfCurrent(status) ==
    /\ run_status' = IF current_scanner_task THEN status ELSE run_status
    /\ SetReport(status)

SetBoth(status) == run_status' = status /\ SetReport(status)
KeepStatus == UNCHANGED << run_status, scan_run_status >>
KeepReport == UNCHANGED << hidden, slave_task_uuid, results, older >>

\* The report of the handler as a row, and the rows of all reports when there is no
\* handler: the last, and those before it.
Current == [status |-> scan_run_status, uuid |-> slave_task_uuid, results |-> results]
Newest(rows) == IF rows = << >> THEN NoRow ELSE rows[Len(rows)]
Earlier(rows) == IF rows = << >> THEN rows ELSE SubSeq(rows, 1, Len(rows) - 1)
LastRow == IF HasReport THEN Current ELSE Newest(older)
OtherRows == IF HasReport THEN older ELSE Earlier(older)

TakeRow(row) ==
    /\ scan_run_status' = row.status
    /\ slave_task_uuid' = row.uuid
    /\ results' = row.results

\* gvm_connection_close.
Close == link' = FALSE /\ UNCHANGED failures

\* The goto labels "fail", "giveup" and "succeed_stopped" of slave_setup.
Fail == pc' = "fsleep" /\ Close
Giveup == pc' = "exit" /\ UNCHANGED net   \* Exit closes the connection

\* One more failure that is not the handler's own doing.
CountFailure == failures < MaxFailure /\ failures' = failures + 1

\* The handler moves on to l: no request to the slave, nothing else changes.
Goto(l) == pc' = l

\* The handler is gone, and all that it knew.
Gone ==
    /\ pc' = "free"
    /\ current_scanner_task' = FALSE
    /\ last_stopped_report' = FALSE
    /\ mine' = NoSlave
    /\ ids' = {}
    /\ next_result' = 1
    /\ seen_run' = TASK_STATUS_NEW
    /\ seen' = "none"
    /\ after' = "giveup"
    /\ termination_signal' = FALSE
    /\ link' = FALSE

-----------------------------------------------------------------------------
(***************************************************************************)
(* Clients.                                                                *)
(***************************************************************************)

\* The reports before the one that START_TASK makes.  Only DELETE_REPORT looks at
\* them: without it they need not be kept.
AllRows == IF HasReport /\ "delete_report" \in Ops THEN Append(older, Current) ELSE older

\* START_TASK: set_task_requested, a new report, and fork.
StartTask ==
    /\ "start_task" \in Ops
    /\ ~ hidden
    /\ pc = "free"
    /\ run_status \notin ActiveStatus
    /\ Len(AllRows) <= MaxOlder
    /\ run_status' = TASK_STATUS_REQUESTED
    /\ TakeRow([NoRow EXCEPT !.status = TASK_STATUS_REQUESTED])
    /\ older' = AllRows
    /\ last_stopped_report' = FALSE
    /\ pc' = "connect"
    /\ UNCHANGED << hidden, current_scanner_task, mine, ids,
                    polled, after, termination_signal, net, slave >>

\* RESUME_TASK: trim_partial_report removes the results of hosts whose scan was
\* not complete.
ResumeTask ==
    /\ "resume_task" \in Ops
    /\ ~ hidden
    /\ pc = "free"
    /\ run_status \in ResumableStatus
    /\ scan_run_status \in ResumableStatus
    /\ SetBoth(TASK_STATUS_REQUESTED)
    /\ \E kept \in SUBSET results : results' = kept
    /\ last_stopped_report' = TRUE
    /\ pc' = "connect"
    /\ UNCHANGED << hidden, slave_task_uuid, older, current_scanner_task,
                    mine, ids, polled, after,
                    termination_signal, net, slave >>

\* stop_task_internal, for a scanner of type GMP: the second STOP_TASK gives up.
StopStatus ==
    IF run_status \in {TASK_STATUS_REQUESTED, TASK_STATUS_RUNNING}
    THEN TASK_STATUS_STOP_REQUESTED ELSE TASK_STATUS_STOP_REQUESTED_GIVEUP

Stoppable == run_status \in ActiveStatus \ {TASK_STATUS_STOP_REQUESTED_GIVEUP}

StopTask ==
    /\ "stop_task" \in Ops
    /\ ~ hidden
    /\ Stoppable
    /\ run_status' = StopStatus
    /\ UNCHANGED << hidden, scan_run_status, slave_task_uuid, results, older, pc,
                    setup, polled, after, termination_signal, net, slave >>

\* request_delete_task_uuid.  (Removing the rows of a task that is not active is
\* the subject of OtpTask.)
DeleteTask ==
    /\ "delete_task" \in Ops
    /\ ~ hidden
    /\ IF Stoppable
       THEN /\ run_status' \in {TASK_STATUS_DELETE_REQUESTED,
                                TASK_STATUS_DELETE_ULTIMATE_REQUESTED}
            /\ UNCHANGED hidden
       ELSE hidden' = TRUE /\ UNCHANGED run_status
    /\ UNCHANGED << scan_run_status, slave_task_uuid, results, older, pc, setup,
                    polled, after, termination_signal, net, slave >>

\* delete_slave_task: the task on the slave is stopped and deleted, and then as many
\* of its objects as the slave allows.  Or the slave cannot be reached.
DeleteSlaveTask(n) ==
    \/ UNCHANGED slave
    \/ /\ n # NoSlave
       /\ \/ /\ slave_status[n] \in SlaveActive
             /\ slave_status' = [slave_status EXCEPT ![n] = "Delete Requested"]
             /\ UNCHANGED slave_objs
          \/ /\ slave_status[n] \notin SlaveActive \cup {"none"}
             /\ slave_status' = [slave_status EXCEPT ![n] = "none"]
             /\ \E kept \in SUBSET slave_objs[n] :
                   /\ "target" \in kept => slave_objs[n] \ kept \subseteq {"config"}
                   /\ slave_objs' = [slave_objs EXCEPT ![n] = kept]
       /\ UNCHANGED << slave_results, next_slave >>

\* DELETE_REPORT: one transaction.  The query for reports in use leaves out Stop
\* Waiting, so that this may be the report of a handler that polls the slave.  The
\* task gets the status of the last report that is left, or New.
DeleteReport ==
    /\ "delete_report" \in Ops
    /\ HasReport
    /\ scan_run_status \notin ReportInUseStatus
    /\ run_status' = Newest(older).status
    /\ IF pc = "free"
       THEN TakeRow(Newest(older)) /\ older' = Earlier(older)
       ELSE TakeRow(NoRow) /\ UNCHANGED older
    /\ DeleteSlaveTask(slave_task_uuid)
    /\ UNCHANGED << hidden, pc, setup, polled, after, termination_signal, net >>

Without(rows, i) ==
    [j \in 1 .. Len(rows) - 1 |-> IF j < i THEN rows[j] ELSE rows[j + 1]]

\* The same, of an earlier report.
DeleteOlderReport(i) ==
    /\ "delete_report" \in Ops
    /\ i \in 1 .. Len(older)
    /\ older[i].status \notin ReportInUseStatus
    /\ older' = Without(older, i)
    /\ run_status' = IF HasReport THEN scan_run_status ELSE Newest(older').status
    /\ DeleteSlaveTask(older[i].uuid)
    /\ UNCHANGED << hidden, scan_run_status, slave_task_uuid, results, pc, setup,
                    polled, after, termination_signal, net >>

-----------------------------------------------------------------------------
(***************************************************************************)
(* handle_slave_task.                                                      *)
(***************************************************************************)

\* slave_connect succeeds.
Connect ==
    /\ pc = "connect"
    /\ link' = TRUE
    /\ Goto("setup")
    /\ UNCHANGED << db, setup, polled, after, termination_signal, failures, slave >>

\* The login fails: task and report are Interrupted.
LoginFails ==
    /\ "login" \in Faults
    /\ pc = "connect"
    /\ SetBoth(TASK_STATUS_INTERRUPTED)
    /\ Goto("exit")
    /\ CountFailure
    /\ KeepReport
    /\ UNCHANGED << setup, polled, after, termination_signal, link, slave >>

\* The slave cannot be reached: has the scan been stopped meanwhile?
ConnectFails ==
    /\ pc = "connect"
    /\ \/ run_status \in {TASK_STATUS_STOP_REQUESTED,
                          TASK_STATUS_STOP_REQUESTED_GIVEUP}
       \/ termination_signal
    /\ SetBoth(TASK_STATUS_STOPPED)
    /\ Goto("exit")
    /\ KeepReport
    /\ UNCHANGED << setup, polled, after, termination_signal, net, slave >>

\* The head of the second loop, and of slave_setup.
Setup ==
    /\ pc = "setup"
    /\ \/ /\ termination_signal
          /\ SetBoth(TASK_STATUS_STOPPED)
          /\ Goto("exit")
          /\ UNCHANGED << results, mine, ids >>
       \/ /\ ~ termination_signal
          /\ ~ last_stopped_report
          /\ Goto("target")
          /\ KeepStatus /\ UNCHANGED << results, mine, ids >>
       \/ /\ ~ termination_signal
          /\ last_stopped_report
          /\ mine' = slave_task_uuid
          /\ IF slave_task_uuid = NoSlave
             THEN Goto("target") /\ results' = {} /\ UNCHANGED ids
             ELSE Goto("rget") /\ ids' = {"task"} /\ UNCHANGED results
          /\ KeepStatus
    /\ UNCHANGED << hidden, slave_task_uuid, older, current_scanner_task,
                    last_stopped_report, polled, after, termination_signal,
                    net, slave >>

-----------------------------------------------------------------------------
(***************************************************************************)
(* slave_setup: resuming.                                                  *)
(***************************************************************************)

\* The slave has the task to resume and is running it, or has completed it.
ResumeAsIs ==
    /\ pc = "rget"
    /\ link
    /\ slave_status[mine] \in {"Running", "Done"}
    /\ seen' = slave_status[mine]
    /\ Goto("rids")
    /\ UNCHANGED << db, setup, next_result, seen_run, after, termination_signal,
                    net, slave >>

\* It resumes the task.
ResumeOnSlave ==
    /\ pc = "rget"
    /\ link
    /\ slave_status[mine] \in {"Stopped", "Interrupted"}
    /\ seen' = slave_status[mine]
    /\ slave_status' = [slave_status EXCEPT ![mine] = "Requested"]
    /\ Goto("rids")
    /\ UNCHANGED << db, setup, next_result, seen_run, after, termination_signal,
                    net, slave_objs, slave_results, next_slave >>

\* It does not have the task any more, or refuses to resume it: all is done
\* again from the beginning.
ResumeFromStart ==
    /\ pc = "rget"
    /\ link
    /\ \/ /\ slave_status[mine] \notin {"Running", "Done", "Stopped", "Interrupted"}
          /\ UNCHANGED net
       \/ /\ slave_status[mine] \in {"Stopped", "Interrupted"}
          /\ "refuse" \in Faults
          /\ CountFailure /\ UNCHANGED link
    /\ results' = {}
    /\ Goto("target")
    /\ KeepStatus
    /\ UNCHANGED << hidden, slave_task_uuid, older, setup, polled, after,
                    termination_signal, slave >>

\* gmp_get_tasks fails, or gmp_resume_task_report does (the slave may have resumed
\* the task all the same), or a reply lacks the uuid of the report.
ResumeFails ==
    /\ pc = "rget"
    /\ \/ ~ link /\ Goto("rsleep") /\ UNCHANGED << net, slave_status >>
       \/ /\ \/ ~ link /\ UNCHANGED net
             \/ "data" \in Faults /\ link /\ CountFailure /\ link' = FALSE
          /\ Goto("fsleep")
          /\ \/ UNCHANGED slave_status
             \/ /\ slave_status[mine] \in {"Stopped", "Interrupted"}
                /\ slave_status' = [slave_status EXCEPT ![mine] = "Requested"]
    /\ UNCHANGED << db, setup, polled, after, termination_signal, slave_objs,
                    slave_results, next_slave >>

\* The start of the polling loop, after a resumption: when the slave has resumed
\* the task the run status is written, whatever it was meanwhile.
StartPolling ==
    /\ run_status' = IF seen \in {"Stopped", "Interrupted"}
                     THEN TASK_STATUS_REQUESTED ELSE run_status
    /\ current_scanner_task' = TRUE
    /\ next_result' = 1
    /\ seen' = "none"
    /\ Goto("poll")

\* setup_ids: config and target are in the reply of rget, the credentials need
\* another request.
SetupIds ==
    /\ pc = "rids"
    /\ \/ /\ link
          /\ ids' = {"task"} \cup slave_objs[mine]
          /\ StartPolling
       \/ /\ ~ link
          /\ ids' = {"task"} \cup (slave_objs[mine] \ {"credential"})
          /\ Goto("isleep")
          /\ UNCHANGED << run_status, current_scanner_task, next_result, seen >>
    /\ KeepReport
    /\ UNCHANGED << scan_run_status, last_stopped_report, mine, seen_run,
                    after, termination_signal, net, slave >>

-----------------------------------------------------------------------------
(***************************************************************************)
(* slave_setup: from the beginning.  A request that creates something may  *)
(* be carried out although its reply is lost with the connection.          *)
(***************************************************************************)

\* The reply to a request is an error, or is lost with the connection.
RequestFails ==
    \/ ~ link /\ UNCHANGED net
    \/ link /\ "refuse" \in Faults /\ CountFailure /\ UNCHANGED link

\* What a failed request has changed all the same.
MaybeMade(obj) == IF link THEN {{}} ELSE {{}, {obj}}

\* The credentials, of which creds are made: slave_setup goes on without those that
\* are refused.
CreateCredentials(creds) ==
    \/ creds # {} /\ UNCHANGED net
    \/ creds = {} /\ RequestFails

\* The target, after the credentials.  Some errors interrupt the scan, others lead
\* to another try.
CreateTarget ==
    /\ pc = "target"
    /\ next_slave <= MaxTask
    /\ mine' = next_slave
    /\ next_slave' = next_slave + 1
    /\ \E creds \in SUBSET {"credential"} :
          \/ /\ link
             /\ CreateCredentials(creds)
             /\ slave_objs' =
                   [slave_objs EXCEPT ![next_slave] = creds \cup {"target"}]
             /\ ids' = creds \cup {"target"}
             /\ Goto("config")
             /\ KeepStatus /\ UNCHANGED after
          \/ /\ RequestFails
             /\ link => creds # {}
             /\ \E made \in MaybeMade("target") :
                   slave_objs' = [slave_objs EXCEPT ![next_slave] = creds \cup made]
             /\ ids' = creds
             /\ \/ after' = "retry" /\ KeepStatus
                \/ after' = "giveup" /\ SetStatus(TASK_STATUS_INTERRUPTED)
             /\ Goto("fcred")
    /\ KeepReport
    /\ UNCHANGED << current_scanner_task, last_stopped_report, polled,
                    termination_signal, slave_status, slave_results >>

\* The config; a failure of the request for the port list of the target, before
\* it, has the same outcome.
CreateConfig ==
    /\ pc = "config"
    /\ \/ /\ link
          /\ slave_objs' = [slave_objs EXCEPT ![mine] = @ \cup {"config"}]
          /\ ids' = ids \cup {"config"}
          /\ Goto("task")
          /\ UNCHANGED << after, net >>
       \/ /\ RequestFails
          /\ \E made \in MaybeMade("config") :
                slave_objs' = [slave_objs EXCEPT ![mine] = @ \cup made]
          /\ Goto("ftarget")
          /\ after' = "retry"
          /\ UNCHANGED ids
    /\ UNCHANGED << db, current_scanner_task, last_stopped_report, mine, polled,
                    termination_signal, slave_status, slave_results, next_slave >>

CreateTask ==
    /\ pc = "task"
    /\ \/ /\ link
          /\ slave_status' = [slave_status EXCEPT ![mine] = "New"]
          /\ ids' = ids \cup {"task"}
          /\ Goto("start")
          /\ UNCHANGED << after, net >>
       \/ /\ RequestFails
          /\ \E made \in MaybeMade("task") :
                slave_status' = [slave_status EXCEPT ![mine] =
                                    IF made = {} THEN @ ELSE "New"]
          /\ Goto("fconfig")
          /\ after' = "retry"
          /\ UNCHANGED ids
    /\ UNCHANGED << db, current_scanner_task, last_stopped_report, mine, polled,
                    termination_signal, slave_objs, slave_results, next_slave >>

\* A reply without the uuid of the report also leads to the clean up.
StartOnSlave ==
    /\ pc = "start"
    /\ LET started == [slave_status EXCEPT ![mine] = "Requested"]
       IN  \/ /\ link /\ slave_status[mine] = "New"
              /\ slave_status' = started
              /\ \/ Goto("record") /\ UNCHANGED << after, net >>
                 \/ /\ "data" \in Faults
                    /\ CountFailure
                    /\ Goto("fstop") /\ after' = "retry"
                    /\ UNCHANGED link
           \/ /\ \/ RequestFails
                 \/ link /\ slave_status[mine] # "New" /\ UNCHANGED net
              /\ \/ UNCHANGED slave_status
                 \/ ~ link /\ slave_status[mine] = "New" /\ slave_status' = started
              /\ Goto("ftask") /\ after' = "retry"
    /\ UNCHANGED << db, setup, polled, termination_signal, slave_objs,
                    slave_results, next_slave >>

\* Mutant: the report gets the uuid of another task.
RecordUuid_Next ==
    /\ pc = "record"
    /\ slave_task_uuid' = next_slave
    /\ current_scanner_task' = TRUE
    /\ next_result' = 1
    /\ Goto("poll")
    /\ UNCHANGED << run_status, hidden, scan_run_status, results, older,
                    last_stopped_report, mine, ids, seen_run, seen, after,
                    termination_signal, net, slave >>

\* set_report_slave_task_uuid, and the start of the polling loop.
RecordUuid ==
    /\ pc = "record"
    /\ slave_task_uuid' = IF HasReport THEN mine ELSE slave_task_uuid
    /\ current_scanner_task' = TRUE
    /\ next_result' = 1
    /\ Goto("poll")
    /\ UNCHANGED << run_status, hidden, scan_run_status, results, older,
                    last_stopped_report, mine, ids, seen_run, seen, after,
                    termination_signal, net, slave >>

-----------------------------------------------------------------------------
(***************************************************************************)
(* slave_setup: the polling loop.                                          *)
(***************************************************************************)
WaitingStatus(status) ==
    CASE status = TASK_STATUS_DELETE_REQUESTED -> TASK_STATUS_DELETE_WAITING
      [] status = TASK_STATUS_DELETE_ULTIMATE_REQUESTED
            -> TASK_STATUS_DELETE_ULTIMATE_WAITING
      [] OTHER -> TASK_STATUS_STOP_WAITING

\* fail_stop_task: cleans up and does the whole setup again.
FailStopTask == pc' = "fstop" /\ after' = "retry"

StopSeen == {TASK_STATUS_DELETE_REQUESTED, TASK_STATUS_DELETE_ULTIMATE_REQUESTED,
             TASK_STATUS_STOP_REQUESTED}

\* "Check if some other process changed the task status."  What follows was decided
\* by this read, whatever clients write meanwhile.
Poll ==
    /\ pc = "poll"
    /\ run_status # TASK_STATUS_STOPPED
    /\ seen_run' = run_status
    /\ Goto(IF run_status \in StopSeen THEN "pstop"
            ELSE IF run_status = TASK_STATUS_STOP_REQUESTED_GIVEUP THEN "pgiveup"
            ELSE "get")
    /\ UNCHANGED << db, setup, next_result, seen, after, termination_signal, net, slave >>

\* The task is Stopped: the assertion aborts the process, and handle_sigabrt writes
\* Interrupted; a build without assertions does the whole setup again.
PollAsserts ==
    /\ pc = "poll"
    /\ run_status = TASK_STATUS_STOPPED
    /\ \/ SetStatus(TASK_STATUS_INTERRUPTED) /\ Giveup /\ UNCHANGED after
       \/ FailStopTask /\ KeepStatus /\ UNCHANGED net
    /\ KeepReport
    /\ UNCHANGED << setup, polled, termination_signal, slave >>

\* gmp_stop_task; the slave may not have the task any more.
PollStop ==
    /\ pc = "pstop"
    /\ \/ /\ link /\ slave_status[mine] # "none"
          /\ slave_status' =
                IF slave_status[mine] \in {"Requested", "Running"}
                THEN [slave_status EXCEPT ![mine] = "Stop Requested"]
                ELSE slave_status
          /\ Goto("pwait")
          /\ KeepStatus /\ UNCHANGED << seen_run, after, net >>
       \/ /\ link /\ slave_status[mine] = "none"
          /\ SetStatus(TASK_STATUS_INTERRUPTED)
          /\ Giveup
          /\ seen_run' = TASK_STATUS_NEW
          /\ UNCHANGED << after, slave_status >>
       \/ /\ ~ link
          /\ FailStopTask
          /\ seen_run' = TASK_STATUS_NEW
          /\ KeepStatus /\ UNCHANGED << net, slave_status >>
    /\ KeepReport
    /\ UNCHANGED << setup, next_result, seen, termination_signal, slave_objs,
                    slave_results, next_slave >>

\* The status becomes that of a stop or deletion under way.
PollWait ==
    /\ pc = "pwait"
    /\ SetStatus(WaitingStatus(seen_run))
    /\ Goto("get")
    /\ KeepReport
    /\ UNCHANGED << setup, polled, after, termination_signal, net, slave >>

PollGiveup ==
    /\ pc = "pgiveup"
    /\ SetStatus(TASK_STATUS_STOPPED)
    /\ Giveup
    /\ seen_run' = TASK_STATUS_NEW
    /\ KeepReport
    /\ UNCHANGED << setup, next_result, seen, after, termination_signal, slave >>

\* gmp_get_tasks fails or the report cannot be fetched: connect again.
PollFails ==
    /\ pc \in {"get", "report"}
    /\ ~ link
    /\ Goto("psleep")
    /\ seen_run' = TASK_STATUS_NEW /\ seen' = "none"
    /\ UNCHANGED << db, setup, next_result, after, termination_signal, net, slave >>

\* Mutant: gives up without a status.
PollMissing_NoStatus ==
    /\ pc \in {"get", "report"}
    /\ link
    /\ slave_status[mine] = "none"
    /\ Giveup
    /\ KeepStatus /\ KeepReport
    /\ UNCHANGED << setup, polled, after, termination_signal, slave >>

\* The task, or its report, is missing on the slave.
PollMissing ==
    /\ pc \in {"get", "report"}
    /\ link
    /\ slave_status[mine] = "none"
    /\ SetStatus(TASK_STATUS_INTERRUPTED)
    /\ Giveup
    /\ KeepReport
    /\ seen_run' = TASK_STATUS_NEW /\ seen' = "none"
    /\ UNCHANGED << setup, next_result, after, termination_signal, slave >>

\* The reply does not hold a status.
NoStatus ==
    /\ "data" \in Faults
    /\ pc = "get"
    /\ link
    /\ slave_status[mine] # "none"
    /\ SetStatus(TASK_STATUS_INTERRUPTED)
    /\ Goto("exit")
    /\ CountFailure
    /\ seen_run' = TASK_STATUS_NEW
    /\ KeepReport
    /\ UNCHANGED << setup, next_result, seen, after, termination_signal, link, slave >>

\* The status of the slave task.  The task becomes Running when it was Requested
\* at the start of the poll, whatever it is now.
Get ==
    /\ pc = "get"
    /\ link
    /\ LET status == slave_status[mine]
       IN  /\ status # "none"
           /\ seen' = IF status \in {"Running", "Done"} THEN status ELSE "none"
           /\ \/ /\ status \in {"Running", "Done"}
                 /\ IF seen_run = TASK_STATUS_REQUESTED
                    THEN SetStatus(TASK_STATUS_RUNNING) ELSE KeepStatus
                 /\ Goto("report")
                 /\ UNCHANGED << after, net >>
              \/ /\ status = "Stopped"
                 /\ SetStatus(TASK_STATUS_STOPPED)
                 /\ Giveup
                 /\ UNCHANGED after
              \/ /\ status = "Stop Requested"
                 /\ SetStatus(TASK_STATUS_STOP_WAITING)
                 /\ Goto("poll")
                 /\ UNCHANGED << after, net >>
              \/ /\ status \in {"Interrupted", "Delete Requested"}
                 /\ FailStopTask
                 /\ KeepStatus /\ UNCHANGED net
              \/ /\ status = "Requested"
                 /\ Goto("poll")
                 /\ KeepStatus /\ UNCHANGED << after, net >>
    /\ seen_run' = TASK_STATUS_NEW
    /\ KeepReport
    /\ UNCHANGED << setup, next_result, termination_signal, slave >>

\* Mutant: the report is taken to be complete although it was not fetched again
\* after the slave was seen to be Done.
GetReport_Early ==
    /\ pc = "report"
    /\ link
    /\ slave_status[mine] # "none"
    /\ results' = IF seen = "Done" THEN results
                  ELSE results \cup {mine} \X (next_result .. slave_results[mine])
    /\ next_result' = slave_results[mine] + 1
    /\ IF seen = "Done"
       THEN /\ SetStatus(TASK_STATUS_DONE)
            /\ current_scanner_task' = FALSE
            /\ Goto("ftask") /\ after' = "done"
       ELSE /\ Goto("poll")
            /\ KeepStatus /\ UNCHANGED << current_scanner_task, after >>
    /\ seen' = "none"
    /\ UNCHANGED << hidden, slave_task_uuid, older, last_stopped_report, mine,
                    ids, seen_run, termination_signal, net, slave >>

\* update_from_slave: the results from next_result on.  The scan is Done when the
\* slave said so before the report was fetched.
GetReport ==
    /\ pc = "report"
    /\ link
    /\ slave_status[mine] # "none"
    /\ results' = IF HasReport
                  THEN results \cup {mine} \X (next_result .. slave_results[mine])
                  ELSE results
    /\ next_result' = slave_results[mine] + 1
    /\ IF seen = "Done"
       THEN /\ SetStatus(TASK_STATUS_DONE)
            /\ current_scanner_task' = FALSE
            /\ Goto("ftask") /\ after' = "done"
       ELSE /\ Goto("poll")
            /\ KeepStatus /\ UNCHANGED << current_scanner_task, after >>
    /\ seen' = "none"
    /\ UNCHANGED << hidden, slave_task_uuid, older, last_stopped_report, mine,
                    ids, seen_run, termination_signal, net, slave >>

\* The row of the report is gone.  Where results refer to reports by a foreign key
\* (PostgreSQL), sql aborts the process, within a transaction: the task stays as it
\* is.
ResultRefused ==
    /\ pc = "report"
    /\ link
    /\ slave_status[mine] # "none"
    /\ ~ HasReport
    /\ Gone
    /\ TakeRow(LastRow) /\ older' = OtherRows
    /\ UNCHANGED << run_status, hidden, failures, slave >>

\* The report makes no sense.
BadReport ==
    /\ "data" \in Faults
    /\ pc = "report"
    /\ link
    /\ FailStopTask
    /\ seen' = "none"
    /\ CountFailure
    /\ UNCHANGED << db, setup, next_result, seen_run, termination_signal, link,
                    slave >>

-----------------------------------------------------------------------------
(***************************************************************************)
(* slave_sleep_connect.                                                    *)
(***************************************************************************)

\* Where the callers go on.
Connected == [rsleep |-> "rget", isleep |-> "rids", psleep |-> "poll",
              fsleep |-> "setup"]

Reconnect ==
    /\ pc \in SleepPC
    /\ link' = TRUE
    /\ Goto(Connected[pc])
    /\ UNCHANGED << db, setup, polled, after, termination_signal, failures, slave >>

\* Mutant: no caller looks at the return value.
SleepStopped_Continues ==
    /\ pc \in SleepPC
    /\ run_status \in {TASK_STATUS_STOP_REQUESTED, TASK_STATUS_STOP_REQUESTED_GIVEUP}
    /\ SetStatusOfCurrent(TASK_STATUS_STOPPED)
    /\ Goto(Connected[pc])
    /\ KeepReport
    /\ UNCHANGED << setup, polled, after, termination_signal, net, slave >>

\* A client wants the scan to stop.  slave_setup does not look at what setup_ids
\* returns, and goes on, without the connection; what slave_sleep_connect writes
\* to the report is all that is left of the stop.
SleepStopped ==
    /\ pc \in SleepPC
    /\ run_status \in {TASK_STATUS_STOP_REQUESTED, TASK_STATUS_STOP_REQUESTED_GIVEUP}
    /\ IF pc = "isleep"
       THEN SetReport(TASK_STATUS_STOPPED) /\ StartPolling
       ELSE /\ SetStatusOfCurrent(TASK_STATUS_STOPPED)
            /\ Goto("exit")
            /\ UNCHANGED << current_scanner_task, next_result, seen >>
    /\ KeepReport
    /\ UNCHANGED << last_stopped_report, mine, ids, seen_run, after,
                    termination_signal, net, slave >>

-----------------------------------------------------------------------------
(***************************************************************************)
(* The clean up on the slave, after success or failure.  The slave refuses *)
(* to delete what is in use: the config and the target by the task, the    *)
(* credentials by the target.  A task that is active is deleted later.     *)
(***************************************************************************)

\* fail_stop_task.
CleanStop ==
    /\ pc = "fstop"
    /\ slave_status' = IF link /\ slave_status[mine] \in {"Requested", "Running"}
                       THEN [slave_status EXCEPT ![mine] = "Stop Requested"]
                       ELSE slave_status
    /\ Goto("ftask")
    /\ UNCHANGED << db, setup, polled, after, termination_signal, net, slave_objs,
                    slave_results, next_slave >>

\* Mutant: the config is forgotten.
CleanTask_SkipsConfig ==
    /\ pc = "ftask"
    /\ slave_status' =
          IF ~ link THEN slave_status
          ELSE [slave_status EXCEPT ![mine] = IF @ \in SlaveActive
                                              THEN "Delete Requested" ELSE "none"]
    /\ slave_task_uuid' = NoSlave
    /\ Goto("ftarget")
    /\ UNCHANGED << run_status, hidden, scan_run_status, results, older, setup,
                    polled, after, termination_signal, net, slave_objs, slave_results,
                    next_slave >>

\* fail_task, and the start of the clean up after success.
CleanTask ==
    /\ pc = "ftask"
    /\ slave_status' =
          IF ~ link THEN slave_status
          ELSE [slave_status EXCEPT ![mine] = IF @ \in SlaveActive
                                              THEN "Delete Requested" ELSE "none"]
    /\ slave_task_uuid' = NoSlave
    /\ Goto("fconfig")
    /\ UNCHANGED << run_status, hidden, scan_run_status, results, older, setup,
                    polled, after, termination_signal, net, slave_objs, slave_results,
                    next_slave >>

\* Deletes one object of slave task mine, when its uuid is known.
DeleteObj(obj, unused) ==
    slave_objs' = IF link /\ obj \in ids /\ unused
                  THEN [slave_objs EXCEPT ![mine] = @ \ {obj}] ELSE slave_objs

\* fail_config.
CleanConfig ==
    /\ pc = "fconfig"
    /\ DeleteObj("config", slave_status[mine] = "none")
    /\ Goto("ftarget")
    /\ UNCHANGED << db, setup, polled, after, termination_signal, net,
                    slave_status, slave_results, next_slave >>

\* fail_target; the port list goes with the target.
CleanTarget ==
    /\ pc = "ftarget"
    /\ DeleteObj("target", slave_status[mine] = "none")
    /\ Goto("fcred")
    /\ UNCHANGED << db, setup, polled, after, termination_signal, net,
                    slave_status, slave_results, next_slave >>

\* fail_credentials, and what follows.
CleanCredentials ==
    /\ pc = "fcred"
    /\ DeleteObj("credential", "target" \notin slave_objs[mine])
    /\ IF after = "retry"
       THEN Fail /\ mine' = NoSlave /\ ids' = {} /\ next_result' = 1 /\ after' = "giveup"
       ELSE Giveup /\ UNCHANGED << mine, ids, next_result, after >>
    /\ UNCHANGED << db, current_scanner_task, last_stopped_report, seen_run, seen,
                    termination_signal, slave_status, slave_results, next_slave >>

\* handle_slave_task returns 0, or a fail exit was taken; current_scanner_task is
\* 0 by now, so that the exit handler leaves the status alone.
Exit ==
    /\ pc = "exit"
    /\ Gone
    /\ TakeRow(LastRow) /\ older' = OtherRows
    /\ UNCHANGED << run_status, hidden, failures, slave >>

-----------------------------------------------------------------------------
(***************************************************************************)
(* The slave, and failures.                                                *)
(***************************************************************************)
SlaveGoes(n, old, new) ==
    /\ slave_status[n] \in old
    /\ slave_status' = [slave_status EXCEPT ![n] = new]
    /\ UNCHANGED << db, pc, setup, polled, after, termination_signal, link,
                    slave_objs, slave_results, next_slave >>

SlaveResult(n) ==
    /\ slave_status[n] = "Running"
    /\ slave_results[n] < MaxResult
    /\ slave_results' = [slave_results EXCEPT ![n] = @ + 1]
    /\ UNCHANGED << db, pc, setup, polled, after, termination_signal, link,
                    slave_status, slave_objs, next_slave >>

SlaveStep(n) ==
    /\ \/ SlaveGoes(n, {"Requested"}, "Running")
       \/ SlaveGoes(n, {"Running"}, "Done")
       \/ SlaveGoes(n, {"Stop Requested"}, "Stopped")
       \/ SlaveGoes(n, {"Delete Requested"}, "none")
       \/ SlaveResult(n)
    /\ UNCHANGED failures

\* The slave is restarted, or somebody removes the task there.
SlaveFault(n) ==
    /\ "slave" \in Faults
    /\ CountFailure
    /\ \/ SlaveGoes(n, {"Requested", "Running", "Stop Requested"}, "Interrupted")
       \/ SlaveGoes(n, {"New", "Stopped", "Interrupted", "Done"}, "none")

LoseLink ==
    /\ link
    /\ link' = FALSE
    /\ CountFailure
    /\ UNCHANGED << db, pc, setup, polled, after, termination_signal, slave >>

\* handle_termination_signal.
Signal ==
    /\ "signal" \in Faults
    /\ pc \notin {"free", "exit"}
    /\ ~ termination_signal
    /\ termination_signal' = TRUE
    /\ CountFailure
    /\ UNCHANGED << db, pc, setup, polled, after, link, slave >>

\* The master loses power; stop_active_tasks at the next start.
Recovered(status) ==
    IF status \in ActiveStatus THEN TASK_STATUS_INTERRUPTED ELSE status

Crash ==
    /\ "crash" \in Faults
    /\ run_status' = IF hidden THEN run_status ELSE Recovered(run_status)
    /\ TakeRow([LastRow EXCEPT !.status = Recovered(LastRow.status)])
    /\ older' = [i \in 1 .. Len(OtherRows) |->
                    [OtherRows[i] EXCEPT !.status = Recovered(OtherRows[i].status)]]
    /\ Gone
    /\ CountFailure
    /\ UNCHANGED << hidden, slave >>

-----------------------------------------------------------------------------
Request ==
    \/ StartTask \/ ResumeTask \/ StopTask \/ DeleteTask
    \/ DeleteReport \/ \E i \in 1 .. MaxOlder : DeleteOlderReport(i)

HandlerStep ==
    \/ Connect \/ ConnectFails \/ Setup
    \/ ResumeAsIs \/ ResumeOnSlave \/ ResumeFromStart \/ ResumeFails \/ SetupIds
    \/ CreateTarget \/ CreateConfig \/ CreateTask \/ StartOnSlave \/ RecordUuid
    \/ Poll \/ PollAsserts \/ PollStop \/ PollWait \/ PollGiveup
    \/ PollFails \/ PollMissing \/ Get \/ GetReport
    \/ Reconnect \/ SleepStopped
    \/ CleanStop \/ CleanTask \/ CleanConfig \/ CleanTarget \/ CleanCredentials
    \/ Exit

Failure ==
    \/ LoginFails
    \/ NoStatus
    \/ BadReport
    \/ \E n \in SlaveId : SlaveFault(n)
    \/ LoseLink
    \/ Signal
    \/ Crash

Next ==
    \/ Request
    \/ HandlerStep
    \/ ResultRefused
    \/ \E n \in SlaveId : SlaveStep(n)
    \/ Failure

Spec == Init /\ [][Next]_vars

(***************************************************************************)
(* Fairness: the handler is scheduled, the slave goes on with its tasks,   *)
(* and (as the connection breaks MaxFailure times at most) can be reached. *)
(***************************************************************************)
FairSpec ==
    /\ Spec
    /\ WF_vars(HandlerStep)
    /\ \A n \in SlaveId : WF_vars(SlaveStep(n))

-----------------------------------------------------------------------------
(***************************************************************************)
(* Properties.                                                             *)
(***************************************************************************)

\* "case TASK_STATUS_STOPPED: assert (0)" in the polling loop: however clients start,
\* stop, resume and delete the task, and wherever slave_sleep_connect was called, a
\* handler that polls does not find its task Stopped.  As long as no report is
\* deleted: delete_report_internal takes a report that is Stop Waiting away from its
\* handler and gives the task the status of the report before it, which may be
\* Stopped (MCSlaveTask_v_assert.cfg).
PollNeverStopped == pc = "poll" => run_status # TASK_STATUS_STOPPED

\* When the task is Done, its report holds every result of the scan on the slave,
\* however often the connection broke, and although a resumed report was trimmed
\* and results arrived between the two requests of a poll.  (Unless the report is
\* gone: DELETE_REPORT may delete it under the handler.)
ResultsComplete ==
    after = "done" /\ HasReport => {mine} \X (1 .. slave_results[mine]) \subseteq results

\* A scan that is Done leaves nothing behind on the slave that the handler knows
\* of, unless the connection broke during the clean up: the order of the deletions
\* fits the slave's rules, also for objects whose uuids came from setup_ids.
CleanedUp ==
    pc = "exit" /\ after = "done" /\ link
    => slave_status[mine] = "none" /\ slave_objs[mine] \cap ids = {}

\* Once the slave task is polled, the task gets out of the active statuses, also
\* when the slave loses it, the setup is repeated, or stops are overwritten by
\* the handler.  The behaviour ends where a repeated setup would create one more
\* task on the slave than MaxTask; a task in the trashcan is not recovered after a
\* crash.
Followed ==
    pc = "poll" ~> \/ run_status \notin ActiveStatus
                   \/ hidden
                   \/ pc = "target" /\ next_slave > MaxTask

-----------------------------------------------------------------------------
\* stop_task_internal: "A special request from the user to get the task out of a
\* requested state when contact with the slave is lost."  The second STOP_TASK
\* gets the task out of the active statuses, which the code does not guarantee.
GiveupHonoured ==
    run_status = TASK_STATUS_STOP_REQUESTED_GIVEUP ~> run_status \notin ActiveStatus
=============================================================================
