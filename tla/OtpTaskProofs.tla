---------------------------- MODULE OtpTaskProofs ---------------------------
(***************************************************************************)
(* Theorems about OtpTask, for every set of tasks and processes, every     *)
(* bound on the reports and every set of faults.                           *)
(***************************************************************************)
EXTENDS OtpTask, WellFoundedInduction, TLAPS

USE DEF TASK_STATUS_DELETE_REQUESTED, TASK_STATUS_DONE, TASK_STATUS_NEW,
        TASK_STATUS_REQUESTED, TASK_STATUS_RUNNING, TASK_STATUS_STOP_REQUESTED,
        TASK_STATUS_STOP_WAITING, TASK_STATUS_STOPPED, TASK_STATUS_INTERRUPTED,
        TASK_STATUS_DELETE_ULTIMATE_REQUESTED, TASK_STATUS_STOP_REQUESTED_GIVEUP,
        TASK_STATUS_DELETE_WAITING, TASK_STATUS_DELETE_ULTIMATE_WAITING

-----------------------------------------------------------------------------
(***************************************************************************)
(* The latest report of a set exists.                                      *)
(***************************************************************************)

LEMMA SmallestExists ==
    ASSUME NEW T \in SUBSET Nat, T # {}
    PROVE  \E m \in T : \A k \in T : m <= k
<1> DEFINE R == OpToRel(<, Nat)
<1>1. IsWellFoundedOn(R, Nat)
  BY NatLessThanWellFounded
<1>2. \A x \in Nat, y \in Nat : <<y, x>> \in R <=> y < x
  BY DEF OpToRel
<1> HIDE DEF R
<1>3. PICK m \in T : \A y \in T : ~ (<<y, m>> \in R)
  BY <1>1, WFMin
<1>4. ASSUME NEW k \in T
      PROVE  m <= k
  <2>1. ~ (<<k, m>> \in R)
    BY <1>3
  <2>2. ~ (k < m)
    BY <2>1, <1>2
  <2>3. k \in Nat /\ m \in Nat
    OBVIOUS
  <2> QED
    BY <2>2, <2>3
<1> QED
  BY <1>4

\* Of a set of reports, Latest is the one with the highest id.
LEMMA LatestReport ==
    ASSUME NEW R \in SUBSET Report, R # {}
    PROVE  Latest(R) \in R /\ \A q \in R : q <= Latest(R)
<1> USE MaxReportAssumption DEF Report
<1> DEFINE T == {n \in Nat : MaxReport - n \in R}
<1>1. T # {}
  <2>1. PICK r \in R : TRUE
    OBVIOUS
  <2>2. MaxReport - r \in Nat /\ MaxReport - (MaxReport - r) = r
    OBVIOUS
  <2> QED
    BY <2>1, <2>2
<1>2. PICK n \in T : \A k \in T : n <= k
  <2> HIDE DEF T
  <2>1. T \in SUBSET Nat
    BY DEF T
  <2> QED
    BY <2>1, <1>1, SmallestExists
<1>3. ASSUME NEW k \in R
      PROVE  k <= MaxReport - n
  <2>1. MaxReport - k \in Nat /\ MaxReport - (MaxReport - k) = k
    OBVIOUS
  <2>2. MaxReport - k \in T
    BY <2>1
  <2>3. n <= MaxReport - k
    BY <2>2, <1>2
  <2>4. n \in Nat /\ k \in Nat
    BY <1>2
  <2> QED
    BY <2>3, <2>4
<1>4. \E r \in R : \A q \in R : q <= r
  BY <1>2, <1>3
<1> QED
  BY <1>4 DEF Latest

-----------------------------------------------------------------------------
(***************************************************************************)
(* Type correctness.                                                       *)
(***************************************************************************)

\* The part of the type invariant that is about processes.
ProcOK ==
    /\ ProcType
    /\ \A p \in Proc : task[p] = NoTask <=> AtRest(p)

\* TypeOK splits into the database and the processes.
LEMMA TypeSplit == TypeOK <=> DbType /\ ProcOK
BY DEF TypeOK, ProcOK

\* The status sets are sets of statuses, and the active ones are those that
\* set_task_requested refuses.
LEMMA Statuses ==
    /\ ActiveStatus \subseteq task_status_t
    /\ ActiveStatus \cap InactiveStatus = {}
    /\ ResumableStatus \subseteq InactiveStatus
    /\ StatusRefusesStart = ActiveStatus
    /\ StatusTakesStop \subseteq ActiveStatus
BY DEF ActiveStatus, InactiveStatus, ResumableStatus, task_status_t,
       StatusRefusesStart, StatusTakesStop

\* A process that returns to rest keeps the types.
LEMMA LetGoType ==
    ASSUME ProcOK, NEW p \in Proc, LetGo(p),
           global_current_report' \in [Proc -> Report \cup {NoReport}]
    PROVE  ProcOK'
<1> USE ProcAssumption DEF Proc
<1>1. ProcType'
  <2>1. RestPC(p) \in SessionPC \cup HandlerPC
    BY DEF RestPC, SessionPC, HandlerPC
  <2>2. /\ pc' \in [Proc -> SessionPC \cup HandlerPC]
        /\ task' \in [Proc -> Task \cup {NoTask}]
        /\ from' \in [Proc -> {0, 1}]
    BY <2>1 DEF ProcOK, ProcType, LetGo
  <2>3. ultimate' \in [Proc -> Deletion]
    BY DEF ProcOK, ProcType, LetGo, Deletion
  <2>4. next_status' \in [Proc -> task_status_t]
    BY DEF ProcOK, ProcType, LetGo, task_status_t, InactiveStatus
  <2>5. ASSUME NEW s \in Session
        PROVE  pc'[s] \in SessionPC
    BY <2>5 DEF ProcOK, ProcType, LetGo, RestPC, SessionPC
  <2>6. ASSUME NEW h \in Handler
        PROVE  pc'[h] \in HandlerPC
    BY <2>6 DEF ProcOK, ProcType, LetGo, RestPC, HandlerPC
  <2> QED
    BY <2>2, <2>3, <2>4, <2>5, <2>6 DEF ProcType
<1>2. ASSUME NEW q \in Proc
      PROVE  (task[q] = NoTask)' <=> AtRest(q)'
  BY DEF ProcOK, ProcType, LetGo, AtRest, RestPC
<1> QED
  BY <1>1, <1>2 DEF ProcOK

LEMMA FinishType ==
    ASSUME ProcOK, NEW p \in Proc, Finish(p) \/ Return(p)
    PROVE  ProcOK'
BY LetGoType DEF Finish, Return, ProcOK, ProcType

\* A process that moves from one place of a command to another, and keeps its
\* task, keeps the types.
LEMMA GotoType ==
    ASSUME ProcOK, NEW p \in Proc, NEW l, ~ AtRest(p), l # RestPC(p),
           p \in Session => l \in SessionPC,
           p \in Handler => l \in HandlerPC,
           Goto(p, l), task' = task,
           global_current_report' \in [Proc -> Report \cup {NoReport}],
           from' \in [Proc -> {0, 1}],
           next_status' \in [Proc -> task_status_t],
           ultimate' \in [Proc -> Deletion]
    PROVE  ProcOK'
<1> USE ProcAssumption DEF Proc
<1>1. ProcType'
  BY DEF ProcOK, ProcType, Goto
<1>2. ASSUME NEW q \in Proc
      PROVE  (task[q] = NoTask)' <=> AtRest(q)'
  BY DEF ProcOK, ProcType, Goto, AtRest, RestPC
<1> QED
  BY <1>1, <1>2 DEF ProcOK

\* A session that takes up a command keeps the types.
LEMMA BeginType ==
    ASSUME ProcOK, NEW s \in Session, NEW t \in Task, NEW l \in SessionPC,
           l # "idle", Begin(s, t, l), UNCHANGED global_current_report,
           from' \in [Proc -> {0, 1}], UNCHANGED next_status,
           ultimate' \in [Proc -> Deletion]
    PROVE  ProcOK'
<1> USE ProcAssumption, NoTaskAssumption DEF Proc
<1>1. ProcType'
  BY DEF ProcOK, ProcType, Begin, Goto
<1>2. ASSUME NEW q \in Proc
      PROVE  (task[q] = NoTask)' <=> AtRest(q)'
  BY DEF ProcOK, ProcType, Begin, Goto, AtRest, RestPC
<1> QED
  BY <1>1, <1>2 DEF ProcOK

\* A process that is not at rest works on a task.
LEMMA BusyTask ==
    ASSUME ProcOK, NEW p \in Proc, ~ AtRest(p)
    PROVE  task[p] \in Task
BY DEF ProcOK, ProcType

\* UPDATE statements write a status.
LEMMA UpdateTaskType ==
    ASSUME DbType, NEW t, NEW status \in task_status_t, UpdateTask(t, status)
    PROVE  run_status' \in [Task -> task_status_t]
BY DEF DbType, UpdateTask

LEMMA UpdateReportType ==
    ASSUME DbType, NEW r, NEW status \in task_status_t, UpdateReport(r, status)
    PROVE  scan_run_status' \in [Report -> task_status_t]
BY DEF DbType, UpdateReport

\* Rows that are removed leave the rest of the tables as it is.
LEMMA RemoveTasksType ==
    ASSUME DbType, NEW T, RemoveTasks(T), UNCHANGED up
    PROVE  DbType'
BY DEF DbType, RemoveTasks, task_status_t, InactiveStatus

LEMMA DeleteTaskType ==
    ASSUME DbType, NEW t \in Task, NEW u, delete_task(t, u), UNCHANGED up
    PROVE  DbType'
<1>1. CASE u = "trash" /\ location' = [location EXCEPT ![t] = "trash"]
           /\ UNCHANGED << run_status, report_task, scan_run_status, next_report >>
  BY <1>1 DEF DbType
<1>2. CASE RemoveTasks({t})
  BY <1>2, RemoveTasksType
<1>3. CASE UNCHANGED db
  BY <1>3 DEF DbType, db
<1> QED
  BY <1>1, <1>2, <1>3 DEF delete_task

\* A process that is neither a resting session nor a free handler.
LEMMA Busy ==
    ASSUME NEW p \in Proc, pc[p] \notin {"idle", "free"}
    PROVE  ~ AtRest(p)
BY DEF AtRest, RestPC

\* A new command keeps the types.
LEMMA RequestType ==
    ASSUME TypeOK, NEW s \in Session, Request(s)
    PROVE  TypeOK'
<1> USE TypeSplit
<1>0. DbType /\ ProcOK
  BY DEF TypeOK
<1>1. ASSUME NEW t \in Task, StartTask(s, t)
      PROVE  TypeOK'
  <2>1. ProcOK'
    BY <1>0, <1>1, BeginType DEF StartTask, SessionPC, ProcOK, ProcType
  <2> QED
    BY <2>1, <1>0, <1>1, TypeSplit DEF StartTask, DbType, db, TypeOK, ProcOK
<1>2. ASSUME NEW t \in Task, ResumeTask(s, t)
      PROVE  TypeOK'
  <2>1. ProcOK'
    BY <1>0, <1>2, BeginType DEF ResumeTask, SessionPC, ProcOK, ProcType, Proc
  <2> QED
    BY <2>1, <1>0, <1>2 DEF ResumeTask, DbType, db, TypeOK, ProcOK
<1>3. ASSUME NEW t \in Task, StopTask(s, t)
      PROVE  TypeOK'
  <2>1. ProcOK'
    BY <1>0, <1>3, BeginType DEF StopTask, SessionPC, ProcOK, ProcType
  <2> QED
    BY <2>1, <1>0, <1>3 DEF StopTask, DbType, db, TypeOK, ProcOK
<1>4. ASSUME NEW t \in Task, NEW u \in {"trash", "ultimate"}, DeleteTask(s, t, u)
      PROVE  TypeOK'
  <2> DEFINE l == IF run_status[t] \in StatusTakesStop THEN "mark" ELSE "drop"
  <2>1. l \in SessionPC /\ l # "idle"
    BY DEF SessionPC
  <2>2. ultimate' \in [Proc -> Deletion]
    BY <1>0, <1>4 DEF DeleteTask, ProcOK, ProcType, Proc, Deletion
  <2>3. Begin(s, t, l)
    BY <1>4 DEF DeleteTask
  <2> HIDE DEF l
  <2>4. ProcOK'
    BY <1>0, <1>4, <2>1, <2>2, <2>3, BeginType DEF DeleteTask, ProcOK, ProcType
  <2> QED
    BY <2>4, <1>0, <1>4 DEF DeleteTask, DbType, db, TypeOK, ProcOK
<1>5. ASSUME UNCHANGED << pc, locals >>, DbType'
      PROVE  TypeOK'
  BY <1>0, <1>5 DEF TypeOK, ProcOK, ProcType, AtRest, locals
<1>6. ASSUME NEW t \in Task, DeleteTrashTask(s, t)
      PROVE  TypeOK'
  BY <1>0, <1>5, <1>6, RemoveTasksType DEF DeleteTrashTask
<1>7. ASSUME NEW t \in Task, Restore(s, t)
      PROVE  TypeOK'
  BY <1>0, <1>5, <1>7 DEF Restore, DbType
<1>8. CASE EmptyTrashcan(s)
  BY <1>0, <1>5, <1>8, RemoveTasksType DEF EmptyTrashcan
<1>9. ASSUME NEW r \in Report, DeleteReport(s, r)
      PROVE  TypeOK'
  <2>1. StatusAfterDelete(report_task[r], r) \in task_status_t
    <3> DEFINE R == ReportsOf(report_task[r]) \ {r}
    <3>1. CASE R = {}
      BY <3>1 DEF StatusAfterDelete, task_status_t, InactiveStatus
    <3>2. CASE R # {} /\ Latest(R) \in Report
      BY <1>0, <3>2 DEF StatusAfterDelete, DbType
    <3>3. R \in SUBSET Report
      BY DEF ReportsOf
    <3> HIDE DEF R
    <3>4. R # {} => Latest(R) \in Report
      BY <3>3, LatestReport
    <3> QED
      BY <3>1, <3>2, <3>4
  <2> QED
    BY <1>0, <1>5, <1>9, <2>1
       DEF DeleteReport, DbType, task_status_t, InactiveStatus
<1>10. CASE Disconnect(s)
  BY <1>0, <1>10
     DEF Disconnect, TypeOK, DbType, db, ProcOK, ProcType, AtRest, Proc
<1> QED
  BY <1>1, <1>2, <1>3, <1>4, <1>6, <1>7, <1>8, <1>9, <1>10 DEF Request

\* A step of a command keeps the types.
LEMMA SessionStepType ==
    ASSUME TypeOK, NEW s \in Session, SessionStep(s)
    PROVE  TypeOK'
<1>0. DbType /\ ProcOK /\ s \in Proc
  BY DEF TypeOK, ProcOK, Proc
<1>1. SUFFICES DbType' /\ ProcOK'
  BY DEF TypeOK, ProcOK
<1>2. CASE SetTaskRequested(s)
  <2>1. task[s] \in Task /\ ~ AtRest(s)
    BY <1>0, <1>2, Busy, BusyTask DEF SetTaskRequested
  <2>2. CASE (Finish(s) \/ Return(s)) /\ UNCHANGED << up, db >>
    BY <1>0, <2>2, FinishType DEF DbType, db
  <2>3. CASE /\ run_status' = [run_status EXCEPT ![task[s]] = TASK_STATUS_REQUESTED]
             /\ next_status' = [next_status EXCEPT ![s] = run_status[task[s]]]
             /\ Goto(s, "prep")
             /\ UNCHANGED << up, location, report_task, scan_run_status,
                             next_report, task, global_current_report, from,
                             ultimate >>
    <3>1. DbType'
      BY <1>0, <2>1, <2>3 DEF DbType, task_status_t, ActiveStatus
    <3>2. next_status' \in [Proc -> task_status_t]
      BY <1>0, <2>1, <2>3 DEF DbType, ProcOK, ProcType
    <3> QED
      BY <1>0, <2>1, <2>3, <3>1, <3>2, GotoType, ProcAssumption
         DEF ProcOK, ProcType, SessionPC, RestPC
  <2> QED
    BY <1>2, <2>2, <2>3 DEF SetTaskRequested
<1>3. CASE CreateCurrentReport(s)
  <2>1. task[s] \in Task /\ ~ AtRest(s)
    BY <1>0, <1>3, Busy, BusyTask DEF CreateCurrentReport
  <2> DEFINE abort == location[task[s]] = "gone"
  <2>2. CASE abort
    BY <1>0, <1>3, <2>2, FinishType DEF CreateCurrentReport, DbType, db
  <2>3. CASE ~ abort
    <3>1. NewReport \in Report /\ next_report' \in 1 .. MaxReport + 1
      BY <1>0, <1>3, <2>3, MaxReportAssumption
         DEF CreateCurrentReport, DbType, Report
    <3>2. DbType'
      BY <1>0, <1>3, <2>1, <2>3, <3>1
         DEF CreateCurrentReport, DbType, task_status_t, ActiveStatus
    <3> QED
      BY <1>0, <1>3, <2>1, <2>3, <3>1, <3>2, GotoType, ProcAssumption
         DEF CreateCurrentReport, ProcOK, ProcType, SessionPC, RestPC
  <2> QED
    BY <2>2, <2>3
<1>4. CASE FindResumableReport(s)
  <2>1. ~ AtRest(s)
    BY <1>0, <1>4, Busy DEF FindResumableReport
  <2>2. LastResumableReport(task[s]) \in Report \cup {NoReport}
    <3> DEFINE R == {r \in ReportsOf(task[s]) : scan_run_status[r] \in ResumableStatus}
    <3>1. R \in SUBSET Report
      BY DEF ReportsOf
    <3>2. LastResumableReport(task[s]) = IF R = {} THEN NoReport ELSE Latest(R)
      BY DEF LastResumableReport
    <3> HIDE DEF R
    <3> QED
      BY <3>1, <3>2, LatestReport
  <2>3. DbType'
    BY <1>0, <1>4 DEF FindResumableReport, DbType, db
  <2> QED
    BY <1>0, <1>4, <2>1, <2>2, <2>3, GotoType, ProcAssumption
       DEF FindResumableReport, ProcOK, ProcType, SessionPC, RestPC
<1>5. CASE MarkResumedReport(s)
  <2>1. ~ AtRest(s)
    BY <1>0, <1>5, Busy DEF MarkResumedReport
  <2>2. DbType'
    BY <1>0, <1>5, UpdateReportType
       DEF MarkResumedReport, DbType, task_status_t, ActiveStatus
  <2>3. CASE Finish(s)
    BY <1>0, <2>2, <2>3, FinishType
  <2>4. CASE Goto(s, "fork") /\ UNCHANGED locals
    BY <1>0, <2>1, <2>2, <2>4, GotoType, ProcAssumption
       DEF locals, ProcOK, ProcType, SessionPC, RestPC
  <2> QED
    BY <1>5, <2>3, <2>4 DEF MarkResumedReport
<1>6. ASSUME NEW h \in Handler, Fork(s, h)
      PROVE  DbType' /\ ProcOK'
  <2>0. s # h /\ h \in Proc /\ h \notin Session
    BY ProcAssumption DEF Proc
  <2>1. DbType'
    BY <1>0, <1>6 DEF Fork, DbType, db
  <2>2. task[s] \in Task
    BY <1>0, <1>6, Busy, BusyTask DEF Fork
  <2>3. ProcType'
    BY <1>0, <1>6, <2>0, <2>2
       DEF Fork, ProcOK, ProcType, SessionPC, HandlerPC, task_status_t,
           InactiveStatus, Proc
  <2>4. ASSUME NEW q \in Proc
        PROVE  (task[q] = NoTask)' <=> AtRest(q)'
    BY <1>0, <1>6, <2>0, <2>2, NoTaskAssumption
       DEF Fork, ProcOK, ProcType, AtRest, RestPC
  <2> QED
    BY <2>1, <2>3, <2>4 DEF ProcOK
<1>7. CASE UndoReport(s)
  BY <1>0, <1>7, FinishType, UpdateReportType
     DEF UndoReport, DbType, task_status_t, InactiveStatus, ResumableStatus
<1>8. CASE StopTaskWrite(s)
  BY <1>0, <1>8, FinishType, UpdateTaskType
     DEF StopTaskWrite, DbType, task_status_t, ActiveStatus
<1>9. CASE DeleteTaskMark(s)
  BY <1>0, <1>9, FinishType, UpdateTaskType
     DEF DeleteTaskMark, DbType, task_status_t, ActiveStatus
<1>10. CASE DeleteTaskDrop(s)
  <2>1. task[s] \in Task
    BY <1>0, <1>10, Busy, BusyTask DEF DeleteTaskDrop
  <2>2. DbType'
    BY <1>0, <1>10, <2>1, DeleteTaskType DEF DeleteTaskDrop, DbType, db
  <2> QED
    BY <1>0, <1>10, <2>2, FinishType DEF DeleteTaskDrop
<1> QED
  BY <1>2, <1>3, <1>4, <1>5, <1>6, <1>7, <1>8, <1>9, <1>10 DEF SessionStep

\* A decision of a handler keeps the types.
LEMMA DecideType ==
    ASSUME TypeOK, NEW h \in Handler, pc[h] = "scan",
           NEW status \in task_status_t, NEW u \in Deletion,
           Decide(h, status, u)
    PROVE  DbType' /\ ProcOK'
<1>1. DbType /\ ProcOK /\ h \in Proc /\ ~ AtRest(h)
  BY Busy DEF TypeOK, ProcOK, Proc
<1>2. DbType'
  BY <1>1 DEF Decide, DbType, db
<1>3. /\ next_status' \in [Proc -> task_status_t]
      /\ ultimate' \in [Proc -> Deletion]
  BY <1>1 DEF Decide, ProcOK, ProcType
<1> QED
  BY <1>1, <1>2, <1>3, GotoType, ProcAssumption
     DEF Decide, ProcOK, ProcType, HandlerPC, RestPC

\* A step of a handler, or what the scanner tells it, keeps the types.
LEMMA HandlerType ==
    ASSUME TypeOK, NEW h \in Handler,
           HandlerStep(h) \/ ScanStart(h) \/ ScanEnd(h) \/ ResultRefused(h)
    PROVE  TypeOK'
<1>0. DbType /\ ProcOK /\ h \in Proc /\ h \notin Session
  BY ProcAssumption DEF TypeOK, ProcOK, Proc
<1>1. SUFFICES DbType' /\ ProcOK'
  BY DEF TypeOK, ProcOK
<1>2. CASE ChildSends(h)
  <2>1. ~ AtRest(h)
    BY <1>0, <1>2, Busy DEF ChildSends
  <2>2. DbType'
    BY <1>0, <1>2 DEF ChildSends, DbType, db
  <2> QED
    BY <1>0, <1>2, <2>1, <2>2, GotoType
       DEF ChildSends, locals, ProcOK, ProcType, HandlerPC, RestPC
<1>3. CASE UndoReport(h)
  BY <1>0, <1>3, FinishType, UpdateReportType
     DEF UndoReport, DbType, task_status_t, InactiveStatus, ResumableStatus
<1>4. CASE CheckCurrentTask(h)
  <2>1. WaitingStatus(run_status[task[h]]) \in task_status_t
    BY <1>4 DEF CheckCurrentTask, WaitingStatus, task_status_t, ActiveStatus
  <2> QED
    BY <1>4, <2>1, DecideType DEF CheckCurrentTask, Scanning, Deletion
<1>5. CASE HandlerAborts(h) \/ ResultRefused(h)
  BY <1>0, <1>5, FinishType DEF HandlerAborts, ResultRefused, DbType, db
<1>6. CASE WriteReport(h)
  <2>1. ~ AtRest(h) /\ next_status[h] \in task_status_t
    BY <1>0, <1>6, Busy DEF WriteReport, ProcOK, ProcType
  <2>2. DbType'
    BY <1>0, <1>6, <2>1, UpdateReportType DEF WriteReport, DbType
  <2> QED
    BY <1>0, <1>6, <2>1, <2>2, GotoType
       DEF WriteReport, locals, ProcOK, ProcType, HandlerPC, RestPC
<1>7. CASE WriteTask(h)
  <2>1. ~ AtRest(h) /\ next_status[h] \in task_status_t
    BY <1>0, <1>7, Busy DEF WriteTask, ProcOK, ProcType
  <2>2. DbType'
    BY <1>0, <1>7, <2>1, UpdateTaskType DEF WriteTask, DbType
  <2>3. CASE /\ Goto(h, "scan")
             /\ next_status' = [next_status EXCEPT ![h] = TASK_STATUS_NEW]
             /\ UNCHANGED << task, global_current_report, from, ultimate >>
    <3>1. next_status' \in [Proc -> task_status_t]
      BY <1>0, <2>3 DEF ProcOK, ProcType, task_status_t, InactiveStatus
    <3> QED
      BY <1>0, <2>1, <2>2, <2>3, <3>1, GotoType
         DEF ProcOK, ProcType, HandlerPC, RestPC
  <2>4. CASE Goto(h, "dlock") /\ UNCHANGED locals
    BY <1>0, <2>1, <2>2, <2>4, GotoType
       DEF locals, ProcOK, ProcType, HandlerPC, RestPC
  <2>5. CASE Finish(h)
    BY <1>0, <2>2, <2>5, FinishType
  <2> QED
    BY <1>7, <2>3, <2>4, <2>5 DEF WriteTask
<1>8. CASE DeleteTaskLock(h)
  <2>1. task[h] \in Task
    BY <1>0, <1>8, Busy, BusyTask DEF DeleteTaskLock
  <2>2. DbType'
    BY <1>0, <1>8, <2>1, DeleteTaskType DEF DeleteTaskLock, DbType, db
  <2> QED
    BY <1>0, <1>8, <2>2, FinishType DEF DeleteTaskLock
<1>9. CASE ScanStart(h)
  BY <1>9, DecideType
     DEF ScanStart, Scanning, Deletion, task_status_t, ActiveStatus
<1>10. CASE ScanEnd(h)
  <2> DEFINE status == run_status[task[h]]
  <2>1. CASE Finish(h) /\ UNCHANGED << up, db >>
    BY <1>0, <2>1, FinishType DEF DbType, db
  <2>2. CASE Decide(h, EndStatus(status), EndDeletion(status))
    <3>1. EndStatus(status) \in task_status_t
      BY DEF EndStatus, task_status_t, InactiveStatus, ResumableStatus
    <3>2. EndDeletion(status) \in Deletion
      BY DEF EndDeletion, Deletion
    <3> QED
      BY <1>10, <2>2, <3>1, <3>2, DecideType DEF ScanEnd, Scanning
  <2> QED
    BY <1>10, <2>1, <2>2 DEF ScanEnd
<1> QED
  BY <1>2, <1>3, <1>4, <1>5, <1>6, <1>7, <1>8, <1>9, <1>10 DEF HandlerStep

\* The first half of a fail exit keeps the types.
LEMMA SetTaskInterruptedType ==
    ASSUME TypeOK, NEW p \in Proc, ~ AtRest(p), SetTaskInterrupted(p)
    PROVE  DbType' /\ ProcOK'
<1>1. DbType /\ ProcOK
  BY DEF TypeOK, ProcOK
<1>2. DbType'
  BY <1>1, UpdateTaskType
     DEF SetTaskInterrupted, DbType, task_status_t, InactiveStatus, ResumableStatus
<1> QED
  BY <1>1, <1>2, GotoType
     DEF SetTaskInterrupted, locals, ProcOK, ProcType, SessionPC, HandlerPC, RestPC

\* A failure, and the recovery from it, keep the types.
LEMMA FailureType ==
    ASSUME TypeOK, Failure
    PROVE  TypeOK'
<1>0. DbType /\ ProcOK /\ Session \subseteq Proc /\ Handler \subseteq Proc
  BY DEF TypeOK, ProcOK, Proc
<1>1. SUFFICES DbType' /\ ProcOK'
  BY DEF TypeOK, ProcOK
<1>2. ASSUME NEW s \in Session, CreateCurrentReportFails(s) \/ TargetGone(s)
      PROVE  DbType' /\ ProcOK'
  <2>1. next_status[s] \in task_status_t
    BY <1>0 DEF ProcOK, ProcType
  <2> QED
    BY <1>0, <1>2, <2>1, FinishType, UpdateTaskType
       DEF CreateCurrentReportFails, TargetGone, DbType
<1>3. ASSUME NEW s \in Session, ForkFails(s)
      PROVE  DbType' /\ ProcOK'
  BY <1>0, <1>3, Busy, SetTaskInterruptedType DEF ForkFails
<1>4. ASSUME NEW h \in Handler, ChildSendFails(h)
      PROVE  DbType' /\ ProcOK'
  BY <1>0, <1>4, Busy, SetTaskInterruptedType DEF ChildSendFails
<1>5. ASSUME NEW h \in Handler, HandlerExits(h)
      PROVE  DbType' /\ ProcOK'
  BY <1>5, DecideType
     DEF HandlerExits, Deletion, task_status_t, InactiveStatus, ResumableStatus
<1>6. ASSUME NEW p \in Proc, Kill(p)
      PROVE  DbType' /\ ProcOK'
  BY <1>0, <1>6, FinishType DEF Kill, DbType, db
<1>7. CASE Crash
  <2>1. DbType'
    BY <1>0, <1>7 DEF Crash, DbType, db
  <2>2. ProcType'
    BY <1>7, ProcAssumption
       DEF Crash, ProcType, RestPC, SessionPC, HandlerPC, Deletion, Proc,
           task_status_t, InactiveStatus
  <2> QED
    BY <1>7, <2>1, <2>2 DEF Crash, ProcOK, AtRest
<1>8. CASE Restart
  <2>1. DbType'
    BY <1>0, <1>8
       DEF Restart, DbType, task_status_t, InactiveStatus, ResumableStatus
  <2> QED
    BY <1>0, <1>8, <2>1 DEF Restart, ProcOK, ProcType, AtRest, locals
<1> QED
  BY <1>2, <1>3, <1>4, <1>5, <1>6, <1>7, <1>8 DEF Failure

\* The initial state has the types.
LEMMA InitType ==
    ASSUME Init
    PROVE  TypeOK
<1>1. DbType
  BY MaxReportAssumption DEF Init, DbType, task_status_t, InactiveStatus
<1>2. ProcType
  BY ProcAssumption
     DEF Init, ProcType, RestPC, SessionPC, HandlerPC, Deletion, Proc,
         task_status_t, InactiveStatus
<1> QED
  BY <1>1, <1>2 DEF Init, TypeOK, AtRest

\* Every step keeps the types.
LEMMA NextType ==
    ASSUME TypeOK, [Next]_vars
    PROVE  TypeOK'
<1>1. CASE UNCHANGED vars
  BY <1>1 DEF vars, TypeOK, DbType, ProcType, AtRest
<1>2. CASE Next
  BY <1>2, RequestType, SessionStepType, HandlerType, FailureType DEF Next
<1> QED
  BY <1>1, <1>2

\* The type invariant, for every number of tasks, sessions, handlers and
\* reports: in particular, a process that has finished a command or a scan has
\* let go of its task and of global_current_report.
THEOREM TypeCorrect == Spec => []TypeOK
<1>1. Init => TypeOK
  BY InitType
<1>2. TypeOK /\ [Next]_vars => TypeOK'
  BY NextType
<1> QED
  BY <1>1, <1>2, PTL DEF Spec

-----------------------------------------------------------------------------
(***************************************************************************)
(* At most one scan of a task.                                             *)
(***************************************************************************)

\* No process runs while the daemon is down: what makes the recovery of
\* Restart safe, because nobody has a scan of a task it marks Interrupted.
DownAtRest == ~ up => \A p \in Proc : AtRest(p)

\* SingleScan alone is not inductive: that no second process gets past
\* set_task_requested depends on the status the first one left in the database.
ScanInv == TypeOK /\ SingleScan /\ ActiveWhileScanned /\ DownAtRest

\* A step in which nobody takes up a scan, no removed row comes back, and the
\* status of a task that is being scanned is left alone or stays active.
Tame ==
    \A t \in Task, q \in Proc :
        HasScan(q, t)' =>
            /\ HasScan(q, t)
            /\ (location[t] # "gone")' => location[t] # "gone"
            /\ run_status'[t] = run_status[t] \/ run_status'[t] \in ActiveStatus

LEMMA TameKeeps ==
    ASSUME SingleScan, ActiveWhileScanned, Tame
    PROVE  SingleScan' /\ ActiveWhileScanned'
BY DEF SingleScan, ActiveWhileScanned, Tame

\* A process at rest has no scan.
LEMMA RestNoScan ==
    ASSUME NEW p \in Proc, AtRest(p), NEW t
    PROVE  ~ HasScan(p, t)
BY DEF AtRest, RestPC, HasScan, ScanPC

\* A process that finishes has no scan afterwards, and nobody else gets one.
LEMMA FinishScan ==
    ASSUME TypeOK, NEW p \in Proc, Finish(p) \/ Return(p)
    PROVE  \A t \in Task, q \in Proc : HasScan(q, t)' => HasScan(q, t) /\ q # p
BY DEF TypeOK, ProcType, Finish, Return, LetGo, HasScan, ScanPC, RestPC

\* Neither does a process get a scan that moves on within a command and keeps
\* its task, unless it comes from outside of ScanPC.
LEMMA GotoScan ==
    ASSUME TypeOK, NEW p \in Proc, NEW l, Goto(p, l), task' = task,
           l \in ScanPC => pc[p] \in ScanPC
    PROVE  \A t \in Task, q \in Proc :
              HasScan(q, t)' => HasScan(q, t) /\ (q = p => l \in ScanPC)
BY DEF TypeOK, ProcType, Goto, HasScan

\* UPDATE tasks changes the status of one row at most.
LEMMA UpdateTaskOther ==
    ASSUME DbType, NEW t, NEW status, UpdateTask(t, status), NEW x \in Task
    PROVE  \/ run_status'[x] = run_status[x]
           \/ x = t /\ run_status'[x] = status
BY DEF DbType, UpdateTask

\* Removed rows do not come back.
LEMMA RemoveTasksGone ==
    ASSUME DbType, NEW T, RemoveTasks(T), NEW x \in Task
    PROVE  /\ location'[x] # "gone" => location[x] # "gone"
           /\ run_status'[x] = run_status[x]
BY DEF DbType, RemoveTasks

LEMMA DeleteTaskGone ==
    ASSUME DbType, NEW t \in Task, location[t] # "gone", NEW u,
           delete_task(t, u), NEW x \in Task
    PROVE  /\ location'[x] # "gone" => location[x] # "gone"
           /\ run_status'[x] = run_status[x]
BY RemoveTasksGone DEF DbType, delete_task, db

\* Commands, other than DELETE_REPORT, do not touch a scan.
LEMMA RequestTame ==
    ASSUME TypeOK, "delete_report" \notin Ops, NEW s \in Session, Request(s)
    PROVE  Tame /\ up /\ up'
<1>0. DbType /\ s \in Proc /\ ProcType
  BY DEF TypeOK, Proc
<1>1. ASSUME NEW t \in Task, NEW l \in {"req", "stop", "mark", "drop"},
             Begin(s, t, l), UNCHANGED << up, db >>
      PROVE  Tame /\ up /\ up'
  BY <1>0, <1>1 DEF Tame, Begin, Goto, db, HasScan, ScanPC, ProcType
<1>2. ASSUME NEW t \in Task, StartTask(s, t) \/ ResumeTask(s, t) \/ StopTask(s, t)
      PROVE  Tame /\ up /\ up'
  BY <1>1, <1>2 DEF StartTask, ResumeTask, StopTask
<1>3. ASSUME NEW t \in Task, NEW u \in {"trash", "ultimate"}, DeleteTask(s, t, u)
      PROVE  Tame /\ up /\ up'
  BY <1>1, <1>3 DEF DeleteTask
<1>4. ASSUME UNCHANGED << pc, locals >>,
             \A x \in Task : /\ location'[x] # "gone" => location[x] # "gone"
                             /\ run_status'[x] = run_status[x]
      PROVE  Tame
  BY <1>4 DEF Tame, HasScan, locals
<1>5. ASSUME NEW t \in Task, DeleteTrashTask(s, t)
      PROVE  Tame /\ up /\ up'
  BY <1>0, <1>4, <1>5, RemoveTasksGone DEF DeleteTrashTask
<1>6. ASSUME NEW t \in Task, Restore(s, t)
      PROVE  Tame /\ up /\ up'
  BY <1>0, <1>4, <1>6 DEF Restore, DbType
<1>7. CASE EmptyTrashcan(s)
  BY <1>0, <1>4, <1>7, RemoveTasksGone DEF EmptyTrashcan
<1>8. ASSUME NEW r \in Report
      PROVE  ~ DeleteReport(s, r)
  BY DEF DeleteReport
<1>9. CASE Disconnect(s)
  BY <1>9 DEF Disconnect, Tame, HasScan, db
<1> QED
  BY <1>2, <1>3, <1>5, <1>6, <1>7, <1>8, <1>9 DEF Request

\* A process that lets go of its scan may set the task to any status, because
\* nobody else has a scan of it.
LEMMA ReleaseTame ==
    ASSUME TypeOK, SingleScan, NEW p \in Proc, pc[p] \in ScanPC,
           NEW status, UpdateTask(task[p], status), UNCHANGED location,
           \A t \in Task, q \in Proc : HasScan(q, t)' => HasScan(q, t) /\ q # p
    PROVE  Tame
<1>1. ASSUME NEW t \in Task, NEW q \in Proc, HasScan(q, t)'
      PROVE  /\ HasScan(q, t)
             /\ run_status'[t] = run_status[t]
  <2>1. HasScan(q, t) /\ q # p
    BY <1>1
  <2>2. t # task[p]
    BY <2>1 DEF SingleScan, HasScan
  <2> QED
    BY <2>1, <2>2, UpdateTaskOther DEF TypeOK
<1> QED
  BY <1>1 DEF Tame

\* A step of a command: set_task_requested may take up a scan, but of a task
\* that nobody scans; fork hands one over; all others are tame.
LEMMA SessionStepScan ==
    ASSUME ScanInv, NEW s \in Session, SessionStep(s)
    PROVE  SingleScan' /\ ActiveWhileScanned' /\ up /\ up'
<1>0. TypeOK /\ DbType /\ ProcOK /\ ProcType /\ s \in Proc
      /\ SingleScan /\ ActiveWhileScanned
  BY DEF ScanInv, TypeOK, ProcOK, Proc
<1>1. ~ AtRest(s)
  BY <1>0, Busy
     DEF SessionStep, SetTaskRequested, CreateCurrentReport, FindResumableReport,
         MarkResumedReport, Fork, UndoReport, StopTaskWrite, DeleteTaskMark,
         DeleteTaskDrop
<1>2. up /\ task[s] \in Task
  BY <1>0, <1>1, BusyTask DEF ScanInv, DownAtRest
<1>3. up'
  BY <1>2
     DEF SessionStep, SetTaskRequested, CreateCurrentReport, FindResumableReport,
         MarkResumedReport, Fork, UndoReport, StopTaskWrite, DeleteTaskMark,
         DeleteTaskDrop
<1>4. ASSUME Tame
      PROVE  SingleScan' /\ ActiveWhileScanned' /\ up /\ up'
  BY <1>0, <1>2, <1>3, <1>4, TameKeeps
<1>5. CASE SetTaskRequested(s)
  <2> DEFINE t == task[s]
  <2>1. CASE (Finish(s) \/ Return(s)) /\ UNCHANGED << up, db >>
    <3>1. Tame
      BY <1>0, <2>1, FinishScan DEF Tame, db
    <3> QED
      BY <3>1, <1>4
  <2>2. CASE /\ location[t] # "gone" /\ run_status[t] \notin StatusRefusesStart
             /\ run_status' = [run_status EXCEPT ![t] = TASK_STATUS_REQUESTED]
             /\ Goto(s, "prep")
             /\ UNCHANGED << location, task >>
    <3>1. \A q \in Proc : ~ HasScan(q, t)
      BY <1>0, <1>2, <2>2, Statuses DEF ActiveWhileScanned
    <3>2. ASSUME NEW x \in Task, NEW q \in Proc, HasScan(q, x)'
          PROVE  HasScan(q, x) \/ (q = s /\ x = t)
      BY <1>0, <2>2, <3>2 DEF Goto, HasScan, ProcType
    <3>3. SingleScan'
      BY <1>0, <3>1, <3>2 DEF SingleScan
    <3>4. ASSUME NEW x \in Task, NEW q \in Proc, HasScan(q, x)',
                 location'[x] # "gone"
          PROVE  run_status'[x] \in ActiveStatus
      <4>1. CASE x = t
        BY <1>0, <1>2, <2>2, <4>1 DEF DbType, ActiveStatus
      <4>2. CASE x # t
        BY <1>0, <1>2, <2>2, <3>2, <3>4, <4>2 DEF DbType, ActiveWhileScanned
      <4> QED
        BY <4>1, <4>2
    <3>5. ActiveWhileScanned'
      BY <3>4 DEF ActiveWhileScanned
    <3> QED
      BY <1>2, <1>3, <3>3, <3>5
  <2> QED
    BY <1>5, <2>1, <2>2 DEF SetTaskRequested
<1>6. CASE CreateCurrentReport(s)
  <2> DEFINE abort == location[task[s]] = "gone"
  <2>1. CASE abort
    BY <1>0, <1>4, <1>6, <2>1, FinishScan DEF CreateCurrentReport, Tame, db
  <2>2. CASE ~ abort
    BY <1>0, <1>4, <1>6, <2>2, GotoScan DEF CreateCurrentReport, Tame, ScanPC
  <2> QED
    BY <2>1, <2>2
<1>7. CASE FindResumableReport(s)
  BY <1>0, <1>4, <1>7, GotoScan DEF FindResumableReport, Tame, ScanPC, db
<1>8. CASE MarkResumedReport(s)
  <2>1. CASE Finish(s)
    BY <1>0, <1>4, <1>8, <2>1, FinishScan DEF MarkResumedReport, Tame
  <2>2. CASE Goto(s, "fork") /\ UNCHANGED locals
    BY <1>0, <1>4, <1>8, <2>2, GotoScan DEF MarkResumedReport, Tame, ScanPC, locals
  <2> QED
    BY <1>8, <2>1, <2>2 DEF MarkResumedReport
<1>9. ASSUME NEW h \in Handler, Fork(s, h)
      PROVE  SingleScan' /\ ActiveWhileScanned'
  <2>1. h \in Proc /\ s # h /\ HasScan(s, task[s])
    BY <1>9, ProcAssumption DEF Proc, Fork, HasScan, ScanPC
  <2>2. \A x \in Task, q \in Proc :
           HasScan(q, x)' => \/ HasScan(q, x) /\ q # s /\ q # h
                             \/ q = h /\ x = task[s]
    BY <1>0, <1>9, <2>1 DEF Fork, HasScan, ScanPC, ProcType
  <2>3. UNCHANGED << run_status, location >>
    BY <1>9 DEF Fork, db
  <2>4. SingleScan'
    BY <1>0, <2>1, <2>2 DEF SingleScan
  <2>5. ActiveWhileScanned'
    BY <1>0, <2>1, <2>2, <2>3 DEF ActiveWhileScanned
  <2> QED
    BY <2>4, <2>5
<1>10. CASE UndoReport(s)
  BY <1>0, <1>4, <1>10, FinishScan DEF UndoReport, Tame
<1>11. CASE StopTaskWrite(s) \/ DeleteTaskMark(s)
  <2>1. PICK status \in ActiveStatus : UpdateTask(task[s], status)
    BY <1>11 DEF StopTaskWrite, DeleteTaskMark, ActiveStatus
  <2>2. Return(s) /\ UNCHANGED location
    BY <1>11 DEF StopTaskWrite, DeleteTaskMark
  <2>3. Tame
    BY <1>0, <2>1, <2>2, FinishScan, UpdateTaskOther DEF Tame
  <2> QED
    BY <2>3, <1>4
<1>12. CASE DeleteTaskDrop(s)
  <2>1. \A x \in Task : /\ location'[x] # "gone" => location[x] # "gone"
                        /\ run_status'[x] = run_status[x]
    BY <1>0, <1>2, <1>12, DeleteTaskGone DEF DeleteTaskDrop, db
  <2>2. Tame
    BY <1>0, <1>12, <2>1, FinishScan DEF DeleteTaskDrop, Tame
  <2> QED
    BY <2>2, <1>4
<1> QED
  BY <1>2, <1>3, <1>5, <1>6, <1>7, <1>8, <1>9, <1>10, <1>11, <1>12
     DEF SessionStep

\* The steps of a handler keep its scan or end it.
LEMMA HandlerScan ==
    ASSUME ScanInv, NEW h \in Handler,
           HandlerStep(h) \/ ScanStart(h) \/ ScanEnd(h) \/ ResultRefused(h)
    PROVE  SingleScan' /\ ActiveWhileScanned' /\ up /\ up'
<1>0. TypeOK /\ DbType /\ ProcOK /\ ProcType /\ h \in Proc
      /\ SingleScan /\ ActiveWhileScanned
  BY DEF ScanInv, TypeOK, ProcOK, Proc
<1>1. ~ AtRest(h)
  BY <1>0, Busy
     DEF HandlerStep, ChildSends, UndoReport, CheckCurrentTask, HandlerAborts, ResultRefused,
         WriteReport, WriteTask, DeleteTaskLock, ScanStart, ScanEnd, Scanning
<1>2. up /\ task[h] \in Task
  BY <1>0, <1>1, BusyTask DEF ScanInv, DownAtRest
<1>3. up'
  BY <1>2
     DEF HandlerStep, ChildSends, UndoReport, CheckCurrentTask, HandlerAborts, ResultRefused,
         WriteReport, WriteTask, DeleteTaskLock, ScanStart, ScanEnd, Decide
<1>4. SUFFICES Tame
  BY <1>0, <1>2, <1>3, TameKeeps
<1>5. CASE ChildSends(h)
  BY <1>0, <1>5, GotoScan DEF ChildSends, Tame, ScanPC, db, locals
<1>6. CASE UndoReport(h)
  BY <1>0, <1>6, FinishScan DEF UndoReport, Tame
<1>7. ASSUME NEW status, NEW u, pc[h] = "scan", Decide(h, status, u)
      PROVE  Tame
  BY <1>0, <1>7, GotoScan DEF Decide, Tame, ScanPC, db
<1>8. CASE CheckCurrentTask(h) \/ ScanStart(h)
  BY <1>7, <1>8 DEF CheckCurrentTask, ScanStart, Scanning
<1>9. ASSUME Finish(h), UNCHANGED << up, db >>
      PROVE  Tame
  BY <1>0, <1>9, FinishScan DEF Tame, db
<1>10. CASE ScanEnd(h) \/ HandlerAborts(h) \/ ResultRefused(h)
  BY <1>7, <1>9, <1>10 DEF ScanEnd, Scanning, HandlerAborts, ResultRefused
<1>11. CASE WriteReport(h)
  BY <1>0, <1>11, GotoScan DEF WriteReport, Tame, ScanPC, locals
<1>12. CASE WriteTask(h)
  <2>1. pc[h] \in ScanPC /\ UpdateTask(task[h], next_status[h])
        /\ UNCHANGED location
    BY <1>12 DEF WriteTask, ScanPC
  <2>2. CASE /\ next_status[h] \in ActiveStatus
             /\ Goto(h, "scan")
             /\ UNCHANGED task
    <3>1. \A x \in Task : \/ run_status'[x] = run_status[x]
                          \/ run_status'[x] \in ActiveStatus
      BY <1>0, <2>1, <2>2, UpdateTaskOther
    <3>2. \A t \in Task, q \in Proc : HasScan(q, t)' => HasScan(q, t)
      BY <1>0, <2>1, <2>2, GotoScan
    <3> QED
      BY <2>1, <3>1, <3>2 DEF Tame
  <2>3. CASE Goto(h, "dlock") /\ UNCHANGED locals
    <3>1. \A t \in Task, q \in Proc : HasScan(q, t)' => HasScan(q, t) /\ q # h
      BY <1>0, <2>3, GotoScan DEF ScanPC, locals
    <3> QED
      BY <1>0, <2>1, <3>1, ReleaseTame
  <2>4. CASE Finish(h)
    BY <1>0, <2>1, <2>4, FinishScan, ReleaseTame
  <2> QED
    BY <1>12, <2>2, <2>3, <2>4 DEF WriteTask
<1>13. CASE DeleteTaskLock(h)
  <2>1. \A x \in Task : /\ location'[x] # "gone" => location[x] # "gone"
                        /\ run_status'[x] = run_status[x]
    BY <1>0, <1>2, <1>13, DeleteTaskGone DEF DeleteTaskLock, db
  <2> QED
    BY <1>0, <1>13, <2>1, FinishScan DEF DeleteTaskLock, Tame
<1> QED
  BY <1>5, <1>6, <1>8, <1>10, <1>11, <1>12, <1>13 DEF HandlerStep

\* Failures: whoever gives up a task had its scan; after a crash nobody has one.
LEMMA FailureScan ==
    ASSUME ScanInv, Failure
    PROVE  SingleScan' /\ ActiveWhileScanned' /\ DownAtRest'
<1>0. TypeOK /\ DbType /\ ProcOK /\ ProcType
      /\ SingleScan /\ ActiveWhileScanned
      /\ Session \subseteq Proc /\ Handler \subseteq Proc
  BY DEF ScanInv, TypeOK, ProcOK, Proc
<1>1. ASSUME NEW p \in Proc, ~ AtRest(p), UNCHANGED up
      PROVE  DownAtRest'
  BY <1>1 DEF ScanInv, DownAtRest
<1>2. ASSUME NEW p \in Proc, pc[p] \in ScanPC, SetTaskInterrupted(p)
      PROVE  Tame
  <2>1. \A t \in Task, q \in Proc : HasScan(q, t)' => HasScan(q, t) /\ q # p
    BY <1>0, <1>2, GotoScan DEF SetTaskInterrupted, ScanPC, locals
  <2> QED
    BY <1>0, <1>2, <2>1, ReleaseTame DEF SetTaskInterrupted
<1>3. ASSUME NEW s \in Session, CreateCurrentReportFails(s) \/ TargetGone(s)
      PROVE  SingleScan' /\ ActiveWhileScanned' /\ DownAtRest'
  <2>1. pc[s] \in ScanPC /\ ~ AtRest(s)
    BY <1>0, <1>3, Busy DEF CreateCurrentReportFails, TargetGone, ScanPC
  <2>2. Tame
    BY <1>0, <1>3, <2>1, FinishScan, ReleaseTame DEF CreateCurrentReportFails, TargetGone
  <2> QED
    BY <1>0, <1>1, <1>3, <2>1, <2>2, TameKeeps DEF CreateCurrentReportFails, TargetGone
<1>4. ASSUME NEW s \in Session, ForkFails(s)
      PROVE  SingleScan' /\ ActiveWhileScanned' /\ DownAtRest'
  <2>1. pc[s] \in ScanPC /\ ~ AtRest(s)
    BY <1>0, <1>4, Busy DEF ForkFails, ScanPC
  <2> QED
    BY <1>0, <1>1, <1>2, <1>4, <2>1, TameKeeps DEF ForkFails, SetTaskInterrupted
<1>5. ASSUME NEW h \in Handler, ChildSendFails(h)
      PROVE  SingleScan' /\ ActiveWhileScanned' /\ DownAtRest'
  <2>1. pc[h] \in ScanPC /\ ~ AtRest(h)
    BY <1>0, <1>5, Busy DEF ChildSendFails, ScanPC
  <2> QED
    BY <1>0, <1>1, <1>2, <1>5, <2>1, TameKeeps DEF ChildSendFails, SetTaskInterrupted
<1>6. ASSUME NEW h \in Handler, HandlerExits(h)
      PROVE  SingleScan' /\ ActiveWhileScanned' /\ DownAtRest'
  <2>1. ~ AtRest(h)
    BY <1>0, <1>6, Busy DEF HandlerExits
  <2>2. Tame
    BY <1>0, <1>6, GotoScan DEF HandlerExits, Decide, Tame, ScanPC, db
  <2> QED
    BY <1>0, <1>1, <1>6, <2>1, <2>2, TameKeeps DEF HandlerExits, Decide
<1>7. ASSUME NEW p \in Proc, Kill(p)
      PROVE  SingleScan' /\ ActiveWhileScanned' /\ DownAtRest'
  <2>1. Tame
    BY <1>0, <1>7, FinishScan DEF Kill, Tame, db
  <2> QED
    BY <1>0, <1>1, <1>7, <2>1, TameKeeps DEF Kill
<1>8. CASE Crash
  <2>1. \A p \in Proc : AtRest(p)'
    BY <1>8 DEF Crash, AtRest
  <2>2. \A t \in Task, p \in Proc : ~ HasScan(p, t)'
    BY <1>8 DEF Crash, HasScan, ScanPC, RestPC
  <2> QED
    BY <2>1, <2>2 DEF SingleScan, ActiveWhileScanned, DownAtRest
<1>9. CASE Restart
  <2>1. \A t \in Task, p \in Proc : ~ HasScan(p, t)
    BY <1>9, RestNoScan DEF Restart, ScanInv, DownAtRest
  <2>2. \A t \in Task, p \in Proc : ~ HasScan(p, t)'
    BY <1>9, <2>1 DEF Restart, HasScan, locals
  <2> QED
    BY <1>9, <2>2 DEF Restart, SingleScan, ActiveWhileScanned, DownAtRest
<1> QED
  BY <1>3, <1>4, <1>5, <1>6, <1>7, <1>8, <1>9 DEF Failure

\* The inductive invariant holds.
LEMMA ScanInvariant ==
    ASSUME "delete_report" \notin Ops
    PROVE  Spec => []ScanInv
<1>1. Init => ScanInv
  <2>1. ASSUME Init
        PROVE  \A p \in Proc : AtRest(p)
    BY <2>1 DEF Init, AtRest
  <2>2. ASSUME Init
        PROVE  \A t \in Task, p \in Proc : ~ HasScan(p, t)
    BY <2>1, <2>2, RestNoScan
  <2> QED
    BY <2>1, <2>2, InitType DEF ScanInv, SingleScan, ActiveWhileScanned, DownAtRest
<1>2. ScanInv /\ [Next]_vars => ScanInv'
  <2> SUFFICES ASSUME ScanInv, [Next]_vars
               PROVE  ScanInv'
    OBVIOUS
  <2>0. TypeOK'
    BY NextType DEF ScanInv
  <2>1. CASE UNCHANGED vars
    BY <2>0, <2>1
       DEF vars, ScanInv, SingleScan, ActiveWhileScanned, DownAtRest, HasScan, AtRest
  <2>2. ASSUME NEW s \in Session, Request(s)
        PROVE  ScanInv'
    BY <2>0, <2>2, RequestTame, TameKeeps DEF ScanInv, DownAtRest
  <2>3. ASSUME NEW s \in Session, SessionStep(s)
        PROVE  ScanInv'
    BY <2>0, <2>3, SessionStepScan DEF ScanInv, DownAtRest
  <2>4. ASSUME NEW h \in Handler, HandlerStep(h) \/ ScanStart(h) \/ ScanEnd(h) \/ ResultRefused(h)
        PROVE  ScanInv'
    BY <2>0, <2>4, HandlerScan DEF ScanInv, DownAtRest
  <2>5. CASE Failure
    BY <2>0, <2>5, FailureScan DEF ScanInv
  <2> QED
    BY <2>1, <2>2, <2>3, <2>4, <2>5 DEF Next
<1> QED
  BY <1>1, <1>2, PTL DEF Spec

\* The status of a task excludes a second scan: for every number of tasks,
\* sessions and handlers, whatever fails and whoever dies, at most one process
\* has a scan of a task, and while one has it the task is in an active status,
\* as long as no report is deleted (delete_report_internal overwrites the
\* status; the run v_start shows how that breaks the exclusion).
THEOREM ScanExclusion ==
    ASSUME "delete_report" \notin Ops
    PROVE  Spec => [](SingleScan /\ ActiveWhileScanned)
<1>1. ScanInv => SingleScan /\ ActiveWhileScanned
  BY DEF ScanInv
<1> QED
  BY <1>1, ScanInvariant, PTL

-----------------------------------------------------------------------------
(***************************************************************************)
(* The run status implements the lock of ScanLock.                         *)
(***************************************************************************)

\* No scan is taken up or ended ...
SameScans ==
    \A t \in Task, q \in Proc : HasScan(q, t)' <=> HasScan(q, t)

\* ... or at most the scan of p is ended.
ScanEnded(p) ==
    \A t \in Task, q \in Proc : HasScan(q, t)' <=> HasScan(q, t) /\ q # p

\* Both are steps of the lock.
LEMMA SameScansLock ==
    ASSUME SameScans
    PROVE  UNCHANGED owner
BY DEF SameScans, owner

LEMMA ScanEndedLock ==
    ASSUME TypeOK, SingleScan, NEW p \in Proc, ScanEnded(p)
    PROVE  [Lock!Next]_owner
<1>1. CASE \E t \in Task : HasScan(p, t)
  <2>1. PICK t \in Task : HasScan(p, t)
    BY <1>1
  <2>2. owner[t] = {p}
    BY <2>1 DEF owner, SingleScan
  <2>3. ASSUME NEW x \in Task
        PROVE  owner'[x] = IF x = t THEN {} ELSE owner[x]
    <3>1. CASE x = t
      BY <2>1, <3>1 DEF ScanEnded, SingleScan, owner
    <3>2. CASE x # t
      <4>1. ~ HasScan(p, x)
        BY <2>1, <3>2 DEF HasScan
      <4> QED
        BY <3>2, <4>1 DEF ScanEnded, owner
    <3> QED
      BY <3>1, <3>2
  <2>4. owner' = [owner EXCEPT ![t] = {}]
    BY <2>3 DEF owner
  <2> QED
    BY <2>2, <2>4 DEF Lock!Next, Lock!Release
<1>2. CASE ~ \E t \in Task : HasScan(p, t)
  <2>1. SameScans
    BY <1>2 DEF SameScans, ScanEnded
  <2> QED
    BY <2>1, SameScansLock
<1> QED
  BY <1>1, <1>2

LEMMA FinishEnds ==
    ASSUME TypeOK, NEW p \in Proc, Finish(p) \/ Return(p)
    PROVE  ScanEnded(p)
BY DEF ScanEnded, TypeOK, ProcType, Finish, Return, LetGo, HasScan, ScanPC, RestPC

LEMMA GotoSame ==
    ASSUME TypeOK, NEW p \in Proc, NEW l, Goto(p, l), task' = task,
           l \in ScanPC <=> pc[p] \in ScanPC
    PROVE  SameScans
BY DEF SameScans, TypeOK, ProcType, Goto, HasScan

LEMMA GotoEnds ==
    ASSUME TypeOK, NEW p \in Proc, NEW l, Goto(p, l), task' = task,
           l \notin ScanPC
    PROVE  ScanEnded(p)
BY DEF ScanEnded, TypeOK, ProcType, Goto, HasScan

\* A new command does not touch the lock.
LEMMA RequestLock ==
    ASSUME TypeOK, "delete_report" \notin Ops, NEW s \in Session, Request(s)
    PROVE  UNCHANGED owner
<1>0. s \in Proc /\ ProcType
  BY DEF TypeOK, Proc
<1>1. SUFFICES SameScans
  BY SameScansLock
<1>2. ASSUME NEW t \in Task, NEW l \in {"req", "stop", "mark", "drop"},
             Begin(s, t, l)
      PROVE  SameScans
  BY <1>0, <1>2 DEF SameScans, Begin, Goto, HasScan, ScanPC, ProcType
<1>3. ASSUME NEW t \in Task, StartTask(s, t) \/ ResumeTask(s, t) \/ StopTask(s, t)
      PROVE  SameScans
  BY <1>2, <1>3 DEF StartTask, ResumeTask, StopTask
<1>4. ASSUME NEW t \in Task, NEW u \in {"trash", "ultimate"}, DeleteTask(s, t, u)
      PROVE  SameScans
  BY <1>2, <1>4 DEF DeleteTask
<1>5. ASSUME UNCHANGED << pc, task >>
      PROVE  SameScans
  BY <1>5 DEF SameScans, HasScan
<1>6. ASSUME NEW t \in Task, DeleteTrashTask(s, t) \/ Restore(s, t)
      PROVE  SameScans
  BY <1>5, <1>6 DEF DeleteTrashTask, Restore, locals
<1>7. CASE EmptyTrashcan(s) \/ Disconnect(s)
  BY <1>5, <1>7 DEF EmptyTrashcan, Disconnect, locals
<1>8. ASSUME NEW r \in Report
      PROVE  ~ DeleteReport(s, r)
  BY DEF DeleteReport
<1> QED
  BY <1>3, <1>4, <1>6, <1>7, <1>8 DEF Request

\* set_task_requested takes the lock, fork passes it on.
LEMMA SessionStepLock ==
    ASSUME ScanInv, NEW s \in Session, SessionStep(s)
    PROVE  [Lock!Next]_owner
<1>0. /\ TypeOK /\ DbType /\ ProcOK /\ ProcType /\ s \in Proc
      /\ SingleScan /\ ActiveWhileScanned
  BY DEF ScanInv, TypeOK, ProcOK, Proc
<1>1. ASSUME SameScans
      PROVE  [Lock!Next]_owner
  BY <1>1, SameScansLock
<1>2. ASSUME Finish(s) \/ Return(s)
      PROVE  [Lock!Next]_owner
  BY <1>0, <1>2, FinishEnds, ScanEndedLock
<1>3. CASE SetTaskRequested(s)
  <2> DEFINE t == task[s]
  <2>1. CASE /\ location[t] # "gone" /\ run_status[t] \notin StatusRefusesStart
             /\ Goto(s, "prep")
             /\ UNCHANGED task
    <3>0. t \in Task /\ pc[s] \notin ScanPC
      BY <1>0, <1>3, Busy, BusyTask DEF SetTaskRequested, ScanPC
    <3>1. owner[t] = {}
      BY <1>0, <2>1, <3>0, Statuses DEF ActiveWhileScanned, owner
    <3>2. ASSUME NEW x \in Task, NEW q \in Proc
          PROVE  HasScan(q, x)' <=> HasScan(q, x) \/ (q = s /\ x = t)
      BY <1>0, <2>1, <3>0 DEF Goto, HasScan, ProcType, ScanPC
    <3>3. ASSUME NEW x \in Task
          PROVE  owner'[x] = IF x = t THEN {s} ELSE owner[x]
      <4>1. CASE x = t
        BY <1>0, <3>0, <3>1, <3>2, <4>1 DEF owner
      <4>2. CASE x # t
        BY <3>0, <3>2, <4>2 DEF owner
      <4> QED
        BY <4>1, <4>2
    <3>4. owner' = [owner EXCEPT ![t] = {s}]
      BY <3>3 DEF owner
    <3> QED
      BY <1>0, <3>0, <3>1, <3>4 DEF Lock!Next, Lock!Acquire
  <2> QED
    BY <1>2, <1>3, <2>1 DEF SetTaskRequested
<1>4. ASSUME NEW h \in Handler, Fork(s, h)
      PROVE  [Lock!Next]_owner
  <2> DEFINE t == task[s]
  <2>1. /\ h \in Proc /\ s # h /\ HasScan(s, t) /\ ~ HasScan(h, t)
        /\ t \in Task
    BY <1>0, <1>4, ProcAssumption, Busy, BusyTask DEF Proc, Fork, HasScan, ScanPC
  <2>2. owner[t] = {s}
    BY <1>0, <2>1 DEF owner, SingleScan
  <2>3. ASSUME NEW x \in Task, NEW q \in Proc
        PROVE  HasScan(q, x)' <=> \/ HasScan(q, x) /\ q # s
                                  \/ q = h /\ x = t
    BY <1>0, <1>4, <2>1 DEF Fork, HasScan, ScanPC, ProcType
  <2>4. ASSUME NEW x \in Task
        PROVE  owner'[x] = IF x = t THEN {h} ELSE owner[x]
    <3>1. CASE x = t
      BY <1>0, <2>1, <2>3, <3>1 DEF owner, SingleScan
    <3>2. CASE x # t
      <4>1. ~ HasScan(s, x)
        BY <3>2 DEF HasScan
      <4> QED
        BY <2>3, <3>2, <4>1 DEF owner
    <3> QED
      BY <3>1, <3>2
  <2>5. owner' = [owner EXCEPT ![t] = {h}]
    BY <2>4 DEF owner
  <2> QED
    BY <1>0, <2>1, <2>2, <2>5 DEF Lock!Next, Lock!HandOver
<1>5. CASE CreateCurrentReport(s)
  <2>1. CASE Finish(s)
    BY <2>1, <1>2
  <2>2. CASE Goto(s, "fork") /\ UNCHANGED task
    BY <1>0, <1>1, <1>5, <2>2, GotoSame DEF CreateCurrentReport, ScanPC
  <2> QED
    BY <1>5, <2>1, <2>2 DEF CreateCurrentReport
<1>6. CASE FindResumableReport(s)
  BY <1>0, <1>1, <1>6, GotoSame DEF FindResumableReport, ScanPC
<1>7. CASE MarkResumedReport(s)
  <2>1. CASE Finish(s)
    BY <2>1, <1>2
  <2>2. CASE Goto(s, "fork") /\ UNCHANGED task
    BY <1>0, <1>1, <1>7, <2>2, GotoSame DEF MarkResumedReport, ScanPC
  <2> QED
    BY <1>7, <2>1, <2>2 DEF MarkResumedReport, locals
<1>8. CASE UndoReport(s) \/ StopTaskWrite(s) \/ DeleteTaskMark(s) \/ DeleteTaskDrop(s)
  BY <1>2, <1>8 DEF UndoReport, StopTaskWrite, DeleteTaskMark, DeleteTaskDrop
<1> QED
  BY <1>3, <1>4, <1>5, <1>6, <1>7, <1>8 DEF SessionStep

\* A handler keeps the lock until its scan ends.
LEMMA HandlerLock ==
    ASSUME ScanInv, NEW h \in Handler,
           HandlerStep(h) \/ ScanStart(h) \/ ScanEnd(h) \/ ResultRefused(h)
    PROVE  [Lock!Next]_owner
<1>0. TypeOK /\ SingleScan /\ h \in Proc
  BY DEF ScanInv, Proc
<1>1. ASSUME SameScans
      PROVE  [Lock!Next]_owner
  BY <1>1, SameScansLock
<1>2. ASSUME Finish(h)
      PROVE  [Lock!Next]_owner
  BY <1>0, <1>2, FinishEnds, ScanEndedLock
<1>3. CASE ChildSends(h)
  BY <1>0, <1>1, <1>3, GotoSame DEF ChildSends, ScanPC, locals
<1>4. ASSUME NEW status, NEW u, pc[h] = "scan", Decide(h, status, u)
      PROVE  [Lock!Next]_owner
  BY <1>0, <1>1, <1>4, GotoSame DEF Decide, ScanPC
<1>5. CASE CheckCurrentTask(h) \/ ScanStart(h)
  BY <1>4, <1>5 DEF CheckCurrentTask, ScanStart, Scanning
<1>6. CASE ScanEnd(h)
  BY <1>2, <1>4, <1>6 DEF ScanEnd, Scanning
<1>7. CASE WriteReport(h)
  BY <1>0, <1>1, <1>7, GotoSame DEF WriteReport, ScanPC, locals
<1>8. CASE WriteTask(h)
  <2>1. CASE Goto(h, "scan") /\ UNCHANGED task
    BY <1>0, <1>1, <1>8, <2>1, GotoSame DEF WriteTask, ScanPC
  <2>2. CASE Goto(h, "dlock") /\ UNCHANGED locals
    BY <1>0, <2>2, GotoEnds, ScanEndedLock DEF ScanPC, locals
  <2> QED
    BY <1>2, <1>8, <2>1, <2>2 DEF WriteTask
<1>9. CASE UndoReport(h) \/ HandlerAborts(h) \/ ResultRefused(h) \/ DeleteTaskLock(h)
  BY <1>2, <1>9 DEF UndoReport, HandlerAborts, ResultRefused, DeleteTaskLock
<1> QED
  BY <1>3, <1>5, <1>6, <1>7, <1>8, <1>9 DEF HandlerStep

\* A failure gives one lock back, a crash all of them.
LEMMA FailureLock ==
    ASSUME ScanInv, Failure
    PROVE  [Lock!Next]_owner
<1>0. TypeOK /\ SingleScan /\ Session \subseteq Proc /\ Handler \subseteq Proc
  BY DEF ScanInv, Proc
<1>1. ASSUME NEW p \in Proc, Finish(p) \/ Return(p)
      PROVE  [Lock!Next]_owner
  BY <1>0, <1>1, FinishEnds, ScanEndedLock
<1>2. ASSUME NEW p \in Proc, SetTaskInterrupted(p)
      PROVE  [Lock!Next]_owner
  BY <1>0, <1>2, GotoEnds, ScanEndedLock DEF SetTaskInterrupted, ScanPC, locals
<1>3. ASSUME NEW s \in Session,
             CreateCurrentReportFails(s) \/ TargetGone(s) \/ ForkFails(s)
      PROVE  [Lock!Next]_owner
  BY <1>0, <1>1, <1>2, <1>3 DEF CreateCurrentReportFails, TargetGone, ForkFails
<1>4. ASSUME NEW h \in Handler, ChildSendFails(h)
      PROVE  [Lock!Next]_owner
  BY <1>0, <1>2, <1>4 DEF ChildSendFails
<1>5. ASSUME NEW h \in Handler, HandlerExits(h)
      PROVE  [Lock!Next]_owner
  BY <1>0, <1>5, GotoSame, SameScansLock DEF HandlerExits, Decide, ScanPC
<1>6. ASSUME NEW p \in Proc, Kill(p)
      PROVE  [Lock!Next]_owner
  BY <1>1, <1>6 DEF Kill
<1>7. CASE Crash
  <2>1. \A t \in Task, p \in Proc : ~ HasScan(p, t)'
    BY <1>7 DEF Crash, HasScan, ScanPC, RestPC
  <2>2. owner' = [t \in Task |-> {}]
    BY <2>1 DEF owner
  <2> QED
    BY <2>2 DEF Lock!Next, Lock!ReleaseAll
<1>8. CASE Restart
  <2>1. SameScans
    BY <1>8 DEF Restart, SameScans, HasScan, locals
  <2> QED
    BY <2>1, SameScansLock
<1> QED
  BY <1>3, <1>4, <1>5, <1>6, <1>7, <1>8 DEF Failure

\* As long as no report is deleted, OtpTask implements ScanLock, for every number
\* of tasks, processes and reports: statements that read and write the run
\* status one by one, in processes that may die at any point, amount to a lock
\* that only its holder gives back.
THEOREM LockRefinement ==
    ASSUME "delete_report" \notin Ops
    PROVE  Spec => ImplementsLock
<1>1. Init => Lock!Init
  <2> SUFFICES ASSUME Init
               PROVE  Lock!Init
    OBVIOUS
  <2>1. \A t \in Task, p \in Proc : ~ HasScan(p, t)
    BY DEF Init, HasScan, ScanPC, RestPC
  <2> QED
    BY <2>1 DEF Lock!Init, owner
<1>2. ScanInv /\ [Next]_vars => [Lock!Next]_owner
  <2> SUFFICES ASSUME ScanInv, [Next]_vars
               PROVE  [Lock!Next]_owner
    OBVIOUS
  <2>1. CASE UNCHANGED vars
    <3>1. SameScans
      BY <2>1 DEF vars, SameScans, HasScan
    <3> QED
      BY <3>1, SameScansLock
  <2>2. ASSUME NEW s \in Session, Request(s)
        PROVE  [Lock!Next]_owner
    BY <2>2, RequestLock DEF ScanInv
  <2> QED
    BY <2>1, <2>2, SessionStepLock, HandlerLock, FailureLock DEF Next
<1> QED
  BY <1>1, <1>2, ScanInvariant, PTL DEF Spec, Lock!Spec, ImplementsLock

-----------------------------------------------------------------------------
(***************************************************************************)
(* The report of a scan.                                                   *)
(***************************************************************************)

\* The row of the report that a process holds is there.
HoldsRow(p) ==
    /\ global_current_report[p] # NoReport
    /\ report_task[global_current_report[p]] # NoTask

\* The sequence runs ahead of the ids in the processes and in the table.
FreshIds ==
    /\ \A p \in Proc : global_current_report[p] < next_report
    /\ \A r \in Report : r >= next_report => report_task[r] = NoTask

\* A process that has a scan and has got to its report holds one of its task.
ReportPC == { "trim", "fork", "child", "scan", "wrep", "wtask" }
ReportOfTask ==
    \A p \in Proc :
        pc[p] \in ReportPC /\ HoldsRow(p)
        => report_task[global_current_report[p]] = task[p]

\* What the status of a report that is held can be.  Sessions whose command is
\* over may hold one, too (see TargetGone).
HeldStatus ==
    \A p \in Proc :
        HoldsRow(p) =>
            LET status == scan_run_status[global_current_report[p]]
            IN  /\ pc[p] = "trim" => status \in ResumableStatus
                /\ pc[p] = "wtask" => status = next_status[p]
                /\ pc[p] \notin {"trim", "wtask", "dlock"} => status \in ActiveStatus

\* The next start of the daemon finds no process with a report.
DownNoReport == ~ up => \A p \in Proc : global_current_report[p] = NoReport

\* SingleReportWriter needs ScanInv: a report that can be resumed is held, if at
\* all, by a process that still has a scan of its task.
ReportInv ==
    /\ FreshIds
    /\ ReportOfTask
    /\ HeldStatus
    /\ DownNoReport
    /\ SingleReportWriter

\* The reports of a task go with the row of the task.
NoReportOfGone ==
    \A r \in Report : report_task[r] # NoTask => location[report_task[r]] # "gone"

\* While the daemon is up, a report with an active status is held by a process
\* that will give it another one.
CarePC == { "fork", "undo", "child", "scan", "wrep", "wtask" }
ActiveHeld ==
    up => \A r \in Report :
             report_task[r] # NoTask /\ scan_run_status[r] \in ActiveStatus
             => \E p \in Proc : pc[p] \in CarePC /\ global_current_report[p] = r

CareInv == NoReportOfGone /\ ActiveHeld

USE DEF NoReport

\* The value of a global is a report, or none; a row that is held is a row.
LEMMA GlobalType ==
    ASSUME TypeOK, NEW p \in Proc
    PROVE  /\ global_current_report[p] \in Report \cup {NoReport}
           /\ HoldsRow(p) => global_current_report[p] \in Report
BY DEF TypeOK, ProcType, HoldsRow

\* A step of one process, which gets no new report: the others keep their place
\* and their report; rows may go; the status changes of its own report at most,
\* and then to one that suits the place it has reached.
OwnReportStep(p) ==
    /\ \A q \in Proc \ {p} : /\ pc'[q] = pc[q]
                             /\ task'[q] = task[q]
                             /\ global_current_report'[q] = global_current_report[q]
                             /\ next_status'[q] = next_status[q]
    /\ next_report' = next_report
    /\ up' = up
    /\ global_current_report'[p] \in {global_current_report[p], NoReport}
    /\ pc[p] = "dlock" => global_current_report'[p] = NoReport
    /\ \A r \in Report : report_task'[r] \in {report_task[r], NoTask}
    /\ \A r \in Report : report_task'[r] # NoTask =>
           \/ scan_run_status'[r] = scan_run_status[r]
           \/ r = global_current_report[p] /\ pc[p] # "dlock"
    /\ HoldsRow(p)' =>
           LET status == scan_run_status'[global_current_report[p]]
           IN  /\ pc'[p] \in ReportPC => pc[p] \in ReportPC /\ task'[p] = task[p]
               /\ pc'[p] = "trim" => status \in ResumableStatus
               /\ pc'[p] = "wtask" => status = next_status'[p]
               /\ pc'[p] \notin {"trim", "wtask", "dlock"} => status \in ActiveStatus

LEMMA OwnReportStepKeeps ==
    ASSUME TypeOK, ReportInv, NEW p \in Proc, OwnReportStep(p)
    PROVE  ReportInv'
<1>1. \A q \in Proc : global_current_report'[q] \in {global_current_report[q], NoReport}
  BY DEF OwnReportStep
<1>2. \A q \in Proc : HoldsRow(q)' => /\ HoldsRow(q)
                                      /\ global_current_report'[q] = global_current_report[q]
                                      /\ global_current_report[q] \in Report
                                      /\ report_task'[global_current_report[q]]
                                            = report_task[global_current_report[q]]
  BY <1>1, GlobalType DEF OwnReportStep, HoldsRow
<1>3. FreshIds'
  <2>1. next_report \in Nat /\ next_report >= 1
    BY MaxReportAssumption DEF TypeOK, DbType
  <2> QED
    BY <1>1, <2>1 DEF ReportInv, FreshIds, OwnReportStep
<1>4. ReportOfTask'
  BY <1>2 DEF ReportInv, ReportOfTask, OwnReportStep
<1>5. SingleReportWriter'
  <2> SUFFICES ASSUME NEW q \in Proc, NEW o \in Proc,
                      global_current_report'[q] # NoReport,
                      global_current_report'[q] = global_current_report'[o],
                      pc'[q] # "dlock", pc'[o] # "dlock"
               PROVE  q = o
    BY DEF SingleReportWriter
  <2>1. /\ global_current_report[q] # NoReport
        /\ global_current_report[q] = global_current_report[o]
    BY <1>1
  <2>2. ~ (pc[p] = "dlock" /\ pc'[p] # "dlock" /\ global_current_report'[p] # NoReport)
    BY DEF OwnReportStep
  <2> QED
    BY <2>1, <2>2 DEF ReportInv, SingleReportWriter, OwnReportStep
<1>6. HeldStatus'
  <2> SUFFICES ASSUME NEW q \in Proc, HoldsRow(q)'
               PROVE  LET status == scan_run_status'[global_current_report'[q]]
                      IN  /\ pc'[q] = "trim" => status \in ResumableStatus
                          /\ pc'[q] = "wtask" => status = next_status'[q]
                          /\ pc'[q] \notin {"trim", "wtask", "dlock"}
                                => status \in ActiveStatus
    BY DEF HeldStatus
  <2>0. /\ HoldsRow(q) /\ global_current_report[q] \in Report
        /\ global_current_report'[q] = global_current_report[q]
        /\ report_task'[global_current_report[q]] # NoTask
    BY <1>2 DEF HoldsRow
  <2>1. CASE q = p
    BY <2>0, <2>1 DEF OwnReportStep
  <2>2. CASE q # p
    <3>1. pc'[q] = pc[q] /\ next_status'[q] = next_status[q]
      BY <2>2 DEF OwnReportStep
    <3>2. CASE pc[q] = "dlock"
      BY <3>1, <3>2
    <3>3. CASE pc[q] # "dlock"
      <4>1. ~ (global_current_report[q] = global_current_report[p] /\ pc[p] # "dlock")
        BY <2>0, <2>2, <3>3 DEF ReportInv, SingleReportWriter, HoldsRow
      <4>2. scan_run_status'[global_current_report[q]]
               = scan_run_status[global_current_report[q]]
        BY <2>0, <4>1 DEF OwnReportStep
      <4> QED
        BY <2>0, <3>1, <4>2 DEF ReportInv, HeldStatus
    <3> QED
      BY <3>2, <3>3
  <2> QED
    BY <2>1, <2>2
<1>7. DownNoReport'
  BY <1>1 DEF ReportInv, DownNoReport, OwnReportStep
<1> QED
  BY <1>3, <1>4, <1>5, <1>6, <1>7 DEF ReportInv

\* What a step may do to the reports, other than to the one that p holds.
RowsKept ==
    /\ next_report' = next_report
    /\ up' = up
    /\ \A r \in Report : report_task'[r] \in {report_task[r], NoTask}
    /\ \A r \in Report : report_task'[r] # NoTask
                         => scan_run_status'[r] = scan_run_status[r]

LEMMA SameRows ==
    ASSUME UNCHANGED << up, report_task, scan_run_status, next_report >>
    PROVE  RowsKept
BY DEF RowsKept

LEMMA RemoveTasksRows ==
    ASSUME TypeOK, NEW T, RemoveTasks(T), up' = up
    PROVE  RowsKept
BY NoTaskAssumption DEF TypeOK, DbType, RemoveTasks, RowsKept

LEMMA DeleteTaskRows ==
    ASSUME TypeOK, NEW t, NEW u, delete_task(t, u), up' = up
    PROVE  RowsKept
BY RemoveTasksRows, SameRows DEF delete_task, db

\* A process that finishes.
LEMMA FinishReport ==
    ASSUME TypeOK, ReportInv, NEW p \in Proc, Finish(p), RowsKept
    PROVE  ReportInv'
<1>1. global_current_report'[p] = NoReport
  BY DEF TypeOK, ProcType, Finish
<1>2. \A q \in Proc \ {p} : /\ pc'[q] = pc[q]
                            /\ task'[q] = task[q]
                            /\ global_current_report'[q] = global_current_report[q]
                            /\ next_status'[q] = next_status[q]
  BY DEF TypeOK, ProcType, Finish, LetGo
<1>3. ~ HoldsRow(p)'
  BY <1>1 DEF HoldsRow
<1>4. OwnReportStep(p)
  BY <1>1, <1>2, <1>3 DEF OwnReportStep, RowsKept
<1> QED
  BY <1>4, OwnReportStepKeeps

\* A process that finishes after an UPDATE of its report.
LEMMA UndoReportKeeps ==
    ASSUME TypeOK, ReportInv, NEW p \in Proc, UndoReport(p)
    PROVE  ReportInv'
<1>1. global_current_report'[p] = NoReport
  BY DEF TypeOK, ProcType, UndoReport, Finish
<1>2. \A q \in Proc \ {p} : /\ pc'[q] = pc[q]
                            /\ task'[q] = task[q]
                            /\ global_current_report'[q] = global_current_report[q]
                            /\ next_status'[q] = next_status[q]
  BY DEF TypeOK, ProcType, UndoReport, Finish, LetGo
<1>3. ~ HoldsRow(p)'
  BY <1>1 DEF HoldsRow
<1>4. \A r \in Report : \/ scan_run_status'[r] = scan_run_status[r]
                        \/ r = global_current_report[p] /\ pc[p] # "dlock"
  BY DEF TypeOK, DbType, UndoReport, UpdateReport
<1>5. OwnReportStep(p)
  BY <1>1, <1>2, <1>3, <1>4 DEF OwnReportStep, UndoReport
<1> QED
  BY <1>5, OwnReportStepKeeps

\* A session that returns may keep its report, if that is active.
LEMMA ReturnReport ==
    ASSUME TypeOK, ReportInv, NEW s \in Session, pc[s] # "trim", Return(s), RowsKept
    PROVE  ReportInv'
<1>0. s \in Proc /\ global_current_report' = global_current_report
  BY DEF Proc, Return
<1>1. pc'[s] = "idle" /\ "idle" \notin ReportPC
  BY <1>0 DEF TypeOK, ProcType, Return, LetGo, RestPC, ReportPC
<1>2. \A q \in Proc \ {s} : /\ pc'[q] = pc[q]
                            /\ task'[q] = task[q]
                            /\ next_status'[q] = next_status[q]
  BY DEF TypeOK, ProcType, Return, LetGo
<1>3. pc[s] \notin {"trim", "wtask", "dlock"}
  BY DEF TypeOK, ProcType, SessionPC
<1>4. HoldsRow(s)' => scan_run_status'[global_current_report[s]] \in ActiveStatus
  <2> SUFFICES ASSUME HoldsRow(s)'
               PROVE  scan_run_status'[global_current_report[s]] \in ActiveStatus
    OBVIOUS
  <2>1. global_current_report[s] \in Report /\ HoldsRow(s)
    BY <1>0, GlobalType DEF HoldsRow, RowsKept
  <2>2. scan_run_status'[global_current_report[s]] = scan_run_status[global_current_report[s]]
    BY <1>0, <2>1 DEF HoldsRow, RowsKept
  <2> QED
    BY <1>0, <1>3, <2>1, <2>2 DEF ReportInv, HeldStatus
<1>5. OwnReportStep(s)
  BY <1>0, <1>1, <1>2, <1>3, <1>4 DEF OwnReportStep, RowsKept
<1> QED
  BY <1>0, <1>5, OwnReportStepKeeps

\* A process that goes on with its report, between places where this is active.
LEMMA GotoReport ==
    ASSUME TypeOK, ReportInv, NEW p \in Proc, NEW l,
           pc[p] \notin {"trim", "wtask", "dlock"}, l \notin {"trim", "wtask"},
           l \in ReportPC => pc[p] \in ReportPC,
           Goto(p, l), UNCHANGED << task, global_current_report >>,
           \A q \in Proc \ {p} : next_status'[q] = next_status[q],
           RowsKept
    PROVE  ReportInv'
<1>1. pc'[p] = l /\ \A q \in Proc \ {p} : pc'[q] = pc[q]
  BY DEF TypeOK, ProcType, Goto
<1>2. HoldsRow(p)' => scan_run_status'[global_current_report[p]] \in ActiveStatus
  <2> SUFFICES ASSUME HoldsRow(p)'
               PROVE  scan_run_status'[global_current_report[p]] \in ActiveStatus
    OBVIOUS
  <2>1. global_current_report[p] \in Report /\ HoldsRow(p)
    BY GlobalType DEF HoldsRow, RowsKept
  <2>2. scan_run_status'[global_current_report[p]] = scan_run_status[global_current_report[p]]
    BY <2>1 DEF HoldsRow, RowsKept
  <2> QED
    BY <2>1, <2>2 DEF ReportInv, HeldStatus
<1>3. OwnReportStep(p)
  BY <1>1, <1>2 DEF OwnReportStep, RowsKept
<1> QED
  BY <1>3, OwnReportStepKeeps

\* A session takes up a command: its old report, if any, is active.
LEMMA BeginReport ==
    ASSUME TypeOK, ReportInv, NEW s \in Session, NEW t \in Task,
           NEW l \in {"req", "stop", "mark", "drop"}, Begin(s, t, l),
           UNCHANGED << up, db, global_current_report, next_status >>
    PROVE  ReportInv'
<1>0. s \in Proc /\ l \notin ReportPC
  BY DEF Proc, ReportPC
<1>1. /\ pc[s] = "idle" /\ pc'[s] = l
      /\ \A q \in Proc \ {s} : pc'[q] = pc[q] /\ task'[q] = task[q]
  BY <1>0 DEF TypeOK, ProcType, Begin, Goto
<1>2. HoldsRow(s)' => scan_run_status'[global_current_report[s]] \in ActiveStatus
  BY <1>0, <1>1 DEF ReportInv, HeldStatus, HoldsRow, db
<1>3. OwnReportStep(s)
  BY <1>0, <1>1, <1>2 DEF OwnReportStep, db
<1> QED
  BY <1>0, <1>3, OwnReportStepKeeps

\* Commands.
LEMMA RequestReport ==
    ASSUME TypeOK, ReportInv, "delete_report" \notin Ops, NEW s \in Session, Request(s)
    PROVE  ReportInv'
<1>0. s \in Proc
  BY DEF Proc
<1>1. ASSUME NEW t \in Task, StartTask(s, t) \/ ResumeTask(s, t) \/ StopTask(s, t)
      PROVE  ReportInv'
  BY <1>1, BeginReport DEF StartTask, ResumeTask, StopTask
<1>2. ASSUME NEW t \in Task, NEW u \in {"trash", "ultimate"}, DeleteTask(s, t, u)
      PROVE  ReportInv'
  BY <1>2, BeginReport DEF DeleteTask
\* The session is between commands, before and after the step.
<1>3. ASSUME pc[s] = "idle", UNCHANGED << pc, locals >>, RowsKept
      PROVE  ReportInv'
  <2>1. HoldsRow(s)' => scan_run_status'[global_current_report[s]] \in ActiveStatus
    <3> SUFFICES ASSUME HoldsRow(s)'
                 PROVE  scan_run_status'[global_current_report[s]] \in ActiveStatus
      OBVIOUS
    <3>1. global_current_report[s] \in Report /\ HoldsRow(s)
      BY <1>0, <1>3, GlobalType DEF HoldsRow, RowsKept, locals
    <3>2. scan_run_status'[global_current_report[s]] = scan_run_status[global_current_report[s]]
      BY <1>3, <3>1 DEF HoldsRow, RowsKept, locals
    <3> QED
      BY <1>0, <1>3, <3>1, <3>2 DEF ReportInv, HeldStatus
  <2>2. OwnReportStep(s)
    BY <1>3, <2>1 DEF OwnReportStep, RowsKept, locals, ReportPC
  <2> QED
    BY <1>0, <2>2, OwnReportStepKeeps
<1>4. ASSUME NEW t \in Task, DeleteTrashTask(s, t)
      PROVE  ReportInv'
  BY <1>3, <1>4, RemoveTasksRows DEF DeleteTrashTask
<1>5. ASSUME NEW t \in Task, Restore(s, t)
      PROVE  ReportInv'
  BY <1>3, <1>5, SameRows DEF Restore
<1>6. CASE EmptyTrashcan(s)
  BY <1>3, <1>6, RemoveTasksRows DEF EmptyTrashcan
<1>7. ASSUME NEW r \in Report
      PROVE  ~ DeleteReport(s, r)
  BY DEF DeleteReport
<1>8. CASE Disconnect(s)
  <2>1. global_current_report'[s] = NoReport
    BY <1>0, <1>8 DEF Disconnect, TypeOK, ProcType
  <2>2. \A q \in Proc \ {s} : global_current_report'[q] = global_current_report[q]
    BY <1>8 DEF Disconnect, TypeOK, ProcType
  <2>3. ~ HoldsRow(s)'
    BY <2>1 DEF HoldsRow
  <2>4. OwnReportStep(s)
    BY <1>8, <2>1, <2>2, <2>3 DEF Disconnect, OwnReportStep, db
  <2> QED
    BY <1>0, <2>4, OwnReportStepKeeps
<1> QED
  BY <1>1, <1>2, <1>4, <1>5, <1>6, <1>7, <1>8 DEF Request

\* The id of a new report is that of the sequence.
LEMMA SerialReport ==
    ASSUME SerialIds
    PROVE  NewReport = next_report
BY DEF NewReport

\* A new report: the id is one that no process and no row has.
LEMMA CreateReport ==
    ASSUME TypeOK, up, ReportInv, SerialIds, NEW s \in Session, CreateCurrentReport(s)
    PROVE  ReportInv'
<1>0. s \in Proc /\ task[s] \in Task /\ pc[s] = "prep"
  BY Busy, BusyTask DEF Proc, CreateCurrentReport, TypeOK, ProcOK
<1>1. CASE location[task[s]] = "gone"
  BY <1>0, <1>1, FinishReport, SameRows DEF CreateCurrentReport, db
<1>2. CASE location[task[s]] # "gone"
  <2>0. /\ next_report \in Report /\ next_report' = next_report + 1 /\ next_report \in Nat
        /\ next_report >= 1 /\ up' = up
    BY <1>2, MaxReportAssumption DEF CreateCurrentReport, TypeOK, DbType, Report
  <2>1. \A q \in Proc : /\ pc'[q] = IF q = s THEN "fork" ELSE pc[q]
                        /\ global_current_report'[q] = IF q = s THEN next_report
                                                       ELSE global_current_report[q]
                        /\ task'[q] = task[q]
                        /\ next_status'[q] = next_status[q]
    BY <1>0, <1>2, SerialReport DEF CreateCurrentReport, Goto, TypeOK, ProcType
  <2>2. \A r \in Report : /\ report_task'[r] = IF r = next_report THEN task[s]
                                               ELSE report_task[r]
                          /\ scan_run_status'[r] = IF r = next_report
                                                   THEN TASK_STATUS_REQUESTED
                                                   ELSE scan_run_status[r]
    BY <1>2, <2>0, SerialReport DEF CreateCurrentReport, TypeOK, DbType
  <2>3. \A q \in Proc : /\ global_current_report[q] < next_report
                        /\ global_current_report[q] \in Nat
    BY GlobalType DEF ReportInv, FreshIds, Report
  <2>4. FreshIds'
    <3>1. \A q \in Proc : global_current_report'[q] < next_report'
      BY <2>0, <2>1, <2>3
    <3>2. \A r \in Report : r >= next_report' => report_task'[r] = NoTask
      BY <2>0, <2>2 DEF ReportInv, FreshIds, Report
    <3> QED
      BY <3>1, <3>2 DEF FreshIds
  <2>5. \A q \in Proc \ {s} : HoldsRow(q)' =>
           /\ HoldsRow(q)
           /\ global_current_report'[q] = global_current_report[q]
           /\ report_task'[global_current_report[q]] = report_task[global_current_report[q]]
           /\ scan_run_status'[global_current_report[q]]
                 = scan_run_status[global_current_report[q]]
    <3> SUFFICES ASSUME NEW q \in Proc \ {s}, HoldsRow(q)'
                 PROVE  /\ HoldsRow(q)
                        /\ global_current_report'[q] = global_current_report[q]
                        /\ report_task'[global_current_report[q]]
                              = report_task[global_current_report[q]]
                        /\ scan_run_status'[global_current_report[q]]
                              = scan_run_status[global_current_report[q]]
      OBVIOUS
    <3>1. global_current_report'[q] = global_current_report[q]
      BY <2>1
    <3>2. global_current_report[q] # NoReport
      BY <3>1 DEF HoldsRow
    <3>3. global_current_report[q] \in Report /\ global_current_report[q] # next_report
      BY <2>0, <2>3, <3>2, GlobalType
    <3> QED
      BY <2>2, <3>1, <3>3 DEF HoldsRow
  <2>6. /\ report_task'[global_current_report'[s]] = task'[s]
        /\ scan_run_status'[global_current_report'[s]] \in ActiveStatus
        /\ pc'[s] = "fork"
    BY <1>0, <2>0, <2>1, <2>2 DEF ActiveStatus
  <2>7. ReportOfTask'
    BY <2>1, <2>5, <2>6 DEF ReportInv, ReportOfTask
  <2>8. HeldStatus'
    BY <2>1, <2>5, <2>6 DEF ReportInv, HeldStatus
  <2>9. SingleReportWriter'
    <3>1. \A q \in Proc : global_current_report[q] # next_report
      BY <2>0, <2>3
    <3> QED
      BY <1>0, <2>1, <3>1 DEF ReportInv, SingleReportWriter
  <2>10. DownNoReport'
    BY <2>0 DEF DownNoReport
  <2> QED
    BY <2>4, <2>7, <2>8, <2>9, <2>10 DEF ReportInv
<1> QED
  BY <1>1, <1>2

\* The last report that can be resumed is one of the tasks that have a status
\* for it, or none.
LEMMA LastResumable ==
    ASSUME TypeOK, NEW t
    PROVE  LET r == LastResumableReport(t)
           IN  \/ r = NoReport
               \/ /\ r \in Report
                  /\ report_task[r] = t
                  /\ scan_run_status[r] \in ResumableStatus
<1> DEFINE R == {r \in ReportsOf(t) : scan_run_status[r] \in ResumableStatus}
<1>1. R \in SUBSET Report
  BY DEF ReportsOf
<1>2. LastResumableReport(t) = IF R = {} THEN NoReport ELSE Latest(R)
  BY DEF LastResumableReport
<1>3. CASE R = {}
  BY <1>2, <1>3
<1>4. CASE R # {}
  <2>1. Latest(R) \in R
    <3> HIDE DEF R
    <3> QED
      BY <1>1, <1>4, LatestReport
  <2> QED
    BY <1>2, <1>4, <2>1 DEF ReportsOf
<1> QED
  BY <1>3, <1>4

\* The report that is resumed is not held by anybody: who holds a report with
\* such a status has a scan of its task, and so has the session.
LEMMA FindReport ==
    ASSUME TypeOK, up, SingleScan, ReportInv, NEW s \in Session, FindResumableReport(s)
    PROVE  ReportInv'
<1> DEFINE r == LastResumableReport(task[s])
<1>0. s \in Proc /\ task[s] \in Task /\ pc[s] = "prep" /\ up' = up
  BY Busy, BusyTask DEF Proc, FindResumableReport, TypeOK, ProcOK
<1>1. \/ r = NoReport
      \/ r \in Report /\ report_task[r] = task[s] /\ scan_run_status[r] \in ResumableStatus
  BY LastResumable
<1>2. \A q \in Proc : /\ pc'[q] = IF q = s THEN "trim" ELSE pc[q]
                      /\ global_current_report'[q] = IF q = s THEN r
                                                     ELSE global_current_report[q]
                      /\ task'[q] = task[q]
                      /\ next_status'[q] = next_status[q]
  BY <1>0 DEF FindResumableReport, Goto, TypeOK, ProcType
<1>3. UNCHANGED << report_task, scan_run_status, next_report >>
  BY DEF FindResumableReport, db
<1> HIDE DEF r
<1>4. \A q \in Proc \ {s} : HoldsRow(q)' <=> HoldsRow(q)
  BY <1>2, <1>3 DEF HoldsRow
<1>5. FreshIds'
  <2>1. r < next_report
    <3>1. next_report \in Nat /\ next_report >= 1
      BY MaxReportAssumption DEF TypeOK, DbType
    <3> QED
      BY <1>0, <1>1, <3>1, NoTaskAssumption DEF ReportInv, FreshIds, Report
  <2> QED
    BY <1>2, <1>3, <2>1 DEF ReportInv, FreshIds
<1>6. ReportOfTask'
  BY <1>0, <1>1, <1>2, <1>3, <1>4 DEF ReportInv, ReportOfTask, HoldsRow
<1>7. HeldStatus'
  BY <1>0, <1>1, <1>2, <1>3, <1>4 DEF ReportInv, HeldStatus, HoldsRow
<1>8. SingleReportWriter'
  <2>1. ASSUME NEW q \in Proc \ {s}, global_current_report[q] = r, r # NoReport
        PROVE  pc[q] = "dlock"
    <3>1. HoldsRow(q)
      BY <1>0, <1>1, <2>1, NoTaskAssumption DEF HoldsRow
    <3>2. scan_run_status[r] \notin ActiveStatus
      BY <1>1, <2>1, Statuses
    <3>3. pc[q] \in {"trim", "wtask", "dlock"}
      BY <2>1, <3>1, <3>2 DEF ReportInv, HeldStatus
    <3>4. CASE pc[q] \in {"trim", "wtask"}
      <4>1. task[q] = task[s]
        BY <1>1, <2>1, <3>1, <3>4 DEF ReportInv, ReportOfTask, ReportPC
      <4>2. HasScan(q, task[s]) /\ HasScan(s, task[s])
        BY <1>0, <3>4, <4>1 DEF HasScan, ScanPC
      <4> QED
        BY <1>0, <4>2 DEF SingleScan
    <3> QED
      BY <3>3, <3>4
  <2> QED
    BY <1>0, <1>2, <2>1 DEF ReportInv, SingleReportWriter
<1>9. DownNoReport'
  BY <1>0 DEF DownNoReport
<1> QED
  BY <1>5, <1>6, <1>7, <1>8, <1>9 DEF ReportInv

\* The child gets the report of the session.
LEMMA ForkReport ==
    ASSUME TypeOK, up, ReportInv, NEW s \in Session, NEW h \in Handler, Fork(s, h)
    PROVE  ReportInv'
<1>0. s \in Proc /\ h \in Proc /\ s # h /\ pc[s] = "fork" /\ up' = up
  BY ProcAssumption DEF Proc, Fork
<1>1. \A q \in Proc :
         /\ pc'[q] = IF q = h THEN "child" ELSE IF q = s THEN "idle" ELSE pc[q]
         /\ task'[q] = IF q = h THEN task[s] ELSE IF q = s THEN NoTask ELSE task[q]
         /\ global_current_report'[q] = IF q = h THEN global_current_report[s]
                                        ELSE IF q = s THEN NoReport
                                        ELSE global_current_report[q]
  BY <1>0 DEF Fork, TypeOK, ProcType
<1>2. UNCHANGED << report_task, scan_run_status, next_report >>
  BY DEF Fork, db
<1>3. \A q \in Proc \ {s} : next_status'[q] = next_status[q]
  BY DEF Fork, TypeOK, ProcType
<1>4. /\ ~ HoldsRow(s)'
      /\ HoldsRow(h)' => HoldsRow(s)
      /\ \A q \in Proc \ {s, h} : HoldsRow(q)' <=> HoldsRow(q)
  BY <1>0, <1>1, <1>2 DEF HoldsRow
<1>5. FreshIds'
  <2>1. next_report \in Nat /\ next_report >= 1
    BY MaxReportAssumption DEF TypeOK, DbType
  <2> QED
    BY <1>0, <1>1, <1>2, <2>1 DEF ReportInv, FreshIds
<1>6. ReportOfTask'
  BY <1>0, <1>1, <1>2, <1>4 DEF ReportInv, ReportOfTask, ReportPC
<1>7. HeldStatus'
  BY <1>0, <1>1, <1>2, <1>3, <1>4 DEF ReportInv, HeldStatus
<1>8. SingleReportWriter'
  BY <1>0, <1>1 DEF ReportInv, SingleReportWriter
<1>9. DownNoReport'
  BY <1>0 DEF DownNoReport
<1> QED
  BY <1>5, <1>6, <1>7, <1>8, <1>9 DEF ReportInv

\* UPDATE reports changes the report that the process holds, if its row is there.
LEMMA UpdateReportOwn ==
    ASSUME TypeOK, NEW p \in Proc, NEW status, UpdateReport(global_current_report[p], status)
    PROVE  /\ \A r \in Report : \/ scan_run_status'[r] = scan_run_status[r]
                                \/ r = global_current_report[p] /\ HoldsRow(p)
           /\ HoldsRow(p) => scan_run_status'[global_current_report[p]] = status
<1>1. NoReport \notin Report
  BY MaxReportAssumption DEF Report
<1> QED
  BY <1>1, GlobalType DEF TypeOK, DbType, UpdateReport, HoldsRow

\* The other steps of a session.
LEMMA SessionStepReport ==
    ASSUME ScanInv, ReportInv, SerialIds, NEW s \in Session, SessionStep(s)
    PROVE  ReportInv'
<1>0. TypeOK /\ SingleScan /\ s \in Proc
  BY DEF ScanInv, Proc
<1>1. up
  <2>1. ~ AtRest(s)
    BY <1>0, Busy
       DEF SessionStep, SetTaskRequested, CreateCurrentReport, FindResumableReport,
           MarkResumedReport, Fork, UndoReport, StopTaskWrite, DeleteTaskMark,
           DeleteTaskDrop
  <2> QED
    BY <1>0, <2>1 DEF ScanInv, DownAtRest
<1>2. CASE SetTaskRequested(s)
  <2>1. pc[s] = "req"
    BY <1>2 DEF SetTaskRequested
  <2>2. CASE (Finish(s) \/ Return(s)) /\ UNCHANGED << up, db >>
    BY <1>0, <2>1, <2>2, FinishReport, ReturnReport, SameRows DEF db
  <2>3. CASE /\ next_status' = [next_status EXCEPT ![s] = run_status[task[s]]]
             /\ Goto(s, "prep")
             /\ UNCHANGED << up, location, report_task, scan_run_status,
                             next_report, task, global_current_report, from,
                             ultimate >>
    <3>1. \A q \in Proc \ {s} : next_status'[q] = next_status[q]
      BY <1>0, <2>3 DEF TypeOK, ProcType
    <3> QED
      BY <1>0, <2>1, <2>3, <3>1, GotoReport, SameRows DEF ReportPC
  <2> QED
    BY <1>2, <2>2, <2>3 DEF SetTaskRequested
<1>3. CASE MarkResumedReport(s)
  <2>0. pc[s] = "trim" /\ UNCHANGED << up, report_task, next_report >>
    BY <1>3 DEF MarkResumedReport
  <2>1. /\ \A r \in Report : \/ scan_run_status'[r] = scan_run_status[r]
                             \/ r = global_current_report[s] /\ HoldsRow(s)
        /\ HoldsRow(s) => scan_run_status'[global_current_report[s]] = TASK_STATUS_REQUESTED
    BY <1>0, <1>3, UpdateReportOwn DEF MarkResumedReport
  <2>2. CASE Finish(s) /\ ~ HoldsRow(s)
    BY <1>0, <2>0, <2>1, <2>2, FinishReport DEF RowsKept
  <2>3. CASE Goto(s, "fork") /\ UNCHANGED locals
    <3>1. pc'[s] = "fork" /\ \A q \in Proc \ {s} : pc'[q] = pc[q]
      BY <1>0, <2>3 DEF Goto, TypeOK, ProcType
    <3>2. HoldsRow(s)' <=> HoldsRow(s)
      BY <2>0, <2>3 DEF HoldsRow, locals
    <3>3. OwnReportStep(s)
      BY <1>0, <2>0, <2>1, <2>3, <3>1, <3>2
         DEF OwnReportStep, ReportPC, locals, ActiveStatus
    <3> QED
      BY <1>0, <3>3, OwnReportStepKeeps
  <2> QED
    BY <1>3, <2>2, <2>3 DEF MarkResumedReport, HoldsRow
<1>4. CASE StopTaskWrite(s) \/ DeleteTaskMark(s)
  BY <1>0, <1>4, ReturnReport, SameRows DEF StopTaskWrite, DeleteTaskMark
<1>5. CASE DeleteTaskDrop(s)
  <2>1. RowsKept
    BY <1>0, <1>5, DeleteTaskRows, SameRows DEF DeleteTaskDrop, db
  <2> QED
    BY <1>0, <1>5, <2>1, ReturnReport DEF DeleteTaskDrop
<1> QED
  BY <1>0, <1>1, <1>2, <1>3, <1>4, <1>5, CreateReport, FindReport, ForkReport,
     UndoReportKeeps DEF SessionStep

\* The steps of a handler.
LEMMA HandlerReport ==
    ASSUME TypeOK, ReportInv, NEW h \in Handler,
           HandlerStep(h) \/ ScanStart(h) \/ ScanEnd(h) \/ ResultRefused(h)
             \/ HandlerExits(h)
    PROVE  ReportInv'
<1>0. h \in Proc
  BY DEF Proc
<1>1. CASE ChildSends(h)
  BY <1>0, <1>1, GotoReport, SameRows DEF ChildSends, ReportPC, locals, db
<1>2. ASSUME NEW status, NEW u, pc[h] = "scan", Decide(h, status, u)
      PROVE  ReportInv'
  <2>1. \A q \in Proc \ {h} : next_status'[q] = next_status[q]
    BY <1>2 DEF Decide, TypeOK, ProcType
  <2> QED
    BY <1>0, <1>2, <2>1, GotoReport, SameRows DEF Decide, ReportPC, db
<1>3. ASSUME Finish(h), UNCHANGED << up, db >>
      PROVE  ReportInv'
  BY <1>0, <1>3, FinishReport, SameRows DEF db
<1>4. CASE CheckCurrentTask(h) \/ ScanStart(h) \/ HandlerExits(h)
  BY <1>2, <1>4 DEF CheckCurrentTask, ScanStart, HandlerExits, Scanning
<1>5. CASE ScanEnd(h) \/ HandlerAborts(h) \/ ResultRefused(h)
  BY <1>2, <1>3, <1>5 DEF ScanEnd, HandlerAborts, ResultRefused, Scanning
<1>6. CASE WriteReport(h)
  <2>0. pc[h] = "wrep" /\ UNCHANGED << up, report_task, next_report, locals >>
    BY <1>6 DEF WriteReport
  <2>1. /\ \A r \in Report : \/ scan_run_status'[r] = scan_run_status[r]
                             \/ r = global_current_report[h] /\ HoldsRow(h)
        /\ HoldsRow(h) => scan_run_status'[global_current_report[h]] = next_status[h]
    BY <1>0, <1>6, UpdateReportOwn DEF WriteReport
  <2>2. pc'[h] = "wtask" /\ \A q \in Proc \ {h} : pc'[q] = pc[q]
    BY <1>0, <1>6 DEF WriteReport, Goto, TypeOK, ProcType
  <2>3. HoldsRow(h)' <=> HoldsRow(h)
    BY <2>0 DEF HoldsRow, locals
  <2>4. OwnReportStep(h)
    BY <1>0, <2>0, <2>1, <2>2, <2>3 DEF OwnReportStep, ReportPC, locals
  <2> QED
    BY <1>0, <2>4, OwnReportStepKeeps
<1>7. CASE WriteTask(h)
  <2>0. pc[h] = "wtask" /\ RowsKept
        /\ UNCHANGED << up, report_task, scan_run_status, next_report >>
    BY <1>7, SameRows DEF WriteTask
  <2>1. CASE Finish(h)
    BY <1>0, <2>0, <2>1, FinishReport
  <2>2. CASE Goto(h, "dlock") /\ UNCHANGED locals
    <3>1. pc'[h] = "dlock" /\ \A q \in Proc \ {h} : pc'[q] = pc[q]
      BY <1>0, <2>2 DEF Goto, TypeOK, ProcType
    <3>2. OwnReportStep(h)
      BY <1>0, <2>0, <2>2, <3>1 DEF OwnReportStep, ReportPC, locals
    <3> QED
      BY <1>0, <3>2, OwnReportStepKeeps
  <2>3. CASE /\ next_status[h] \in ActiveStatus
             /\ Goto(h, "scan")
             /\ next_status' = [next_status EXCEPT ![h] = TASK_STATUS_NEW]
             /\ UNCHANGED << task, global_current_report, from, ultimate >>
    <3>1. /\ pc'[h] = "scan"
          /\ \A q \in Proc \ {h} : pc'[q] = pc[q] /\ next_status'[q] = next_status[q]
      BY <1>0, <2>3 DEF Goto, TypeOK, ProcType
    <3>2. HoldsRow(h) => scan_run_status[global_current_report[h]] \in ActiveStatus
      BY <1>0, <2>0, <2>3 DEF ReportInv, HeldStatus
    <3>3. HoldsRow(h)' <=> HoldsRow(h)
      BY <2>0, <2>3 DEF HoldsRow
    <3>4. OwnReportStep(h)
      BY <1>0, <2>0, <2>3, <3>1, <3>2, <3>3 DEF OwnReportStep, ReportPC
    <3> QED
      BY <1>0, <3>4, OwnReportStepKeeps
  <2> QED
    BY <1>7, <2>1, <2>2, <2>3 DEF WriteTask
<1>8. CASE DeleteTaskLock(h)
  <2>1. RowsKept
    BY <1>8, DeleteTaskRows, SameRows DEF DeleteTaskLock, db
  <2> QED
    BY <1>0, <1>8, <2>1, FinishReport DEF DeleteTaskLock
<1> QED
  BY <1>0, <1>1, <1>4, <1>5, <1>6, <1>7, <1>8, UndoReportKeeps DEF HandlerStep

\* Failures.
LEMMA FailureReport ==
    ASSUME TypeOK, ReportInv, Failure
    PROVE  ReportInv'
<1>0. Session \subseteq Proc /\ Handler \subseteq Proc
  BY DEF Proc
<1>1. ASSUME NEW s \in Session, CreateCurrentReportFails(s) \/ TargetGone(s)
      PROVE  ReportInv'
  BY <1>1, ReturnReport, SameRows DEF CreateCurrentReportFails, TargetGone
<1>2. ASSUME NEW p \in Proc, pc[p] \in {"fork", "child"}, SetTaskInterrupted(p)
      PROVE  ReportInv'
  BY <1>2, GotoReport, SameRows DEF SetTaskInterrupted, ReportPC, locals
<1>3. ASSUME NEW s \in Session, ForkFails(s)
      PROVE  ReportInv'
  BY <1>0, <1>2, <1>3 DEF ForkFails
<1>4. ASSUME NEW h \in Handler, ChildSendFails(h)
      PROVE  ReportInv'
  BY <1>0, <1>2, <1>4 DEF ChildSendFails
<1>5. ASSUME NEW p \in Proc, Kill(p)
      PROVE  ReportInv'
  BY <1>5, FinishReport, SameRows DEF Kill, db
<1>6. CASE Crash
  <2>1. \A p \in Proc : global_current_report'[p] = NoReport
    BY <1>6 DEF Crash
  <2>2. \A p \in Proc : ~ HoldsRow(p)'
    BY <2>1 DEF HoldsRow
  <2>3. FreshIds'
    <3>1. next_report \in Nat /\ next_report >= 1
      BY MaxReportAssumption DEF TypeOK, DbType
    <3> QED
      BY <1>6, <2>1, <3>1 DEF Crash, db, ReportInv, FreshIds
  <2> QED
    BY <2>1, <2>2, <2>3
       DEF ReportInv, ReportOfTask, HeldStatus, DownNoReport, SingleReportWriter
<1>7. CASE Restart
  <2>1. \A p \in Proc : global_current_report'[p] = NoReport
    BY <1>7 DEF Restart, ReportInv, DownNoReport, locals
  <2>2. \A p \in Proc : ~ HoldsRow(p)'
    BY <2>1 DEF HoldsRow
  <2>3. FreshIds'
    BY <1>7 DEF Restart, locals, ReportInv, FreshIds
  <2> QED
    BY <2>1, <2>2, <2>3
       DEF ReportInv, ReportOfTask, HeldStatus, DownNoReport, SingleReportWriter
<1> QED
  BY <1>0, <1>1, <1>3, <1>4, <1>5, <1>6, <1>7, HandlerReport DEF Failure

LEMMA ReportInvariant ==
    ASSUME "delete_report" \notin Ops, SerialIds
    PROVE  Spec => []ReportInv
<1>1. Init => ReportInv
  <2> SUFFICES ASSUME Init
               PROVE  ReportInv
    OBVIOUS
  <2>1. \A p \in Proc : global_current_report[p] = NoReport
    BY DEF Init
  <2>2. \A p \in Proc : ~ HoldsRow(p)
    BY <2>1 DEF HoldsRow
  <2>3. FreshIds
    BY <2>1 DEF Init, FreshIds
  <2> QED
    BY <2>1, <2>2, <2>3
       DEF ReportInv, ReportOfTask, HeldStatus, DownNoReport, SingleReportWriter
<1>2. ScanInv /\ ReportInv /\ [Next]_vars => ReportInv'
  <2> SUFFICES ASSUME ScanInv, ReportInv, [Next]_vars
               PROVE  ReportInv'
    OBVIOUS
  <2>0. TypeOK
    BY DEF ScanInv
  <2>1. CASE UNCHANGED vars
    BY <2>1
       DEF vars, ReportInv, FreshIds, ReportOfTask, HeldStatus, DownNoReport,
           SingleReportWriter, HoldsRow
  <2> QED
    BY <2>0, <2>1, RequestReport, SessionStepReport, HandlerReport, FailureReport DEF Next
<1> QED
  BY <1>1, <1>2, ScanInvariant, PTL DEF Spec

-----------------------------------------------------------------------------
(***************************************************************************)
(* What ReportInv implies.                                                 *)
(***************************************************************************)

\* Two scans never write into the same report, as long as no report is deleted and
\* ids are not given out again: whichever processes die, and whatever is left
\* behind by a fail exit, a report that is resumed is in the hands of nobody else.
THEOREM OneReportWriter ==
    ASSUME "delete_report" \notin Ops, SerialIds
    PROVE  Spec => []SingleReportWriter
<1>1. ReportInv => SingleReportWriter
  BY DEF ReportInv
<1> QED
  BY <1>1, ReportInvariant, PTL

-----------------------------------------------------------------------------
(***************************************************************************)
(* What becomes of a report: a scan that is done stays done.               *)
(***************************************************************************)

DoneKept ==
    \A r \in Report :
        /\ report_task[r] # NoTask /\ report_task'[r] # NoTask
        /\ scan_run_status[r] = TASK_STATUS_DONE
        => scan_run_status'[r] = TASK_STATUS_DONE

\* Every UPDATE of the reports finds a status other than Done, because of what
\* HeldStatus says of the place that the process has reached.
LEMMA DoneStep ==
    ASSUME "delete_report" \notin Ops, SerialIds, TypeOK, ReportInv, Next
    PROVE  DoneKept
<1>0. Session \subseteq Proc /\ Handler \subseteq Proc
  BY DEF Proc
<1>1. ASSUME RowsKept
      PROVE  DoneKept
  BY <1>1 DEF RowsKept, DoneKept
<1>2. ASSUME NEW p \in Proc, pc[p] \in {"trim", "wrep", "undo"},
             NEW status, UpdateReport(global_current_report[p], status)
      PROVE  DoneKept
  <2>1. \A r \in Report : \/ scan_run_status'[r] = scan_run_status[r]
                          \/ r = global_current_report[p] /\ HoldsRow(p)
    BY <1>2, UpdateReportOwn
  <2>2. HoldsRow(p) => scan_run_status[global_current_report[p]] # TASK_STATUS_DONE
    <3>1. TASK_STATUS_DONE \notin ActiveStatus \cup ResumableStatus
      BY DEF ActiveStatus, ResumableStatus
    <3> QED
      BY <1>2, <3>1 DEF ReportInv, HeldStatus
  <2> QED
    BY <2>1, <2>2 DEF DoneKept
<1>3. ASSUME NEW s \in Session, Request(s)
      PROVE  DoneKept
  <2>1. ASSUME UNCHANGED << up, db >>
        PROVE  DoneKept
    BY <1>1, <2>1, SameRows DEF db
  <2>2. ASSUME NEW t \in Task,
               \/ StartTask(s, t) \/ ResumeTask(s, t) \/ StopTask(s, t)
               \/ \E u \in {"trash", "ultimate"} : DeleteTask(s, t, u)
        PROVE  DoneKept
    BY <2>1, <2>2 DEF StartTask, ResumeTask, StopTask, DeleteTask
  <2>3. ASSUME NEW t \in Task, DeleteTrashTask(s, t) \/ Restore(s, t)
        PROVE  DoneKept
    BY <1>1, <2>3, RemoveTasksRows, SameRows DEF DeleteTrashTask, Restore
  <2>4. CASE EmptyTrashcan(s)
    BY <1>1, <2>4, RemoveTasksRows DEF EmptyTrashcan
  <2>5. CASE Disconnect(s)
    BY <2>1, <2>5 DEF Disconnect
  <2>6. ASSUME NEW r \in Report
        PROVE  ~ DeleteReport(s, r)
    BY DEF DeleteReport
  <2> QED
    BY <1>3, <2>2, <2>3, <2>4, <2>5, <2>6 DEF Request
<1>4. ASSUME NEW s \in Session, SessionStep(s)
      PROVE  DoneKept
  <2>1. ASSUME UNCHANGED << report_task, scan_run_status >>
        PROVE  DoneKept
    BY <2>1 DEF DoneKept
  <2>2. CASE CreateCurrentReport(s)
    <3>1. next_report \in Report => report_task[next_report] = NoTask
      BY MaxReportAssumption DEF ReportInv, FreshIds, Report, TypeOK, DbType
    <3>2. ASSUME ~ UNCHANGED << report_task, scan_run_status >>
          PROVE  DoneKept
      BY <2>2, <3>1, <3>2, SerialReport
         DEF CreateCurrentReport, db, DoneKept, TypeOK, DbType
    <3> QED
      BY <2>1, <3>2
  <2>3. CASE MarkResumedReport(s) \/ UndoReport(s)
    BY <1>0, <1>2, <2>3 DEF MarkResumedReport, UndoReport
  <2>4. CASE DeleteTaskDrop(s)
    <3>1. CASE UNCHANGED db
      BY <2>1, <3>1 DEF db
    <3>2. CASE delete_task(task[s], ultimate[s])
      BY <1>1, <2>4, <3>2, DeleteTaskRows DEF DeleteTaskDrop
    <3> QED
      BY <2>4, <3>1, <3>2 DEF DeleteTaskDrop
  <2>5. CASE SetTaskRequested(s) \/ FindResumableReport(s) \/ \E h \in Handler : Fork(s, h)
    BY <2>1, <2>5 DEF SetTaskRequested, FindResumableReport, Fork, db
  <2>6. CASE StopTaskWrite(s) \/ DeleteTaskMark(s)
    BY <2>1, <2>6 DEF StopTaskWrite, DeleteTaskMark
  <2> QED
    BY <1>4, <2>2, <2>3, <2>4, <2>5, <2>6 DEF SessionStep
<1>5. ASSUME NEW h \in Handler,
             HandlerStep(h) \/ ScanStart(h) \/ ScanEnd(h) \/ ResultRefused(h)
      PROVE  DoneKept
  <2>1. ASSUME UNCHANGED << report_task, scan_run_status >>
        PROVE  DoneKept
    BY <2>1 DEF DoneKept
  <2>2. CASE WriteReport(h) \/ UndoReport(h)
    BY <1>0, <1>2, <2>2 DEF WriteReport, UndoReport
  <2>3. CASE DeleteTaskLock(h)
    <3>1. CASE UNCHANGED db
      BY <2>1, <3>1 DEF db
    <3>2. CASE delete_task(task[h], ultimate[h])
      BY <1>1, <2>3, <3>2, DeleteTaskRows DEF DeleteTaskLock
    <3> QED
      BY <2>3, <3>1, <3>2 DEF DeleteTaskLock
  <2>4. CASE CheckCurrentTask(h) \/ ScanStart(h) \/ ScanEnd(h)
            \/ HandlerAborts(h) \/ ResultRefused(h)
    BY <2>1, <2>4 DEF CheckCurrentTask, ScanStart, ScanEnd, HandlerAborts,
                       ResultRefused, Decide, db
  <2>5. CASE ChildSends(h) \/ WriteTask(h)
    BY <2>1, <2>5 DEF ChildSends, WriteTask, db
  <2> QED
    BY <1>5, <2>2, <2>3, <2>4, <2>5 DEF HandlerStep
<1>6. ASSUME Failure
      PROVE  DoneKept
  <2>1. ASSUME UNCHANGED << report_task, scan_run_status >>
        PROVE  DoneKept
    BY <2>1 DEF DoneKept
  <2>2. CASE Restart
    BY <2>2 DEF Restart, DoneKept, ActiveStatus
  <2> QED
    BY <1>6, <2>1, <2>2
       DEF Failure, CreateCurrentReportFails, TargetGone, ForkFails, ChildSendFails,
           SetTaskInterrupted, HandlerExits, Decide, Kill, Crash, db
<1> QED
  BY <1>3, <1>4, <1>5, <1>6 DEF Next

\* As long as no report is deleted and ids are not given out again: no resume, fail
\* exit, late handler or restart of the daemon reopens the report of a scan that is
\* done.
THEOREM DoneIsFinal ==
    ASSUME "delete_report" \notin Ops, SerialIds
    PROVE  Spec => DoneReportFinal
<1>1. TypeOK /\ ReportInv /\ [Next]_vars => [DoneKept]_vars
  BY DoneStep
<1>2. Spec => [][DoneKept]_vars
  BY <1>1, ReportInvariant, TypeCorrect, PTL DEF Spec
<1> QED
  BY <1>2 DEF DoneReportFinal, DoneKept

-----------------------------------------------------------------------------
(***************************************************************************)
(* What becomes of a report: an active one is in the hands of a process,   *)
(* unless processes are killed or the target of a task that is started is  *)
(* deleted (see TargetGone).                                               *)
(***************************************************************************)

LEMMA RemoveTasksGoneReports ==
    ASSUME TypeOK, NoReportOfGone, NEW T, RemoveTasks(T)
    PROVE  NoReportOfGone'
BY DEF TypeOK, DbType, NoReportOfGone, RemoveTasks

LEMMA DeleteTaskGoneReports ==
    ASSUME TypeOK, NoReportOfGone, NEW t \in Task, NEW u, delete_task(t, u)
    PROVE  NoReportOfGone'
<1>1. CASE RemoveTasks({t})
  BY <1>1, RemoveTasksGoneReports
<1>2. CASE location' = [location EXCEPT ![t] = "trash"] /\ UNCHANGED report_task
  BY <1>2 DEF TypeOK, DbType, NoReportOfGone
<1>3. CASE UNCHANGED db
  BY <1>3 DEF NoReportOfGone, db
<1> QED
  BY <1>1, <1>2, <1>3 DEF delete_task

LEMMA NoReportOfGoneStep ==
    ASSUME TypeOK, NoReportOfGone, "delete_report" \notin Ops, [Next]_vars
    PROVE  NoReportOfGone'
<1>0. \A p \in Proc : pc[p] \notin {"idle", "free"} => task[p] \in Task
  BY Busy, BusyTask DEF TypeOK, ProcOK
<1>1. ASSUME UNCHANGED << location, report_task >>
      PROVE  NoReportOfGone'
  BY <1>1 DEF NoReportOfGone
<1>2. ASSUME NEW s \in Session, Request(s)
      PROVE  NoReportOfGone'
  <2>1. ASSUME NEW t \in Task,
               \/ StartTask(s, t) \/ ResumeTask(s, t) \/ StopTask(s, t)
               \/ \E u \in {"trash", "ultimate"} : DeleteTask(s, t, u)
        PROVE  NoReportOfGone'
    BY <1>1, <2>1 DEF StartTask, ResumeTask, StopTask, DeleteTask, db
  <2>2. ASSUME NEW t \in Task, DeleteTrashTask(s, t)
        PROVE  NoReportOfGone'
    BY <2>2, RemoveTasksGoneReports DEF DeleteTrashTask
  <2>3. ASSUME NEW t \in Task, Restore(s, t)
        PROVE  NoReportOfGone'
    BY <2>3 DEF Restore, NoReportOfGone, TypeOK, DbType
  <2>4. CASE EmptyTrashcan(s)
    BY <2>4, RemoveTasksGoneReports DEF EmptyTrashcan
  <2>5. CASE Disconnect(s)
    BY <1>1, <2>5 DEF Disconnect, db
  <2>6. ASSUME NEW r \in Report
        PROVE  ~ DeleteReport(s, r)
    BY DEF DeleteReport
  <2> QED
    BY <1>2, <2>1, <2>2, <2>3, <2>4, <2>5, <2>6 DEF Request
<1>3. ASSUME NEW s \in Session, SessionStep(s)
      PROVE  NoReportOfGone'
  <2>0. s \in Proc
    BY DEF Proc
  <2>1. CASE CreateCurrentReport(s)
    <3>1. CASE location[task[s]] = "gone"
      BY <1>1, <2>1, <3>1 DEF CreateCurrentReport, db
    <3>2. CASE location[task[s]] # "gone"
      BY <2>1, <3>2 DEF CreateCurrentReport, NoReportOfGone, TypeOK, DbType
    <3> QED
      BY <3>1, <3>2
  <2>2. CASE DeleteTaskDrop(s)
    BY <1>0, <1>1, <2>0, <2>2, DeleteTaskGoneReports DEF DeleteTaskDrop, db
  <2>3. CASE \/ SetTaskRequested(s) \/ FindResumableReport(s) \/ MarkResumedReport(s)
             \/ \E h \in Handler : Fork(s, h)
    BY <1>1, <2>3 DEF SetTaskRequested, FindResumableReport, MarkResumedReport, Fork, db
  <2>4. CASE UndoReport(s) \/ StopTaskWrite(s) \/ DeleteTaskMark(s)
    BY <1>1, <2>4 DEF UndoReport, StopTaskWrite, DeleteTaskMark
  <2> QED
    BY <1>3, <2>1, <2>2, <2>3, <2>4 DEF SessionStep
<1>4. ASSUME NEW h \in Handler,
             HandlerStep(h) \/ ScanStart(h) \/ ScanEnd(h) \/ ResultRefused(h)
      PROVE  NoReportOfGone'
  <2>0. h \in Proc
    BY DEF Proc
  <2>1. CASE DeleteTaskLock(h)
    BY <1>0, <1>1, <2>0, <2>1, DeleteTaskGoneReports DEF DeleteTaskLock, db
  <2>2. CASE CheckCurrentTask(h) \/ ScanStart(h) \/ ScanEnd(h)
            \/ HandlerAborts(h) \/ ResultRefused(h)
    BY <1>1, <2>2 DEF CheckCurrentTask, ScanStart, ScanEnd, HandlerAborts,
                       ResultRefused, Decide, db
  <2>3. CASE ChildSends(h) \/ WriteTask(h) \/ WriteReport(h) \/ UndoReport(h)
    BY <1>1, <2>3 DEF ChildSends, WriteTask, WriteReport, UndoReport, db
  <2> QED
    BY <1>4, <2>1, <2>2, <2>3 DEF HandlerStep
<1>5. CASE Failure
  BY <1>1, <1>5
     DEF Failure, CreateCurrentReportFails, TargetGone, ForkFails, ChildSendFails,
         SetTaskInterrupted, HandlerExits, Decide, Kill, Crash, Restart, db
<1>6. CASE UNCHANGED vars
  BY <1>1, <1>6 DEF vars
<1> QED
  BY <1>2, <1>3, <1>4, <1>5, <1>6 DEF Next

\* A step of one process that keeps its report in care, unless the report is not
\* active any more or its row is gone.
CareStep(p) ==
    /\ up' = up
    /\ \A q \in Proc \ {p} : /\ pc'[q] = pc[q]
                             /\ global_current_report'[q] = global_current_report[q]
    /\ \A r \in Report : report_task'[r] \in {report_task[r], NoTask}
    /\ \A r \in Report : report_task'[r] # NoTask /\ scan_run_status'[r] \in ActiveStatus
                         => \/ scan_run_status[r] \in ActiveStatus
                            \/ pc'[p] \in CarePC /\ global_current_report'[p] = r
    /\ pc[p] \in CarePC /\ global_current_report[p] \in Report =>
           \/ pc'[p] \in CarePC /\ global_current_report'[p] = global_current_report[p]
           \/ report_task'[global_current_report[p]] = NoTask
           \/ scan_run_status'[global_current_report[p]] \notin ActiveStatus

LEMMA CareStepKeeps ==
    ASSUME ActiveHeld, NEW p \in Proc, CareStep(p)
    PROVE  ActiveHeld'
<1> SUFFICES ASSUME up, NEW r \in Report, report_task'[r] # NoTask,
                    scan_run_status'[r] \in ActiveStatus
             PROVE  \E q \in Proc : pc'[q] \in CarePC /\ global_current_report'[q] = r
  BY DEF ActiveHeld, CareStep
<1>1. CASE pc'[p] \in CarePC /\ global_current_report'[p] = r
  BY <1>1
<1>2. CASE ~ (pc'[p] \in CarePC /\ global_current_report'[p] = r)
  <2>1. report_task[r] # NoTask /\ scan_run_status[r] \in ActiveStatus
    BY <1>2 DEF CareStep
  <2>2. PICK q \in Proc : pc[q] \in CarePC /\ global_current_report[q] = r
    BY <2>1 DEF ActiveHeld
  <2>3. q # p
    BY <1>2, <2>2 DEF CareStep
  <2> QED
    BY <2>2, <2>3 DEF CareStep
<1> QED
  BY <1>1, <1>2

\* A process that has no report in care stops.
LEMMA LetGoCare ==
    ASSUME TypeOK, ActiveHeld, NEW p \in Proc, pc[p] \notin CarePC,
           Finish(p) \/ Return(p), RowsKept
    PROVE  ActiveHeld'
<1>1. \A q \in Proc \ {p} : /\ pc'[q] = pc[q]
                            /\ global_current_report'[q] = global_current_report[q]
  BY DEF TypeOK, ProcType, Finish, Return, LetGo
<1>2. CareStep(p)
  BY <1>1 DEF CareStep, RowsKept
<1> QED
  BY <1>2, CareStepKeeps

\* A process goes on and does not lose its report.
LEMMA GotoCare ==
    ASSUME TypeOK, ActiveHeld, NEW p \in Proc, NEW l, Goto(p, l),
           pc[p] \in CarePC => l \in CarePC,
           global_current_report' = global_current_report, RowsKept
    PROVE  ActiveHeld'
<1>1. pc'[p] = l /\ \A q \in Proc \ {p} : pc'[q] = pc[q]
  BY DEF TypeOK, ProcType, Goto
<1>2. CareStep(p)
  BY <1>1 DEF CareStep, RowsKept
<1> QED
  BY <1>2, CareStepKeeps

\* A process stops after it has written an inactive status into its report.
LEMMA UndoCare ==
    ASSUME TypeOK, ActiveHeld, NEW p \in Proc, UndoReport(p)
    PROVE  ActiveHeld'
<1>1. \A q \in Proc \ {p} : /\ pc'[q] = pc[q]
                            /\ global_current_report'[q] = global_current_report[q]
  BY DEF TypeOK, ProcType, UndoReport, Finish, LetGo
<1>2. /\ \A r \in Report : \/ scan_run_status'[r] = scan_run_status[r]
                           \/ r = global_current_report[p] /\ HoldsRow(p)
      /\ HoldsRow(p) => scan_run_status'[global_current_report[p]] = TASK_STATUS_INTERRUPTED
  BY UpdateReportOwn DEF UndoReport
<1>3. TASK_STATUS_INTERRUPTED \notin ActiveStatus
  BY DEF ActiveStatus
<1>4. UNCHANGED << up, report_task >> /\ NoReport \notin Report
  BY MaxReportAssumption DEF UndoReport, Report
<1>5. CareStep(p)
  BY <1>1, <1>2, <1>3, <1>4 DEF CareStep, HoldsRow
<1> QED
  BY <1>5, CareStepKeeps

LEMMA RequestCare ==
    ASSUME TypeOK, ActiveHeld, "delete_report" \notin Ops, NEW s \in Session, Request(s)
    PROVE  ActiveHeld'
<1>0. s \in Proc /\ "idle" \notin CarePC
  BY DEF Proc, CarePC
<1>1. ASSUME NEW t \in Task, NEW l, Begin(s, t, l),
             UNCHANGED << up, db, global_current_report >>
      PROVE  ActiveHeld'
  BY <1>0, <1>1, GotoCare, SameRows DEF Begin, db
<1>2. ASSUME NEW t \in Task,
             \/ StartTask(s, t) \/ ResumeTask(s, t) \/ StopTask(s, t)
             \/ \E u \in {"trash", "ultimate"} : DeleteTask(s, t, u)
      PROVE  ActiveHeld'
  BY <1>1, <1>2 DEF StartTask, ResumeTask, StopTask, DeleteTask
<1>3. ASSUME UNCHANGED << pc, global_current_report >>, RowsKept
      PROVE  ActiveHeld'
  BY <1>0, <1>3, CareStepKeeps DEF CareStep, RowsKept
<1>4. ASSUME NEW t \in Task, DeleteTrashTask(s, t) \/ Restore(s, t)
      PROVE  ActiveHeld'
  BY <1>3, <1>4, RemoveTasksRows, SameRows DEF DeleteTrashTask, Restore, locals
<1>5. CASE EmptyTrashcan(s)
  BY <1>3, <1>5, RemoveTasksRows DEF EmptyTrashcan, locals
<1>6. ASSUME NEW r \in Report
      PROVE  ~ DeleteReport(s, r)
  BY DEF DeleteReport
<1>7. CASE Disconnect(s)
  <2>1. \A q \in Proc \ {s} : /\ pc'[q] = pc[q]
                              /\ global_current_report'[q] = global_current_report[q]
    BY <1>7 DEF Disconnect, TypeOK, ProcType
  <2>2. CareStep(s)
    BY <1>0, <1>7, <2>1 DEF CareStep, Disconnect, db
  <2> QED
    BY <1>0, <2>2, CareStepKeeps
<1> QED
  BY <1>2, <1>4, <1>5, <1>6, <1>7 DEF Request

LEMMA SessionStepCare ==
    ASSUME TypeOK, ReportInv, ActiveHeld, NEW s \in Session, SessionStep(s)
    PROVE  ActiveHeld'
<1>0. s \in Proc /\ NoReport \notin Report
  BY MaxReportAssumption DEF Proc, Report
<1>1. ASSUME pc[s] \notin CarePC, Finish(s) \/ Return(s), UNCHANGED << up, db >>
      PROVE  ActiveHeld'
  BY <1>0, <1>1, LetGoCare, SameRows DEF db
<1>2. CASE SetTaskRequested(s)
  BY <1>0, <1>1, <1>2, GotoCare, SameRows DEF SetTaskRequested, CarePC
<1>3. CASE CreateCurrentReport(s)
  <2>1. CASE location[task[s]] = "gone"
    BY <1>1, <1>3, <2>1 DEF CreateCurrentReport, CarePC
  <2>2. CASE location[task[s]] # "gone"
    <3>1. \A q \in Proc : /\ pc'[q] = IF q = s THEN "fork" ELSE pc[q]
                          /\ global_current_report'[q] = IF q = s THEN NewReport
                                                         ELSE global_current_report[q]
      BY <1>0, <1>3, <2>2 DEF CreateCurrentReport, Goto, TypeOK, ProcType
    <3>2. /\ NewReport \in Report
          /\ \A r \in Report \ {NewReport} : /\ report_task'[r] = report_task[r]
                                               /\ scan_run_status'[r] = scan_run_status[r]
      BY <1>3, <2>2, MaxReportAssumption DEF CreateCurrentReport, TypeOK, DbType, Report
    <3>3. up' = up /\ pc[s] = "prep"
      BY <1>3, <2>2 DEF CreateCurrentReport
    <3> SUFFICES ASSUME up, NEW r \in Report, report_task'[r] # NoTask,
                        scan_run_status'[r] \in ActiveStatus
                 PROVE  \E q \in Proc : pc'[q] \in CarePC /\ global_current_report'[q] = r
      BY <3>3 DEF ActiveHeld
    <3>4. CASE r = NewReport
      BY <1>0, <3>1, <3>4 DEF CarePC
    <3>5. CASE r # NewReport
      <4>1. PICK q \in Proc : pc[q] \in CarePC /\ global_current_report[q] = r
        BY <3>2, <3>5 DEF ActiveHeld
      <4>2. q # s
        BY <3>3, <4>1 DEF CarePC
      <4> QED
        BY <3>1, <4>1, <4>2
    <3> QED
      BY <3>4, <3>5
  <2> QED
    BY <2>1, <2>2
<1>4. CASE FindResumableReport(s)
  <2>1. \A q \in Proc \ {s} : /\ pc'[q] = pc[q]
                              /\ global_current_report'[q] = global_current_report[q]
    BY <1>4 DEF FindResumableReport, Goto, TypeOK, ProcType
  <2>2. CareStep(s)
    BY <1>4, <2>1 DEF CareStep, FindResumableReport, CarePC, db
  <2> QED
    BY <1>0, <2>2, CareStepKeeps
<1>5. CASE MarkResumedReport(s)
  <2>0. pc[s] = "trim" /\ "trim" \notin CarePC /\ UNCHANGED << up, report_task, next_report >>
    BY <1>5 DEF MarkResumedReport, CarePC
  <2>1. \A r \in Report : \/ scan_run_status'[r] = scan_run_status[r]
                          \/ r = global_current_report[s] /\ HoldsRow(s)
    BY <1>0, <1>5, UpdateReportOwn DEF MarkResumedReport
  <2>2. CASE Finish(s) /\ ~ HoldsRow(s)
    BY <1>0, <2>0, <2>1, <2>2, LetGoCare DEF RowsKept
  <2>3. CASE Goto(s, "fork") /\ UNCHANGED locals
    <3>1. pc'[s] = "fork" /\ \A q \in Proc \ {s} : pc'[q] = pc[q]
      BY <1>0, <2>3 DEF Goto, TypeOK, ProcType
    <3>2. CareStep(s)
      BY <1>0, <2>0, <2>1, <2>3, <3>1 DEF CareStep, CarePC, locals
    <3> QED
      BY <1>0, <3>2, CareStepKeeps
  <2> QED
    BY <1>5, <2>2, <2>3 DEF MarkResumedReport, HoldsRow
<1>6. ASSUME NEW h \in Handler, Fork(s, h)
      PROVE  ActiveHeld'
  <2>0. s \in Proc /\ h \in Proc /\ s # h /\ pc[h] = "free" /\ up' = up
        /\ UNCHANGED << report_task, scan_run_status >>
    BY <1>6, ProcAssumption DEF Proc, Fork, db
  <2>1. \A q \in Proc :
           /\ pc'[q] = IF q = h THEN "child" ELSE IF q = s THEN "idle" ELSE pc[q]
           /\ global_current_report'[q] = IF q = h THEN global_current_report[s]
                                          ELSE IF q = s THEN NoReport
                                          ELSE global_current_report[q]
    BY <1>6, <2>0 DEF Fork, TypeOK, ProcType
  <2>2. \A q \in Proc : pc[q] \in CarePC =>
           \E o \in Proc : /\ pc'[o] \in CarePC
                           /\ global_current_report'[o] = global_current_report[q]
    <3>1. pc[h] \notin CarePC /\ "child" \in CarePC
      BY <2>0 DEF CarePC
    <3> QED
      BY <2>0, <2>1, <3>1
  <2> QED
    BY <2>0, <2>2 DEF ActiveHeld
<1>7. CASE StopTaskWrite(s) \/ DeleteTaskMark(s)
  BY <1>0, <1>7, LetGoCare, SameRows DEF StopTaskWrite, DeleteTaskMark, CarePC
<1>8. CASE DeleteTaskDrop(s)
  <2>1. RowsKept
    BY <1>8, DeleteTaskRows, SameRows DEF DeleteTaskDrop, db
  <2> QED
    BY <1>0, <1>8, <2>1, LetGoCare DEF DeleteTaskDrop, CarePC
<1> QED
  BY <1>0, <1>2, <1>3, <1>4, <1>5, <1>6, <1>7, <1>8, UndoCare DEF SessionStep

\* A handler gives its report up when it has written a final status into it, or
\* when the task is gone, and the report with it.
LEMMA HandlerCare ==
    ASSUME ScanInv, ReportInv, CareInv, NEW h \in Handler,
           HandlerStep(h) \/ ScanStart(h) \/ ScanEnd(h) \/ ResultRefused(h)
             \/ HandlerExits(h)
    PROVE  ActiveHeld'
<1>0. h \in Proc /\ TypeOK /\ ActiveHeld /\ NoReport \notin Report
  BY MaxReportAssumption DEF Proc, Report, ScanInv, CareInv
<1>1. CASE ChildSends(h)
  BY <1>0, <1>1, GotoCare, SameRows DEF ChildSends, CarePC, locals, db
<1>2. ASSUME NEW status, NEW u, Decide(h, status, u)
      PROVE  ActiveHeld'
  BY <1>0, <1>2, GotoCare, SameRows DEF Decide, CarePC, db
<1>3. CASE CheckCurrentTask(h) \/ ScanStart(h) \/ HandlerExits(h)
  BY <1>2, <1>3 DEF CheckCurrentTask, ScanStart, HandlerExits
<1>4. CASE ScanEnd(h)
  <2>1. run_status[task[h]] \in ActiveStatus
    <3>1. task[h] \in Task /\ HasScan(h, task[h]) /\ location[task[h]] # "gone"
      BY <1>0, <1>4, Busy, BusyTask DEF ScanEnd, Scanning, HasScan, ScanPC, TypeOK, ProcOK
    <3> QED
      BY <1>0, <3>1 DEF ScanInv, ActiveWhileScanned
  <2>2. run_status[task[h]] # TASK_STATUS_INTERRUPTED
    BY <2>1 DEF ActiveStatus
  <2> QED
    BY <1>2, <1>4, <2>2 DEF ScanEnd
<1>5. ASSUME Finish(h), RowsKept,
             \/ ~ HoldsRow(h)
             \/ scan_run_status[global_current_report[h]] \notin ActiveStatus
             \/ pc[h] = "dlock"
      PROVE  ActiveHeld'
  <2>1. \A q \in Proc \ {h} : /\ pc'[q] = pc[q]
                              /\ global_current_report'[q] = global_current_report[q]
    BY <1>0, <1>5 DEF TypeOK, ProcType, Finish, LetGo
  <2>2. CareStep(h)
    BY <1>0, <1>5, <2>1 DEF CareStep, RowsKept, HoldsRow, CarePC
  <2> QED
    BY <1>0, <2>2, CareStepKeeps
<1>6. CASE HandlerAborts(h) \/ ResultRefused(h)
  <2>1. ~ HoldsRow(h)
    BY <1>0, <1>6, GlobalType
       DEF HandlerAborts, ResultRefused, ReportInv, ReportOfTask, ReportPC, CareInv,
           NoReportOfGone, HoldsRow
  <2> QED
    BY <1>5, <1>6, <2>1, SameRows DEF HandlerAborts, ResultRefused, db
<1>7. CASE WriteReport(h)
  <2>0. pc[h] = "wrep" /\ UNCHANGED << up, report_task, locals >>
    BY <1>7 DEF WriteReport
  <2>1. \A r \in Report : \/ scan_run_status'[r] = scan_run_status[r]
                          \/ r = global_current_report[h] /\ HoldsRow(h)
    BY <1>0, <1>7, UpdateReportOwn DEF WriteReport
  <2>2. pc'[h] = "wtask" /\ \A q \in Proc \ {h} : pc'[q] = pc[q]
    BY <1>0, <1>7 DEF WriteReport, Goto, TypeOK, ProcType
  <2>3. CareStep(h)
    BY <1>0, <2>0, <2>1, <2>2 DEF CareStep, CarePC, locals
  <2> QED
    BY <1>0, <2>3, CareStepKeeps
<1>8. CASE WriteTask(h)
  <2>0. pc[h] = "wtask" /\ RowsKept
        /\ UNCHANGED << up, report_task, scan_run_status, next_report >>
    BY <1>8, SameRows DEF WriteTask
  <2>1. HoldsRow(h) => scan_run_status[global_current_report[h]] = next_status[h]
    BY <1>0, <2>0 DEF ReportInv, HeldStatus
  <2>2. CASE next_status[h] \notin ActiveStatus /\ Finish(h)
    BY <1>5, <2>0, <2>1, <2>2
  <2>3. CASE next_status[h] \notin ActiveStatus /\ Goto(h, "dlock") /\ UNCHANGED locals
    <3>1. \A q \in Proc \ {h} : pc'[q] = pc[q]
      BY <1>0, <2>3 DEF Goto, TypeOK, ProcType
    <3>2. CareStep(h)
      BY <1>0, <2>0, <2>1, <2>3, <3>1 DEF CareStep, HoldsRow, locals
    <3> QED
      BY <1>0, <3>2, CareStepKeeps
  <2>4. CASE Goto(h, "scan") /\ UNCHANGED global_current_report
    BY <1>0, <2>0, <2>4, GotoCare DEF CarePC
  <2> QED
    BY <1>8, <2>2, <2>3, <2>4 DEF WriteTask
<1>9. CASE DeleteTaskLock(h)
  <2>1. RowsKept
    BY <1>0, <1>9, DeleteTaskRows, SameRows DEF DeleteTaskLock, db
  <2> QED
    BY <1>5, <1>9, <2>1 DEF DeleteTaskLock
<1> QED
  BY <1>0, <1>1, <1>3, <1>4, <1>6, <1>7, <1>8, <1>9, UndoCare DEF HandlerStep

LEMMA FailureCare ==
    ASSUME ScanInv, ReportInv, CareInv, Failure,
           "kill" \notin Faults, "target" \notin Faults
    PROVE  ActiveHeld'
<1>0. Session \subseteq Proc /\ Handler \subseteq Proc /\ TypeOK /\ ActiveHeld
  BY DEF Proc, ScanInv, CareInv
<1>1. ASSUME NEW s \in Session, CreateCurrentReportFails(s)
      PROVE  ActiveHeld'
  BY <1>0, <1>1, LetGoCare, SameRows DEF CreateCurrentReportFails, CarePC
<1>2. ASSUME NEW p \in Proc, SetTaskInterrupted(p)
      PROVE  ActiveHeld'
  BY <1>0, <1>2, GotoCare, SameRows DEF SetTaskInterrupted, CarePC, locals
<1>3. ASSUME NEW s \in Session, ForkFails(s)
      PROVE  ActiveHeld'
  BY <1>0, <1>2, <1>3 DEF ForkFails
<1>4. ASSUME NEW h \in Handler, ChildSendFails(h)
      PROVE  ActiveHeld'
  BY <1>0, <1>2, <1>4 DEF ChildSendFails
<1>5. CASE Crash
  BY <1>5 DEF Crash, ActiveHeld
<1>6. CASE Restart
  <2>1. \A r \in Report : scan_run_status'[r] \notin ActiveStatus
    BY <1>6 DEF Restart, ActiveStatus
  <2> QED
    BY <2>1 DEF ActiveHeld
<1>7. ASSUME NEW p \in Proc
      PROVE  ~ Kill(p)
  BY DEF Kill
<1>8. ASSUME NEW s \in Session
      PROVE  ~ TargetGone(s)
  BY DEF TargetGone
<1> QED
  BY <1>1, <1>3, <1>4, <1>5, <1>6, <1>7, <1>8, HandlerCare DEF Failure

\* As long as no report is deleted, no id given out again, no process killed and no
\* target deleted behind a START_TASK: every exit of every process, with the fork, the
\* scanner or the whole daemon failing at any point, leaves no report that says
\* its scan is active and that nobody has in hand.
THEOREM ReportsNotOrphaned ==
    ASSUME "delete_report" \notin Ops, SerialIds,
           "kill" \notin Faults, "target" \notin Faults
    PROVE  Spec => []NoOrphanReport
<1>1. Init => CareInv
  BY DEF Init, CareInv, NoReportOfGone, ActiveHeld
<1>2. ScanInv /\ ReportInv /\ CareInv /\ [Next]_vars => CareInv'
  <2> SUFFICES ASSUME ScanInv, ReportInv, CareInv, [Next]_vars
               PROVE  CareInv'
    OBVIOUS
  <2>0. TypeOK /\ ActiveHeld
    BY DEF ScanInv, CareInv
  <2>1. NoReportOfGone'
    BY <2>0, NoReportOfGoneStep DEF CareInv
  <2>2. CASE UNCHANGED vars
    BY <2>1, <2>2 DEF vars, CareInv, ActiveHeld
  <2> QED
    BY <2>0, <2>1, <2>2, RequestCare, SessionStepCare, HandlerCare, FailureCare
       DEF Next, CareInv
<1>3. CareInv => NoOrphanReport
  <2>1. \A p \in Proc : pc[p] \in CarePC => ~ AtRest(p)
    BY DEF CarePC, AtRest, RestPC
  <2> QED
    BY <2>1 DEF CareInv, ActiveHeld, NoOrphanReport
<1>4. Spec => []ScanInv /\ []ReportInv
  BY ScanInvariant, ReportInvariant
<1> QED
  BY <1>1, <1>2, <1>3, <1>4, PTL DEF Spec
=============================================================================
