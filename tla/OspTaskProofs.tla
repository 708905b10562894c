---------------------------- MODULE OspTaskProofs ---------------------------
(***************************************************************************)
(* Theorems about OspTask, for every set of tasks, sessions and handlers,  *)
(* every number of reports, every set of commands and every set of faults. *)
(***************************************************************************)
EXTENDS OspTask, WellFoundedInduction, TLAPS

USE OspTaskAssumption, OspProcAssumption, OspReportAssumption DEF NoReport

USE DEF TASK_STATUS_DELETE_REQUESTED, TASK_STATUS_DONE, TASK_STATUS_NEW,
        TASK_STATUS_REQUESTED, TASK_STATUS_RUNNING, TASK_STATUS_STOP_REQUESTED,
        TASK_STATUS_STOP_WAITING, TASK_STATUS_STOPPED, TASK_STATUS_INTERRUPTED,
        TASK_STATUS_DELETE_ULTIMATE_REQUESTED, TASK_STATUS_STOP_REQUESTED_GIVEUP,
        TASK_STATUS_DELETE_WAITING, TASK_STATUS_DELETE_ULTIMATE_WAITING

(***************************************************************************)
(* A session keeps global_current_report after the fork, and a later       *)
(* command of the same client runs with it.  So the value of the global    *)
(* does not say whose the report is: the owner of a report is the session  *)
(* between create_current_report and the fork, or its failure, and the     *)
(* handler after it.                                                       *)
(***************************************************************************)
OwnerPC == {"mark", "fork", "undo"} \cup (HandlerPC \ {"free"})
Owner(p) == pc[p] \in OwnerPC

\* An owner has a report, a handler that is gone has none.
HasReport ==
    /\ \A p \in Proc : Owner(p) => global_current_report[p] # NoReport
    /\ \A h \in Handler : pc[h] = "free" => global_current_report[h] = NoReport

IInv == TypeOK /\ HasReport

\* The status that a handler ends with is not an active one.
EndsInactive ==
    \A h \in Handler : pc[h] \in {"wtask", "wrep"} => next_status[h] \in InactiveStatus

\* While the daemon is up, the report of a scan that is active has an owner.
ActiveOwned ==
    up => \A r \in Report :
             scan_run_status[r] \in ActiveStatus
             => \E p \in Proc : Owner(p) /\ global_current_report[p] = r

\* What is no row is not active either.
RowsOnly == \A r \in Report \ Rows : scan_run_status[r] \notin ActiveStatus

LiveInv == IInv /\ EndsInactive /\ ActiveOwned /\ RowsOnly

-----------------------------------------------------------------------------
(***************************************************************************)
(* The latest report of a set exists.                                      *)
(***************************************************************************)

LEMMA SmallestExists ==
    ASSUME NEW T \in SUBSET Nat, T # {}
    PROVE  \E m \in T : \A k \in T : m <= k
<1> DEFINE R == OpToRel(<, Nat)
<1>1. IsWellFoundedOn(R, Nat)
  BY NatLessThanWellFounded
<1>2. \A x \in Nat, y \in Nat : <<y, x>> \in R <=> y < x
  BY DEF OpToRel
<1> HIDE DEF R
<1>3. PICK m \in T : \A y \in T : ~ (<<y, m>> \in R)
  BY <1>1, WFMin
<1>4. ASSUME NEW k \in T
      PROVE  m <= k
  <2>1. ~ (<<k, m>> \in R)
    BY <1>3
  <2>2. ~ (k < m)
    BY <2>1, <1>2
  <2>3. k \in Nat /\ m \in Nat
    OBVIOUS
  <2> QED
    BY <2>2, <2>3
<1> QED
  BY <1>4

\* Of a set of reports, Latest is the one with the highest id.
LEMMA LatestReport ==
    ASSUME NEW R \in SUBSET Report, R # {}
    PROVE  Latest(R) \in R /\ \A q \in R : q <= Latest(R)
<1> USE DEF Report
<1> DEFINE T == {n \in Nat : MaxReport - n \in R}
<1>1. T # {}
  <2>1. PICK r \in R : TRUE
    OBVIOUS
  <2>2. MaxReport - r \in Nat /\ MaxReport - (MaxReport - r) = r
    OBVIOUS
  <2> QED
    BY <2>1, <2>2
<1>2. PICK n \in T : \A k \in T : n <= k
  <2> HIDE DEF T
  <2>1. T \in SUBSET Nat
    BY DEF T
  <2> QED
    BY <2>1, <1>1, SmallestExists
<1>3. ASSUME NEW k \in R
      PROVE  k <= MaxReport - n
  <2>1. MaxReport - k \in Nat /\ MaxReport - (MaxReport - k) = k
    OBVIOUS
  <2>2. MaxReport - k \in T
    BY <2>1
  <2>3. n <= MaxReport - k
    BY <2>2, <1>2
  <2>4. n \in Nat /\ k \in Nat
    BY <1>2
  <2> QED
    BY <2>3, <2>4
<1>4. \E r \in R : \A q \in R : q <= r
  BY <1>2, <1>3
<1> QED
  BY <1>4 DEF Latest

-----------------------------------------------------------------------------
(***************************************************************************)
(* Types.                                                                  *)
(***************************************************************************)

\* The part of the type invariant that is about the database, ...
DbType ==
    /\ up \in BOOLEAN
    /\ run_status \in [Task -> task_status_t]
    /\ hidden \in SUBSET Task
    /\ report_task \in [Report -> Task \cup {NoTask}]
    /\ scan_run_status \in [Report -> task_status_t]
    /\ ended \in SUBSET Report
    /\ next_report \in 1 .. MaxReport + 1

\* ... and the part that is about the processes.
ProcType ==
    /\ pc \in [Proc -> SessionPC \cup HandlerPC]
    /\ \A s \in Session : pc[s] \in SessionPC
    /\ \A h \in Handler : pc[h] \in HandlerPC
    /\ task \in [Proc -> Task \cup {NoTask}]
    /\ global_current_report \in [Proc -> Report \cup {NoReport}]
    /\ next_status \in [Proc -> task_status_t]
    /\ \A p \in Proc : task[p] = NoTask <=> AtRest(p)

LEMMA TypeParts == TypeOK <=> DbType /\ ProcType
BY DEF TypeOK, DbType, ProcType

LEMMA TypePartsPrime == TypeOK' <=> DbType' /\ ProcType'
BY DEF TypeOK, DbType, ProcType, AtRest

\* The statuses that are written are statuses.
LEMMA StatusTypes ==
    /\ ActiveStatus \subseteq task_status_t
    /\ InactiveStatus \subseteq task_status_t
    /\ ActiveStatus \cap InactiveStatus = {}
    /\ {TASK_STATUS_REQUESTED, TASK_STATUS_RUNNING, TASK_STATUS_STOP_REQUESTED,
        TASK_STATUS_DELETE_REQUESTED} \subseteq ActiveStatus
    /\ {TASK_STATUS_NEW, TASK_STATUS_DONE, TASK_STATUS_STOPPED,
        TASK_STATUS_INTERRUPTED} \subseteq InactiveStatus
BY DEF task_status_t, ActiveStatus, InactiveStatus, ResumableStatus

\* A session that goes on with its task, and a handler with its.
LEMMA SessionGoto ==
    ASSUME ProcType, NEW s \in Session, NEW l \in SessionPC \ {"idle"},
           pc[s] # "idle", Goto(s, l),
           UNCHANGED << task, global_current_report, next_status >>
    PROVE  ProcType'
BY DEF ProcType, Goto, Proc, AtRest, RestPC

LEMMA HandlerGoto ==
    ASSUME ProcType, NEW h \in Handler, NEW l \in HandlerPC \ {"free"},
           pc[h] # "free", Goto(h, l),
           UNCHANGED << task, global_current_report >>,
           next_status' \in [Proc -> task_status_t]
    PROVE  ProcType'
BY DEF ProcType, Goto, Proc, AtRest, RestPC

\* A process that lets its task go.
LEMMA LetGoType ==
    ASSUME ProcType, NEW p \in Proc, LetGo(p),
           global_current_report' \in [Proc -> Report \cup {NoReport}]
    PROVE  ProcType'
<1>1. next_status' \in [Proc -> task_status_t]
  BY StatusTypes DEF ProcType, LetGo
<1>2. RestPC(p) \in SessionPC \cup HandlerPC
  BY DEF RestPC, SessionPC, HandlerPC
<1>3. pc' \in [Proc -> SessionPC \cup HandlerPC]
  BY <1>2 DEF ProcType, LetGo, Goto
<1>4. \A s \in Session : pc'[s] \in SessionPC
  BY DEF ProcType, LetGo, Goto, Proc, RestPC, SessionPC
<1>5. \A h \in Handler : pc'[h] \in HandlerPC
  BY DEF ProcType, LetGo, Goto, Proc, RestPC, HandlerPC
<1>6. task' \in [Proc -> Task \cup {NoTask}]
  BY DEF ProcType, LetGo
<1>7. \A q \in Proc : task'[q] = NoTask <=> pc'[q] = RestPC(q)
  BY DEF ProcType, LetGo, Goto, AtRest
<1> QED
  BY <1>1, <1>3, <1>4, <1>5, <1>6, <1>7 DEF ProcType, AtRest

LEMMA ReturnType ==
    ASSUME ProcType, NEW s \in Session, Return(s)
    PROVE  ProcType'
BY LetGoType DEF Return, ProcType, Proc

LEMMA FinishType ==
    ASSUME ProcType, NEW p \in Proc, Finish(p)
    PROVE  ProcType'
BY LetGoType DEF Finish, ProcType

LEMMA SetTaskType ==
    ASSUME DbType, NEW t \in Task, NEW status \in task_status_t, SetTask(t, status)
    PROVE  run_status' \in [Task -> task_status_t]
BY DEF DbType, SetTask

LEMMA SetReportType ==
    ASSUME DbType, NEW r \in Report \cup {NoReport}, NEW status \in task_status_t,
           SetReport(r, status)
    PROVE  scan_run_status' \in [Report -> task_status_t]
BY DEF DbType, SetReport, Rows

LEMMA EndReportType ==
    ASSUME DbType, NEW r \in Report \cup {NoReport}, EndReport(r)
    PROVE  ended' \in SUBSET Report
BY DEF DbType, EndReport, Rows

\* The status that DELETE_REPORT gives a task is New or that of a report.
LEMMA AfterDelete ==
    ASSUME DbType, NEW t, NEW r
    PROVE  StatusAfterDelete(t, r) \in task_status_t
<1> DEFINE R == {q \in Rows \ {r} : report_task[q] = t}
<1>1. CASE R = {}
  BY <1>1, StatusTypes DEF StatusAfterDelete
<1>2. CASE R # {}
  <2>1. Latest(R) \in Report
    BY <1>2, LatestReport DEF Rows
  <2> QED
    BY <1>2, <2>1 DEF StatusAfterDelete, DbType
<1> QED
  BY <1>1, <1>2

\* A process that is not at rest works on a task.
LEMMA WorksOn ==
    ASSUME ProcType
    PROVE  /\ \A s \in Session : pc[s] # "idle" => task[s] \in Task
           /\ \A h \in Handler : pc[h] # "free" => task[h] \in Task
BY DEF ProcType, AtRest, RestPC, Proc

-----------------------------------------------------------------------------
(***************************************************************************)
(* Owners.                                                                 *)
(***************************************************************************)

\* Nobody becomes an owner, and owners keep their reports.
LEMMA OwnedKept ==
    ASSUME IInv,
           \A p \in Proc : Owner(p)' => /\ Owner(p)
                                        /\ global_current_report'[p] = global_current_report[p],
           \A h \in Handler : pc'[h] = "free" => global_current_report'[h] = NoReport
    PROVE  HasReport'
BY DEF IInv, HasReport

\* A process that goes on, and is an owner after it only if it was before.
LEMMA GotoOwned ==
    ASSUME IInv, NEW p \in Proc, NEW l, Goto(p, l), l # "free",
           l \in OwnerPC => Owner(p),
           UNCHANGED global_current_report
    PROVE  HasReport'
<1>1. \A q \in Proc : Owner(q)' => Owner(q)
  BY DEF IInv, TypeOK, Goto, Owner
<1>2. \A h \in Handler : pc'[h] = "free" => global_current_report'[h] = NoReport
  BY DEF IInv, TypeOK, Goto, HasReport
<1> QED
  BY <1>1, <1>2, OwnedKept

\* A session that returns is not an owner any more.
LEMMA ReturnOwned ==
    ASSUME IInv, NEW s \in Session, Return(s)
    PROVE  HasReport'
<1>1. "idle" \notin OwnerPC
  BY DEF OwnerPC, HandlerPC
<1>2. Goto(s, "idle")
  BY DEF Return, LetGo, RestPC
<1> QED
  BY <1>1, <1>2, GotoOwned DEF Return, Proc

\* Neither is a process that finishes.
LEMMA FinishOwned ==
    ASSUME IInv, NEW p \in Proc, Finish(p)
    PROVE  HasReport'
<1>1. RestPC(p) \notin OwnerPC
  BY DEF OwnerPC, HandlerPC, RestPC
<1>2. \A q \in Proc : Owner(q)' => Owner(q) /\ q # p
  BY <1>1 DEF IInv, TypeOK, Finish, LetGo, Goto, Owner
<1>3. \A q \in Proc : global_current_report'[q] = IF q = p THEN NoReport
                                                   ELSE global_current_report[q]
  BY DEF IInv, TypeOK, Finish
<1>4. \A h \in Handler : pc'[h] = "free" => global_current_report'[h] = NoReport
  BY <1>3 DEF IInv, TypeOK, Finish, LetGo, Goto, HasReport, Proc
<1> QED
  BY <1>2, <1>3, <1>4, OwnedKept

-----------------------------------------------------------------------------
(***************************************************************************)
(* Every action preserves the invariant.                                   *)
(***************************************************************************)

\* A command arrives: no owner is at the point that it reaches.
LEMMA BeginInv ==
    ASSUME IInv, NEW s \in Session, NEW t \in Task,
           NEW l \in {"create", "stopreq", "stopend", "stop", "delmark", "deltrash"},
           Begin(s, t, l)
    PROVE  IInv'
<1>1. DbType'
  BY TypeParts DEF IInv, Begin, DbType
<1>2. ProcType'
  <2>1. l \in SessionPC /\ l # "idle"
    BY DEF SessionPC
  <2> QED
    BY <2>1, TypeParts DEF IInv, Begin, ProcType, Goto, Proc, AtRest, RestPC
<1>3. l \notin OwnerPC /\ l # "free"
  BY DEF OwnerPC, HandlerPC
<1>4. HasReport'
  BY <1>3, GotoOwned DEF Begin, Proc
<1> QED
  BY <1>1, <1>2, <1>4, TypePartsPrime DEF IInv

LEMMA RequestInv ==
    ASSUME IInv, NEW s \in Session, Request(s)
    PROVE  IInv'
<1>1. ASSUME NEW t \in Task,
             \/ StartTask(s, t) \/ ResumeTask(s, t) \/ StopOspTask(s, t)
             \/ StopCveTask(s, t) \/ DeleteTask(s, t)
      PROVE  IInv'
  BY <1>1, BeginInv DEF StartTask, ResumeTask, StopOspTask, StopCveTask, DeleteTask
<1>2. CASE Disconnect(s)
  <2>1. DbType'
    BY <1>2, TypeParts DEF IInv, Disconnect, Tables, DbType
  <2>2. ProcType'
    BY <1>2, TypeParts DEF IInv, Disconnect, ProcType, AtRest, Proc
  <2>3. ~ Owner(s)
    BY <1>2 DEF Disconnect, Owner, OwnerPC, HandlerPC
  <2>4. \A p \in Proc : Owner(p)' <=> Owner(p)
    BY <1>2 DEF Disconnect, Owner
  <2>5. \A p \in Proc : global_current_report'[p] = IF p = s THEN NoReport
                                                     ELSE global_current_report[p]
    BY <1>2 DEF Disconnect, IInv, TypeOK, Proc
  <2>6. \A h \in Handler : pc'[h] = "free" => global_current_report'[h] = NoReport
    BY <1>2, <2>5 DEF Disconnect, IInv, HasReport, Proc
  <2>8. HasReport'
    BY <2>3, <2>4, <2>5, <2>6, OwnedKept
  <2> QED
    BY <2>1, <2>2, <2>8, TypePartsPrime DEF IInv
<1>3. ASSUME NEW r \in Report, DeleteReport(s, r)
      PROVE  IInv'
  <2>1. DbType'
    <3>1. DbType /\ report_task[r] \in Task
      BY <1>3, TypeParts DEF IInv, DeleteReport, DbType, Rows
    <3>2. StatusAfterDelete(report_task[r], r) \in task_status_t
      BY <3>1, AfterDelete
    <3>3. run_status' \in [Task -> task_status_t]
      BY <1>3, <3>1, <3>2, SetTaskType DEF DeleteReport
    <3>4. scan_run_status' \in [Report -> task_status_t]
      BY <1>3, <3>1, StatusTypes DEF DeleteReport, DbType
    <3> QED
      BY <1>3, <3>1, <3>3, <3>4 DEF DeleteReport, DbType
  <2>2. ProcType'
    BY <1>3, TypeParts DEF IInv, DeleteReport, ProcType, AtRest
  <2>3. HasReport'
    BY <1>3 DEF IInv, DeleteReport, HasReport, Owner
  <2> QED
    BY <2>1, <2>2, <2>3, TypePartsPrime DEF IInv
<1> QED
  BY <1>1, <1>2, <1>3 DEF Request

\* The session gets the new report.
LEMMA CreateInv ==
    ASSUME IInv, NEW s \in Session, CreateCurrentReport(s)
    PROVE  IInv'
<1>1. CASE global_current_report[s] # NoReport
  <2>1. DbType'
    BY <1>1, TypeParts DEF IInv, CreateCurrentReport, Tables, DbType
  <2>2. ProcType'
    BY <1>1, TypeParts, FinishType, ReturnType DEF IInv, CreateCurrentReport, Proc
  <2>3. HasReport'
    BY <1>1, FinishOwned, ReturnOwned DEF CreateCurrentReport, Tables, Proc
  <2> QED
    BY <2>1, <2>2, <2>3, TypePartsPrime DEF IInv
<1>2. CASE global_current_report[s] = NoReport
  <2>1. NewReport \in Report /\ next_report' \in 1 .. MaxReport + 1
    BY <1>2 DEF IInv, TypeOK, CreateCurrentReport, Report
  <2>2. task[s] \in Task
    BY <1>2, TypeParts, WorksOn DEF IInv, CreateCurrentReport
  <2>3. scan_run_status' \in [Report -> task_status_t]
    BY <1>2, <2>1, StatusTypes DEF IInv, TypeOK, CreateCurrentReport
  <2>4. DbType'
    BY <1>2, <2>1, <2>2, <2>3, TypeParts DEF IInv, CreateCurrentReport, DbType
  <2>5. ProcType'
    <3>1. ProcType /\ pc[s] # "idle" /\ "mark" \in SessionPC
      BY <1>2, TypeParts DEF IInv, CreateCurrentReport, SessionPC
    <3>2. global_current_report' \in [Proc -> Report \cup {NoReport}]
      BY <1>2, <2>1 DEF IInv, TypeOK, CreateCurrentReport
    <3> QED
      BY <1>2, <3>1, <3>2
         DEF ProcType, CreateCurrentReport, Goto, Proc, AtRest, RestPC
  <2>6. \A p \in Proc : global_current_report'[p] = IF p = s THEN NewReport
                                                     ELSE global_current_report[p]
    BY <1>2 DEF IInv, TypeOK, CreateCurrentReport, Proc
  <2>7. \A p \in Proc : pc'[p] = IF p = s THEN "mark" ELSE pc[p]
    BY <1>2 DEF IInv, TypeOK, CreateCurrentReport, Goto, Proc
  <2>8. HasReport'
    BY <2>1, <2>6, <2>7 DEF IInv, HasReport, Report, Owner, Proc
  <2> QED
    BY <2>4, <2>5, <2>8, TypePartsPrime DEF IInv
<1> QED
  BY <1>1, <1>2

\* The report passes from the session to the handler; the global of the session
\* keeps its value.
LEMMA ForkInv ==
    ASSUME IInv, NEW s \in Session, NEW h \in Handler, Fork(s, h)
    PROVE  IInv'
<1>0. s \in Proc /\ h \in Proc /\ s # h
  BY DEF Proc
<1>1. DbType'
  BY TypeParts DEF IInv, Fork, Tables, DbType
<1>2. \A p \in Proc : pc'[p] = IF p = h THEN "launch" ELSE IF p = s THEN "idle" ELSE pc[p]
  BY <1>0 DEF IInv, TypeOK, Fork
<1>3. \A p \in Proc : task'[p] = IF p = h THEN task[s] ELSE IF p = s THEN NoTask ELSE task[p]
  BY <1>0 DEF IInv, TypeOK, Fork
<1>4. \A p \in Proc : global_current_report'[p] = IF p = h THEN global_current_report[s]
                                                   ELSE global_current_report[p]
  BY <1>0 DEF IInv, TypeOK, Fork
<1>5. task[s] \in Task
  BY TypeParts, WorksOn DEF IInv, Fork
<1>6. ProcType'
  <2>1. pc' \in [Proc -> SessionPC \cup HandlerPC]
    BY <1>0 DEF IInv, TypeOK, Fork, SessionPC, HandlerPC
  <2>2. task' \in [Proc -> Task \cup {NoTask}]
    BY <1>0, <1>5 DEF IInv, TypeOK, Fork
  <2>3. global_current_report' \in [Proc -> Report \cup {NoReport}]
    BY <1>0 DEF IInv, TypeOK, Fork
  <2>4. (\A o \in Session : pc'[o] \in SessionPC) /\ (\A k \in Handler : pc'[k] \in HandlerPC)
    BY <1>0, <1>2 DEF IInv, TypeOK, SessionPC, HandlerPC, Proc
  <2>5. \A p \in Proc : task'[p] = NoTask <=> pc'[p] = RestPC(p)
    BY <1>0, <1>2, <1>3, <1>5 DEF IInv, TypeOK, AtRest, RestPC
  <2>6. next_status' \in [Proc -> task_status_t]
    BY DEF IInv, TypeOK, Fork
  <2> QED
    BY <2>1, <2>2, <2>3, <2>4, <2>5, <2>6 DEF ProcType, AtRest
<1>7. Owner(s) /\ ~ Owner(h)
  BY DEF Fork, Owner, OwnerPC
<1>8. "idle" \notin OwnerPC
  BY DEF OwnerPC, HandlerPC
<1>9. HasReport'
  BY <1>0, <1>2, <1>4, <1>7, <1>8 DEF IInv, HasReport, Owner, Proc
<1> QED
  BY <1>1, <1>6, <1>9, TypePartsPrime DEF IInv

\* The other steps of START_TASK.
LEMMA RunInv ==
    ASSUME IInv, NEW s \in Session, MarkRequested(s) \/ ForkFails(s) \/ UndoReport(s)
    PROVE  IInv'
<1>0. ProcType /\ DbType /\ s \in Proc
  BY TypeParts DEF IInv, Proc
<1>1. ASSUME NEW l \in {"fork", "undo"}, NEW status \in task_status_t,
             pc[s] \in {"mark", "fork"}, SetTask(task[s], status), Goto(s, l),
             StepDb, UNCHANGED scan_run_status
      PROVE  IInv'
  <2>1. task[s] \in Task
    BY <1>0, <1>1, WorksOn
  <2>2. DbType'
    BY <1>0, <1>1, <2>1, SetTaskType DEF DbType, StepDb
  <2>3. ProcType'
    BY <1>0, <1>1, SessionGoto DEF StepDb, SessionPC
  <2>4. Owner(s)
    BY <1>1 DEF Owner, OwnerPC
  <2>5. HasReport'
    BY <1>0, <1>1, <2>4, GotoOwned DEF StepDb
  <2> QED
    BY <2>2, <2>3, <2>5, TypePartsPrime DEF IInv
<1>2. CASE MarkRequested(s)
  BY <1>1, <1>2, StatusTypes DEF MarkRequested
<1>3. CASE ForkFails(s)
  BY <1>1, <1>3, StatusTypes DEF ForkFails
<1>4. CASE UndoReport(s)
  <2>1. global_current_report[s] \in Report \cup {NoReport}
    BY <1>0 DEF ProcType
  <2>2. scan_run_status' \in [Report -> task_status_t]
    BY <1>0, <1>4, <2>1, SetReportType, StatusTypes DEF UndoReport
  <2>3. DbType'
    BY <1>0, <1>4, <2>2 DEF UndoReport, Tables, DbType
  <2>4. ProcType' /\ HasReport'
    BY <1>0, <1>4, FinishType, FinishOwned DEF UndoReport, Tables
  <2> QED
    BY <2>3, <2>4, TypePartsPrime DEF IInv
<1> QED
  BY <1>2, <1>3, <1>4

\* STOP_TASK and DELETE_TASK.
LEMMA StopInv ==
    ASSUME IInv, NEW s \in Session,
           \/ StopRequest(s) \/ StopEnd(s) \/ StopReport(s) \/ StopTaskWrite(s)
           \/ DeleteTaskMark(s) \/ DeleteTaskTrash(s)
    PROVE  IInv'
<1>0. ProcType /\ DbType /\ s \in Proc
  BY TypeParts DEF IInv, Proc
<1>1. task[s] \in Task
  BY <1>0, WorksOn
     DEF StopRequest, StopEnd, StopReport, StopTaskWrite, DeleteTaskMark, DeleteTaskTrash
<1>2. global_current_report[s] \in Report \cup {NoReport}
  BY <1>0 DEF ProcType
<1>3. CASE StopRequest(s)
  <2>1. DbType'
    BY <1>0, <1>1, <1>3, SetTaskType, StatusTypes DEF StopRequest, StepDb, DbType
  <2>2. ProcType'
    BY <1>0, <1>3, SessionGoto DEF StopRequest, StepDb, SessionPC
  <2>3. HasReport'
    BY <1>0, <1>3, GotoOwned DEF StopRequest, StepDb, OwnerPC, HandlerPC
  <2> QED
    BY <2>1, <2>2, <2>3, TypePartsPrime DEF IInv
<1>4. CASE StopEnd(s)
  <2>1. DbType'
    BY <1>0, <1>1, <1>2, <1>4, SetTaskType, EndReportType, StatusTypes
       DEF StopEnd, DbType
  <2>2. ProcType'
    BY <1>0, <1>4, SessionGoto DEF StopEnd, SessionPC
  <2>3. HasReport'
    BY <1>0, <1>4, GotoOwned DEF StopEnd, OwnerPC, HandlerPC
  <2> QED
    BY <2>1, <2>2, <2>3, TypePartsPrime DEF IInv
<1>5. ASSUME Return(s), DbType'
      PROVE  IInv'
  BY <1>0, <1>5, ReturnType, ReturnOwned, TypePartsPrime DEF IInv
<1>6. CASE StopReport(s)
  <2>1. DbType'
    BY <1>0, <1>2, <1>6, SetReportType, StatusTypes DEF StopReport, Tables, DbType
  <2> QED
    BY <1>5, <1>6, <2>1 DEF StopReport, Tables
<1>7. CASE StopTaskWrite(s)
  <2>1. DbType'
    BY <1>0, <1>1, <1>7, SetTaskType, StatusTypes DEF StopTaskWrite, Tables, DbType
  <2> QED
    BY <1>5, <1>7, <2>1 DEF StopTaskWrite, Tables
<1>8. CASE DeleteTaskMark(s)
  <2>1. DbType'
    BY <1>0, <1>1, <1>8, SetTaskType, StatusTypes DEF DeleteTaskMark, Tables, DbType
  <2> QED
    BY <1>5, <1>8, <2>1 DEF DeleteTaskMark, Tables
<1>9. CASE DeleteTaskTrash(s)
  <2>1. DbType'
    BY <1>0, <1>1, <1>9 DEF DeleteTaskTrash, DbType
  <2> QED
    BY <1>5, <1>9, <2>1 DEF DeleteTaskTrash
<1> QED
  BY <1>3, <1>4, <1>6, <1>7, <1>8, <1>9

\* A handler goes on.
LEMMA HandlerGoesOn ==
    ASSUME IInv, NEW h \in Handler, NEW l \in HandlerPC \ {"free"}, pc[h] # "free",
           Goto(h, l), UNCHANGED << Tables, task, global_current_report >>,
           run_status' \in [Task -> task_status_t],
           scan_run_status' \in [Report -> task_status_t],
           next_status' \in [Proc -> task_status_t]
    PROVE  IInv'
<1>1. DbType'
  BY TypeParts DEF IInv, DbType, Tables
<1>2. ProcType'
  BY TypeParts, HandlerGoto DEF IInv
<1>3. Owner(h)
  BY DEF IInv, TypeOK, Owner, OwnerPC
<1>4. HasReport'
  BY <1>3, GotoOwned DEF Tables, Proc
<1> QED
  BY <1>1, <1>2, <1>4, TypePartsPrime DEF IInv

LEMMA HandlerInv ==
    ASSUME IInv, NEW h \in Handler, HandlerStep(h) \/ PollAgain(h) \/ PollEnds(h)
                                    \/ ResultRefused(h) \/ LaunchFails(h)
    PROVE  IInv'
<1>0. ProcType /\ DbType /\ h \in Proc
  BY TypeParts DEF IInv, Proc
<1>1. pc[h] # "free" /\ task[h] \in Task
  BY <1>0, WorksOn
     DEF HandlerStep, Launch, ReportRunning, CheckStatus, CveLaunch, CveCalculate,
         WriteTask, WriteReport, PollAgain, PollEnds, ResultRefused, LaunchFails
<1>2. /\ global_current_report[h] \in Report \cup {NoReport}
      /\ next_status[h] \in task_status_t
  BY <1>0 DEF ProcType
\* It writes the status of the task.
<1>3. ASSUME NEW status \in task_status_t, SetTask(task[h], status),
             NEW l \in HandlerPC \ {"free"}, Goto(h, l), StepDb, UNCHANGED scan_run_status
      PROVE  IInv'
  <2>1. run_status' \in [Task -> task_status_t]
    BY <1>0, <1>1, <1>3, SetTaskType
  <2> QED
    BY <1>0, <1>1, <1>3, <2>1, HandlerGoesOn DEF StepDb, Tables, DbType, ProcType
\* It makes up its mind.
<1>4. ASSUME NEW status \in task_status_t, NEW l \in HandlerPC \ {"free"},
             End(h, status, l), UNCHANGED run_status
      PROVE  IInv'
  <2>1. next_status' \in [Proc -> task_status_t]
    BY <1>0, <1>4 DEF End, ProcType
  <2> QED
    BY <1>0, <1>1, <1>4, <2>1, HandlerGoesOn DEF End, DbType
<1>5. CASE Launch(h)
  BY <1>3, <1>5, StatusTypes DEF Launch, HandlerPC
<1>6. CASE CveLaunch(h)
  BY <1>3, <1>6, StatusTypes DEF CveLaunch, HandlerPC
<1>7. CASE WriteTask(h)
  BY <1>2, <1>3, <1>7 DEF WriteTask, HandlerPC
<1>8. CASE CheckStatus(h)
  BY <1>2, <1>4, <1>8, StatusTypes DEF CheckStatus, HandlerPC
<1>9. CASE CveCalculate(h)
  BY <1>4, <1>9, StatusTypes DEF CveCalculate, HandlerPC
<1>10. CASE PollAgain(h)
  BY <1>2, <1>4, <1>10 DEF PollAgain, HandlerPC
<1>11. CASE PollEnds(h)
  BY <1>4, <1>11, StatusTypes DEF PollEnds, HandlerPC
<1>12. CASE LaunchFails(h)
  BY <1>4, <1>12, StatusTypes DEF LaunchFails, HandlerPC
<1>13. CASE ReportRunning(h)
  <2>1. scan_run_status' \in [Report -> task_status_t]
    BY <1>0, <1>2, <1>13, SetReportType, StatusTypes DEF ReportRunning
  <2> QED
    BY <1>0, <1>1, <1>13, <2>1, HandlerGoesOn
       DEF ReportRunning, StepDb, Tables, DbType, ProcType, HandlerPC
<1>14. CASE WriteReport(h)
  <2>1. scan_run_status' \in [Report -> task_status_t]
    BY <1>0, <1>2, <1>14, SetReportType DEF WriteReport
  <2>2. ended' \in SUBSET Report
    BY <1>0, <1>2, <1>14, EndReportType DEF WriteReport, DbType
  <2>3. DbType'
    BY <1>0, <1>14, <2>1, <2>2 DEF WriteReport, DbType
  <2>4. ProcType' /\ HasReport'
    BY <1>0, <1>14, FinishType, FinishOwned DEF WriteReport
  <2> QED
    BY <2>3, <2>4, TypePartsPrime DEF IInv
<1>15. CASE ResultRefused(h)
  <2>1. DbType'
    BY <1>0, <1>15 DEF ResultRefused, Tables, DbType
  <2>2. ProcType' /\ HasReport'
    BY <1>0, <1>15, FinishType, FinishOwned DEF ResultRefused
  <2> QED
    BY <2>1, <2>2, TypePartsPrime DEF IInv
<1> QED
  BY <1>5, <1>6, <1>7, <1>8, <1>9, <1>10, <1>11, <1>12, <1>13, <1>14, <1>15 DEF HandlerStep

\* No process is left after a crash; Restart does not touch the processes.
LEMMA FailureInv ==
    ASSUME IInv, Crash \/ Restart \/ \E p \in Proc : Kill(p)
    PROVE  IInv'
<1>0. ProcType /\ DbType
  BY TypeParts DEF IInv
<1>1. ASSUME NEW p \in Proc, Kill(p)
      PROVE  IInv'
  <2>1. DbType'
    BY <1>0, <1>1 DEF Kill, Tables, DbType
  <2>2. ProcType' /\ HasReport'
    BY <1>0, <1>1, FinishType, FinishOwned DEF Kill, Tables
  <2> QED
    BY <2>1, <2>2, TypePartsPrime DEF IInv
<1>2. CASE Crash
  <2>1. DbType'
    BY <1>0, <1>2 DEF Crash, DbType
  <2>2. \A p \in Proc : pc'[p] = RestPC(p) /\ ~ Owner(p)' /\ RestPC(p) \in {"idle", "free"}
    BY <1>2 DEF Crash, Owner, OwnerPC, HandlerPC, RestPC
  <2>3. pc' \in [Proc -> SessionPC \cup HandlerPC]
    BY <1>2, <2>2 DEF Crash, SessionPC, HandlerPC
  <2>4. (\A s \in Session : pc'[s] \in SessionPC) /\ (\A h \in Handler : pc'[h] \in HandlerPC)
    BY <2>2 DEF RestPC, Proc, SessionPC, HandlerPC
  <2>5. ProcType'
    BY <1>2, <2>2, <2>3, <2>4, StatusTypes DEF Crash, ProcType, AtRest
  <2>6. HasReport'
    BY <1>0, <1>2, <2>2 DEF Crash, HasReport, DbType, Proc
  <2> QED
    BY <2>1, <2>5, <2>6, TypePartsPrime DEF IInv
<1>3. CASE Restart
  <2>1. run_status' \in [Task -> task_status_t]
    BY <1>0, <1>3, StatusTypes DEF Restart, DbType
  <2>2. scan_run_status' \in [Report -> task_status_t]
    BY <1>0, <1>3, StatusTypes DEF Restart, DbType
  <2>3. DbType'
    BY <1>0, <1>3, <2>1, <2>2 DEF Restart, DbType
  <2>4. ProcType'
    BY <1>0, <1>3 DEF Restart, ProcType, AtRest
  <2>5. HasReport'
    BY <1>3 DEF Restart, IInv, HasReport, Owner
  <2> QED
    BY <2>3, <2>4, <2>5, TypePartsPrime DEF IInv
<1> QED
  BY <1>1, <1>2, <1>3

LEMMA InitInv == Init => IInv
<1> SUFFICES ASSUME Init PROVE IInv
  OBVIOUS
<1>1. DbType
  BY StatusTypes DEF Init, DbType
<1>2. \A p \in Proc : pc[p] = RestPC(p) /\ ~ Owner(p) /\ RestPC(p) \in {"idle", "free"}
  BY DEF Init, Owner, OwnerPC, HandlerPC, RestPC
<1>3. pc \in [Proc -> SessionPC \cup HandlerPC]
  BY <1>2 DEF Init, SessionPC, HandlerPC
<1>4. (\A s \in Session : pc[s] \in SessionPC) /\ (\A h \in Handler : pc[h] \in HandlerPC)
  BY <1>2 DEF RestPC, Proc, SessionPC, HandlerPC
<1>5. ProcType
  BY <1>2, <1>3, <1>4, StatusTypes DEF Init, ProcType, AtRest
<1>6. HasReport
  BY <1>2 DEF Init, HasReport, Proc
<1> QED
  BY <1>1, <1>5, <1>6, TypeParts DEF IInv

LEMMA NextInv == IInv /\ [Next]_vars => IInv'
<1> SUFFICES ASSUME IInv, [Next]_vars PROVE IInv'
  OBVIOUS
<1>1. CASE UNCHANGED vars
  <2>1. DbType' /\ ProcType'
    BY <1>1, TypeParts DEF IInv, vars, DbType, ProcType, AtRest
  <2>2. HasReport'
    BY <1>1 DEF IInv, vars, HasReport, Owner
  <2> QED
    BY <2>1, <2>2, TypePartsPrime DEF IInv
<1>2. ASSUME NEW s \in Session, Request(s) \/ SessionStep(s) PROVE IInv'
  BY <1>2, RequestInv, CreateInv, ForkInv, RunInv, StopInv DEF SessionStep
<1>3. ASSUME Failure PROVE IInv'
  BY <1>3, RunInv, HandlerInv, FailureInv DEF Failure
<1> QED
  BY <1>1, <1>2, <1>3, HandlerInv DEF Next

LEMMA Invariance == Spec => []IInv
BY InitInv, NextInv, PTL DEF Spec

\* The types of the variables; a process works on a task if and only if it is
\* not at rest, through every command, fork, kill, crash and restart.
THEOREM OspTypeCorrect == Spec => []TypeOK
<1>1. IInv => TypeOK
  BY DEF IInv
<1> QED
  BY <1>1, Invariance, PTL

-----------------------------------------------------------------------------
(***************************************************************************)
(* Active reports have an owner, unless processes are killed.              *)
(***************************************************************************)

\* No report becomes active, and an owner goes only when its report is not.
LEMMA ActiveKept ==
    ASSUME LiveInv, up' = up,
           \A r \in Report : scan_run_status'[r] \in ActiveStatus
                             => scan_run_status[r] \in ActiveStatus,
           \A p \in Proc : /\ Owner(p)
                           /\ scan_run_status'[global_current_report[p]] \in ActiveStatus
                           => /\ Owner(p)'
                              /\ global_current_report'[p] = global_current_report[p]
    PROVE  ActiveOwned'
BY DEF LiveInv, ActiveOwned

\* UPDATE reports with an inactive status makes no report active.
LEMMA SetInactive ==
    ASSUME TypeOK, RowsOnly, NEW r \in Report \cup {NoReport},
           NEW status \in InactiveStatus, SetReport(r, status)
    PROVE  /\ \A q \in Report : scan_run_status'[q] \in ActiveStatus
                                => scan_run_status[q] \in ActiveStatus
           /\ r \in Report => scan_run_status'[r] \notin ActiveStatus
BY StatusTypes DEF TypeOK, SetReport, Report, Rows, RowsOnly

\* A process that goes on, and remains an owner if it is one.
LEMMA GotoActive ==
    ASSUME LiveInv, NEW p \in Proc, NEW l, Goto(p, l), Owner(p) => l \in OwnerPC,
           UNCHANGED << up, global_current_report >>,
           \A r \in Report : scan_run_status'[r] \in ActiveStatus
                             => scan_run_status[r] \in ActiveStatus
    PROVE  ActiveOwned'
<1>1. \A q \in Proc : Owner(q) => Owner(q)'
  BY DEF LiveInv, IInv, TypeOK, Goto, Owner
<1> QED
  BY <1>1, ActiveKept

\* A process that is not an owner stops.
LEMMA LetGoActive ==
    ASSUME LiveInv, NEW p \in Proc, LetGo(p), ~ Owner(p), up' = up,
           \A q \in Proc \ {p} : global_current_report'[q] = global_current_report[q],
           \A r \in Report : scan_run_status'[r] \in ActiveStatus
                             => scan_run_status[r] \in ActiveStatus
    PROVE  ActiveOwned'
<1>1. \A q \in Proc \ {p} : Owner(q) => Owner(q)'
  BY DEF LiveInv, IInv, TypeOK, LetGo, Goto, Owner
<1> QED
  BY <1>1, ActiveKept

\* An owner stops, after its report has got an inactive status.
LEMMA FinishActive ==
    ASSUME LiveInv, NEW p \in Proc, Finish(p), Owner(p), up' = up,
           NEW status \in InactiveStatus, SetReport(global_current_report[p], status)
    PROVE  ActiveOwned'
<1>1. global_current_report[p] \in Report
  BY DEF LiveInv, IInv, TypeOK, HasReport
<1>2. TypeOK /\ RowsOnly
  BY DEF LiveInv, IInv
<1>3. /\ \A q \in Report : scan_run_status'[q] \in ActiveStatus
                           => scan_run_status[q] \in ActiveStatus
      /\ scan_run_status'[global_current_report[p]] \notin ActiveStatus
  BY <1>1, <1>2, SetInactive
<1>4. \A q \in Proc \ {p} : /\ Owner(q) => Owner(q)'
                            /\ global_current_report'[q] = global_current_report[q]
  BY DEF LiveInv, IInv, TypeOK, Finish, LetGo, Goto, Owner
<1> QED
  BY <1>3, <1>4, ActiveKept

\* The steps of sessions.
LEMMA SessionActive ==
    ASSUME LiveInv, NEW s \in Session, Request(s) \/ SessionStep(s) \/ ForkFails(s)
    PROVE  ActiveOwned' /\ EndsInactive'
<1>0. s \in Proc /\ TypeOK /\ RowsOnly /\ \A h \in Handler : h # s /\ h \in Proc
  BY DEF Proc, LiveInv, IInv
<1> DEFINE Kept == \A r \in Report : scan_run_status'[r] \in ActiveStatus
                                     => scan_run_status[r] \in ActiveStatus
\* A session does not touch the status that a handler ends with, except that
\* Fork makes a handler, which is then not about to end.
<1>1. ASSUME NEW l, Goto(s, l), UNCHANGED next_status
      PROVE  EndsInactive'
  BY <1>0, <1>1 DEF LiveInv, EndsInactive, Goto, TypeOK
<1>2. ASSUME LetGo(s)
      PROVE  EndsInactive'
  BY <1>0, <1>2 DEF LiveInv, EndsInactive, LetGo, Goto, TypeOK
<1>3. ASSUME NEW t \in Task, NEW l, Begin(s, t, l)
      PROVE  ActiveOwned' /\ EndsInactive'
  <2>1. ~ Owner(s)
    BY <1>3 DEF Begin, Owner, OwnerPC, HandlerPC
  <2> QED
    BY <1>0, <1>1, <1>3, <2>1, GotoActive DEF Begin
<1>4. CASE Request(s)
  <2>1. CASE Disconnect(s)
    <3>1. ~ Owner(s)
      BY <2>1 DEF Disconnect, Owner, OwnerPC, HandlerPC
    <3>2. \A q \in Proc : /\ Owner(q)' <=> Owner(q)
                          /\ q # s => global_current_report'[q] = global_current_report[q]
      BY <2>1 DEF Disconnect, Owner, LiveInv, IInv, TypeOK
    <3>3. EndsInactive'
      BY <2>1 DEF Disconnect, LiveInv, EndsInactive
    <3> QED
      BY <2>1, <3>1, <3>2, <3>3, ActiveKept DEF Disconnect, Tables
  <2>2. ASSUME NEW r \in Report, DeleteReport(s, r)
        PROVE  ActiveOwned' /\ EndsInactive'
    <3>1. Kept
      BY <1>0, <2>2, StatusTypes DEF DeleteReport, TypeOK
    <3>2. EndsInactive'
      BY <2>2 DEF DeleteReport, LiveInv, EndsInactive
    <3>3. \A p \in Proc : Owner(p)' <=> Owner(p)
      BY <2>2 DEF DeleteReport, Owner
    <3> QED
      BY <2>2, <3>1, <3>2, <3>3, ActiveKept DEF DeleteReport
  <2> QED
    BY <1>3, <1>4, <2>1, <2>2
       DEF Request, StartTask, ResumeTask, StopOspTask, StopCveTask, DeleteTask
<1>5. CASE CreateCurrentReport(s)
  <2>1. ~ Owner(s)
    BY <1>5 DEF CreateCurrentReport, Owner, OwnerPC, HandlerPC
  <2>2. CASE global_current_report[s] # NoReport
    <3>1. LetGo(s) /\ \A q \in Proc \ {s} : global_current_report'[q] = global_current_report[q]
      BY <1>0, <1>5, <2>2 DEF CreateCurrentReport, Finish, Return, TypeOK
    <3> QED
      BY <1>0, <1>2, <1>5, <2>1, <2>2, <3>1, LetGoActive DEF CreateCurrentReport, Tables
  <2>3. CASE global_current_report[s] = NoReport
    <3>1. EndsInactive'
      BY <1>1, <1>5, <2>3 DEF CreateCurrentReport
    <3>2. \A q \in Proc \ {s} : /\ Owner(q)' <=> Owner(q)
                                /\ global_current_report'[q] = global_current_report[q]
      BY <1>0, <1>5, <2>3 DEF CreateCurrentReport, Goto, Owner, TypeOK
    <3>3. Owner(s)' /\ global_current_report'[s] = NewReport
      BY <1>0, <1>5, <2>3 DEF CreateCurrentReport, Goto, Owner, OwnerPC, TypeOK
    <3>4. \A r \in Report \ {NewReport} : scan_run_status'[r] = scan_run_status[r]
      BY <1>0, <1>5, <2>3 DEF CreateCurrentReport, TypeOK
    <3>5. up' = up
      BY <1>5, <2>3 DEF CreateCurrentReport
    <3>6. ActiveOwned'
      <4> SUFFICES ASSUME up, NEW r \in Report, scan_run_status'[r] \in ActiveStatus
                   PROVE  \E p \in Proc : Owner(p)' /\ global_current_report'[p] = r
        BY <3>5 DEF ActiveOwned
      <4>1. CASE r = NewReport
        BY <1>0, <3>3, <4>1
      <4>2. CASE r # NewReport
        BY <2>1, <3>2, <3>4, <4>2 DEF LiveInv, ActiveOwned
      <4> QED
        BY <4>1, <4>2
    <3> QED
      BY <3>1, <3>6
  <2> QED
    BY <2>2, <2>3
<1>6. CASE MarkRequested(s) \/ ForkFails(s)
  BY <1>0, <1>1, <1>6, GotoActive
     DEF MarkRequested, ForkFails, StepDb, OwnerPC
<1>7. ASSUME NEW h \in Handler, Fork(s, h)
      PROVE  ActiveOwned' /\ EndsInactive'
  <2>1. \A p \in Proc : pc'[p] = IF p = h THEN "launch" ELSE IF p = s THEN "idle" ELSE pc[p]
    BY <1>0, <1>7 DEF TypeOK, Fork
  <2>2. \A p \in Proc : global_current_report'[p] = IF p = h THEN global_current_report[s]
                                                     ELSE global_current_report[p]
    BY <1>0, <1>7 DEF TypeOK, Fork
  <2>3. ~ Owner(h) /\ "launch" \in OwnerPC
    BY <1>7 DEF Fork, Owner, OwnerPC, HandlerPC
  <2>4. EndsInactive'
    BY <1>0, <1>7, <2>1 DEF LiveInv, EndsInactive, Fork
  <2>5. up' = up /\ scan_run_status' = scan_run_status
    BY <1>7 DEF Fork, Tables
  <2>6. \A p \in Proc : Owner(p) => \E q \in Proc : /\ Owner(q)'
                                                    /\ global_current_report'[q]
                                                         = global_current_report[p]
    BY <1>0, <2>1, <2>2, <2>3 DEF Owner
  <2>7. ActiveOwned'
    BY <2>5, <2>6 DEF LiveInv, ActiveOwned
  <2> QED
    BY <2>4, <2>7
<1>8. CASE UndoReport(s)
  BY <1>0, <1>2, <1>8, FinishActive, StatusTypes
     DEF UndoReport, Tables, Finish, Owner, OwnerPC
<1>9. CASE StopRequest(s) \/ StopEnd(s)
  <2>1. ~ Owner(s)
    BY <1>9 DEF StopRequest, StopEnd, Owner, OwnerPC, HandlerPC
  <2> QED
    BY <1>0, <1>1, <1>9, <2>1, GotoActive DEF StopRequest, StopEnd, StepDb
<1>10. ASSUME pc[s] \in {"stoprep", "stop", "delmark", "deltrash"}, Return(s), up' = up, Kept
       PROVE  ActiveOwned' /\ EndsInactive'
  <2>1. ~ Owner(s)
    BY <1>10 DEF Owner, OwnerPC, HandlerPC
  <2> QED
    BY <1>0, <1>2, <1>10, <2>1, LetGoActive DEF Return
<1>11. CASE StopReport(s)
  <2>1. Kept
    BY <1>0, <1>11, SetInactive, StatusTypes DEF StopReport, TypeOK
  <2> QED
    BY <1>10, <1>11, <2>1 DEF StopReport, Tables
<1>12. CASE StopTaskWrite(s) \/ DeleteTaskMark(s) \/ DeleteTaskTrash(s)
  BY <1>10, <1>12 DEF StopTaskWrite, DeleteTaskMark, DeleteTaskTrash, Tables
<1> QED
  BY <1>4, <1>5, <1>6, <1>7, <1>8, <1>9, <1>11, <1>12 DEF SessionStep

\* The steps of handlers.
LEMMA HandlerActive ==
    ASSUME LiveInv, NEW h \in Handler,
           \/ HandlerStep(h) \/ PollAgain(h) \/ PollEnds(h) \/ ResultRefused(h)
           \/ LaunchFails(h)
    PROVE  ActiveOwned' /\ EndsInactive'
<1>0. h \in Proc /\ TypeOK /\ \A k \in Handler : k \in Proc
  BY DEF Proc, LiveInv, IInv
<1>1. Owner(h) /\ global_current_report[h] \in Report
  <2>1. Owner(h)
    BY <1>0
       DEF HandlerStep, Launch, ReportRunning, CheckStatus, CveLaunch, CveCalculate,
           WriteTask, WriteReport, PollAgain, PollEnds, ResultRefused, LaunchFails, Owner,
           OwnerPC, HandlerPC
  <2> QED
    BY <1>0, <2>1 DEF LiveInv, IInv, HasReport, TypeOK
\* It writes the status of the task.
<1>2. ASSUME NEW l \in HandlerPC \ {"free"}, Goto(h, l), StepDb, UNCHANGED scan_run_status,
             l = "wrep" => next_status[h] \in InactiveStatus, l # "wtask"
      PROVE  ActiveOwned' /\ EndsInactive'
  <2>1. ActiveOwned'
    BY <1>0, <1>2, GotoActive DEF StepDb, OwnerPC
  <2>2. EndsInactive'
    BY <1>0, <1>2 DEF StepDb, Goto, LiveInv, EndsInactive, TypeOK
  <2> QED
    BY <2>1, <2>2
\* It makes up its mind.
<1>3. ASSUME NEW status, NEW l \in HandlerPC \ {"free"}, End(h, status, l),
             l \in {"wtask", "wrep"} => status \in InactiveStatus
      PROVE  ActiveOwned' /\ EndsInactive'
  <2>1. ActiveOwned'
    BY <1>0, <1>3, GotoActive DEF End, Tables, OwnerPC
  <2>2. EndsInactive'
    BY <1>0, <1>3 DEF End, Goto, LiveInv, EndsInactive, TypeOK
  <2> QED
    BY <2>1, <2>2
<1>4. CASE Launch(h) \/ CveLaunch(h)
  BY <1>2, <1>4 DEF Launch, CveLaunch, HandlerPC
<1>5. CASE WriteTask(h)
  <2>1. next_status[h] \in InactiveStatus
    BY <1>5 DEF WriteTask, LiveInv, EndsInactive
  <2> QED
    BY <1>2, <1>5, <2>1 DEF WriteTask, HandlerPC
<1>6. CASE CheckStatus(h)
  BY <1>3, <1>6, StatusTypes DEF CheckStatus, HandlerPC
<1>7. CASE CveCalculate(h)
  BY <1>3, <1>7, StatusTypes DEF CveCalculate, HandlerPC
<1>8. CASE PollAgain(h) \/ PollEnds(h) \/ LaunchFails(h)
  BY <1>3, <1>8, StatusTypes DEF PollAgain, PollEnds, LaunchFails, HandlerPC
<1>9. CASE ReportRunning(h)
  \* The report that becomes Running is its own.
  <2>1. EndsInactive'
    BY <1>0, <1>9 DEF ReportRunning, StepDb, Goto, LiveInv, EndsInactive, TypeOK
  <2>2. \A q \in Proc : Owner(q) => Owner(q)'
    BY <1>0, <1>9 DEF ReportRunning, Goto, Owner, OwnerPC, HandlerPC, TypeOK
  <2>3. \A r \in Report \ {global_current_report[h]} : scan_run_status'[r] = scan_run_status[r]
    BY <1>0, <1>9 DEF ReportRunning, SetReport, Rows, TypeOK
  <2>4. UNCHANGED << up, global_current_report >>
    BY <1>9 DEF ReportRunning, StepDb
  <2>5. ActiveOwned'
    <3> SUFFICES ASSUME up, NEW r \in Report, scan_run_status'[r] \in ActiveStatus
                 PROVE  \E p \in Proc : Owner(p)' /\ global_current_report'[p] = r
      BY <2>4 DEF ActiveOwned
    <3>1. CASE r = global_current_report[h]
      BY <1>0, <1>1, <2>2, <2>4, <3>1
    <3>2. CASE r # global_current_report[h]
      BY <2>2, <2>3, <2>4, <3>2 DEF LiveInv, ActiveOwned
    <3> QED
      BY <3>1, <3>2
  <2> QED
    BY <2>1, <2>5
<1>10. CASE WriteReport(h)
  <2>1. next_status[h] \in InactiveStatus
    BY <1>10 DEF WriteReport, LiveInv, EndsInactive
  <2>2. ActiveOwned'
    BY <1>0, <1>1, <1>10, <2>1, FinishActive DEF WriteReport
  <2>3. EndsInactive'
    BY <1>0, <1>10 DEF WriteReport, Finish, LetGo, Goto, RestPC, LiveInv, EndsInactive, TypeOK
  <2> QED
    BY <2>2, <2>3
<1>11. CASE ResultRefused(h)
  \* Its report is gone, so it is not active.
  <2>1. scan_run_status[global_current_report[h]] \notin ActiveStatus
    BY <1>1, <1>11 DEF ResultRefused, LiveInv, RowsOnly
  <2>2. \A q \in Proc \ {h} : /\ Owner(q) => Owner(q)'
                              /\ global_current_report'[q] = global_current_report[q]
    BY <1>0, <1>11 DEF ResultRefused, Finish, LetGo, Goto, Owner, TypeOK
  <2>3. EndsInactive'
    BY <1>0, <1>11
       DEF ResultRefused, Finish, LetGo, Goto, RestPC, LiveInv, EndsInactive, TypeOK
  <2> QED
    BY <1>11, <2>1, <2>2, <2>3, ActiveKept DEF ResultRefused, Tables
<1> QED
  BY <1>4, <1>5, <1>6, <1>7, <1>8, <1>9, <1>10, <1>11 DEF HandlerStep

\* A report becomes active only when it is a row, and is New when it is deleted.
LEMMA RowsOnlyNext ==
    ASSUME IInv, RowsOnly, [Next]_vars
    PROVE  RowsOnly'
<1>0. TypeOK
  BY DEF IInv
<1>1. ASSUME UNCHANGED report_task,
             \A r \in Report \ Rows : \/ scan_run_status'[r] = scan_run_status[r]
                                      \/ scan_run_status'[r] \in InactiveStatus
      PROVE  RowsOnly'
  BY <1>1, StatusTypes DEF RowsOnly, Rows
<1>2. ASSUME UNCHANGED report_task, NEW r, NEW status, SetReport(r, status)
      PROVE  RowsOnly'
  BY <1>0, <1>1, <1>2 DEF SetReport, Rows, TypeOK
<1>3. CASE UNCHANGED << report_task, scan_run_status >>
  BY <1>1, <1>3
<1>4. ASSUME NEW s \in Session, CreateCurrentReport(s)
      PROVE  RowsOnly'
  <2>1. CASE global_current_report[s] # NoReport
    BY <1>3, <1>4, <2>1 DEF CreateCurrentReport, Tables
  <2>2. CASE global_current_report[s] = NoReport
    <3>1. task[s] \in Task
      BY <1>0, <1>4, TypeParts, WorksOn DEF CreateCurrentReport
    <3>2. \A r \in Report : \/ r = NewReport /\ report_task'[r] = task[s]
                            \/ /\ r # NewReport
                               /\ report_task'[r] = report_task[r]
                               /\ scan_run_status'[r] = scan_run_status[r]
      BY <1>0, <1>4, <2>2 DEF CreateCurrentReport, TypeOK
    <3> QED
      BY <3>1, <3>2 DEF RowsOnly, Rows
  <2> QED
    BY <2>1, <2>2
<1>5. ASSUME NEW s \in Session, NEW r \in Report, DeleteReport(s, r)
      PROVE  RowsOnly'
  BY <1>0, <1>5, StatusTypes DEF DeleteReport, RowsOnly, Rows, TypeOK
<1>6. ASSUME NEW s \in Session, UndoReport(s) \/ StopReport(s)
      PROVE  RowsOnly'
  BY <1>2, <1>6 DEF UndoReport, StopReport, Tables
<1>7. ASSUME NEW h \in Handler, ReportRunning(h) \/ WriteReport(h)
      PROVE  RowsOnly'
  BY <1>2, <1>7 DEF ReportRunning, WriteReport, StepDb
<1>8. CASE Restart
  BY <1>0, <1>1, <1>8, StatusTypes DEF Restart, Rows, TypeOK
<1>9. ASSUME NEW s \in Session, Request(s) PROVE RowsOnly'
  BY <1>3, <1>5, <1>9
     DEF Request, StartTask, ResumeTask, StopOspTask, StopCveTask, DeleteTask, Begin,
         Disconnect, Tables
<1>10. ASSUME NEW s \in Session, SessionStep(s) PROVE RowsOnly'
  BY <1>3, <1>4, <1>6, <1>10
     DEF SessionStep, MarkRequested, Fork, StopRequest, StopEnd, StopTaskWrite,
         DeleteTaskMark, DeleteTaskTrash, StepDb, Tables
<1>11. ASSUME NEW h \in Handler,
              \/ HandlerStep(h) \/ PollAgain(h) \/ PollEnds(h) \/ ResultRefused(h)
       PROVE  RowsOnly'
  BY <1>3, <1>7, <1>11
     DEF HandlerStep, Launch, CheckStatus, CveLaunch, CveCalculate, WriteTask, PollAgain,
         PollEnds, ResultRefused, End, StepDb, Tables
<1>12. CASE Failure
  BY <1>3, <1>8, <1>12
     DEF Failure, ForkFails, LaunchFails, Kill, Crash, End, StepDb, Tables
<1>13. CASE UNCHANGED vars
  BY <1>3, <1>13 DEF vars
<1> QED
  BY <1>9, <1>10, <1>11, <1>12, <1>13 DEF Next

LEMMA LiveNext ==
    ASSUME "kill" \notin Faults
    PROVE  LiveInv /\ [Next]_vars => LiveInv'
<1> SUFFICES ASSUME LiveInv, [Next]_vars PROVE LiveInv'
  OBVIOUS
<1>1. IInv' /\ RowsOnly'
  BY NextInv, RowsOnlyNext DEF LiveInv
<1>2. CASE UNCHANGED vars
  BY <1>1, <1>2 DEF LiveInv, EndsInactive, ActiveOwned, Owner, vars
<1>3. CASE Crash
  <2>1. ActiveOwned'
    BY <1>3 DEF Crash, ActiveOwned
  <2>2. EndsInactive'
    BY <1>3 DEF Crash, EndsInactive, Proc, RestPC
  <2> QED
    BY <1>1, <2>1, <2>2 DEF LiveInv
<1>4. CASE Restart
  <2>1. \A r \in Report : scan_run_status'[r] \notin ActiveStatus
    BY <1>4, StatusTypes DEF Restart
  <2>2. EndsInactive'
    BY <1>4 DEF Restart, LiveInv, EndsInactive
  <2> QED
    BY <1>1, <2>1, <2>2 DEF LiveInv, ActiveOwned
<1>5. ASSUME NEW s \in Session, Request(s) \/ SessionStep(s) \/ ForkFails(s)
      PROVE  LiveInv'
  BY <1>1, <1>5, SessionActive DEF LiveInv
<1>6. ASSUME NEW h \in Handler,
             \/ HandlerStep(h) \/ PollAgain(h) \/ PollEnds(h) \/ ResultRefused(h)
             \/ LaunchFails(h)
      PROVE  LiveInv'
  BY <1>1, <1>6, HandlerActive DEF LiveInv
<1>7. ~ \E p \in Proc : Kill(p)
  BY DEF Kill
<1> QED
  BY <1>2, <1>3, <1>4, <1>5, <1>6, <1>7 DEF Next, Failure

LEMMA InitLive == Init => LiveInv
<1> SUFFICES ASSUME Init PROVE LiveInv
  OBVIOUS
<1>1. IInv
  BY InitInv
<1>2. EndsInactive
  BY DEF Init, EndsInactive, Proc, RestPC
<1>3. ActiveOwned
  BY DEF Init, ActiveOwned, ActiveStatus
<1>4. RowsOnly
  BY DEF Init, RowsOnly, ActiveStatus
<1> QED
  BY <1>1, <1>2, <1>3, <1>4 DEF LiveInv

\* As long as no process is killed, however the fork, the scanner or the whole
\* daemon fail, whichever reports are deleted and whether or not their ids are
\* given out again: while the daemon is up, a report that says its scan is active
\* has a process that sees to it.
THEOREM ReportsNotOrphaned ==
    ASSUME "kill" \notin Faults
    PROVE  Spec => []NoOrphanReport
<1>1. LiveInv => NoOrphanReport
  <2>1. \A p \in Proc : Owner(p) => ~ AtRest(p)
    BY DEF Owner, OwnerPC, HandlerPC, AtRest, RestPC
  <2> QED
    BY <2>1 DEF LiveInv, ActiveOwned, NoOrphanReport, Rows
<1>2. LiveInv /\ [Next]_vars => LiveInv'
  BY LiveNext
<1> QED
  BY InitLive, <1>1, <1>2, PTL DEF Spec

-----------------------------------------------------------------------------
(***************************************************************************)
(* Active tasks are attended to, unless processes are killed or reports    *)
(* deleted.                                                                *)
(*                                                                         *)
(* ActiveAttended does not follow from itself: a process that works on the *)
(* task is not enough, it must be at a point from which it still writes a  *)
(* status (a session at "mark" or a handler at "wrep" is not).  And a      *)
(* handler may only be relied upon while its results are accepted, which   *)
(* is why the report of an owner must be a row.                            *)
(***************************************************************************)

\* The points from which a process goes on to write a final status of its task.
AttendPC == {"fork", "stopend", "launch", "running", "loop", "poll", "calc", "wtask"}
Attends(p, t) == pc[p] \in AttendPC /\ task[p] = t

\* The statuses that ActiveAttended is about.
Says(t, status) ==
    \/ status \in {TASK_STATUS_REQUESTED, TASK_STATUS_RUNNING}
    \/ status = TASK_STATUS_STOP_REQUESTED /\ t \notin CveTask

Attended ==
    up => \A t \in Task \ hidden :
             Says(t, run_status[t]) => \E p \in Proc : Attends(p, t)

\* The report of an owner is a row.
HeldRows == \A p \in Proc : Owner(p) => global_current_report[p] \in Rows

\* stop_task_internal is reached with tasks of the CVE scanner only.
CveStop == \A s \in Session : pc[s] = "stop" => task[s] \in CveTask

AttendInv == LiveInv /\ HeldRows /\ CveStop /\ Attended

\* No owner gets another report and nobody comes to "stop".
LEMMA HeldKept ==
    ASSUME HeldRows, CveStop, UNCHANGED report_task,
           \A p \in Proc : Owner(p)' => /\ Owner(p)
                                        /\ global_current_report'[p] = global_current_report[p],
           \A s \in Session : pc'[s] = "stop" => pc[s] = "stop" /\ task'[s] = task[s]
    PROVE  HeldRows' /\ CveStop'
BY DEF HeldRows, CveStop, Rows

LEMMA HeldGoto ==
    ASSUME TypeOK, HeldRows, CveStop, NEW p \in Proc, NEW l, Goto(p, l),
           l \in OwnerPC => Owner(p), l # "stop",
           UNCHANGED << report_task, global_current_report >>,
           \A q \in Proc \ {p} : task'[q] = task[q]
    PROVE  HeldRows' /\ CveStop'
<1>1. \A q \in Proc : pc'[q] = IF q = p THEN l ELSE pc[q]
  BY DEF Goto, TypeOK
<1> QED
  BY <1>1, HeldKept DEF Owner, Proc

LEMMA HeldLetGo ==
    ASSUME TypeOK, HeldRows, CveStop, NEW p \in Proc, LetGo(p), UNCHANGED report_task,
           \A q \in Proc \ {p} : global_current_report'[q] = global_current_report[q]
    PROVE  HeldRows' /\ CveStop'
<1>1. RestPC(p) \notin OwnerPC /\ RestPC(p) # "stop"
  BY DEF OwnerPC, HandlerPC, RestPC
<1>2. \A q \in Proc : pc'[q] = IF q = p THEN RestPC(p) ELSE pc[q]
  BY DEF LetGo, Goto, TypeOK
<1>3. \A q \in Proc \ {p} : task'[q] = task[q]
  BY DEF LetGo, TypeOK
<1> QED
  BY <1>1, <1>2, <1>3, HeldKept DEF Owner, Proc

LEMMA HeldNext ==
    ASSUME "delete_report" \notin Ops, "kill" \notin Faults, IInv, HeldRows, CveStop,
           [Next]_vars
    PROVE  HeldRows' /\ CveStop'
<1>0. TypeOK /\ (\A s \in Session : s \in Proc) /\ (\A h \in Handler : h \in Proc)
  BY DEF IInv, Proc
<1>1. ASSUME NEW p \in Proc, Finish(p), UNCHANGED report_task
      PROVE  HeldRows' /\ CveStop'
  BY <1>0, <1>1, HeldLetGo DEF Finish, TypeOK
<1>2. ASSUME NEW s \in Session, Return(s), UNCHANGED report_task
      PROVE  HeldRows' /\ CveStop'
  BY <1>0, <1>2, HeldLetGo DEF Return
<1>3. ASSUME NEW s \in Session, NEW t \in Task, NEW l, Begin(s, t, l), l \notin OwnerPC,
             l = "stop" => t \in CveTask
      PROVE  HeldRows' /\ CveStop'
  <2>1. \A q \in Proc : pc'[q] = IF q = s THEN l ELSE pc[q]
    BY <1>0, <1>3 DEF Begin, Goto, TypeOK
  <2>2. \A q \in Proc : task'[q] = IF q = s THEN t ELSE task[q]
    BY <1>0, <1>3 DEF Begin, TypeOK
  <2>3. HeldRows'
    BY <1>3, <2>1 DEF Begin, HeldRows, Owner, Rows
  <2>4. CveStop'
    BY <1>0, <1>3, <2>1, <2>2 DEF CveStop
  <2> QED
    BY <2>3, <2>4
<1>4. ASSUME NEW s \in Session, Request(s)
      PROVE  HeldRows' /\ CveStop'
  <2>1. ASSUME NEW t \in Task,
               \/ StartTask(s, t) \/ ResumeTask(s, t) \/ StopOspTask(s, t)
               \/ StopCveTask(s, t) \/ DeleteTask(s, t)
        PROVE  HeldRows' /\ CveStop'
    <3>1. {"create", "stopreq", "stopend", "stop", "delmark", "deltrash"} \cap OwnerPC = {}
      BY DEF OwnerPC, HandlerPC
    <3> QED
      BY <1>3, <2>1, <3>1 DEF StartTask, ResumeTask, StopOspTask, StopCveTask, DeleteTask
  <2>2. CASE Disconnect(s)
    <3>1. ~ Owner(s)
      BY <2>2 DEF Disconnect, Owner, OwnerPC, HandlerPC
    <3>2. \A q \in Proc : /\ Owner(q)' <=> Owner(q)
                          /\ q # s => global_current_report'[q] = global_current_report[q]
      BY <1>0, <2>2 DEF Disconnect, Owner, TypeOK
    <3> QED
      BY <2>2, <3>1, <3>2, HeldKept DEF Disconnect, Tables
  <2> QED
    BY <1>4, <2>1, <2>2 DEF Request, DeleteReport
<1>5. ASSUME NEW s \in Session, CreateCurrentReport(s)
      PROVE  HeldRows' /\ CveStop'
  <2>1. CASE global_current_report[s] # NoReport
    BY <1>0, <1>1, <1>2, <1>5, <2>1 DEF CreateCurrentReport, Tables
  <2>2. CASE global_current_report[s] = NoReport
    <3>1. task[s] \in Task
      BY <1>0, <1>5, TypeParts, WorksOn DEF CreateCurrentReport
    <3>2. \A r \in Report : report_task'[r] = IF r = NewReport THEN task[s] ELSE report_task[r]
      BY <1>0, <1>5, <2>2 DEF CreateCurrentReport, TypeOK
    <3>3. NewReport \in Report /\ NewReport \in Rows' /\ Rows \subseteq Rows'
      BY <1>5, <2>2, <3>1, <3>2 DEF CreateCurrentReport, Rows
    <3>4. \A q \in Proc : pc'[q] = IF q = s THEN "mark" ELSE pc[q]
      BY <1>0, <1>5, <2>2 DEF CreateCurrentReport, Goto, TypeOK
    <3>5. \A q \in Proc : global_current_report'[q] = IF q = s THEN NewReport
                                                       ELSE global_current_report[q]
      BY <1>0, <1>5, <2>2 DEF CreateCurrentReport, TypeOK
    <3>6. HeldRows'
      BY <3>3, <3>4, <3>5 DEF HeldRows, Owner
    <3>7. CveStop'
      BY <1>0, <1>5, <2>2, <3>4 DEF CveStop, CreateCurrentReport
    <3> QED
      BY <3>6, <3>7
  <2> QED
    BY <2>1, <2>2
<1>6. ASSUME NEW s \in Session, NEW h \in Handler, Fork(s, h)
      PROVE  HeldRows' /\ CveStop'
  <2>0. s \in Proc /\ h \in Proc /\ s # h /\ Owner(s) /\ "idle" \notin OwnerPC
    BY <1>6 DEF Proc, Fork, Owner, OwnerPC, HandlerPC
  <2>1. \A p \in Proc : pc'[p] = IF p = h THEN "launch" ELSE IF p = s THEN "idle" ELSE pc[p]
    BY <1>0, <1>6, <2>0 DEF TypeOK, Fork
  <2>2. \A p \in Proc : global_current_report'[p] = IF p = h THEN global_current_report[s]
                                                     ELSE global_current_report[p]
    BY <1>0, <1>6, <2>0 DEF TypeOK, Fork
  <2>3. \A p \in Proc : p # s /\ p # h => task'[p] = task[p]
    BY <1>0, <1>6, <2>0 DEF TypeOK, Fork
  <2>4. report_task' = report_task
    BY <1>6 DEF Fork, Tables
  <2>5. HeldRows'
    BY <2>0, <2>1, <2>2, <2>4 DEF HeldRows, Owner, Rows
  <2>6. CveStop'
    BY <1>0, <2>0, <2>1, <2>3 DEF CveStop
  <2> QED
    BY <2>5, <2>6
<1>7. ASSUME NEW s \in Session, MarkRequested(s) \/ ForkFails(s) \/ StopRequest(s) \/ StopEnd(s)
      PROVE  HeldRows' /\ CveStop'
  <2>1. "stopend" \notin OwnerPC /\ "stoprep" \notin OwnerPC
    BY DEF OwnerPC, HandlerPC
  <2>2. MarkRequested(s) \/ ForkFails(s) => Owner(s)
    BY DEF MarkRequested, ForkFails, Owner, OwnerPC
  <2> QED
    BY <1>0, <1>7, <2>1, <2>2, HeldGoto
       DEF MarkRequested, ForkFails, StopRequest, StopEnd, StepDb
<1>8. ASSUME NEW s \in Session,
             \/ UndoReport(s) \/ StopReport(s) \/ StopTaskWrite(s) \/ DeleteTaskMark(s)
             \/ DeleteTaskTrash(s)
      PROVE  HeldRows' /\ CveStop'
  BY <1>0, <1>1, <1>2, <1>8
     DEF UndoReport, StopReport, StopTaskWrite, DeleteTaskMark, DeleteTaskTrash, Tables
<1>9. ASSUME NEW h \in Handler,
             \/ HandlerStep(h) \/ PollAgain(h) \/ PollEnds(h) \/ ResultRefused(h)
             \/ LaunchFails(h)
      PROVE  HeldRows' /\ CveStop'
  <2>1. CASE WriteReport(h) \/ ResultRefused(h)
    BY <1>0, <1>1, <2>1 DEF WriteReport, ResultRefused, Tables
  <2>2. ASSUME NEW l, Goto(h, l), l # "stop", pc[h] # "free",
               UNCHANGED << report_task, global_current_report, task >>
        PROVE  HeldRows' /\ CveStop'
    <3>1. Owner(h)
      BY <1>0, <2>2 DEF TypeOK, Owner, OwnerPC
    <3> QED
      BY <1>0, <2>2, <3>1, HeldGoto
  <2> QED
    BY <1>9, <2>1, <2>2
       DEF HandlerStep, Launch, ReportRunning, CheckStatus, CveLaunch, CveCalculate,
           WriteTask, PollAgain, PollEnds, LaunchFails, End, StepDb, Tables
<1>10. CASE Crash
  <2>1. \A p \in Proc : pc'[p] = RestPC(p)
    BY <1>10 DEF Crash
  <2>2. \A p \in Proc : RestPC(p) \notin OwnerPC /\ RestPC(p) # "stop"
    BY DEF OwnerPC, HandlerPC, RestPC
  <2> QED
    BY <1>0, <2>1, <2>2 DEF HeldRows, CveStop, Owner
<1>11. CASE Restart \/ UNCHANGED vars
  BY <1>11, HeldKept DEF Restart, vars, Owner
<1>12. ~ \E p \in Proc : Kill(p)
  BY DEF Kill
<1> QED
  BY <1>4, <1>5, <1>6, <1>7, <1>8, <1>9, <1>10, <1>11, <1>12
     DEF Next, SessionStep, Failure

\* One process makes a step; a task that says it is active is one that the process
\* attends to after it, or one that said so before and has another process.
LEMMA AttendedStep ==
    ASSUME Attended, NEW p \in Proc, up' = up, hidden \subseteq hidden',
           \A q \in Proc \ {p} : pc'[q] = pc[q] /\ task'[q] = task[q],
           \A t \in Task : Says(t, run_status'[t])
                           => \/ Attends(p, t)'
                              \/ Says(t, run_status[t]) /\ ~ Attends(p, t)
    PROVE  Attended'
<1> SUFFICES ASSUME up, NEW t \in Task \ hidden', Says(t, run_status'[t])
             PROVE  \E q \in Proc : Attends(q, t)'
  BY DEF Attended
<1>1. CASE Attends(p, t)'
  BY <1>1
<1>2. CASE Says(t, run_status[t]) /\ ~ Attends(p, t)
  <2>1. PICK q \in Proc : Attends(q, t)
    BY <1>2 DEF Attended
  <2>2. q # p
    BY <1>2, <2>1
  <2> QED
    BY <2>1, <2>2 DEF Attends
<1> QED
  BY <1>1, <1>2

\* The status of the task is left alone, and who attends to it goes on to do so.
LEMMA AttendedQuiet ==
    ASSUME Attended, NEW p \in Proc, up' = up, hidden \subseteq hidden',
           \A q \in Proc \ {p} : pc'[q] = pc[q] /\ task'[q] = task[q],
           UNCHANGED run_status,
           pc[p] \in AttendPC => pc'[p] \in AttendPC /\ task'[p] = task[p]
    PROVE  Attended'
BY AttendedStep DEF Attends

\* The status becomes active and the process attends to the task, or inactive.
LEMMA AttendedWrite ==
    ASSUME Attended, TypeOK, NEW p \in Proc, up' = up, hidden \subseteq hidden',
           \A q \in Proc \ {p} : pc'[q] = pc[q] /\ task'[q] = task[q],
           NEW status, SetTask(task[p], status), task[p] \in Task,
           Says(task[p], status) => pc'[p] \in AttendPC /\ task'[p] = task[p]
    PROVE  Attended'
<1>1. \A t \in Task : run_status'[t] = IF t = task[p] THEN status ELSE run_status[t]
  BY DEF SetTask, TypeOK
<1> QED
  BY <1>1, AttendedStep DEF Attends

LEMMA AttendedNext ==
    ASSUME "delete_report" \notin Ops, "kill" \notin Faults, AttendInv, [Next]_vars
    PROVE  Attended'
<1>0. /\ TypeOK /\ Attended /\ HeldRows /\ CveStop /\ EndsInactive
      /\ (\A s \in Session : s \in Proc) /\ (\A h \in Handler : h \in Proc)
  BY DEF AttendInv, LiveInv, IInv, Proc
<1>1. ASSUME NEW p \in Proc, LetGo(p)
      PROVE  \A q \in Proc \ {p} : pc'[q] = pc[q] /\ task'[q] = task[q]
  BY <1>0, <1>1 DEF LetGo, Goto, TypeOK
<1>2. ASSUME NEW p \in Proc, NEW l, Goto(p, l)
      PROVE  pc'[p] = l /\ \A q \in Proc \ {p} : pc'[q] = pc[q]
  BY <1>0, <1>2 DEF Goto, TypeOK
<1>3. \A t, status : Says(t, status) => status \notin InactiveStatus
  BY DEF Says, InactiveStatus, ResumableStatus
<1>4. ASSUME NEW s \in Session, Request(s)
      PROVE  Attended'
  <2>1. ASSUME NEW t \in Task, NEW l, Begin(s, t, l)
        PROVE  Attended'
    <3>1. \A q \in Proc \ {s} : pc'[q] = pc[q] /\ task'[q] = task[q]
      BY <1>0, <1>2, <2>1 DEF Begin, TypeOK
    <3> QED
      BY <1>0, <2>1, <3>1, AttendedQuiet DEF Begin, AttendPC
  <2>2. CASE Disconnect(s)
    BY <1>0, <2>2, AttendedQuiet DEF Disconnect, Tables
  <2> QED
    BY <1>4, <2>1, <2>2
       DEF Request, StartTask, ResumeTask, StopOspTask, StopCveTask, DeleteTask, DeleteReport
<1>5. ASSUME NEW s \in Session, CreateCurrentReport(s) \/ UndoReport(s) \/ StopReport(s)
      PROVE  Attended'
  <2>1. \A q \in Proc \ {s} : pc'[q] = pc[q] /\ task'[q] = task[q]
    BY <1>0, <1>1, <1>2, <1>5
       DEF CreateCurrentReport, UndoReport, StopReport, Finish, Return
  <2>2. pc[s] \notin AttendPC
    BY <1>5 DEF CreateCurrentReport, UndoReport, StopReport, AttendPC
  <2>3. UNCHANGED << up, hidden, run_status >>
    BY <1>5 DEF CreateCurrentReport, UndoReport, StopReport, Tables
  <2> QED
    BY <1>0, <2>1, <2>2, <2>3, AttendedQuiet
<1>6. ASSUME NEW s \in Session, MarkRequested(s) \/ ForkFails(s) \/ StopRequest(s) \/ StopEnd(s)
      PROVE  Attended'
  <2>1. task[s] \in Task /\ UNCHANGED << up, hidden, task >>
    BY <1>0, <1>6, TypeParts, WorksOn
       DEF MarkRequested, ForkFails, StopRequest, StopEnd, StepDb
  <2>2. \A q \in Proc \ {s} : pc'[q] = pc[q] /\ task'[q] = task[q]
    BY <1>0, <1>2, <1>6, <2>1 DEF MarkRequested, ForkFails, StopRequest, StopEnd
  <2>3. CASE MarkRequested(s) \/ StopRequest(s)
    <3>1. pc'[s] \in AttendPC
      BY <1>0, <1>2, <2>3 DEF MarkRequested, StopRequest, AttendPC
    <3> QED
      BY <1>0, <2>1, <2>2, <2>3, <3>1, AttendedWrite DEF MarkRequested, StopRequest
  <2>4. CASE ForkFails(s) \/ StopEnd(s)
    <3>1. ~ Says(task[s], TASK_STATUS_INTERRUPTED) /\ ~ Says(task[s], TASK_STATUS_STOPPED)
      BY <1>3, StatusTypes
    <3> QED
      BY <1>0, <2>1, <2>2, <2>4, <3>1, AttendedWrite DEF ForkFails, StopEnd
  <2> QED
    BY <1>6, <2>3, <2>4
<1>7. ASSUME NEW s \in Session, NEW h \in Handler, Fork(s, h)
      PROVE  Attended'
  <2>0. s \in Proc /\ h \in Proc /\ s # h
    BY DEF Proc
  <2>1. /\ \A p \in Proc : p \notin {s, h} => pc'[p] = pc[p] /\ task'[p] = task[p]
        /\ pc'[h] = "launch" /\ task'[h] = task[s]
    BY <1>0, <1>7, <2>0 DEF TypeOK, Fork
  <2>2. pc[h] = "free" /\ UNCHANGED << up, hidden, run_status >>
    BY <1>7 DEF Fork, Tables
  <2>3. \A p \in Proc, t \in Task : Attends(p, t) => \E q \in Proc : Attends(q, t)'
    BY <2>0, <2>1, <2>2 DEF Attends, AttendPC
  <2> QED
    BY <1>0, <2>2, <2>3 DEF Attended
<1>8. ASSUME NEW s \in Session, StopTaskWrite(s) \/ DeleteTaskMark(s)
      PROVE  Attended'
  <2>1. task[s] \in Task /\ UNCHANGED << up, hidden >>
    BY <1>0, <1>8, TypeParts, WorksOn DEF StopTaskWrite, DeleteTaskMark, Tables
  <2>2. \A q \in Proc \ {s} : pc'[q] = pc[q] /\ task'[q] = task[q]
    BY <1>0, <1>1, <1>8 DEF StopTaskWrite, DeleteTaskMark, Return
  <2>3. CASE StopTaskWrite(s)
    <3>1. ~ Says(task[s], TASK_STATUS_STOP_REQUESTED)
      BY <1>0, <2>3 DEF StopTaskWrite, CveStop, Says
    <3> QED
      BY <1>0, <2>1, <2>2, <2>3, <3>1, AttendedWrite DEF StopTaskWrite
  <2>4. CASE DeleteTaskMark(s)
    <3>1. ~ Says(task[s], TASK_STATUS_DELETE_REQUESTED)
      BY DEF Says
    <3> QED
      BY <1>0, <2>1, <2>2, <2>4, <3>1, AttendedWrite DEF DeleteTaskMark
  <2> QED
    BY <1>8, <2>3, <2>4
<1>9. ASSUME NEW s \in Session, DeleteTaskTrash(s)
      PROVE  Attended'
  <2>1. \A q \in Proc \ {s} : pc'[q] = pc[q] /\ task'[q] = task[q]
    BY <1>0, <1>1, <1>9 DEF DeleteTaskTrash, Return
  <2> QED
    BY <1>0, <1>9, <2>1, AttendedQuiet DEF DeleteTaskTrash, AttendPC
<1>10. ASSUME NEW h \in Handler, Launch(h) \/ CveLaunch(h) \/ WriteTask(h)
       PROVE  Attended'
  <2>1. task[h] \in Task /\ UNCHANGED << up, hidden, task >>
    BY <1>0, <1>10, TypeParts, WorksOn DEF Launch, CveLaunch, WriteTask, StepDb
  <2>2. \A q \in Proc \ {h} : pc'[q] = pc[q] /\ task'[q] = task[q]
    BY <1>0, <1>2, <1>10, <2>1 DEF Launch, CveLaunch, WriteTask
  <2>3. CASE Launch(h) \/ CveLaunch(h)
    <3>1. pc'[h] \in AttendPC
      BY <1>0, <1>2, <2>3 DEF Launch, CveLaunch, AttendPC
    <3> QED
      BY <1>0, <2>1, <2>2, <2>3, <3>1, AttendedWrite DEF Launch, CveLaunch
  <2>4. CASE WriteTask(h)
    <3>1. ~ Says(task[h], next_status[h])
      BY <1>0, <1>3, <2>4 DEF WriteTask, EndsInactive
    <3> QED
      BY <1>0, <2>1, <2>2, <2>4, <3>1, AttendedWrite DEF WriteTask
  <2> QED
    BY <1>10, <2>3, <2>4
<1>11. ASSUME NEW h \in Handler,
              \/ ReportRunning(h) \/ CheckStatus(h) \/ CveCalculate(h) \/ PollAgain(h)
              \/ PollEnds(h) \/ LaunchFails(h)
       PROVE  Attended'
  <2>1. \E l \in AttendPC : Goto(h, l)
    BY <1>11
       DEF ReportRunning, CheckStatus, CveCalculate, PollAgain, PollEnds, LaunchFails, End,
           AttendPC
  <2>2. pc'[h] \in AttendPC /\ \A q \in Proc \ {h} : pc'[q] = pc[q]
    BY <1>0, <1>2, <2>1
  <2>3. UNCHANGED << up, hidden, task, run_status >>
    BY <1>11
       DEF ReportRunning, CheckStatus, CveCalculate, PollAgain, PollEnds, LaunchFails, End,
           StepDb, Tables
  <2> QED
    BY <1>0, <2>2, <2>3, AttendedQuiet
<1>12. ASSUME NEW h \in Handler, WriteReport(h)
       PROVE  Attended'
  <2>1. \A q \in Proc \ {h} : pc'[q] = pc[q] /\ task'[q] = task[q]
    BY <1>0, <1>1, <1>12 DEF WriteReport, Finish
  <2> QED
    BY <1>0, <1>12, <2>1, AttendedQuiet DEF WriteReport, AttendPC
<1>13. \A h \in Handler : ~ ResultRefused(h)
  BY <1>0 DEF ResultRefused, HeldRows, Owner, OwnerPC, HandlerPC
<1>14. CASE Crash
  BY <1>14 DEF Crash, Attended
<1>15. CASE Restart
  <2>1. \A t \in Task \ hidden : run_status'[t] \notin ActiveStatus
    BY <1>15, StatusTypes DEF Restart
  <2>2. \A t, status : Says(t, status) => status \in ActiveStatus
    BY StatusTypes DEF Says
  <2> QED
    BY <1>15, <2>1, <2>2 DEF Restart, Attended
<1>16. CASE UNCHANGED vars
  BY <1>0, <1>16 DEF vars, Attended, Attends
<1>17. ~ \E p \in Proc : Kill(p)
  BY DEF Kill
<1> QED
  BY <1>4, <1>5, <1>6, <1>7, <1>8, <1>9, <1>10, <1>11, <1>12, <1>13, <1>14, <1>15,
     <1>16, <1>17
     DEF Next, SessionStep, HandlerStep, Failure

\* As long as no process is killed and no report is deleted, however the fork, the
\* scanner or the whole daemon fail and whatever else clients do: a task that says
\* it is active has a process that goes on to write its status.
THEOREM TasksAttended ==
    ASSUME "delete_report" \notin Ops, "kill" \notin Faults
    PROVE  Spec => []ActiveAttended
<1>1. Init => AttendInv
  <2> SUFFICES ASSUME Init PROVE AttendInv
    OBVIOUS
  <2>1. LiveInv
    BY InitLive
  <2>2. HeldRows /\ CveStop
    BY DEF Init, HeldRows, CveStop, Owner, OwnerPC, HandlerPC, RestPC, Proc
  <2>3. Attended
    BY DEF Init, Attended, Says
  <2> QED
    BY <2>1, <2>2, <2>3 DEF AttendInv
<1>2. AttendInv => ActiveAttended
  <2>1. \A p \in Proc, t \in Task : Attends(p, t) => ~ AtRest(p) /\ task[p] = t
    BY DEF Attends, AttendPC, AtRest, RestPC
  <2> QED
    BY <2>1 DEF AttendInv, Attended, ActiveAttended, Says
<1>3. AttendInv /\ [Next]_vars => AttendInv'
  <2> SUFFICES ASSUME AttendInv, [Next]_vars PROVE AttendInv'
    OBVIOUS
  <2> QED
    BY LiveNext, HeldNext, AttendedNext DEF AttendInv, LiveInv
<1> QED
  BY <1>1, <1>2, <1>3, PTL DEF Spec
=============================================================================
